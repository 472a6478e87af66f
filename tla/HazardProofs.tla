----------------------------- MODULE HazardProofs -----------------------------
(***************************************************************************)
(* Theorems about the hazard scene, for every clock, every number of runs,  *)
(* faults and collisions; and about the result that is told of an exit      *)
(* opportunity, for every number of runs, inputs and lost rows.             *)
(***************************************************************************)
EXTENDS HazardScene, ExitResult, FiniteSetTheorems, SequenceTheorems,
        WellFoundedInduction, TLAPS

\* The steps of after_control that a failed scene never reaches.
Scene == {"collect", "advance", "reveal", "geometry", "raise"}

\* The claim comes before the obstacle, and is spent by it.
ClaimInv ==
  /\ run \in Nat \ {0}
  /\ reveals \in {0, 1}
  /\ reveals = 1 => claim # Nothing
  /\ pc = "reveal" => claim = run /\ reveals = 0

\* A failed scene is FAILED and out of its own steps.
FailedInv ==
  /\ failed \in BOOLEAN /\ warned \in BOOLEAN
  /\ failed => state = "FAILED"
  /\ pc \in Scene => ~failed

\* A scene that met its obstacle is over for its own steps.
StopInv ==
  /\ stop # "none" => state \in {"COLLISION", "FAILED"}
  /\ pc \in {"advance", "reveal", "geometry"} => stop = "none"

\* What was checked when the occurrence was claimed still holds at the reveal.
RevealInv ==
  pc = "reveal" => exit = "resolved" /\ Planned <= t /\ t <= WindowEnd

SceneInv == ClaimInv /\ FailedInv /\ StopInv /\ RevealInv

\* A new process starts in the invariant.
LEMMA InvInit == Init => SceneInv
<1> SUFFICES ASSUME Init PROVE SceneInv  OBVIOUS
<1> USE DEF Init
<1>1. ClaimInv  BY DEF ClaimInv, Nothing
<1>2. FailedInv  BY DEF FailedInv, Scene
<1>3. StopInv  BY DEF StopInv
<1>4. RevealInv  BY DEF RevealInv
<1> QED  BY <1>1, <1>2, <1>3, <1>4 DEF SceneInv

\* Cleaning up never places an obstacle.
LEMMA CleanUpFacts ==
  ASSUME NEW n, CleanUp(n)
  PROVE  cargo' = cargo \/ cargo' = "gone"
  BY DEF CleanUp, actorVars

\* A failure fails the scene, for good, and places nothing.
LEMMA InvalidateFacts ==
  ASSUME FailedInv, NEW n, Invalidate(n)
  PROVE  /\ failed' /\ failed' \in BOOLEAN /\ state' = "FAILED"
         /\ cargo' = cargo \/ cargo' = "gone"
         /\ record'.status \in {record.status, "FAILED"}
<1>1. CASE failed  BY <1>1 DEF Invalidate, FailedInv, actorVars
<1>2. CASE ~failed
  <2>1. failed' = TRUE /\ state' = "FAILED"  BY <1>2 DEF Invalidate
  <2>2. CleanUp(n) \/ CleanUp(n + 1)  BY <1>2 DEF Invalidate
  <2>3. record' = FailedRecord(FALSE) \/ record' = record  BY <1>2 DEF Invalidate
  <2> QED  BY <2>1, <2>2, <2>3, CleanUpFacts DEF FailedRecord
<1> QED  BY <1>1, <1>2

\* Every step of the loop, of the sensor and of a restart keeps the invariant.
LEMMA InvNext == SceneInv /\ [Next]_vars => SceneInv'
<1> SUFFICES ASSUME SceneInv, [Next]_vars PROVE SceneInv'  OBVIOUS
<1> USE DEF SceneInv, ClaimInv, StopInv, RevealInv, Scene, Nothing,
        diskVars, loopVars, sceneVars
<1>0. FailedInv  OBVIOUS
<1>1. CASE Setup
  BY <1>1, <1>0, InvalidateFacts DEF Setup, FailedInv, Alive, Attempting, Waiting, Blocked
<1>2. CASE AfterControl
  BY <1>2, <1>0, InvalidateFacts DEF AfterControl, FailedInv, Alive, Attempting, Waiting, Blocked
<1>3. CASE CollectContacts
  BY <1>3, <1>0, InvalidateFacts DEF CollectContacts, FailedInv, Alive, Attempting, Waiting, Blocked
<1>4. CASE Raise
  BY <1>4, <1>0, InvalidateFacts DEF Raise, FailedInv, Alive, Attempting, Waiting, Blocked
<1>5. CASE SkipScene
  BY <1>5, <1>0, InvalidateFacts DEF SkipScene, FailedInv, Alive, Attempting, Waiting, Blocked
<1>6. CASE WindowExpires
  BY <1>6, <1>0, InvalidateFacts DEF WindowExpires, FailedInv, Alive, Attempting, Waiting, Blocked
<1>7. CASE Defer
  BY <1>7, <1>0, InvalidateFacts DEF Defer, FailedInv, Alive, Attempting, Waiting, Blocked
<1>8. CASE AttemptFails
  BY <1>8, <1>0, InvalidateFacts DEF AttemptFails, FailedInv, Alive, Attempting, Waiting, Blocked
<1>9. CASE Prepare
  BY <1>9, <1>0, InvalidateFacts DEF Prepare, FailedInv, Alive, Attempting, Waiting, Blocked
<1>10. CASE Claim
  BY <1>10, <1>0, InvalidateFacts DEF Claim, FailedInv, Alive, Attempting, Waiting, Blocked
<1>11. CASE RevealRefused
  BY <1>11, <1>0, InvalidateFacts DEF RevealRefused, FailedInv, Alive, Attempting, Waiting, Blocked
<1>12. CASE Reveal
  BY <1>12, <1>0, InvalidateFacts DEF Reveal, FailedInv, Alive, Attempting, Waiting, Blocked
<1>13. CASE Observe
  BY <1>13, <1>0, InvalidateFacts DEF Observe, FailedInv, Alive, Attempting, Waiting, Blocked
<1>14. CASE NoGeometry
  BY <1>14, <1>0, InvalidateFacts DEF NoGeometry, FailedInv, Alive, Attempting, Waiting, Blocked
<1>15. CASE PlacementFails
  BY <1>15, <1>0, InvalidateFacts DEF PlacementFails, FailedInv, Alive, Attempting, Waiting, Blocked
<1>16. CASE Expose
  BY <1>16, <1>0, InvalidateFacts DEF Expose, FailedInv, Alive, Attempting, Waiting, Blocked
<1>17. CASE Advance
  <2>1. /\ pc' = "display" /\ ~failed /\ stop' = stop /\ stop = "none"
        /\ run' = run /\ claim' = claim /\ reveals' = reveals
        /\ warned' = warned /\ warned \in BOOLEAN
    BY <1>17 DEF Advance, FailedInv
  <2>2. failed' \in BOOLEAN /\ (failed' => state' = "FAILED")
    <3>1. CASE Invalidate(1)  BY <3>1, <1>0, InvalidateFacts
    <3>2. CASE failed' = failed  BY <3>2, <2>1, <1>0 DEF FailedInv
    <3> QED  BY <3>1, <3>2, <1>17 DEF Advance, Alive
  <2> QED  BY <2>1, <2>2 DEF FailedInv
<1>18. CASE BeginWait
  BY <1>18, <1>0, InvalidateFacts DEF BeginWait, FailedInv, Alive, Attempting, Waiting, Blocked
<1>19. CASE ShowFrame
  BY <1>19, <1>0, InvalidateFacts DEF ShowFrame, FailedInv, Alive, Attempting, Waiting, Blocked
<1>20. CASE NextIteration
  BY <1>20, <1>0, InvalidateFacts DEF NextIteration, FailedInv, Alive, Attempting, Waiting, Blocked
<1>21. CASE TimeLimit
  BY <1>21, <1>0, InvalidateFacts DEF TimeLimit, FailedInv, Alive, Attempting, Waiting, Blocked
<1>22. CASE DriveError
  BY <1>22, <1>0, InvalidateFacts DEF DriveError, FailedInv, Alive, Attempting, Waiting, Blocked
<1>23. CASE CloseScene
  BY <1>23, <1>0, InvalidateFacts DEF CloseScene, FailedInv, Alive, Attempting, Waiting, Blocked
<1>24. CASE WriteRecord
  BY <1>24, <1>0, InvalidateFacts DEF WriteRecord, FailedInv, Alive, Attempting, Waiting, Blocked
<1>25. CASE Confirm
  BY <1>25, <1>0, InvalidateFacts DEF Confirm, FailedInv, Alive, Attempting, Waiting, Blocked
<1>26. CASE LoopError
  BY <1>26, <1>0, InvalidateFacts DEF LoopError, FailedInv, Alive, Attempting, Waiting, Blocked
<1>27. CASE Resume
  BY <1>27, <1>0, InvalidateFacts DEF Resume, FailedInv, Alive, Attempting, Waiting, Blocked
<1>28. CASE Interrupt
  BY <1>28, <1>0, InvalidateFacts DEF Interrupt, FailedInv, Alive, Attempting, Waiting, Blocked
<1>29. CASE UserExit
  BY <1>29, <1>0, InvalidateFacts DEF UserExit, FailedInv, Alive, Attempting, Waiting, Blocked
<1>30. CASE ExitMoves
  BY <1>30, <1>0, InvalidateFacts DEF ExitMoves, FailedInv, Alive, Attempting, Waiting, Blocked
<1>31. CASE Die
  BY <1>31, <1>0, InvalidateFacts DEF Die, FailedInv, Alive, Attempting, Waiting, Blocked
<1>32. CASE Restart
  <2>1. /\ run' = run + 1 /\ pc' = "setup" /\ failed' = FALSE /\ stop' = "none"
        /\ warned' = FALSE
        /\ claim' = claim /\ reveals' = reveals
    BY <1>32 DEF Restart
  <2>2. run' \in Nat \ {0}  BY <2>1
  <2> QED  BY <2>1, <2>2 DEF FailedInv
<1>33. ASSUME NEW k \in Kinds, Contact(k) PROVE SceneInv'  BY <1>33 DEF Contact, FailedInv
<1>34. CASE UNCHANGED vars  BY <1>34 DEF vars, FailedInv
<1> QED
  BY <1>1, <1>2, <1>3, <1>4, <1>5, <1>6, <1>7, <1>8, <1>9, <1>10, <1>11, <1>12, <1>13, <1>14, <1>15, <1>16, <1>17, <1>18, <1>19, <1>20, <1>21, <1>22, <1>23, <1>24, <1>25, <1>26, <1>27, <1>28, <1>29, <1>30, <1>31, <1>32, <1>33, <1>34 DEF Next, Loop

\* The invariant behind the theorems below, for every run and every crash.
THEOREM Invariance == Spec => []SceneInv
  BY InvInit, InvNext, PTL DEF Spec

\* No participant meets the obstacle twice (OccurrenceRegistry.claim before
\* backend.reveal), over every run, crash and fault.
THEOREM RevealedOnce == Spec => []OneReveal
<1>1. SceneInv => OneReveal  BY DEF SceneInv, ClaimInv, OneReveal
<1> QED  BY <1>1, Invariance, PTL

-----------------------------------------------------------------------------
(* The obstacle appears in its place in the protocol *)

\* Only Reveal puts the obstacle on the road.
LEMMA OnlyReveal ==
  ASSUME SceneInv, [Next]_vars, cargo # "placed", cargo' = "placed"
  PROVE  Reveal
<1>0. FailedInv  BY DEF SceneInv
<1>1. CASE Setup  BY <1>1, <1>0, InvalidateFacts, CleanUpFacts DEF Setup, Alive, actorVars
<1>2. CASE AfterControl
  BY <1>2, <1>0, InvalidateFacts, CleanUpFacts DEF AfterControl, Alive, actorVars
<1>3. CASE CollectContacts
  BY <1>3, <1>0, InvalidateFacts, CleanUpFacts DEF CollectContacts, Alive, actorVars
<1>4. CASE Raise  BY <1>4, <1>0, InvalidateFacts, CleanUpFacts DEF Raise, Alive, actorVars
<1>5. CASE SkipScene  BY <1>5, <1>0, InvalidateFacts, CleanUpFacts DEF SkipScene, Alive, actorVars
<1>6. CASE WindowExpires
  BY <1>6, <1>0, InvalidateFacts, CleanUpFacts DEF WindowExpires, Alive, actorVars
<1>7. CASE Defer  BY <1>7, <1>0, InvalidateFacts, CleanUpFacts DEF Defer, Alive, actorVars
<1>8. CASE AttemptFails
  BY <1>8, <1>0, InvalidateFacts, CleanUpFacts DEF AttemptFails, Alive, actorVars
<1>9. CASE Prepare  BY <1>9, <1>0, InvalidateFacts, CleanUpFacts DEF Prepare, Alive, actorVars
<1>10. CASE Claim  BY <1>10, <1>0, InvalidateFacts, CleanUpFacts DEF Claim, Alive, actorVars
<1>11. CASE RevealRefused
  BY <1>11, <1>0, InvalidateFacts, CleanUpFacts DEF RevealRefused, Alive, actorVars
<1>12. CASE Observe  BY <1>12, <1>0, InvalidateFacts, CleanUpFacts DEF Observe, Alive, actorVars
<1>13. CASE NoGeometry
  BY <1>13, <1>0, InvalidateFacts, CleanUpFacts DEF NoGeometry, Alive, actorVars
<1>14. CASE PlacementFails
  BY <1>14, <1>0, InvalidateFacts, CleanUpFacts DEF PlacementFails, Alive, actorVars
<1>15. CASE Expose  BY <1>15, <1>0, InvalidateFacts, CleanUpFacts DEF Expose, Alive, actorVars
<1>16. CASE Advance  BY <1>16, <1>0, InvalidateFacts, CleanUpFacts DEF Advance, Alive, actorVars
<1>17. CASE BeginWait  BY <1>17, <1>0, InvalidateFacts, CleanUpFacts DEF BeginWait, Alive, actorVars
<1>18. CASE ShowFrame  BY <1>18, <1>0, InvalidateFacts, CleanUpFacts DEF ShowFrame, Alive, actorVars
<1>19. CASE NextIteration
  BY <1>19, <1>0, InvalidateFacts, CleanUpFacts DEF NextIteration, Alive, actorVars
<1>20. CASE TimeLimit  BY <1>20, <1>0, InvalidateFacts, CleanUpFacts DEF TimeLimit, Alive, actorVars
<1>21. CASE DriveError
  BY <1>21, <1>0, InvalidateFacts, CleanUpFacts DEF DriveError, Alive, actorVars
<1>22. CASE CloseScene
  BY <1>22, <1>0, InvalidateFacts, CleanUpFacts DEF CloseScene, Alive, actorVars
<1>23. CASE WriteRecord
  BY <1>23, <1>0, InvalidateFacts, CleanUpFacts DEF WriteRecord, Alive, actorVars
<1>24. CASE Confirm  BY <1>24, <1>0, InvalidateFacts, CleanUpFacts DEF Confirm, Alive, actorVars
<1>25. CASE LoopError  BY <1>25, <1>0, InvalidateFacts, CleanUpFacts DEF LoopError, Alive, actorVars
<1>26. CASE Resume  BY <1>26, <1>0, InvalidateFacts, CleanUpFacts DEF Resume, Alive, actorVars
<1>27. CASE Interrupt  BY <1>27, <1>0, InvalidateFacts, CleanUpFacts DEF Interrupt, Alive, actorVars
<1>28. CASE UserExit  BY <1>28, <1>0, InvalidateFacts, CleanUpFacts DEF UserExit, Alive, actorVars
<1>29. CASE ExitMoves  BY <1>29, <1>0, InvalidateFacts, CleanUpFacts DEF ExitMoves, Alive, actorVars
<1>30. CASE Die  BY <1>30, <1>0, InvalidateFacts, CleanUpFacts DEF Die, Alive, actorVars
<1>31. CASE Restart  BY <1>31, <1>0, InvalidateFacts, CleanUpFacts DEF Restart, Alive, actorVars
<1>32. ASSUME NEW k \in Kinds, Contact(k) PROVE FALSE  BY <1>32 DEF Contact, actorVars
<1>33. CASE UNCHANGED vars  BY <1>33 DEF vars, actorVars
<1> QED
  BY <1>1, <1>2, <1>3, <1>4, <1>5, <1>6, <1>7, <1>8, <1>9, <1>10, <1>11, <1>12, <1>13, <1>14, <1>15, <1>16, <1>17, <1>18, <1>19, <1>20, <1>21, <1>22, <1>23, <1>24, <1>25, <1>26, <1>27, <1>28, <1>29, <1>30, <1>31, <1>32, <1>33 DEF Next, Loop

\* The obstacle appears only after the exit opportunity was resolved, inside the
\* window, by the run that holds the claim, in a scene that has not failed and met
\* nothing: what _p5_blocker and the claim established still holds when
\* backend.reveal runs.
THEOREM RevealedInOrder == Spec => RevealIsInOrder
<1>1. ASSUME SceneInv, [Next]_vars
      PROVE  [cargo' = "placed" /\ cargo # "placed" =>
                /\ exit = "resolved" /\ Planned <= t /\ t <= WindowEnd
                /\ claim = run /\ ~failed /\ stop = "none"]_vars
  BY <1>1, OnlyReveal
     DEF Reveal, SceneInv, ClaimInv, FailedInv, StopInv, RevealInv, Scene
<1> QED  BY <1>1, Invariance, PTL DEF Spec, RevealIsInOrder

-----------------------------------------------------------------------------
(* A failure is final *)

\* What a step may not do to a scene that has failed.
StaysFailed ==
  failed /\ run' = run =>
    /\ failed' /\ state' = "FAILED" /\ warned' = warned /\ display' = display
    /\ reveals' = reveals /\ record'.status \in {record.status, "FAILED"}

\* What FailureIsFinal says of a single step.
LEMMA FailedStep == SceneInv /\ [Next]_vars => StaysFailed
<1> SUFFICES ASSUME SceneInv, [Next]_vars, failed, run' = run
             PROVE  /\ failed' /\ state' = "FAILED"
                    /\ warned' = warned /\ display' = display
                    /\ reveals' = reveals
                    /\ record'.status \in {record.status, "FAILED"}
  BY DEF StaysFailed
<1>0. FailedInv /\ state = "FAILED" /\ pc \notin Scene  BY DEF SceneInv, FailedInv
<1> USE <1>0 DEF Scene
<1>1. CASE CollectContacts \/ Raise \/ SkipScene \/ WindowExpires \/ Defer
           \/ AttemptFails \/ Prepare \/ Claim \/ RevealRefused \/ Reveal
           \/ Observe \/ NoGeometry \/ PlacementFails \/ Expose \/ Advance
  BY <1>1 DEF CollectContacts, Raise, SkipScene, WindowExpires, Defer, Attempting,
              AttemptFails, Prepare, Claim, RevealRefused, Reveal, Observe,
              NoGeometry, PlacementFails, Expose, Advance
<1>2. CASE Setup
  BY <1>2, InvalidateFacts
     DEF Setup, Alive, FailedRecord, diskVars, loopVars, sceneVars
<1>3. CASE AfterControl
  BY <1>3, InvalidateFacts
     DEF AfterControl, Alive, FailedRecord, diskVars, loopVars, sceneVars
<1>4. CASE BeginWait
  BY <1>4, InvalidateFacts
     DEF BeginWait, Alive, FailedRecord, diskVars, loopVars, sceneVars
<1>5. CASE ShowFrame
  <2>1. Alive /\ display' = display /\ reveals' = reveals  BY <1>5 DEF ShowFrame, diskVars
  <2>2. warned' = (warned \/ FALSE)  BY <1>5 DEF ShowFrame
  <2> QED  BY <2>1, <2>2 DEF Alive, FailedInv
<1>6. CASE NextIteration
  BY <1>6, InvalidateFacts
     DEF NextIteration, Alive, FailedRecord, diskVars, loopVars, sceneVars
<1>7. CASE TimeLimit
  BY <1>7, InvalidateFacts
     DEF TimeLimit, Alive, FailedRecord, diskVars, loopVars, sceneVars
<1>8. CASE DriveError
  BY <1>8, InvalidateFacts
     DEF DriveError, Alive, FailedRecord, diskVars, loopVars, sceneVars
<1>9. CASE CloseScene
  BY <1>9, InvalidateFacts
     DEF CloseScene, Alive, FailedRecord, diskVars, loopVars, sceneVars
<1>10. CASE WriteRecord
  <2>1. failed' /\ state' = "FAILED"  BY <1>10 DEF WriteRecord
  <2>2. record' = FailedRecord(TRUE) \/ record' = record  BY <1>10 DEF WriteRecord
  <2>3. warned' = warned /\ display' = display /\ reveals' = reveals
    BY <1>10 DEF WriteRecord, diskVars, sceneVars
  <2> QED  BY <2>1, <2>2, <2>3 DEF FailedRecord
<1>11. CASE Confirm
  BY <1>11, InvalidateFacts
     DEF Confirm, Alive, FailedRecord, diskVars, loopVars, sceneVars
<1>12. CASE LoopError
  BY <1>12, InvalidateFacts
     DEF LoopError, Alive, FailedRecord, diskVars, loopVars, sceneVars
<1>13. CASE Resume
  BY <1>13, InvalidateFacts
     DEF Resume, Alive, FailedRecord, diskVars, loopVars, sceneVars
<1>14. CASE Interrupt
  BY <1>14, InvalidateFacts
     DEF Interrupt, Alive, FailedRecord, diskVars, loopVars, sceneVars
<1>15. CASE UserExit
  BY <1>15, InvalidateFacts
     DEF UserExit, Alive, FailedRecord, diskVars, loopVars, sceneVars
<1>16. CASE ExitMoves
  BY <1>16, InvalidateFacts
     DEF ExitMoves, Alive, FailedRecord, diskVars, loopVars, sceneVars
<1>17. CASE Die
  BY <1>17, InvalidateFacts
     DEF Die, Alive, FailedRecord, diskVars, loopVars, sceneVars
<1>18. CASE Restart
  BY <1>18, InvalidateFacts
     DEF Restart, Alive, FailedRecord, diskVars, loopVars, sceneVars
<1>19. ASSUME NEW k \in Kinds, Contact(k)
      PROVE  /\ failed' /\ state' = "FAILED" /\ warned' = warned
             /\ display' = display /\ reveals' = reveals /\ record' = record
  BY <1>19 DEF Contact, diskVars, sceneVars
<1>20. CASE UNCHANGED vars  BY <1>20 DEF vars, diskVars, sceneVars
<1> QED
  BY <1>1, <1>2, <1>3, <1>4, <1>5, <1>6, <1>7, <1>8, <1>9, <1>10, <1>11, <1>12, <1>13, <1>14, <1>15, <1>16, <1>17, <1>18, <1>19, <1>20 DEF Next, Loop

\* A failed scene stays failed, shows nothing new, reveals nothing and writes no
\* record that says otherwise (ContinuingM2Hazard.invalidate); the drive goes on.
THEOREM FailureStays == Spec => FailureIsFinal
<1>1. SceneInv /\ [Next]_vars => [StaysFailed]_vars  BY FailedStep
<1> QED  BY <1>1, Invariance, PTL DEF Spec, FailureIsFinal, StaysFailed

-----------------------------------------------------------------------------
(* Every collision is counted once *)

Counters == {happened, pending, held, counted}

\* Where a reported collision is: counted, in the callback's queue, or handed back
\* by the clean-up and counted by CloseScene.
CountInv ==
  /\ Counters \subseteq [Kinds -> Nat]
  /\ pc # "dead" =>
       \A k \in Kinds :
         happened[k] = counted[k] + pending[k]
                         + (IF pc \in {"record", "closed"} THEN 0 ELSE held[k])

\* After a clean-up that silenced the sensor nothing is queued any more.
SilentInv ==
  /\ Cleaned /\ "sensor" \notin left => ~listening /\ pending = None
  /\ ~Cleaned => held = None
  /\ pc \in {"record", "closed"} => Cleaned
  /\ pc = "setup" => ~Cleaned

\* The final record is written last, with what was counted by then.
FinalInv ==
  /\ record.final \in BOOLEAN
  /\ record.final => pc = "closed" /\ record.count = Total(counted)

ContactInv == CountInv /\ SilentInv /\ FinalInv

\* Nothing has been reported when the drive begins.
LEMMA ContactInit == Init => ContactInv
<1> SUFFICES ASSUME Init PROVE ContactInv  OBVIOUS
<1>1. None \in [Kinds -> Nat]  BY DEF None
<1>2. CountInv  BY <1>1 DEF Init, CountInv, Counters, None
<1>3. SilentInv  BY DEF Init, SilentInv, Cleaned
<1>4. FinalInv  BY DEF Init, FinalInv, NoRecord
<1> QED  BY <1>2, <1>3, <1>4 DEF ContactInv

\* The clean-up moves the queue as a whole, and once.
LEMMA CleanUpCounts ==
  ASSUME SilentInv, NEW n, CleanUp(n)
  PROVE  /\ \/ pending' = pending /\ held' = held
            \/ pending' = None /\ held' = pending /\ ~Cleaned
         /\ Cleaned' /\ (~Cleaned => held = None)
         /\ "sensor" \notin left' => ~listening' /\ pending' = None
<1>1. CASE Cleaned  BY <1>1 DEF CleanUp, actorVars, SilentInv, Cleaned
<1>2. CASE ~Cleaned
  <2>1. pending' = None /\ held' = pending  BY <1>2 DEF CleanUp
  <2>2. PICK lost \in SUBSET Obligations :
               left' = lost /\ listening' = (listening /\ "sensor" \in lost)
    BY <1>2 DEF CleanUp
  <2>3. "open" \notin Obligations  BY DEF Obligations
  <2> QED  BY <1>2, <2>1, <2>2, <2>3 DEF Cleaned, SilentInv
<1> QED  BY <1>1, <1>2

\* What most steps do with a collision: nothing, or a clean-up.
Kept == pending' = pending /\ held' = held /\ left' = left
          /\ listening' \in {listening, FALSE}
HandedBack ==
  /\ \/ pending' = pending /\ held' = held
     \/ pending' = None /\ held' = pending /\ held = None
  /\ Cleaned' /\ ("sensor" \notin left' => ~listening' /\ pending' = None)
NotFinal == record' = record \/ record'.final = FALSE
Between == {"record", "closed", "dead", "setup"}

\* backend.cleanup loses no collision.
LEMMA CleanUpQuiet ==
  ASSUME SilentInv, NEW n, CleanUp(n)
  PROVE  HandedBack
  BY CleanUpCounts DEF HandedBack

\* Nor does a failure, and it writes no final record.
LEMMA InvalidateQuiet ==
  ASSUME SilentInv, NEW n, Invalidate(n)
  PROVE  (Kept \/ HandedBack) /\ NotFinal
<1>1. CASE failed  BY <1>1 DEF Invalidate, Kept, NotFinal, actorVars
<1>2. CASE ~failed
  <2>1. CleanUp(n) \/ CleanUp(n + 1)  BY <1>2 DEF Invalidate
  <2>2. record' = FailedRecord(FALSE) \/ record' = record  BY <1>2 DEF Invalidate
  <2> QED  BY <2>1, <2>2, CleanUpQuiet DEF NotFinal, FailedRecord
<1> QED  BY <1>1, <1>2

\* A step of the loop that does nothing else with collisions keeps the books.
LEMMA QuietStep ==
  ASSUME ContactInv, Kept \/ HandedBack, NotFinal,
         happened' = happened, counted' = counted,
         pc \notin {"record", "closed", "dead"}, pc' \notin Between
  PROVE  ContactInv'
<1>1. FinalInv'  BY DEF ContactInv, FinalInv, NotFinal
<1>2. SilentInv'
  <2>1. CASE Kept
    <3>1. (Cleaned' <=> Cleaned) /\ left' = left /\ pending' = pending /\ held' = held
      BY <2>1 DEF Kept, Cleaned
    <3>2. ~listening => ~listening'
      <4>1. listening' = listening \/ listening' = FALSE  BY <2>1 DEF Kept
      <4> QED  BY <4>1
    <3> QED  BY <3>1, <3>2 DEF ContactInv, SilentInv, Between
  <2>2. CASE HandedBack  BY <2>2 DEF SilentInv, HandedBack, Between
  <2> QED  BY <2>1, <2>2
<1>3. None \in [Kinds -> Nat] /\ \A k \in Kinds : None[k] = 0  BY DEF None
<1>4. CountInv'
  <2>1. CASE pending' = pending /\ held' = held  BY <2>1 DEF ContactInv, CountInv, Counters, Between
  <2>2. CASE pending' = None /\ held' = pending /\ held = None
    BY <2>2, <1>3 DEF ContactInv, CountInv, Counters, Between
  <2> QED  BY <2>1, <2>2 DEF Kept, HandedBack
<1> QED  BY <1>1, <1>2, <1>4 DEF ContactInv

\* So does a step that leaves collisions, sensor and record alone.
LEMMA UntouchedStep ==
  ASSUME ContactInv, UNCHANGED <<contactVars, left, listening, record, pc>>
  PROVE  ContactInv'
  BY DEF ContactInv, CountInv, SilentInv, FinalInv, Counters, Cleaned, contactVars, Total

\* Counting (CollectContacts, CloseScene) and reporting (Contact) are the steps that
\* move a collision; the rest is quiet.
LEMMA ContactNext == ContactInv /\ [Next]_vars => ContactInv'
<1> SUFFICES ASSUME ContactInv, [Next]_vars PROVE ContactInv'  OBVIOUS
<1>0. CountInv /\ SilentInv /\ FinalInv  BY DEF ContactInv
<1>a. None \in [Kinds -> Nat] /\ \A k \in Kinds : None[k] = 0  BY DEF None
<1>1. CASE Raise
  BY <1>1, <1>0, QuietStep, InvalidateQuiet, CleanUpQuiet
     DEF Raise, Alive, Attempting, Kept, NotFinal, Between, actorVars, contactVars
<1>2. CASE SkipScene
  BY <1>2, <1>0, QuietStep, InvalidateQuiet, CleanUpQuiet
     DEF SkipScene, Alive, Attempting, Kept, NotFinal, Between, actorVars, contactVars
<1>3. CASE WindowExpires
  BY <1>3, <1>0, QuietStep, InvalidateQuiet, CleanUpQuiet
     DEF WindowExpires, Alive, Attempting, Kept, NotFinal, Between, actorVars, contactVars
<1>4. CASE Defer
  BY <1>4, <1>0, QuietStep, InvalidateQuiet, CleanUpQuiet
     DEF Defer, Alive, Attempting, Kept, NotFinal, Between, actorVars, contactVars
<1>5. CASE AttemptFails
  BY <1>5, <1>0, QuietStep, InvalidateQuiet, CleanUpQuiet
     DEF AttemptFails, Alive, Attempting, Kept, NotFinal, Between, actorVars, contactVars
<1>6. CASE Prepare
  BY <1>6, <1>0, QuietStep, InvalidateQuiet, CleanUpQuiet
     DEF Prepare, Alive, Attempting, Kept, NotFinal, Between, actorVars, contactVars
<1>7. CASE Claim
  BY <1>7, <1>0, QuietStep, InvalidateQuiet, CleanUpQuiet
     DEF Claim, Alive, Attempting, Kept, NotFinal, Between, actorVars, contactVars
<1>8. CASE RevealRefused
  BY <1>8, <1>0, QuietStep, InvalidateQuiet, CleanUpQuiet
     DEF RevealRefused, Alive, Attempting, Kept, NotFinal, Between, actorVars, contactVars
<1>9. CASE Reveal
  BY <1>9, <1>0, QuietStep, InvalidateQuiet, CleanUpQuiet
     DEF Reveal, Alive, Attempting, Kept, NotFinal, Between, actorVars, contactVars
<1>10. CASE Observe
  BY <1>10, <1>0, QuietStep, InvalidateQuiet, CleanUpQuiet
     DEF Observe, Alive, Attempting, Kept, NotFinal, Between, actorVars, contactVars
<1>11. CASE NoGeometry
  BY <1>11, <1>0, QuietStep, InvalidateQuiet, CleanUpQuiet
     DEF NoGeometry, Alive, Attempting, Kept, NotFinal, Between, actorVars, contactVars
<1>12. CASE PlacementFails
  BY <1>12, <1>0, QuietStep, InvalidateQuiet, CleanUpQuiet
     DEF PlacementFails, Alive, Attempting, Kept, NotFinal, Between, actorVars, contactVars
<1>13. CASE Expose
  BY <1>13, <1>0, QuietStep, InvalidateQuiet, CleanUpQuiet
     DEF Expose, Alive, Attempting, Kept, NotFinal, Between, actorVars, contactVars
<1>14. CASE Advance
  BY <1>14, <1>0, QuietStep, InvalidateQuiet, CleanUpQuiet
     DEF Advance, Alive, Attempting, Kept, NotFinal, Between, actorVars, contactVars
<1>15. CASE AfterControl
  <2>1. FailedRecord(FALSE).final = FALSE  BY DEF FailedRecord
  <2> QED
    BY <1>15, <2>1, <1>0, QuietStep, InvalidateQuiet
       DEF AfterControl, Alive, Kept, NotFinal, Between, actorVars
<1>16. CASE BeginWait
  BY <1>16, <1>0, QuietStep, InvalidateQuiet, CleanUpQuiet
     DEF BeginWait, Alive, Attempting, Kept, NotFinal, Between, actorVars, contactVars
<1>17. CASE ShowFrame
  BY <1>17, <1>0, QuietStep, InvalidateQuiet, CleanUpQuiet
     DEF ShowFrame, Alive, Attempting, Kept, NotFinal, Between, actorVars, contactVars
<1>18. CASE NextIteration
  BY <1>18, <1>0, QuietStep, InvalidateQuiet, CleanUpQuiet
     DEF NextIteration, Alive, Attempting, Kept, NotFinal, Between, actorVars, contactVars
<1>19. CASE TimeLimit
  BY <1>19, <1>0, QuietStep, InvalidateQuiet, CleanUpQuiet
     DEF TimeLimit, Alive, Attempting, Kept, NotFinal, Between, actorVars, contactVars
<1>20. CASE DriveError
  BY <1>20, <1>0, QuietStep, InvalidateQuiet, CleanUpQuiet
     DEF DriveError, Alive, Attempting, Kept, NotFinal, Between, actorVars, contactVars
<1>21. CASE Confirm
  BY <1>21, <1>0, QuietStep, InvalidateQuiet, CleanUpQuiet
     DEF Confirm, Alive, Attempting, Kept, NotFinal, Between, actorVars, contactVars
<1>22. CASE LoopError
  BY <1>22, <1>0, QuietStep, InvalidateQuiet, CleanUpQuiet
     DEF LoopError, Alive, Attempting, Kept, NotFinal, Between, actorVars, contactVars
<1>23. CASE Resume
  BY <1>23, <1>0, QuietStep, InvalidateQuiet, CleanUpQuiet
     DEF Resume, Alive, Attempting, Kept, NotFinal, Between, actorVars, contactVars
<1>24. CASE Interrupt
  BY <1>24, <1>0, QuietStep, InvalidateQuiet, CleanUpQuiet
     DEF Interrupt, Looping, Alive, Attempting, Kept, NotFinal, Between, actorVars, contactVars
<1>25. CASE UserExit
  BY <1>25, <1>0, QuietStep, InvalidateQuiet, CleanUpQuiet
     DEF UserExit, Alive, Attempting, Kept, NotFinal, Between, actorVars, contactVars
<1>26. CASE Setup
  <2>1. CASE Invalidate(1)  BY <1>26, <2>1, <1>0, QuietStep, InvalidateQuiet DEF Setup, Between
  <2>2. CASE listening' = TRUE /\ UNCHANGED <<left, record, pending, held>>
    <3>1. ~Cleaned /\ ~Cleaned'  BY <1>26, <2>2, <1>0 DEF Setup, SilentInv, Cleaned
    <3> QED  BY <1>26, <2>2, <3>1 DEF Setup, ContactInv, CountInv, Counters, SilentInv, FinalInv
  <2> QED  BY <1>26, <2>1, <2>2 DEF Setup
<1>27. CASE CollectContacts
  <2>1. counted' = Plus(counted, pending) /\ UNCHANGED <<happened, held, left, listening, record>>
          /\ pending' = None /\ pc = "collect" /\ pc' \in {"raise", "wait", "advance"}
    BY <1>27 DEF CollectContacts, actorVars
  <2>2. Cleaned' = Cleaned  BY <2>1 DEF Cleaned
  <2>3. CountInv'  BY <2>1, <1>0, <1>a DEF CountInv, Counters, Plus
  <2> QED  BY <2>1, <2>2, <2>3, <1>0 DEF ContactInv, SilentInv, FinalInv
<1>28. CASE CloseScene
  <2>1. pc = "finish" /\ pc' = "record" /\ CleanUp(0) /\ counted' = Plus(counted, held')
          /\ UNCHANGED <<happened, record>>
    BY <1>28 DEF CloseScene
  <2>2. HandedBack  BY <2>1, <1>0, CleanUpQuiet
  <2>3. CountInv'
    <3>1. CASE pending' = pending /\ held' = held  BY <2>1, <3>1, <1>0 DEF CountInv, Counters, Plus
    <3>2. CASE pending' = None /\ held' = pending /\ held = None
      BY <2>1, <3>2, <1>0, <1>a DEF CountInv, Counters, Plus
    <3> QED  BY <2>2, <3>1, <3>2 DEF HandedBack
  <2> QED  BY <2>1, <2>2, <2>3, <1>0 DEF ContactInv, SilentInv, FinalInv, HandedBack
<1>29. CASE WriteRecord
  <2>1. pc = "record" /\ pc' = "closed"
          /\ UNCHANGED <<contactVars, left, listening>>
          /\ record' \in {record, FailedRecord(TRUE), EndRecord}
    BY <1>29 DEF WriteRecord, actorVars
  <2>2. FinalInv'
    <3>1. counted' = counted  BY <2>1 DEF contactVars
    <3>2. CASE record' = record  BY <2>1, <3>1, <3>2, <1>0 DEF FinalInv, Total
    <3>3. CASE record' = FailedRecord(TRUE)
      <4>1. record'.final = TRUE /\ record'.count = Total(counted)  BY <3>3 DEF FailedRecord
      <4> QED  BY <4>1, <3>1, <2>1 DEF FinalInv, Total
    <3>4. CASE record' = EndRecord
      <4>1. record'.final = TRUE /\ record'.count = Total(counted)  BY <3>4 DEF EndRecord
      <4> QED  BY <4>1, <3>1, <2>1 DEF FinalInv, Total
    <3> QED  BY <2>1, <3>2, <3>3, <3>4
  <2> QED  BY <2>1, <2>2, <1>0 DEF ContactInv, CountInv, Counters, SilentInv, Cleaned, contactVars
<1>30. CASE Die
  BY <1>30, <1>0
     DEF Die, Driving, ContactInv, CountInv, Counters, SilentInv, FinalInv, Cleaned,
         actorVars, contactVars
<1>31. CASE Restart
  <2>1. CountInv'  BY <1>31, <1>a DEF Restart, CountInv, Counters
  <2>2. SilentInv' /\ FinalInv'  BY <1>31 DEF Restart, SilentInv, FinalInv, Cleaned, NoRecord
  <2> QED  BY <2>1, <2>2 DEF ContactInv
<1>32. CASE ExitMoves  BY <1>32, UntouchedStep DEF ExitMoves, actorVars
<1>33. ASSUME NEW k \in Kinds, Contact(k) PROVE ContactInv'
  <2>1. listening /\ pc # "dead" /\ UNCHANGED <<held, counted, left, listening, record, pc>>
          /\ happened' = [happened EXCEPT ![k] = @ + 1]
          /\ pending' = [pending EXCEPT ![k] = @ + 1]
    BY <1>33 DEF Contact, actorVars
  <2>2. CountInv'  BY <2>1, <1>0 DEF CountInv, Counters
  <2>3. SilentInv' /\ FinalInv'  BY <2>1, <1>0 DEF SilentInv, FinalInv, Cleaned, Total
  <2> QED  BY <2>2, <2>3 DEF ContactInv
<1>34. CASE UNCHANGED vars  BY <1>34, UntouchedStep DEF vars, actorVars
<1> QED
  BY <1>1, <1>2, <1>3, <1>4, <1>5, <1>6, <1>7, <1>8, <1>9, <1>10, <1>11, <1>12, <1>13, <1>14, <1>15, <1>16, <1>17, <1>18, <1>19, <1>20, <1>21, <1>22, <1>23, <1>24, <1>25, <1>26, <1>27, <1>28, <1>29, <1>30, <1>31, <1>32, <1>33, <1>34 DEF Next, Loop

\* What ContactsConserved says, at every state of the invariant.
LEMMA ContactConclusion == ContactInv => ContactsConserved
<1> SUFFICES ASSUME ContactInv, "sensor" \notin left, pc # "dead"
             PROVE  /\ happened = Plus(Plus(counted, pending),
                          IF pc \in {"record", "closed"} THEN None ELSE held)
                    /\ record.final => record.count = Total(happened)
  BY DEF ContactsConserved
<1>0. CountInv /\ SilentInv /\ FinalInv  BY DEF ContactInv
<1>1. happened \in [Kinds -> Nat] /\ pending \in [Kinds -> Nat]
        /\ held \in [Kinds -> Nat] /\ counted \in [Kinds -> Nat]
  BY <1>0 DEF CountInv, Counters
<1> DEFINE rest == IF pc \in {"record", "closed"} THEN None ELSE held
<1>2. \A k \in Kinds : rest[k] = IF pc \in {"record", "closed"} THEN 0 ELSE held[k]  BY DEF None
<1>3. \A k \in Kinds : happened[k] = Plus(Plus(counted, pending), rest)[k]
  BY <1>0, <1>1, <1>2 DEF CountInv, Plus
<1> HIDE DEF rest
<1>4. happened = Plus(Plus(counted, pending), rest)  BY <1>1, <1>3 DEF Plus
<1>5. ASSUME record.final PROVE record.count = Total(happened)
  <2>1. pc = "closed" /\ record.count = Total(counted) /\ pending = None
    BY <1>0, <1>5 DEF FinalInv, SilentInv
  <2>2. \A k \in Kinds : happened[k] = counted[k]  BY <2>1, <1>0, <1>1 DEF CountInv, None
  <2> QED  BY <2>1, <2>2 DEF Total, Kinds
<1> QED  BY <1>4, <1>5 DEF rest

\* Every collision the simulator reported is counted once, whether the loop
\* drained it, the clean-up handed it back, or it came while the scene failed; and
\* the final record counts them all, unless the sensor could not be stopped.
THEOREM EveryContactIsCounted == Spec => []ContactsConserved
<1>1. Spec => []ContactInv  BY ContactInit, ContactNext, PTL DEF Spec
<1> QED  BY <1>1, ContactConclusion, PTL

-----------------------------------------------------------------------------
(* The record keeps its promises *)

Final == {"record", "closed", "dead"}

\* What was seen of the obstacle was placed by this run, was judged, and only a valid
\* exposure is warned of.
ShownInv ==
  /\ Waiting => cargo # "placed"
  /\ cargo = "placed" \/ first \/ display # "none" => claim = run /\ reveals = 1
  /\ display \in {"none", "valid", "invalid"}
  /\ display = "invalid" => failed
  /\ warned => display = "valid"

\* After a clean-up nothing is left but what it names, and a scene that goes on after it
\* has expired and meets nothing any more.
GoneInv ==
  /\ Cleaned /\ "cargo" \notin left => cargo \in {"none", "gone"}
  /\ Cleaned /\ "pair" \notin left => ~pairOff
  /\ Cleaned /\ ~failed /\ pc \notin Final =>
       state = "NOT_OCCURRED" /\ cargo # "placed" /\ pending["cargo"] = 0
  /\ pc \in {"reveal", "geometry"} => ~Cleaned

\* A counted contact with the obstacle is remembered, and a failed or closed scene is
\* all that can follow it.
MetInv ==
  /\ counted["cargo"] > 0 /\ pc \notin Final => stop # "none"
  /\ stop # "none" =>
       /\ pc \in {"wait", "raise", "paused", "input", "finish"} \cup Final
       /\ pc \in {"paused", "input"} => failed
  /\ record.final => record.collision = (stop # "none")

\* A record of success is the last word on a scene that has given everything back.
EndInv ==
  record.status \in {"ENDED", "COLLISION_STOP"} =>
    /\ pc = "closed" /\ ~failed /\ left = {}
    /\ record.result = "EXPOSURE_CANDIDATE" => first \/ display # "none"

HonestInv == ShownInv /\ GoneInv /\ MetInv /\ EndInv

\* Cleaning up gives back what it does not name.
LEMMA CleanUpGivesBack ==
  ASSUME NEW n, CleanUp(n)
  PROVE  \/ UNCHANGED <<cargo, pairOff, listening, left, pending>> /\ Cleaned
         \/ /\ Cleaned' /\ ~Cleaned /\ cargo' \in {cargo, "gone"} /\ pending' = None
            /\ "cargo" \notin left' => cargo' \in {"none", "gone"}
            /\ "pair" \notin left' => ~pairOff'
<1>1. CASE Cleaned  BY <1>1 DEF CleanUp, actorVars
<1>2. CASE ~Cleaned
  <2>1. pending' = None  BY <1>2 DEF CleanUp
  <2>2. PICK lost \in SUBSET Obligations :
          /\ left' = lost
          /\ cargo' = IF cargo = "none" \/ "cargo" \in lost THEN cargo ELSE "gone"
          /\ pairOff' = (pairOff /\ "pair" \in lost)
    BY <1>2 DEF CleanUp
  <2>3. "open" \notin Obligations  BY DEF Obligations
  <2> QED  BY <1>2, <2>1, <2>2, <2>3 DEF Cleaned
<1> QED  BY <1>1, <1>2

\* What a step does to the actors: nothing, or a clean-up.
ActorsRest ==
  \/ UNCHANGED <<cargo, pairOff, left, pending>>
  \/ /\ Cleaned' /\ cargo' \in {cargo, "gone"} /\ pending' = None
     /\ "cargo" \notin left' => cargo' \in {"none", "gone"}
     /\ "pair" \notin left' => ~pairOff'

\* A failure leaves the scene to its clean-up, and says FAILED or nothing.
LEMMA InvalidateGivesBack ==
  ASSUME FailedInv, NEW n, Invalidate(n)
  PROVE  /\ failed' /\ state' = "FAILED" /\ ActorsRest
         /\ \/ record' = record
            \/ record'.status = "FAILED" /\ record'.final = FALSE
<1>1. failed' /\ state' = "FAILED"  BY InvalidateFacts
<1>2. CASE failed  BY <1>1, <1>2 DEF Invalidate, actorVars, ActorsRest
<1>3. CASE ~failed
  <2>1. CleanUp(n) \/ CleanUp(n + 1)  BY <1>3 DEF Invalidate
  <2>2. record' = FailedRecord(FALSE) \/ record' = record  BY <1>3 DEF Invalidate
  <2>3. ActorsRest  BY <2>1, CleanUpGivesBack DEF ActorsRest
  <2> QED  BY <1>1, <2>2, <2>3 DEF FailedRecord
<1> QED  BY <1>2, <1>3

LEMMA HonestInit == Init => HonestInv
<1> SUFFICES ASSUME Init PROVE HonestInv  OBVIOUS
<1>1. ShownInv  BY DEF Init, ShownInv, Waiting
<1>2. GoneInv  BY DEF Init, GoneInv, Cleaned
<1>3. counted["cargo"] = 0  BY DEF Init, None, Kinds
<1>4. MetInv  BY <1>3 DEF Init, MetInv, NoRecord
<1>5. EndInv  BY DEF Init, EndInv, NoRecord
<1> QED  BY <1>1, <1>2, <1>4, <1>5 DEF HonestInv

\* The obstacle is where this run has put it, and what was judged stays judged.
LEMMA ShownNext ==
  ASSUME SceneInv, HonestInv, [Next]_vars
  PROVE  ShownInv'
<1>0. FailedInv /\ ClaimInv /\ StopInv /\ ShownInv /\ GoneInv /\ MetInv /\ EndInv
  BY DEF SceneInv, HonestInv
<1>a. None["cargo"] = 0  BY DEF None, Kinds
<1> USE <1>0, <1>a DEF ShownInv, ClaimInv, FailedInv, Scene, contactVars, Looping, Driving, Attempting, ActorsRest, Alive, Waiting, diskVars, loopVars, sceneVars, actorVars
<1>1. CASE Setup  BY <1>1, InvalidateGivesBack, CleanUpGivesBack DEF Setup
<1>2. CASE AfterControl
  BY <1>2, InvalidateGivesBack, CleanUpGivesBack DEF AfterControl, FailedRecord, NoRecord
<1>3. CASE CollectContacts  BY <1>3, InvalidateGivesBack, CleanUpGivesBack DEF CollectContacts
<1>4. CASE Raise  BY <1>4, InvalidateGivesBack, CleanUpGivesBack DEF Raise
<1>5. CASE SkipScene  BY <1>5, InvalidateGivesBack, CleanUpGivesBack DEF SkipScene
<1>6. CASE WindowExpires  BY <1>6, InvalidateGivesBack, CleanUpGivesBack DEF WindowExpires
<1>7. CASE Defer  BY <1>7, InvalidateGivesBack, CleanUpGivesBack DEF Defer
<1>8. CASE AttemptFails  BY <1>8, InvalidateGivesBack, CleanUpGivesBack DEF AttemptFails
<1>9. CASE Prepare  BY <1>9, InvalidateGivesBack, CleanUpGivesBack DEF Prepare
<1>10. CASE Claim  BY <1>10, InvalidateGivesBack, CleanUpGivesBack DEF Claim
<1>11. CASE RevealRefused  BY <1>11, InvalidateGivesBack, CleanUpGivesBack DEF RevealRefused
<1>12. CASE Reveal  BY <1>12, InvalidateGivesBack, CleanUpGivesBack DEF Reveal
<1>13. CASE Observe  BY <1>13, InvalidateGivesBack, CleanUpGivesBack DEF Observe
<1>14. CASE NoGeometry  BY <1>14, InvalidateGivesBack, CleanUpGivesBack DEF NoGeometry
<1>15. CASE PlacementFails  BY <1>15, InvalidateGivesBack, CleanUpGivesBack DEF PlacementFails
<1>16. CASE Expose  BY <1>16, InvalidateGivesBack, CleanUpGivesBack DEF Expose
<1>17. CASE Advance  BY <1>17, InvalidateGivesBack, CleanUpGivesBack DEF Advance
<1>18. CASE BeginWait  BY <1>18, InvalidateGivesBack, CleanUpGivesBack DEF BeginWait
<1>19. CASE ShowFrame
  <2>1. /\ claim' = claim /\ run' = run /\ reveals' = reveals /\ first' = first
        /\ warned' => warned \/ (~failed /\ display # "none")
    BY <1>19 DEF ShowFrame
  <2>2. CASE display' = display /\ Alive
    <3>1. state' = state /\ failed' = failed /\ cargo' = cargo /\ display' = display  BY <2>2
    <3>2. warned' => display' = "valid"  BY <2>1, <3>1
    <3>3. /\ (Waiting => cargo # "placed")' /\ (display = "invalid" => failed)'
          /\ (display \in {"none", "valid", "invalid"})'
      BY <3>1
    <3>4. (cargo = "placed" \/ first \/ display # "none" => claim = run /\ reveals = 1)'
      BY <2>1, <3>1
    <3> QED  BY <3>2, <3>3, <3>4
  <2>3. CASE /\ ~failed /\ display = "none" /\ cargo = "placed"
             /\ display' = "valid" /\ (Alive \/ Invalidate(1))
    BY <2>1, <2>3, InvalidateGivesBack
  <2>4. CASE /\ ~failed /\ display = "none" /\ cargo = "placed"
             /\ display' = "invalid" /\ Invalidate(0)
    BY <2>1, <2>4, InvalidateGivesBack
  <2> QED  BY <1>19, <2>2, <2>3, <2>4 DEF ShowFrame
<1>20. CASE NextIteration  BY <1>20, InvalidateGivesBack, CleanUpGivesBack DEF NextIteration
<1>21. CASE TimeLimit  BY <1>21, InvalidateGivesBack, CleanUpGivesBack DEF TimeLimit
<1>22. CASE DriveError  BY <1>22, InvalidateGivesBack, CleanUpGivesBack DEF DriveError
<1>23. CASE CloseScene  BY <1>23, InvalidateGivesBack, CleanUpGivesBack DEF CloseScene
<1>24. CASE WriteRecord
  BY <1>24, InvalidateGivesBack, CleanUpGivesBack DEF WriteRecord, FailedRecord, NoRecord
<1>25. CASE Confirm  BY <1>25, InvalidateGivesBack, CleanUpGivesBack DEF Confirm
<1>26. CASE LoopError  BY <1>26, InvalidateGivesBack, CleanUpGivesBack DEF LoopError
<1>27. CASE Resume  BY <1>27, InvalidateGivesBack, CleanUpGivesBack DEF Resume
<1>28. CASE Interrupt  BY <1>28, InvalidateGivesBack, CleanUpGivesBack DEF Interrupt
<1>29. CASE UserExit  BY <1>29, InvalidateGivesBack, CleanUpGivesBack DEF UserExit
<1>30. CASE ExitMoves  BY <1>30, InvalidateGivesBack, CleanUpGivesBack DEF ExitMoves
<1>31. CASE Die  BY <1>31, InvalidateGivesBack, CleanUpGivesBack DEF Die
<1>32. CASE Restart
  BY <1>32, InvalidateGivesBack, CleanUpGivesBack DEF Restart, FailedRecord, NoRecord
<1>33. ASSUME NEW k \in Kinds, Contact(k) PROVE ShownInv'  BY <1>33 DEF Contact
<1>34. CASE UNCHANGED vars  BY <1>34 DEF vars, contactVars
<1> QED
  BY <1>1, <1>2, <1>3, <1>4, <1>5, <1>6, <1>7, <1>8, <1>9, <1>10, <1>11, <1>12, <1>13,
     <1>14, <1>15, <1>16, <1>17, <1>18, <1>19, <1>20, <1>21, <1>22, <1>23, <1>24, <1>25,
     <1>26, <1>27, <1>28, <1>29, <1>30, <1>31, <1>32, <1>33, <1>34
  DEF Next, Loop

\* Nothing comes back after a clean-up.
LEMMA GoneNext ==
  ASSUME SceneInv, HonestInv, [Next]_vars
  PROVE  GoneInv'
<1>0. FailedInv /\ ClaimInv /\ StopInv /\ ShownInv /\ GoneInv /\ MetInv /\ EndInv
  BY DEF SceneInv, HonestInv
<1>a. None["cargo"] = 0  BY DEF None, Kinds
<1> USE <1>0, <1>a DEF GoneInv, ShownInv, ClaimInv, FailedInv, StopInv, Final, Cleaned, Scene, contactVars, Looping, Driving, Attempting, ActorsRest, Alive, Waiting, diskVars, loopVars, sceneVars, actorVars
<1>1. CASE Setup  BY <1>1, InvalidateGivesBack, CleanUpGivesBack DEF Setup
<1>2. CASE AfterControl
  BY <1>2, InvalidateGivesBack, CleanUpGivesBack DEF AfterControl, FailedRecord, NoRecord
<1>3. CASE CollectContacts  BY <1>3, InvalidateGivesBack, CleanUpGivesBack DEF CollectContacts
<1>4. CASE Raise  BY <1>4, InvalidateGivesBack, CleanUpGivesBack DEF Raise
<1>5. CASE SkipScene  BY <1>5, InvalidateGivesBack, CleanUpGivesBack DEF SkipScene
<1>6. CASE WindowExpires  BY <1>6, InvalidateGivesBack, CleanUpGivesBack DEF WindowExpires
<1>7. CASE Defer  BY <1>7, InvalidateGivesBack, CleanUpGivesBack DEF Defer
<1>8. CASE AttemptFails  BY <1>8, InvalidateGivesBack, CleanUpGivesBack DEF AttemptFails
<1>9. CASE Prepare  BY <1>9, InvalidateGivesBack, CleanUpGivesBack DEF Prepare
<1>10. CASE Claim  BY <1>10, InvalidateGivesBack, CleanUpGivesBack DEF Claim
<1>11. CASE RevealRefused  BY <1>11, InvalidateGivesBack, CleanUpGivesBack DEF RevealRefused
<1>12. CASE Reveal  BY <1>12, InvalidateGivesBack, CleanUpGivesBack DEF Reveal
<1>13. CASE Observe  BY <1>13, InvalidateGivesBack, CleanUpGivesBack DEF Observe
<1>14. CASE NoGeometry  BY <1>14, InvalidateGivesBack, CleanUpGivesBack DEF NoGeometry
<1>15. CASE PlacementFails  BY <1>15, InvalidateGivesBack, CleanUpGivesBack DEF PlacementFails
<1>16. CASE Expose  BY <1>16, InvalidateGivesBack, CleanUpGivesBack DEF Expose
<1>17. CASE Advance  BY <1>17, InvalidateGivesBack, CleanUpGivesBack DEF Advance
<1>18. CASE BeginWait  BY <1>18, InvalidateGivesBack, CleanUpGivesBack DEF BeginWait
<1>19. CASE ShowFrame
  <2>1. pc = "display" /\ pc' = "loop"  BY <1>19 DEF ShowFrame
  <2>2. CASE Alive  BY <2>1, <2>2
  <2>3. CASE failed' /\ ActorsRest  BY <2>1, <2>3
  <2> QED  BY <1>19, <2>2, <2>3, InvalidateGivesBack DEF ShowFrame
<1>20. CASE NextIteration  BY <1>20, InvalidateGivesBack, CleanUpGivesBack DEF NextIteration
<1>21. CASE TimeLimit  BY <1>21, InvalidateGivesBack, CleanUpGivesBack DEF TimeLimit
<1>22. CASE DriveError  BY <1>22, InvalidateGivesBack, CleanUpGivesBack DEF DriveError
<1>23. CASE CloseScene  BY <1>23, InvalidateGivesBack, CleanUpGivesBack DEF CloseScene
<1>24. CASE WriteRecord
  BY <1>24, InvalidateGivesBack, CleanUpGivesBack DEF WriteRecord, FailedRecord, NoRecord
<1>25. CASE Confirm  BY <1>25, InvalidateGivesBack, CleanUpGivesBack DEF Confirm
<1>26. CASE LoopError  BY <1>26, InvalidateGivesBack, CleanUpGivesBack DEF LoopError
<1>27. CASE Resume  BY <1>27, InvalidateGivesBack, CleanUpGivesBack DEF Resume
<1>28. CASE Interrupt  BY <1>28, InvalidateGivesBack, CleanUpGivesBack DEF Interrupt
<1>29. CASE UserExit  BY <1>29, InvalidateGivesBack, CleanUpGivesBack DEF UserExit
<1>30. CASE ExitMoves  BY <1>30, InvalidateGivesBack, CleanUpGivesBack DEF ExitMoves
<1>31. CASE Die  BY <1>31, InvalidateGivesBack, CleanUpGivesBack DEF Die
<1>32. CASE Restart
  BY <1>32, InvalidateGivesBack, CleanUpGivesBack DEF Restart, FailedRecord, NoRecord
<1>33. ASSUME NEW k \in Kinds, Contact(k) PROVE GoneInv'  BY <1>33 DEF Contact
<1>34. CASE UNCHANGED vars  BY <1>34 DEF vars, contactVars
<1> QED
  BY <1>1, <1>2, <1>3, <1>4, <1>5, <1>6, <1>7, <1>8, <1>9, <1>10, <1>11, <1>12, <1>13,
     <1>14, <1>15, <1>16, <1>17, <1>18, <1>19, <1>20, <1>21, <1>22, <1>23, <1>24, <1>25,
     <1>26, <1>27, <1>28, <1>29, <1>30, <1>31, <1>32, <1>33, <1>34
  DEF Next, Loop

\* The contact is remembered in the step that counts it.
LEMMA MetNext ==
  ASSUME SceneInv, HonestInv, CountInv, FinalInv, [Next]_vars
  PROVE  MetInv'
<1>0. FailedInv /\ ClaimInv /\ StopInv /\ ShownInv /\ GoneInv /\ MetInv /\ EndInv
  BY DEF SceneInv, HonestInv
<1>a. None["cargo"] = 0  BY DEF None, Kinds
<1> USE <1>0, <1>a DEF MetInv, FailedInv, StopInv, Final, Scene, contactVars, Looping, Driving, Attempting, ActorsRest, Alive, Waiting, diskVars, loopVars, sceneVars, actorVars
<1>1. CASE Setup  BY <1>1, InvalidateGivesBack, CleanUpGivesBack DEF Setup
<1>2. CASE AfterControl
  <2>1. pc = "input" /\ stop' = stop /\ counted' = counted  BY <1>2 DEF AfterControl
  <2>2. CASE failed
    <3>1. /\ pc' = IF stop # "none" THEN "wait" ELSE "display"
          /\ record' \in {FailedRecord(FALSE), record}
      BY <1>2, <2>2 DEF AfterControl
    <3>2. record' = record \/ record'.final = FALSE  BY <3>1 DEF FailedRecord
    <3> QED  BY <2>1, <3>1, <3>2
  <2>3. CASE ~failed
    <3>1. pc' \in {"collect", "display"} /\ (Alive \/ Invalidate(1))  BY <1>2, <2>3 DEF AfterControl
    <3>2. record' = record \/ record'.final = FALSE  BY <3>1, InvalidateGivesBack
    <3> QED  BY <2>1, <2>3, <3>1, <3>2
  <2> QED  BY <2>2, <2>3
<1>3. CASE CollectContacts
  <2>1. /\ pc = "collect" /\ counted' = Plus(counted, pending)
        /\ stop' = IF pending["cargo"] > 0 /\ stop = "none" THEN "detected" ELSE stop
        /\ pc' \in {"raise", IF stop' # "none" THEN "wait" ELSE "advance"}
        /\ record' = record
    BY <1>3 DEF CollectContacts
  <2>2. counted["cargo"] \in Nat /\ pending["cargo"] \in Nat  BY DEF CountInv, Counters, Kinds
  <2>3. counted'["cargo"] = counted["cargo"] + pending["cargo"]  BY <2>1 DEF Plus, Kinds
  <2>4. counted'["cargo"] > 0 => stop' # "none"  BY <2>1, <2>2, <2>3
  <2>5. record'.final => record'.collision = (stop' # "none")
    <3>1. record.final => pc = "closed"  BY DEF FinalInv
    <3> QED  BY <2>1, <3>1
  <2>6. stop' # "none" => pc' \in {"raise", "wait"}  BY <2>1
  <2> QED  BY <2>4, <2>5, <2>6
<1>4. CASE Raise  BY <1>4, InvalidateGivesBack, CleanUpGivesBack DEF Raise
<1>5. CASE SkipScene  BY <1>5, InvalidateGivesBack, CleanUpGivesBack DEF SkipScene
<1>6. CASE WindowExpires  BY <1>6, InvalidateGivesBack, CleanUpGivesBack DEF WindowExpires
<1>7. CASE Defer  BY <1>7, InvalidateGivesBack, CleanUpGivesBack DEF Defer
<1>8. CASE AttemptFails  BY <1>8, InvalidateGivesBack, CleanUpGivesBack DEF AttemptFails
<1>9. CASE Prepare  BY <1>9, InvalidateGivesBack, CleanUpGivesBack DEF Prepare
<1>10. CASE Claim  BY <1>10, InvalidateGivesBack, CleanUpGivesBack DEF Claim
<1>11. CASE RevealRefused  BY <1>11, InvalidateGivesBack, CleanUpGivesBack DEF RevealRefused
<1>12. CASE Reveal  BY <1>12, InvalidateGivesBack, CleanUpGivesBack DEF Reveal
<1>13. CASE Observe  BY <1>13, InvalidateGivesBack, CleanUpGivesBack DEF Observe
<1>14. CASE NoGeometry  BY <1>14, InvalidateGivesBack, CleanUpGivesBack DEF NoGeometry
<1>15. CASE PlacementFails  BY <1>15, InvalidateGivesBack, CleanUpGivesBack DEF PlacementFails
<1>16. CASE Expose  BY <1>16, InvalidateGivesBack, CleanUpGivesBack DEF Expose
<1>17. CASE Advance  BY <1>17, InvalidateGivesBack, CleanUpGivesBack DEF Advance
<1>18. CASE BeginWait  BY <1>18, InvalidateGivesBack, CleanUpGivesBack DEF BeginWait
<1>19. CASE ShowFrame  BY <1>19, InvalidateGivesBack, CleanUpGivesBack DEF ShowFrame
<1>20. CASE NextIteration  BY <1>20, InvalidateGivesBack, CleanUpGivesBack DEF NextIteration
<1>21. CASE TimeLimit  BY <1>21, InvalidateGivesBack, CleanUpGivesBack DEF TimeLimit
<1>22. CASE DriveError  BY <1>22, InvalidateGivesBack, CleanUpGivesBack DEF DriveError
<1>23. CASE CloseScene  BY <1>23, InvalidateGivesBack, CleanUpGivesBack DEF CloseScene
<1>24. CASE WriteRecord
  <2>1. pc = "record" /\ pc' = "closed" /\ stop' = stop  BY <1>24 DEF WriteRecord
  <2>2. record' \in {record, FailedRecord(TRUE), EndRecord}  BY <1>24 DEF WriteRecord
  <2>3. record'.final => record'.collision = (stop # "none")  BY <2>2 DEF FailedRecord, EndRecord
  <2> QED  BY <2>1, <2>3
<1>25. CASE Confirm  BY <1>25, InvalidateGivesBack, CleanUpGivesBack DEF Confirm
<1>26. CASE LoopError  BY <1>26, InvalidateGivesBack, CleanUpGivesBack DEF LoopError
<1>27. CASE Resume  BY <1>27, InvalidateGivesBack, CleanUpGivesBack DEF Resume
<1>28. CASE Interrupt  BY <1>28, InvalidateGivesBack, CleanUpGivesBack DEF Interrupt
<1>29. CASE UserExit  BY <1>29, InvalidateGivesBack, CleanUpGivesBack DEF UserExit
<1>30. CASE ExitMoves  BY <1>30, InvalidateGivesBack, CleanUpGivesBack DEF ExitMoves
<1>31. CASE Die  BY <1>31, InvalidateGivesBack, CleanUpGivesBack DEF Die
<1>32. CASE Restart
  BY <1>32, InvalidateGivesBack, CleanUpGivesBack DEF Restart, FailedRecord, NoRecord
<1>33. ASSUME NEW k \in Kinds, Contact(k) PROVE MetInv'  BY <1>33 DEF Contact
<1>34. CASE UNCHANGED vars  BY <1>34 DEF vars, contactVars
<1> QED
  BY <1>1, <1>2, <1>3, <1>4, <1>5, <1>6, <1>7, <1>8, <1>9, <1>10, <1>11, <1>12, <1>13,
     <1>14, <1>15, <1>16, <1>17, <1>18, <1>19, <1>20, <1>21, <1>22, <1>23, <1>24, <1>25,
     <1>26, <1>27, <1>28, <1>29, <1>30, <1>31, <1>32, <1>33, <1>34
  DEF Next, Loop

\* Only WriteRecord writes a record of success.
LEMMA EndNext ==
  ASSUME SceneInv, HonestInv, [Next]_vars
  PROVE  EndInv'
<1>0. FailedInv /\ ClaimInv /\ StopInv /\ ShownInv /\ GoneInv /\ MetInv /\ EndInv
  BY DEF SceneInv, HonestInv
<1>a. None["cargo"] = 0  BY DEF None, Kinds
<1> USE <1>0, <1>a DEF EndInv, FailedInv, Scene, contactVars, Looping, Driving, Attempting, ActorsRest, Alive, Waiting, diskVars, loopVars, sceneVars, actorVars
<1>1. CASE Setup  BY <1>1, InvalidateGivesBack, CleanUpGivesBack DEF Setup
<1>2. CASE AfterControl
  <2>1. record' = record \/ record'.status = "FAILED"
    <3>1. CASE record' \in {FailedRecord(FALSE), record}  BY <3>1 DEF FailedRecord
    <3>2. CASE Alive \/ Invalidate(1)  BY <3>2, InvalidateGivesBack
    <3> QED  BY <1>2, <3>1, <3>2 DEF AfterControl
  <2> QED  BY <1>2, <2>1 DEF AfterControl
<1>3. CASE CollectContacts  BY <1>3, InvalidateGivesBack, CleanUpGivesBack DEF CollectContacts
<1>4. CASE Raise  BY <1>4, InvalidateGivesBack, CleanUpGivesBack DEF Raise
<1>5. CASE SkipScene  BY <1>5, InvalidateGivesBack, CleanUpGivesBack DEF SkipScene
<1>6. CASE WindowExpires  BY <1>6, InvalidateGivesBack, CleanUpGivesBack DEF WindowExpires
<1>7. CASE Defer  BY <1>7, InvalidateGivesBack, CleanUpGivesBack DEF Defer
<1>8. CASE AttemptFails  BY <1>8, InvalidateGivesBack, CleanUpGivesBack DEF AttemptFails
<1>9. CASE Prepare  BY <1>9, InvalidateGivesBack, CleanUpGivesBack DEF Prepare
<1>10. CASE Claim  BY <1>10, InvalidateGivesBack, CleanUpGivesBack DEF Claim
<1>11. CASE RevealRefused  BY <1>11, InvalidateGivesBack, CleanUpGivesBack DEF RevealRefused
<1>12. CASE Reveal  BY <1>12, InvalidateGivesBack, CleanUpGivesBack DEF Reveal
<1>13. CASE Observe  BY <1>13, InvalidateGivesBack, CleanUpGivesBack DEF Observe
<1>14. CASE NoGeometry  BY <1>14, InvalidateGivesBack, CleanUpGivesBack DEF NoGeometry
<1>15. CASE PlacementFails  BY <1>15, InvalidateGivesBack, CleanUpGivesBack DEF PlacementFails
<1>16. CASE Expose  BY <1>16, InvalidateGivesBack, CleanUpGivesBack DEF Expose
<1>17. CASE Advance  BY <1>17, InvalidateGivesBack, CleanUpGivesBack DEF Advance
<1>18. CASE BeginWait  BY <1>18, InvalidateGivesBack, CleanUpGivesBack DEF BeginWait
<1>19. CASE ShowFrame  BY <1>19, InvalidateGivesBack, CleanUpGivesBack DEF ShowFrame
<1>20. CASE NextIteration  BY <1>20, InvalidateGivesBack, CleanUpGivesBack DEF NextIteration
<1>21. CASE TimeLimit  BY <1>21, InvalidateGivesBack, CleanUpGivesBack DEF TimeLimit
<1>22. CASE DriveError  BY <1>22, InvalidateGivesBack, CleanUpGivesBack DEF DriveError
<1>23. CASE CloseScene  BY <1>23, InvalidateGivesBack, CleanUpGivesBack DEF CloseScene
<1>24. CASE WriteRecord
  <2>1. pc = "record" /\ pc' = "closed" /\ left' = left /\ first' = first /\ display' = display
    BY <1>24 DEF WriteRecord
  <2>2. PICK broken \in BOOLEAN :
          LET bad == broken \/ failed \/ left # {} IN
          /\ failed' = bad
          /\ \/ broken /\ UNCHANGED record
             \/ record' = IF bad THEN FailedRecord(TRUE) ELSE EndRecord
    BY <1>24 DEF WriteRecord
  <2>3. CASE record' = record \/ record' = FailedRecord(TRUE)  BY <2>1, <2>3 DEF FailedRecord
  <2>4. CASE ~failed' /\ left = {} /\ record' = EndRecord  BY <2>1, <2>4 DEF EndRecord
  <2> QED  BY <2>2, <2>3, <2>4
<1>25. CASE Confirm  BY <1>25, InvalidateGivesBack, CleanUpGivesBack DEF Confirm
<1>26. CASE LoopError  BY <1>26, InvalidateGivesBack, CleanUpGivesBack DEF LoopError
<1>27. CASE Resume  BY <1>27, InvalidateGivesBack, CleanUpGivesBack DEF Resume
<1>28. CASE Interrupt  BY <1>28, InvalidateGivesBack, CleanUpGivesBack DEF Interrupt
<1>29. CASE UserExit  BY <1>29, InvalidateGivesBack, CleanUpGivesBack DEF UserExit
<1>30. CASE ExitMoves  BY <1>30, InvalidateGivesBack, CleanUpGivesBack DEF ExitMoves
<1>31. CASE Die  BY <1>31, InvalidateGivesBack, CleanUpGivesBack DEF Die
<1>32. CASE Restart
  BY <1>32, InvalidateGivesBack, CleanUpGivesBack DEF Restart, FailedRecord, NoRecord
<1>33. ASSUME NEW k \in Kinds, Contact(k) PROVE EndInv'  BY <1>33 DEF Contact
<1>34. CASE UNCHANGED vars  BY <1>34 DEF vars, contactVars
<1> QED
  BY <1>1, <1>2, <1>3, <1>4, <1>5, <1>6, <1>7, <1>8, <1>9, <1>10, <1>11, <1>12, <1>13,
     <1>14, <1>15, <1>16, <1>17, <1>18, <1>19, <1>20, <1>21, <1>22, <1>23, <1>24, <1>25,
     <1>26, <1>27, <1>28, <1>29, <1>30, <1>31, <1>32, <1>33, <1>34
  DEF Next, Loop

LEMMA HonestNext ==
  ASSUME SceneInv, ContactInv, HonestInv, [Next]_vars
  PROVE  HonestInv'
<1>1. CountInv /\ FinalInv  BY DEF ContactInv
<1> QED  BY <1>1, ShownNext, GoneNext, MetNext, EndNext DEF HonestInv

-----------------------------------------------------------------------------
(* The types, with which the clock and every counter keep to their bounds *)

LoopTypes ==
  /\ claim \in 0..Runs /\ reveals \in Nat /\ run \in 1..Runs
  /\ pc \in Looping \cup {"setup", "finish", "record", "closed", "dead"}
  /\ t \in 0..DriveEnd
  /\ exit \in {"not_presented", "presented", "resolved"}
  /\ reason \in {"none", "M2_END", "USER_EXIT", "ERROR"}
  /\ since \in 0..DriveEnd /\ revealAt \in 0..DriveEnd

SceneTypes ==
  /\ state \in {"SCHEDULED", "READY_HIDDEN", "REVEAL_REQUESTED", "EXPOSED",
                "SCENE_RETIRED", "NOT_OCCURRED", "COLLISION", "FAILED"}
  /\ failed \in BOOLEAN /\ claimed \in BOOLEAN /\ first \in BOOLEAN
  /\ passed \in BOOLEAN /\ warned \in BOOLEAN /\ seen \in BOOLEAN
  /\ display \in {"none", "valid", "invalid"}
  /\ stop \in {"none", "detected", "awaiting", "confirmed"}

ActorTypes ==
  /\ cargo \in {"none", "hidden", "placed", "gone"}
  /\ pairOff \in BOOLEAN /\ listening \in BOOLEAN
  /\ left = {"open"} \/ left \subseteq Obligations
  /\ faults \in 0..MaxFaults

ContactTypes == {happened, pending, held, counted} \subseteq [Kinds -> 0..MaxContacts]

LEMMA TypeParts ==
  /\ LoopTypes /\ SceneTypes /\ ActorTypes /\ ContactTypes => TypeOK
  /\ TypeOK => LoopTypes /\ SceneTypes /\ ActorTypes /\ ContactTypes
  BY DEF TypeOK, LoopTypes, SceneTypes, ActorTypes, ContactTypes

LEMMA SpendTypes ==
  ASSUME faults \in 0..MaxFaults, NEW n \in Nat, Spend(n)
  PROVE  faults' \in 0..MaxFaults
  BY TimesAssumption DEF Spend

LEMMA CleanUpTypes ==
  ASSUME ActorTypes, NEW n \in Nat, CleanUp(n)
  PROVE  ActorTypes'
<1>1. CASE Cleaned  BY <1>1, SpendTypes DEF CleanUp, ActorTypes, actorVars
<1>2. CASE ~Cleaned
  <2>1. PICK lost \in SUBSET Obligations :
          /\ Spend(n + IF lost = {} THEN 0 ELSE 1)
          /\ left' = lost
          /\ cargo' = IF cargo = "none" \/ "cargo" \in lost THEN cargo ELSE "gone"
          /\ pairOff' = (pairOff /\ "pair" \in lost)
          /\ listening' = (listening /\ "sensor" \in lost)
    BY <1>2 DEF CleanUp
  <2>2. n + (IF lost = {} THEN 0 ELSE 1) \in Nat  OBVIOUS
  <2>3. faults' \in 0..MaxFaults  BY <2>1, <2>2, SpendTypes DEF ActorTypes
  <2> QED  BY <2>1, <2>3 DEF ActorTypes
<1> QED  BY <1>1, <1>2

LEMMA InvalidateTypes ==
  ASSUME ActorTypes, SceneTypes, NEW n \in Nat, Invalidate(n)
  PROVE  /\ ActorTypes' /\ failed' \in BOOLEAN
         /\ state' \in {"SCHEDULED", "READY_HIDDEN", "REVEAL_REQUESTED", "EXPOSED",
                        "SCENE_RETIRED", "NOT_OCCURRED", "COLLISION", "FAILED"}
<1>1. CASE failed  BY <1>1, SpendTypes DEF Invalidate, ActorTypes, SceneTypes, actorVars
<1>2. CASE ~failed
  <2>1. failed' = TRUE /\ state' = "FAILED" /\ (CleanUp(n) \/ CleanUp(n + 1))
    BY <1>2 DEF Invalidate
  <2>2. n + 1 \in Nat  OBVIOUS
  <2> QED  BY <2>1, <2>2, CleanUpTypes
<1> QED  BY <1>1, <1>2

\* The loop's own state.
LEMMA LoopNext ==
  ASSUME LoopTypes, [Next]_vars
  PROVE  LoopTypes'
<1> USE TimesAssumption DEF LoopTypes, diskVars, loopVars, sceneVars, Looping, Attempting, Nothing, Driving
<1>1. CASE Setup  BY <1>1 DEF Setup
<1>2. CASE AfterControl
  <2>1. t' \in 0..DriveEnd
    <3>1. t' \in {t, t + 1} /\ t' <= DriveEnd  BY <1>2 DEF AfterControl
    <3>2. t \in Nat /\ t + 1 \in Nat /\ DriveEnd \in Nat  OBVIOUS
    <3> QED  BY <3>1, <3>2
  <2>2. /\ UNCHANGED <<claim, reveals, run, exit, reason, since, revealAt>>
        /\ pc' \in {"wait", "display", "collect"}
    BY <1>2 DEF AfterControl
  <2> QED  BY <2>1, <2>2
<1>3. CASE CollectContacts  BY <1>3 DEF CollectContacts
<1>4. CASE Raise  BY <1>4 DEF Raise
<1>5. CASE SkipScene  BY <1>5 DEF SkipScene
<1>6. CASE WindowExpires  BY <1>6 DEF WindowExpires
<1>7. CASE Defer  BY <1>7 DEF Defer
<1>8. CASE AttemptFails  BY <1>8 DEF AttemptFails
<1>9. CASE Prepare  BY <1>9 DEF Prepare
<1>10. CASE Claim  BY <1>10 DEF Claim
<1>11. CASE RevealRefused  BY <1>11 DEF RevealRefused
<1>12. CASE Reveal  BY <1>12 DEF Reveal
<1>13. CASE Observe  BY <1>13 DEF Observe
<1>14. CASE NoGeometry  BY <1>14 DEF NoGeometry
<1>15. CASE PlacementFails  BY <1>15 DEF PlacementFails
<1>16. CASE Expose  BY <1>16 DEF Expose
<1>17. CASE Advance  BY <1>17 DEF Advance
<1>18. CASE BeginWait  BY <1>18 DEF BeginWait
<1>19. CASE ShowFrame  BY <1>19 DEF ShowFrame
<1>20. CASE NextIteration  BY <1>20 DEF NextIteration
<1>21. CASE TimeLimit  BY <1>21 DEF TimeLimit
<1>22. CASE DriveError  BY <1>22 DEF DriveError
<1>23. CASE CloseScene  BY <1>23 DEF CloseScene
<1>24. CASE WriteRecord  BY <1>24 DEF WriteRecord
<1>25. CASE Confirm  BY <1>25 DEF Confirm
<1>26. CASE LoopError  BY <1>26 DEF LoopError
<1>27. CASE Resume  BY <1>27 DEF Resume
<1>28. CASE Interrupt  BY <1>28 DEF Interrupt
<1>29. CASE UserExit  BY <1>29 DEF UserExit
<1>30. CASE ExitMoves  BY <1>30 DEF ExitMoves
<1>31. CASE Die  BY <1>31 DEF Die
<1>32. CASE Restart  BY <1>32 DEF Restart
<1>33. ASSUME NEW k \in Kinds, Contact(k) PROVE LoopTypes'  BY <1>33 DEF Contact
<1>34. CASE UNCHANGED vars  BY <1>34 DEF vars
<1> QED
  BY <1>1, <1>2, <1>3, <1>4, <1>5, <1>6, <1>7, <1>8, <1>9, <1>10, <1>11, <1>12, <1>13,
     <1>14, <1>15, <1>16, <1>17, <1>18, <1>19, <1>20, <1>21, <1>22, <1>23, <1>24, <1>25,
     <1>26, <1>27, <1>28, <1>29, <1>30, <1>31, <1>32, <1>33, <1>34
  DEF Next, Loop

\* The scene's.
LEMMA SceneNext ==
  ASSUME SceneTypes, ActorTypes, [Next]_vars
  PROVE  SceneTypes'
<1> USE DEF SceneTypes, sceneVars, contactVars, Alive
<1>1. CASE Setup  BY <1>1, InvalidateTypes DEF Setup
<1>2. CASE AfterControl  BY <1>2, InvalidateTypes DEF AfterControl
<1>3. CASE CollectContacts  BY <1>3, InvalidateTypes DEF CollectContacts
<1>4. CASE Raise  BY <1>4, InvalidateTypes DEF Raise
<1>5. CASE SkipScene  BY <1>5, InvalidateTypes DEF SkipScene
<1>6. CASE WindowExpires  BY <1>6, InvalidateTypes DEF WindowExpires
<1>7. CASE Defer  BY <1>7, InvalidateTypes DEF Defer
<1>8. CASE AttemptFails  BY <1>8, InvalidateTypes DEF AttemptFails
<1>9. CASE Prepare  BY <1>9, InvalidateTypes DEF Prepare
<1>10. CASE Claim  BY <1>10, InvalidateTypes DEF Claim
<1>11. CASE RevealRefused  BY <1>11, InvalidateTypes DEF RevealRefused
<1>12. CASE Reveal  BY <1>12, InvalidateTypes DEF Reveal
<1>13. CASE Observe  BY <1>13, InvalidateTypes DEF Observe
<1>14. CASE NoGeometry  BY <1>14, InvalidateTypes DEF NoGeometry
<1>15. CASE PlacementFails  BY <1>15, InvalidateTypes DEF PlacementFails
<1>16. CASE Expose  BY <1>16, InvalidateTypes DEF Expose
<1>17. CASE Advance  BY <1>17, InvalidateTypes DEF Advance
<1>18. CASE BeginWait  BY <1>18, InvalidateTypes DEF BeginWait
<1>19. CASE ShowFrame  BY <1>19, InvalidateTypes DEF ShowFrame
<1>20. CASE NextIteration  BY <1>20, InvalidateTypes DEF NextIteration
<1>21. CASE TimeLimit  BY <1>21, InvalidateTypes DEF TimeLimit
<1>22. CASE DriveError  BY <1>22, InvalidateTypes DEF DriveError
<1>23. CASE CloseScene  BY <1>23, InvalidateTypes DEF CloseScene
<1>24. CASE WriteRecord  BY <1>24, InvalidateTypes DEF WriteRecord
<1>25. CASE Confirm  BY <1>25, InvalidateTypes DEF Confirm
<1>26. CASE LoopError  BY <1>26, InvalidateTypes DEF LoopError
<1>27. CASE Resume  BY <1>27, InvalidateTypes DEF Resume
<1>28. CASE Interrupt  BY <1>28, InvalidateTypes DEF Interrupt
<1>29. CASE UserExit  BY <1>29, InvalidateTypes DEF UserExit
<1>30. CASE ExitMoves  BY <1>30, InvalidateTypes DEF ExitMoves
<1>31. CASE Die  BY <1>31, InvalidateTypes DEF Die
<1>32. CASE Restart  BY <1>32, InvalidateTypes DEF Restart
<1>33. ASSUME NEW k \in Kinds, Contact(k) PROVE SceneTypes'  BY <1>33 DEF Contact
<1>34. CASE UNCHANGED vars  BY <1>34 DEF vars
<1> QED
  BY <1>1, <1>2, <1>3, <1>4, <1>5, <1>6, <1>7, <1>8, <1>9, <1>10, <1>11, <1>12, <1>13,
     <1>14, <1>15, <1>16, <1>17, <1>18, <1>19, <1>20, <1>21, <1>22, <1>23, <1>24, <1>25,
     <1>26, <1>27, <1>28, <1>29, <1>30, <1>31, <1>32, <1>33, <1>34
  DEF Next, Loop

LEMMA ActorsKept ==
  ASSUME ActorTypes, UNCHANGED <<actorVars, faults>>
  PROVE  ActorTypes'
  BY DEF ActorTypes, actorVars

LEMMA SpendsKept ==
  ASSUME ActorTypes, SpendIfRaising \/ Spend(1) \/ UNCHANGED faults
  PROVE  faults' \in 0..MaxFaults
<1>1. (IF pc' = "raise" THEN 1 ELSE 0) \in Nat /\ 1 \in Nat  OBVIOUS
<1> QED  BY <1>1, SpendTypes DEF ActorTypes, SpendIfRaising

\* The backend's.
LEMMA ActorNext ==
  ASSUME ActorTypes, SceneTypes, [Next]_vars
  PROVE  ActorTypes'
<1>1. CASE Setup
  BY <1>1, InvalidateTypes, CleanUpTypes, ActorsKept DEF Setup, Alive, actorVars, ActorTypes
<1>2. CASE AfterControl
  BY <1>2, InvalidateTypes, CleanUpTypes, ActorsKept DEF AfterControl, Alive, actorVars, ActorTypes
<1>3. CASE CollectContacts  BY <1>3, SpendsKept DEF CollectContacts, ActorTypes, actorVars
<1>4. CASE Raise
  BY <1>4, InvalidateTypes, CleanUpTypes, ActorsKept DEF Raise, Alive, actorVars, ActorTypes
<1>5. CASE SkipScene  BY <1>5, ActorsKept DEF SkipScene, Alive, actorVars
<1>6. CASE WindowExpires
  BY <1>6, InvalidateTypes, CleanUpTypes, ActorsKept DEF WindowExpires, Alive, actorVars, ActorTypes
<1>7. CASE Defer  BY <1>7, ActorsKept DEF Defer, Alive, actorVars
<1>8. CASE AttemptFails  BY <1>8, SpendsKept DEF AttemptFails, ActorTypes, actorVars
<1>9. CASE Prepare
  <2>1. faults' \in 0..MaxFaults  BY <1>9, SpendsKept DEF Prepare
  <2> QED  BY <1>9, <2>1 DEF Prepare, ActorTypes
<1>10. CASE Claim
  BY <1>10, InvalidateTypes, CleanUpTypes, ActorsKept DEF Claim, Alive, actorVars, ActorTypes
<1>11. CASE RevealRefused
  BY <1>11, InvalidateTypes, CleanUpTypes, ActorsKept DEF RevealRefused, Alive, actorVars, ActorTypes
<1>12. CASE Reveal
  <2>1. faults' \in 0..MaxFaults  BY <1>12, SpendsKept DEF Reveal
  <2> QED  BY <1>12, <2>1 DEF Reveal, ActorTypes
<1>13. CASE Observe  BY <1>13, ActorsKept DEF Observe, Alive, actorVars
<1>14. CASE NoGeometry  BY <1>14, ActorsKept DEF NoGeometry, Alive, actorVars
<1>15. CASE PlacementFails
  BY <1>15, InvalidateTypes, CleanUpTypes, ActorsKept DEF PlacementFails, Alive, actorVars, ActorTypes
<1>16. CASE Expose
  BY <1>16, InvalidateTypes, CleanUpTypes, ActorsKept DEF Expose, Alive, actorVars, ActorTypes
<1>17. CASE Advance
  BY <1>17, InvalidateTypes, CleanUpTypes, ActorsKept DEF Advance, Alive, actorVars, ActorTypes
<1>18. CASE BeginWait
  <2>1. faults' \in 0..MaxFaults  BY <1>18, SpendsKept DEF BeginWait
  <2> QED  BY <1>18, <2>1 DEF BeginWait, ActorTypes
<1>19. CASE ShowFrame
  BY <1>19, InvalidateTypes, CleanUpTypes, ActorsKept DEF ShowFrame, Alive, actorVars, ActorTypes
<1>20. CASE NextIteration  BY <1>20, ActorsKept DEF NextIteration
<1>21. CASE TimeLimit  BY <1>21, ActorsKept DEF TimeLimit
<1>22. CASE DriveError
  BY <1>22, InvalidateTypes, CleanUpTypes, ActorsKept DEF DriveError, Alive, actorVars, ActorTypes
<1>23. CASE CloseScene
  BY <1>23, InvalidateTypes, CleanUpTypes, ActorsKept DEF CloseScene, Alive, actorVars, ActorTypes
<1>24. CASE WriteRecord
  <2>1. PICK broken \in BOOLEAN : Spend(IF broken THEN 1 ELSE 0)  BY <1>24 DEF WriteRecord
  <2>2. (IF broken THEN 1 ELSE 0) \in Nat  OBVIOUS
  <2>3. faults' \in 0..MaxFaults  BY <2>1, <2>2, SpendTypes DEF ActorTypes
  <2> QED  BY <1>24, <2>3 DEF WriteRecord, ActorTypes, actorVars
<1>25. CASE Confirm  BY <1>25, ActorsKept DEF Confirm
<1>26. CASE LoopError
  BY <1>26, InvalidateTypes, CleanUpTypes, ActorsKept DEF LoopError, Alive, actorVars, ActorTypes
<1>27. CASE Resume  BY <1>27, ActorsKept DEF Resume
<1>28. CASE Interrupt  BY <1>28, SpendsKept DEF Interrupt, ActorTypes, actorVars
<1>29. CASE UserExit  BY <1>29, ActorsKept DEF UserExit
<1>30. CASE ExitMoves  BY <1>30, ActorsKept DEF ExitMoves
<1>31. CASE Die  BY <1>31, ActorsKept DEF Die
<1>32. CASE Restart  BY <1>32 DEF Restart, ActorTypes
<1>33. ASSUME NEW k \in Kinds, Contact(k) PROVE ActorTypes'  BY <1>33, ActorsKept DEF Contact
<1>34. CASE UNCHANGED vars  BY <1>34, ActorsKept DEF vars
<1> QED
  BY <1>1, <1>2, <1>3, <1>4, <1>5, <1>6, <1>7, <1>8, <1>9, <1>10, <1>11, <1>12, <1>13,
     <1>14, <1>15, <1>16, <1>17, <1>18, <1>19, <1>20, <1>21, <1>22, <1>23, <1>24, <1>25,
     <1>26, <1>27, <1>28, <1>29, <1>30, <1>31, <1>32, <1>33, <1>34
  DEF Next, Loop

\* A collision moves between the queue, the clean-up's answer and the count, and only a
\* report of the sensor makes a new one.
Moved ==
  /\ happened' \in [Kinds -> 0..MaxContacts] /\ held' \in [Kinds -> 0..MaxContacts]
  /\ pc' = "dead" => UNCHANGED <<pending, counted>>

LEMMA HeldTypes ==
  ASSUME NEW n, CleanUp(n) \/ Invalidate(n)
  PROVE  held' \in {held, pending}
<1>1. ASSUME NEW m, CleanUp(m) PROVE held' \in {held, pending}  BY <1>1 DEF CleanUp
<1>2. Invalidate(n) => UNCHANGED held \/ CleanUp(n) \/ CleanUp(n + 1)  BY DEF Invalidate
<1> QED  BY <1>1, <1>2

\* Every step.
LEMMA MovedNext ==
  ASSUME ContactTypes, SceneTypes, [Next]_vars
  PROVE  Moved
<1>a. None \in [Kinds -> 0..MaxContacts]  BY TimesAssumption DEF None
<1> USE DEF ContactTypes, Moved, Alive, contactVars, Attempting
<1>1. CASE Setup  BY <1>1, HeldTypes DEF Setup
<1>2. CASE AfterControl  BY <1>2, HeldTypes DEF AfterControl
<1>3. CASE CollectContacts  BY <1>3, HeldTypes DEF CollectContacts
<1>4. CASE Raise  BY <1>4, HeldTypes DEF Raise
<1>5. CASE SkipScene  BY <1>5, HeldTypes DEF SkipScene
<1>6. CASE WindowExpires  BY <1>6, HeldTypes DEF WindowExpires
<1>7. CASE Defer  BY <1>7, HeldTypes DEF Defer
<1>8. CASE AttemptFails  BY <1>8, HeldTypes DEF AttemptFails
<1>9. CASE Prepare  BY <1>9, HeldTypes DEF Prepare
<1>10. CASE Claim  BY <1>10, HeldTypes DEF Claim
<1>11. CASE RevealRefused  BY <1>11, HeldTypes DEF RevealRefused
<1>12. CASE Reveal  BY <1>12, HeldTypes DEF Reveal
<1>13. CASE Observe  BY <1>13, HeldTypes DEF Observe
<1>14. CASE NoGeometry  BY <1>14, HeldTypes DEF NoGeometry
<1>15. CASE PlacementFails  BY <1>15, HeldTypes DEF PlacementFails
<1>16. CASE Expose  BY <1>16, HeldTypes DEF Expose
<1>17. CASE Advance  BY <1>17, HeldTypes DEF Advance
<1>18. CASE BeginWait  BY <1>18, HeldTypes DEF BeginWait
<1>19. CASE ShowFrame  BY <1>19, HeldTypes DEF ShowFrame
<1>20. CASE NextIteration  BY <1>20, HeldTypes DEF NextIteration
<1>21. CASE TimeLimit  BY <1>21, HeldTypes DEF TimeLimit
<1>22. CASE DriveError  BY <1>22, HeldTypes DEF DriveError
<1>23. CASE CloseScene  BY <1>23, HeldTypes DEF CloseScene
<1>24. CASE WriteRecord  BY <1>24, HeldTypes DEF WriteRecord
<1>25. CASE Confirm  BY <1>25, HeldTypes DEF Confirm
<1>26. CASE LoopError  BY <1>26, HeldTypes DEF LoopError
<1>27. CASE Resume  BY <1>27, HeldTypes DEF Resume
<1>28. CASE Interrupt  BY <1>28, HeldTypes DEF Interrupt
<1>29. CASE UserExit  BY <1>29, HeldTypes DEF UserExit
<1>30. CASE ExitMoves  BY <1>30, HeldTypes DEF ExitMoves
<1>31. CASE Die  BY <1>31, HeldTypes DEF Die
<1>32. CASE Restart  BY <1>32, HeldTypes, <1>a DEF Restart
<1>33. ASSUME NEW k \in Kinds, Contact(k) PROVE Moved
  <2>1. happened' = [happened EXCEPT ![k] = @ + 1] /\ happened[k] < MaxContacts
    BY <1>33 DEF Contact
  <2>2. happened[k] + 1 \in 0..MaxContacts  BY <2>1, TimesAssumption
  <2>3. happened' \in [Kinds -> 0..MaxContacts]  BY <2>1, <2>2
  <2> QED  BY <2>3, <1>33 DEF Contact
<1>34. CASE UNCHANGED vars  BY <1>34 DEF vars
<1> QED
  BY <1>1, <1>2, <1>3, <1>4, <1>5, <1>6, <1>7, <1>8, <1>9, <1>10, <1>11, <1>12, <1>13, <1>14, <1>15, <1>16, <1>17,
     <1>18, <1>19, <1>20, <1>21, <1>22, <1>23, <1>24, <1>25, <1>26, <1>27, <1>28, <1>29, <1>30, <1>31, <1>32, <1>33, <1>34
  DEF Next, Loop

\* What is queued or counted has been reported.
LEMMA ContactTypesNext ==
  ASSUME ContactTypes, ContactInv', Moved
  PROVE  ContactTypes'
<1>1. CASE pc' = "dead"  BY <1>1 DEF Moved, ContactTypes
<1>2. CASE pc' # "dead"
  <2>1. /\ happened' \in [Kinds -> 0..MaxContacts] /\ held' \in [Kinds -> 0..MaxContacts]
        /\ pending' \in [Kinds -> Nat] /\ counted' \in [Kinds -> Nat]
    BY DEF Moved, ContactInv, CountInv, Counters
  <2>2. ASSUME NEW k \in Kinds
        PROVE  pending'[k] \in 0..MaxContacts /\ counted'[k] \in 0..MaxContacts
    <3> DEFINE rest == IF pc' \in {"record", "closed"} THEN 0 ELSE held'[k]
    <3>1. happened'[k] = counted'[k] + pending'[k] + rest  BY <1>2 DEF ContactInv, CountInv
    <3>2. rest \in Nat /\ pending'[k] \in Nat /\ counted'[k] \in Nat
          /\ happened'[k] \in Nat /\ happened'[k] <= MaxContacts
      BY <2>1, TimesAssumption
    <3> HIDE DEF rest
    <3> QED  BY <3>1, <3>2, TimesAssumption
  <2>3. pending' \in [Kinds -> 0..MaxContacts] /\ counted' \in [Kinds -> 0..MaxContacts]
    BY <2>1, <2>2
  <2> QED  BY <2>1, <2>3 DEF ContactTypes
<1> QED  BY <1>1, <1>2

LEMMA TypeInit == Init => TypeOK
<1> SUFFICES ASSUME Init PROVE TypeOK  OBVIOUS
<1>0. Runs \in Nat \ {0} /\ DriveEnd \in Nat \ {0}  BY TimesAssumption
<1>6. 0 \in 0..Runs /\ 1 \in 1..Runs /\ 0 \in 0..DriveEnd /\ 0 \in Nat  BY <1>0
<1>7. /\ claim = 0 /\ reveals = 0 /\ run = 1 /\ pc = "setup" /\ t = 0
      /\ exit = "not_presented" /\ reason = "none" /\ since = 0 /\ revealAt = 0
  BY DEF Init, Nothing
<1>1. LoopTypes  BY <1>6, <1>7 DEF LoopTypes
<1>2. SceneTypes  BY DEF Init, SceneTypes
<1>3. ActorTypes
  <2>1. 0 \in 0..MaxFaults  BY TimesAssumption
  <2>2. /\ cargo = "none" /\ pairOff = FALSE /\ listening = FALSE
        /\ left = {"open"} /\ faults = 0
    BY DEF Init
  <2> QED  BY <2>1, <2>2 DEF ActorTypes
<1>4. None \in [Kinds -> 0..MaxContacts]  BY TimesAssumption DEF None
<1>5. ContactTypes  BY <1>4 DEF Init, ContactTypes
<1> QED  BY <1>1, <1>2, <1>3, <1>5, TypeParts

\* All of it together is inductive.
WholeInv == SceneInv /\ ContactInv /\ HonestInv /\ TypeOK

LEMMA WholeNext == WholeInv /\ [Next]_vars => WholeInv'
<1> SUFFICES ASSUME WholeInv, [Next]_vars PROVE WholeInv'  OBVIOUS
<1>0. SceneInv /\ ContactInv /\ HonestInv /\ TypeOK  BY DEF WholeInv
<1>1. SceneInv' /\ ContactInv' /\ HonestInv'  BY <1>0, InvNext, ContactNext, HonestNext
<1>2. LoopTypes /\ SceneTypes /\ ActorTypes /\ ContactTypes  BY <1>0, TypeParts
<1>3. LoopTypes' /\ SceneTypes' /\ ActorTypes'  BY <1>2, LoopNext, SceneNext, ActorNext
<1>4. ContactTypes'  BY <1>1, <1>2, MovedNext, ContactTypesNext
<1>5. TypeOK'  BY <1>3, <1>4 DEF TypeOK, LoopTypes, SceneTypes, ActorTypes, ContactTypes
<1> QED  BY <1>1, <1>5 DEF WholeInv

\* A record of success is written over an empty list of what was not given back.
LEMMA CleanConclusion == WholeInv => CleanEnd
<1> SUFFICES ASSUME WholeInv, record.status \in {"ENDED", "COLLISION_STOP"}
             PROVE  /\ ~failed /\ cargo \in {"none", "gone"} /\ ~pairOff /\ ~listening
                    /\ display # "invalid" /\ (warned => display = "valid")
                    /\ record.result = "EXPOSURE_CANDIDATE" => claim = run /\ reveals = 1
  BY DEF CleanEnd
<1>1. SilentInv /\ ShownInv /\ GoneInv /\ EndInv  BY DEF WholeInv, ContactInv, HonestInv
<1>2. /\ ~failed /\ left = {}
      /\ record.result = "EXPOSURE_CANDIDATE" => first \/ display # "none"
  BY <1>1 DEF EndInv
<1>3. Cleaned /\ "cargo" \notin left /\ "pair" \notin left /\ "sensor" \notin left
  BY <1>2 DEF Cleaned
<1> QED  BY <1>1, <1>2, <1>3 DEF SilentInv, ShownInv, GoneInv

\* A contact that was counted has stopped the scene, and the last record says so.
LEMMA ContactEnds == WholeInv => ContactEndsTheScene
  BY DEF WholeInv, SceneInv, HonestInv, MetInv, StopInv, Final, ContactEndsTheScene

\* However the view loop, the sensor's callbacks, the exit coordinator, failing calls,
\* deaths and restarts interleave: a record of success leaves nothing behind and claims
\* no exposure that was not placed, a contact ends the scene, the obstacle appears only
\* in its order, and a failure is final.
THEOREM SceneStaysHonest == Spec => SceneIsHonest
<1>1. Init => WholeInv  BY InvInit, ContactInit, HonestInit, TypeInit DEF WholeInv
<1>2. Spec => []WholeInv  BY <1>1, WholeNext, PTL DEF Spec
<1>3. WholeInv => TypeOK /\ CleanEnd /\ ContactEndsTheScene
  BY CleanConclusion, ContactEnds DEF WholeInv
<1>4. Spec => [](TypeOK /\ CleanEnd /\ ContactEndsTheScene)  BY <1>2, <1>3, PTL
<1> QED  BY <1>4, RevealedInOrder, FailureStays DEF SceneIsHonest

(* The order of rows. *)

\* A set of naturals has a least member: the intervals up to its members are finite
\* sets, which strict inclusion orders well.
LEMMA LeastNatural ==
    ASSUME NEW T \in SUBSET Nat, T # {}
    PROVE  \E x \in T : \A y \in T : x <= y
  <1> DEFINE U == {0 .. z : z \in T}
  <1>1. U \subseteq FiniteSubsetsOf(Nat) /\ U # {}
    <2>1. \A z \in T : IsFiniteSet(0 .. z) /\ (0 .. z) \in SUBSET Nat  BY FS_Interval
    <2> QED  BY <2>1 DEF FiniteSubsetsOf
  <1>2. IsWellFoundedOn(StrictSubsetOrdering(Nat), FiniteSubsetsOf(Nat))
    BY FS_StrictSubsetOrderingWellFounded
  <1>3. PICK u \in U : \A v \in U : ~ (<<v, u>> \in StrictSubsetOrdering(Nat))
    BY <1>1, <1>2, WFMin, Zenon
  <1>4. PICK x \in T : u = 0 .. x  BY <1>3
  <1>5. \A y \in T : x <= y
    <2> SUFFICES ASSUME NEW y \in T, y < x PROVE FALSE  OBVIOUS
    <2>1. (0 .. y) \in U  OBVIOUS
    <2>2. (0 .. y) \subseteq (0 .. x) /\ x \in 0 .. x /\ x \notin 0 .. y  OBVIOUS
    <2>3. <<0 .. y, 0 .. x>> \in StrictSubsetOrdering(Nat)  BY <2>2 DEF StrictSubsetOrdering
    <2> QED  BY <1>3, <1>4, <2>1, <2>3
  <1> QED  BY <1>5

\* The first so many numbers, and how many they are.
LEMMA FirstNumbers ==
    ASSUME NEW s \in Nat
    PROVE  IsFiniteSet(1..s) /\ Cardinality(1..s) = s
  <1>1. 1 \in Int /\ s \in Int /\ (1 > s => s = 0) /\ s - 1 + 1 = s  OBVIOUS
  <1>2. Cardinality(1..s) = IF 1 > s THEN 0 ELSE s - 1 + 1  BY <1>1, FS_Interval
  <1> QED  BY <1>1, <1>2, FS_Interval

\* A map of the first so many numbers into themselves that keeps their order moves none.
LEMMA KeepsOrderMovesNone ==
    ASSUME NEW N \in Nat, NEW g \in [1..N -> 1..N],
           \A i, k \in 1..N : i < k => g[i] < g[k]
    PROVE  \A i \in 1..N : g[i] = i
  <1>1. ASSUME NEW i \in 1..N, g[i] < i  PROVE FALSE
    <2> DEFINE T == {n \in 1..N : g[n] < n}
    <2>1. T \in SUBSET Nat /\ i \in T  BY <1>1
    <2>2. PICK n \in T : \A m \in T : n <= m
      <3> HIDE DEF T
      <3> QED  BY <2>1, LeastNatural
    <2>3. n \in 1..N /\ g[n] \in 1..N /\ g[n] < n  OBVIOUS
    <2>4. g[g[n]] < g[n]  BY <2>3
    <2>5. g[n] \in T  BY <2>3, <2>4
    <2>6. n <= g[n]  BY <2>2, <2>5
    <2> QED  BY <2>3, <2>6
  <1>2. ASSUME NEW i \in 1..N, g[i] > i  PROVE FALSE
    <2> DEFINE T == {n \in 0..N : n < N /\ g[N - n] > N - n}
    <2>1. T \in SUBSET Nat /\ N - i \in T
      <3>1. N - i \in 0..N /\ N - i < N /\ N - (N - i) = i  OBVIOUS
      <3>2. g[N - (N - i)] > N - (N - i)  BY <1>2, <3>1
      <3> QED  BY <3>1, <3>2
    <2>2. PICK n \in T : \A m \in T : n <= m
      <3> HIDE DEF T
      <3> QED  BY <2>1, LeastNatural
    <2> DEFINE a == N - n
    <2>3. a \in 1..N /\ g[a] \in 1..N /\ g[a] > a  OBVIOUS
    <2>4. g[g[a]] > g[a]  BY <2>3
    <2>5. N - g[a] \in 0..N /\ N - g[a] < N /\ N - (N - g[a]) = g[a]  BY <2>3, SMTT(20)
    <2>6. N - g[a] \in T  BY <2>4, <2>5
    <2>7. n <= N - g[a]  BY <2>2, <2>6
    <2> QED  BY <2>3, <2>7
  <1> SUFFICES ASSUME NEW i \in 1..N, g[i] # i  PROVE FALSE  OBVIOUS
  <1>3. g[i] < i \/ g[i] > i  OBVIOUS
  <1> QED  BY <1>1, <1>2, <1>3

\* A map of the first so many numbers into themselves that gives no value twice gives
\* every one.
LEMMA GivesEveryOne ==
    ASSUME NEW N \in Nat, NEW g \in [1..N -> 1..N],
           \A i, k \in 1..N : g[i] = g[k] => i = k,
           NEW n \in 1..N
    PROVE  \E i \in 1..N : g[i] = n
  <1> SUFFICES ASSUME \A i \in 1..N : g[i] # n  PROVE FALSE  OBVIOUS
  <1>1. IsFiniteSet(1..N) /\ Cardinality(1..N) = N  BY FirstNumbers
  <1>2. IsFiniteSet((1..N) \ {n}) /\ Cardinality((1..N) \ {n}) = N - 1  BY <1>1, FS_RemoveElement
  <1>3. g \in [1..N -> (1..N) \ {n}]  OBVIOUS
  <1>4. Cardinality((1..N) \ {n}) < Cardinality(1..N)  BY <1>1, <1>2
  <1>5. PICK S, T : S = 1..N /\ T = (1..N) \ {n}  OBVIOUS
  <1>6. /\ IsFiniteSet(S) /\ IsFiniteSet(T) /\ Cardinality(T) < Cardinality(S)
        /\ g \in [S -> T]
    BY <1>1, <1>2, <1>3, <1>4, <1>5, Zenon
  <1>7. \E i, k \in S : i # k /\ g[i] = g[k]  BY <1>6, FS_PigeonHole, Zenon
  <1> QED  BY <1>5, <1>7

EventTypes == {"p5_exit_manifest", "lc_presented", "lc_mode_change", "lc_decision",
               "lc_maneuver_start", "lc_exit_entry_observed", "lc_completed",
               "lc_opportunity_retired", "lc_finished"}
Decisions == {Untold, "NORESPONSE", "CONFIRM", "MANUAL_CHANGE_OBSERVED_PROXY",
              "MANUAL_NOCHANGE"}
Outcomes == {Untold, "EXIT", "MISSED", "EXIT_ENTRY_OBSERVED", "NOT_PRESENTED",
             "NOT_REACHED", "INTERRUPTED"}
Reasons == {Untold, "ELIGIBILITY_WINDOW_CLOSED", "MODE_CHANGED_AFTER_T0",
            "DRIVER_SIGNAL_PRIORITY", "EXIT_CORRIDOR_LEFT",
            "ERROR", "USER_EXIT", "NORMAL", "TIME_CAP"}
ExitEvents == [type : EventTypes, decision : Decisions, t0 : BOOLEAN, outcome : Outcomes,
               reason : Reasons, time : Nat]

\* What a sequence of events is.
LEMMA EventsOf ==
    ASSUME NEW rows \in Seq(ExitEvents)
    PROVE  /\ Len(rows) \in Nat /\ DOMAIN rows = 1..Len(rows)
           /\ \A i \in 1..Len(rows) : rows[i] \in ExitEvents /\ rows[i].time \in Nat
  <1>1. Len(rows) \in Nat /\ DOMAIN rows = 1..Len(rows)  BY LenProperties
  <1>2. \A i \in 1..Len(rows) : rows[i] \in ExitEvents  BY ElementOfSeq
  <1>3. \A e \in ExitEvents : e.time \in Nat  BY DEF ExitEvents
  <1> QED  BY <1>1, <1>2, <1>3

LEMMA ConcatThree ==
    ASSUME NEW a \in Seq(ExitEvents), NEW b \in Seq(ExitEvents), NEW c \in Seq(ExitEvents)
    PROVE  (a \o b) \o c = a \o (b \o c)
  BY ConcatAssociative, SMTT(30)

\* Of two rows one is the earlier, and not both.
LEMMA EarlierIsTotal ==
    ASSUME NEW rows \in Seq(ExitEvents), NEW i \in 1..Len(rows), NEW k \in 1..Len(rows)
    PROVE  /\ ~ (Earlier(rows, i, k) /\ Earlier(rows, k, i))
           /\ i # k => Earlier(rows, i, k) \/ Earlier(rows, k, i)
  <1>1. rows[i].time \in Nat /\ rows[k].time \in Nat /\ i \in Nat /\ k \in Nat  BY EventsOf
  <1> QED  BY <1>1 DEF Earlier

\* What is earlier than an earlier row is earlier.
LEMMA EarlierIsTransitive ==
    ASSUME NEW rows \in Seq(ExitEvents), NEW i \in 1..Len(rows), NEW k \in 1..Len(rows),
           NEW m \in 1..Len(rows), Earlier(rows, i, k), Earlier(rows, k, m)
    PROVE  Earlier(rows, i, m)
  <1>1. /\ rows[i].time \in Nat /\ rows[k].time \in Nat /\ rows[m].time \in Nat
        /\ i \in Nat /\ k \in Nat /\ m \in Nat
    BY EventsOf
  <1> QED  BY <1>1 DEF Earlier

\* The rank of a row is a place, and the later row has the higher one.
LEMMA Ranks ==
    ASSUME NEW rows \in Seq(ExitEvents)
    PROVE  /\ \A i \in 1..Len(rows) : Rank(rows, i) \in 1..Len(rows)
           /\ \A i, k \in 1..Len(rows) :
                 Earlier(rows, i, k) => Rank(rows, i) < Rank(rows, k)
  <1> DEFINE D == 1..Len(rows)
             B(i) == {k \in D : Earlier(rows, k, i)}
  <1>1. Len(rows) \in Nat /\ DOMAIN rows = D  BY EventsOf
  <1>2. IsFiniteSet(D) /\ Cardinality(D) = Len(rows)  BY <1>1, FirstNumbers
  <1>3. ASSUME NEW i \in D
        PROVE  /\ IsFiniteSet(B(i)) /\ Cardinality(B(i)) \in Nat
               /\ Cardinality(B(i)) <= Len(rows) - 1
    <2>1. i \notin B(i)  BY EarlierIsTotal
    <2>2. B(i) \subseteq D \ {i}  BY <2>1
    <2>3. IsFiniteSet(D \ {i}) /\ Cardinality(D \ {i}) = Len(rows) - 1  BY <1>2, FS_RemoveElement
    <2> HIDE DEF B, D
    <2>4. IsFiniteSet(B(i)) /\ Cardinality(B(i)) <= Cardinality(D \ {i})  BY <2>2, <2>3, FS_Subset
    <2> QED  BY <2>3, <2>4, FS_CardinalityType
  <1>4. \A i : Rank(rows, i) = Cardinality(B(i)) + 1  BY <1>1 DEF Rank
  <1>5. ASSUME NEW i \in D, NEW k \in D, Earlier(rows, i, k)
        PROVE  Cardinality(B(i)) < Cardinality(B(k))
    <2>1. i \notin B(i) /\ i \in B(k)  BY <1>5, EarlierIsTotal
    <2>2. B(i) \subseteq B(k)  BY <1>5, EarlierIsTransitive
    <2>3. IsFiniteSet(B(k)) /\ B(i) \in SUBSET B(k) /\ B(i) # B(k)  BY <1>3, <2>1, <2>2
    <2>4. Cardinality(B(i)) \in Nat /\ Cardinality(B(k)) \in Nat  BY <1>3
    <2> HIDE DEF B
    <2>5. /\ Cardinality(B(i)) <= Cardinality(B(k))
          /\ Cardinality(B(k)) # Cardinality(B(i))
      BY <2>3, FS_Subset
    <2> QED  BY <2>4, <2>5
  <1> HIDE DEF B
  <1>6. \A i \in D : Rank(rows, i) \in D  BY <1>1, <1>3, <1>4
  <1>7. \A i, k \in D : Earlier(rows, i, k) => Rank(rows, i) < Rank(rows, k)  BY <1>3, <1>4, <1>5
  <1> QED  BY <1>6, <1>7

Places(rows) == [n \in 1..Len(rows) |-> CHOOSE i \in 1..Len(rows) : Rank(rows, i) = n]

\* Rows in time: every row at one place, the earlier before the later.
LEMMA PlacesInTime ==
    ASSUME NEW rows \in Seq(ExitEvents)
    PROVE  /\ Places(rows) \in [1..Len(rows) -> 1..Len(rows)]
           /\ \A i \in 1..Len(rows) : \E n \in 1..Len(rows) : Places(rows)[n] = i
           /\ \A n, m \in 1..Len(rows) : Places(rows)[n] = Places(rows)[m] => n = m
           /\ \A n, m \in 1..Len(rows) :
                 n < m => Earlier(rows, Places(rows)[n], Places(rows)[m])
           /\ InTime(rows) \in Seq(ExitEvents) /\ Len(InTime(rows)) = Len(rows)
           /\ DOMAIN InTime(rows) = 1..Len(rows)
           /\ \A n \in 1..Len(rows) : InTime(rows)[n] = rows[Places(rows)[n]]
  <1>0. PICK p, N : p = Places(rows) /\ N = Len(rows)  OBVIOUS
  <1> DEFINE g == [i \in 1..N |-> Rank(rows, i)]
  <1>1. N \in Nat /\ DOMAIN rows = 1..N /\ \A i \in 1..N : rows[i] \in ExitEvents  BY <1>0, EventsOf
  <1>2. g \in [1..N -> 1..N] /\ \A i \in 1..N : g[i] = Rank(rows, i)  BY <1>0, Ranks
  <1>3. ASSUME NEW i \in 1..N, NEW k \in 1..N, g[i] = g[k]  PROVE i = k
    <2> SUFFICES ASSUME i # k  PROVE FALSE  OBVIOUS
    <2>1. Earlier(rows, i, k) \/ Earlier(rows, k, i)  BY <1>0, EarlierIsTotal
    <2>2. g[i] < g[k] \/ g[k] < g[i]  BY <1>0, <1>2, <2>1, Ranks
    <2>3. g[i] \in Nat /\ g[k] \in Nat  BY <1>2, <1>1
    <2> QED  BY <1>3, <2>2, <2>3
  <1>4. \A n \in 1..N : \E i \in 1..N : g[i] = n
    <2> HIDE DEF g
    <2> QED  BY <1>1, <1>2, <1>3, GivesEveryOne
  <1>5. \A n \in 1..N : p[n] \in 1..N /\ Rank(rows, p[n]) = n
    <2> SUFFICES ASSUME NEW n \in 1..N  PROVE p[n] \in 1..N /\ Rank(rows, p[n]) = n  OBVIOUS
    <2>1. p[n] = CHOOSE i \in 1..N : Rank(rows, i) = n  BY <1>0 DEF Places
    <2>2. \E i \in 1..N : Rank(rows, i) = n  BY <1>2, <1>4
    <2> QED  BY <2>1, <2>2
  <1>6. p \in [1..N -> 1..N]
    <2>1. p = [n \in 1..N |-> p[n]]  BY <1>0 DEF Places
    <2> QED  BY <2>1, <1>5
  <1>7. ASSUME NEW i \in 1..N  PROVE \E n \in 1..N : p[n] = i
    <2>1. g[i] \in 1..N /\ Rank(rows, p[g[i]]) = g[i] /\ p[g[i]] \in 1..N  BY <1>2, <1>5
    <2>2. g[p[g[i]]] = g[i]  BY <1>2, <2>1
    <2>3. p[g[i]] = i  BY <1>3, <2>1, <2>2
    <2> QED  BY <2>1, <2>3
  <1>8. \A n, m \in 1..N : p[n] = p[m] => n = m  BY <1>5
  <1>9. ASSUME NEW n \in 1..N, NEW m \in 1..N, n < m  PROVE Earlier(rows, p[n], p[m])
    <2>1. p[n] \in 1..N /\ p[m] \in 1..N /\ p[n] # p[m]  BY <1>5, <1>9
    <2>2. ~ Earlier(rows, p[m], p[n])
      <3> SUFFICES ASSUME Earlier(rows, p[m], p[n])  PROVE FALSE  OBVIOUS
      <3>1. Rank(rows, p[m]) < Rank(rows, p[n])  BY <1>0, <2>1, Ranks
      <3> QED  BY <1>5, <1>9, <3>1
    <2> QED  BY <1>0, <2>1, <2>2, EarlierIsTotal
  <1>10. /\ DOMAIN InTime(rows) = 1..N
         /\ \A n \in 1..N : InTime(rows)[n] = rows[p[n]]
         /\ InTime(rows) = [n \in 1..N |-> rows[p[n]]]
    BY <1>0, <1>1 DEF InTime, Places
  <1>11. InTime(rows) \in Seq(ExitEvents) /\ Len(InTime(rows)) = N
    <2>1. InTime(rows) \in [1..N -> ExitEvents]  BY <1>1, <1>5, <1>10
    <2> QED  BY <1>1, <2>1
  <1> QED  BY <1>0, <1>6, <1>7, <1>8, <1>9, <1>10, <1>11, Zenon

\* There is one way to put rows in time.
LEMMA OneOrder ==
    ASSUME NEW rows \in Seq(ExitEvents), NEW q \in [1..Len(rows) -> 1..Len(rows)],
           \A n, m \in 1..Len(rows) : n < m => Earlier(rows, q[n], q[m])
    PROVE  InTime(rows) = [n \in 1..Len(rows) |-> rows[q[n]]]
  <1>0. PICK N : N = Len(rows)  OBVIOUS
  <1>1. N \in Nat /\ DOMAIN rows = 1..N  BY <1>0, EventsOf
  <1> DEFINE g == [n \in 1..N |-> Rank(rows, q[n])]
  <1>2. g \in [1..N -> 1..N] /\ \A n \in 1..N : g[n] = Rank(rows, q[n])  BY <1>0, Ranks
  <1>3. \A n, m \in 1..N : n < m => g[n] < g[m]  BY <1>0, <1>2, Ranks
  <1>4. \A n \in 1..N : g[n] = n
    <2> HIDE DEF g
    <2> QED  BY <1>1, <1>2, <1>3, KeepsOrderMovesNone
  <1>5. PICK p : p = Places(rows)  OBVIOUS
  <1>6. /\ p \in [1..N -> 1..N] /\ \A i \in 1..N : \E n \in 1..N : p[n] = i
        /\ \A n, m \in 1..N : n < m => Earlier(rows, p[n], p[m])
    BY <1>0, <1>5, PlacesInTime
  <1> DEFINE h == [n \in 1..N |-> Rank(rows, p[n])]
  <1>7. h \in [1..N -> 1..N] /\ \A n \in 1..N : h[n] = Rank(rows, p[n])  BY <1>0, <1>6, Ranks
  <1>8. \A n, m \in 1..N : n < m => h[n] < h[m]  BY <1>0, <1>6, <1>7, Ranks
  <1>9. \A n \in 1..N : h[n] = n
    <2> HIDE DEF h
    <2> QED  BY <1>1, <1>7, <1>8, KeepsOrderMovesNone
  <1>10. \A n \in 1..N : p[n] = q[n]
    <2> SUFFICES ASSUME NEW n \in 1..N, p[n] # q[n]  PROVE FALSE  OBVIOUS
    <2>1. p[n] \in 1..N /\ q[n] \in 1..N  BY <1>0, <1>6
    <2>2. Rank(rows, p[n]) = n /\ Rank(rows, q[n]) = n  BY <1>2, <1>4, <1>7, <1>9
    <2>3. Earlier(rows, p[n], q[n]) \/ Earlier(rows, q[n], p[n])  BY <1>0, <2>1, EarlierIsTotal
    <2> QED  BY <1>0, <1>1, <2>1, <2>2, <2>3, Ranks
  <1>11. InTime(rows) = [n \in 1..N |-> InTime(rows)[n]]  BY <1>1 DEF InTime
  <1>12. \A n \in 1..N : InTime(rows)[n] = rows[p[n]]  BY <1>0, <1>5, PlacesInTime
  <1> QED  BY <1>0, <1>10, <1>11, <1>12

InOrder(rows) == \A i, k \in 1..Len(rows) : i < k => rows[i].time <= rows[k].time

\* Rows that stand in the order of time stay.
LEMMA InOrderStays ==
    ASSUME NEW rows \in Seq(ExitEvents), InOrder(rows)
    PROVE  InTime(rows) = rows
  <1>0. PICK N : N = Len(rows)  OBVIOUS
  <1>1. N \in Nat /\ DOMAIN rows = 1..N /\ \A i \in 1..N : rows[i].time \in Nat  BY <1>0, EventsOf
  <1> DEFINE q == [n \in 1..N |-> n]
  <1>2. q \in [1..N -> 1..N] /\ \A n \in 1..N : q[n] = n  OBVIOUS
  <1>3. ASSUME NEW n \in 1..N, NEW m \in 1..N, n < m  PROVE Earlier(rows, n, m)
    <2>1. rows[n].time <= rows[m].time  BY <1>0, <1>3 DEF InOrder
    <2> QED  BY <1>1, <1>3, <2>1 DEF Earlier
  <1>4. InTime(rows) = [n \in 1..N |-> rows[q[n]]]
    <2> HIDE DEF q
    <2> QED  BY <1>0, <1>2, <1>3, OneOrder
  <1>5. rows = [n \in 1..N |-> rows[n]]
    <2>1. rows \in [1..N -> ExitEvents]  BY <1>0, LenProperties
    <2> QED  BY <2>1
  <1> QED  BY <1>2, <1>4, <1>5

\* Rows in time stand in the order of time.
LEMMA InTimeInOrder ==
    ASSUME NEW rows \in Seq(ExitEvents)
    PROVE  InOrder(InTime(rows))
  <1>0. PICK N, p : N = Len(rows) /\ p = Places(rows)  OBVIOUS
  <1>1. /\ N \in Nat /\ p \in [1..N -> 1..N] /\ Len(InTime(rows)) = N
        /\ \A n \in 1..N : InTime(rows)[n] = rows[p[n]]
        /\ \A n, m \in 1..N : n < m => Earlier(rows, p[n], p[m])
        /\ \A i \in 1..N : rows[i].time \in Nat
    BY <1>0, PlacesInTime, EventsOf
  <1> SUFFICES ASSUME NEW i \in 1..N, NEW k \in 1..N, i < k
               PROVE  InTime(rows)[i].time <= InTime(rows)[k].time
    BY <1>1 DEF InOrder
  <1>2. Earlier(rows, p[i], p[k]) /\ p[i] \in 1..N /\ p[k] \in 1..N  BY <1>1
  <1>3. rows[p[i]].time <= rows[p[k]].time  BY <1>1, <1>2, SMTT(20) DEF Earlier
  <1> QED  BY <1>1, <1>3

\* Rows that are all later than others follow them in time.
LEMMA InTimeConcat ==
    ASSUME NEW a \in Seq(ExitEvents), NEW b \in Seq(ExitEvents),
           \A i \in 1..Len(a), k \in 1..Len(b) : a[i].time < b[k].time
    PROVE  InTime(a \o b) = InTime(a) \o InTime(b)
  <1>0. PICK A, B, s, p, q :
            A = Len(a) /\ B = Len(b) /\ s = a \o b /\ p = Places(a) /\ q = Places(b)
    OBVIOUS
  <1>1. A \in Nat /\ B \in Nat  BY <1>0, EventsOf
  <1>2. /\ s \in Seq(ExitEvents) /\ Len(s) = A + B
        /\ \A i \in 1..(A + B) : s[i] = IF i <= A THEN a[i] ELSE b[i - A]
    BY <1>0, ConcatProperties
  <1>3. /\ p \in [1..A -> 1..A] /\ \A n \in 1..A : InTime(a)[n] = a[p[n]]
        /\ \A n, m \in 1..A : n < m => Earlier(a, p[n], p[m])
        /\ InTime(a) \in Seq(ExitEvents) /\ Len(InTime(a)) = A
    BY <1>0, PlacesInTime
  <1>4. /\ q \in [1..B -> 1..B] /\ \A n \in 1..B : InTime(b)[n] = b[q[n]]
        /\ \A n, m \in 1..B : n < m => Earlier(b, q[n], q[m])
        /\ InTime(b) \in Seq(ExitEvents) /\ Len(InTime(b)) = B
    BY <1>0, PlacesInTime
  <1> DEFINE r == [n \in 1..(A + B) |-> IF n <= A THEN p[n] ELSE A + q[n - A]]
  <1>5. \A n \in 1..A : n \in 1..(A + B) /\ r[n] = p[n] /\ p[n] \in 1..A
                        /\ p[n] \in 1..(A + B) /\ s[p[n]] = a[p[n]]
    <2> SUFFICES ASSUME NEW n \in 1..A
                 PROVE  /\ n \in 1..(A + B) /\ r[n] = p[n] /\ p[n] \in 1..A
                        /\ p[n] \in 1..(A + B) /\ s[p[n]] = a[p[n]]
      OBVIOUS
    <2>1. n \in 1..(A + B) /\ n <= A  BY <1>1
    <2>2. p[n] \in 1..A  BY <1>3
    <2>3. p[n] \in 1..(A + B) /\ p[n] <= A  BY <1>1, <2>2
    <2> QED  BY <1>2, <2>1, <2>2, <2>3
  <1>6. \A n \in 1..(A + B) : ~ (n <= A) =>
            /\ n - A \in 1..B /\ q[n - A] \in 1..B /\ r[n] = A + q[n - A]
            /\ r[n] \in 1..(A + B) /\ ~ (r[n] <= A) /\ s[r[n]] = b[q[n - A]]
    <2> SUFFICES ASSUME NEW n \in 1..(A + B), ~ (n <= A)
                 PROVE  /\ n - A \in 1..B /\ q[n - A] \in 1..B /\ r[n] = A + q[n - A]
                        /\ r[n] \in 1..(A + B) /\ ~ (r[n] <= A) /\ s[r[n]] = b[q[n - A]]
      OBVIOUS
    <2>1. n - A \in 1..B  BY <1>1
    <2>2. q[n - A] \in 1..B  BY <1>4, <2>1
    <2>3. r[n] = A + q[n - A]  OBVIOUS
    <2> HIDE DEF r
    <2>4. r[n] \in 1..(A + B) /\ ~ (r[n] <= A) /\ r[n] - A = q[n - A]  BY <1>1, <2>2, <2>3
    <2> QED  BY <1>2, <2>1, <2>2, <2>3, <2>4
  <1>7. r \in [1..(A + B) -> 1..(A + B)]
    <2>1. \A n \in 1..(A + B) : r[n] \in 1..(A + B)
      <3> HIDE DEF r
      <3> SUFFICES ASSUME NEW n \in 1..(A + B)  PROVE r[n] \in 1..(A + B)  OBVIOUS
      <3>1. CASE n <= A
        <4>1. n \in 1..A  BY <1>1, <3>1
        <4> QED  BY <1>5, <4>1
      <3>2. CASE ~ (n <= A)  BY <1>6, <3>2
      <3> QED  BY <3>1, <3>2
    <2> QED  BY <2>1
  <1> HIDE DEF r
  <1>8. ASSUME NEW n \in 1..(A + B), NEW m \in 1..(A + B), n < m
        PROVE  Earlier(s, r[n], r[m])
    <2>1. CASE n <= A /\ m <= A
      <3>1. n \in 1..A /\ m \in 1..A  BY <1>1, <2>1
      <3>2. Earlier(a, p[n], p[m])  BY <1>3, <1>8, <3>1
      <3> QED  BY <1>5, <3>1, <3>2 DEF Earlier
    <2>2. CASE n <= A /\ ~ (m <= A)
      <3>1. n \in 1..A  BY <1>1, <2>2
      <3>2. a[p[n]].time < b[q[m - A]].time  BY <1>0, <1>5, <1>6, <2>2, <3>1
      <3>3. s[r[n]].time < s[r[m]].time  BY <1>5, <1>6, <2>2, <3>1, <3>2
      <3> QED  BY <3>3 DEF Earlier
    <2>3. CASE ~ (n <= A) /\ ~ (m <= A)
      <3>1. n - A \in 1..B /\ m - A \in 1..B /\ n - A < m - A  BY <1>1, <1>6, <1>8, <2>3
      <3>2. Earlier(b, q[n - A], q[m - A])  BY <1>4, <3>1
      <3>3. s[r[n]] = b[q[n - A]] /\ s[r[m]] = b[q[m - A]]  BY <1>6, <2>3
      <3>4. r[n] = A + q[n - A] /\ r[m] = A + q[m - A]  BY <1>6, <2>3
      <3>5. q[n - A] \in Nat /\ q[m - A] \in Nat
        <4>1. q[n - A] \in 1..B /\ q[m - A] \in 1..B  BY <1>6, <2>3
        <4> QED  BY <1>1, <4>1
      <3>6. q[n - A] < q[m - A] => r[n] < r[m]  BY <1>1, <3>4, <3>5
      <3> QED  BY <3>2, <3>3, <3>6 DEF Earlier
    <2>4. ~ (~ (n <= A) /\ m <= A)  BY <1>1, <1>8
    <2> QED  BY <2>1, <2>2, <2>3, <2>4
  <1>9. InTime(s) = [n \in 1..(A + B) |-> s[r[n]]]
    <2>1. r \in [1..Len(s) -> 1..Len(s)]  BY <1>2, <1>7, Zenon
    <2>2. \A n, m \in 1..Len(s) : n < m => Earlier(s, r[n], r[m])  BY <1>2, <1>8, Zenon
    <2>3. InTime(s) = [n \in 1..Len(s) |-> s[r[n]]]  BY <1>2, <2>1, <2>2, OneOrder
    <2> QED  BY <1>2, <2>3, Zenon
  <1>10. PICK z : z = InTime(a) \o InTime(b)  OBVIOUS
  <1>11. /\ z \in Seq(ExitEvents) /\ Len(z) = A + B
         /\ \A i \in 1..(A + B) : z[i] = IF i <= A THEN InTime(a)[i] ELSE InTime(b)[i - A]
    BY <1>3, <1>4, <1>10, ConcatProperties
  <1>12. z = [n \in 1..(A + B) |-> z[n]]
    <2>1. z \in [1..(A + B) -> ExitEvents]  BY <1>11, LenProperties
    <2> QED  BY <2>1
  <1>13. ASSUME NEW n \in 1..(A + B)  PROVE z[n] = s[r[n]]
    <2>1. CASE n <= A
      <3>1. n \in 1..A  BY <1>1, <2>1
      <3> QED  BY <1>3, <1>5, <1>11, <2>1, <3>1, SMTT(30)
    <2>2. CASE ~ (n <= A)  BY <1>4, <1>6, <1>11, <2>2, SMTT(20)
    <2> QED  BY <2>1, <2>2
  <1>14. InTime(s) = z  BY <1>9, <1>12, <1>13
  <1> QED  BY <1>0, <1>10, <1>14

(* The invariant. *)

Manifest == "p5_exit_manifest"
Ended == {"INTERRUPTED", "NOT_PRESENTED"}
Statuses == {Untold, "WAITING", "PRESENTED", "NORESPONSE", "CONFIRMED", "COMPLETED"} \cup Ended
Attempts == [number : Nat, at : {"ready", "driving", "leaving", "closing", "judging", "told"},
             ends : {Untold, "time", "early", "left", "collision", "error"}, raised : BOOLEAN, ran : BOOLEAN]
Offers == [status : Statuses, decision : Decisions, mode : {NoA, Manual}, automated : BOOLEAN,
           shown : BOOLEAN, closed : BOOLEAN, lateral : BOOLEAN,
           outcome : {Untold, "EXIT", "MISSED"}, inputs : Nat]

ResultTypes ==
    /\ attempt \in Attempts /\ offer \in Offers
    /\ spoken \in Seq(ExitEvents) /\ queued \in Seq(ExitEvents) /\ ledger \in Seq(ExitEvents)
    /\ losses \in Nat /\ host \in Nat

\* The status, the outcome and the decision of the opportunity hang together.
Hangs(o) ==
    /\ ~o.shown => /\ o.decision = Untold
                   /\ o.status \in {Untold, "WAITING", "INTERRUPTED", "NOT_PRESENTED"}
    /\ o.status = "NOT_PRESENTED" => ~o.shown
    /\ (o.status = "COMPLETED") <=> (o.outcome # Untold)

\* What an event says holds of the opportunity and of the run, at its end too.
IsSo(e, o, drive) ==
    /\ e.type # Manifest
    /\ e.type = "lc_presented" => o.shown /\ e.t0
    /\ e.type = "lc_decision" => o.decision # Untold
    /\ e.type = "lc_completed" => o.status = "COMPLETED" /\ e.outcome = o.outcome
    /\ e.type = "lc_finished" => o.status \in Ended
    /\ e.outcome \in {"EXIT", "MISSED"} => e.type = "lc_completed"
    /\ e.reason # Untold => o.status \in Ended
    /\ e.reason = "ERROR" => drive.raised
    /\ e.reason = "USER_EXIT" => drive.ends = "left"
    /\ e.reason \in {"MODE_CHANGED_AFTER_T0", "DRIVER_SIGNAL_PRIORITY"} => o.shown
    /\ e.decision # Untold => o.decision # Untold

Saying(s, type) == {i \in 1..Len(s) : s[i].type = type}
OnceOnly == {"lc_presented", "lc_decision", "lc_completed", "lc_finished"}

\* The events tell all that the opportunity came to, each once, the decision it has
\* later than those it had, its end later than what else has an outcome.
TellsAll(s, o) ==
    /\ o.shown => Saying(s, "lc_presented") # {}
    /\ o.status = "COMPLETED" => Saying(s, "lc_completed") # {}
    /\ o.decision # Untold => \E i \in 1..Len(s) : s[i].decision = o.decision
    /\ \A i, k \in 1..Len(s) : s[i].type \in OnceOnly /\ s[k].type = s[i].type => i = k
    /\ \A i \in 1..Len(s) :
         s[i].decision \notin {Untold, o.decision} =>
            \E k \in 1..Len(s) : s[k].decision = o.decision /\ s[i].time < s[k].time
    /\ \A i, k \in 1..Len(s) :
         s[k].type = "lc_completed" /\ s[i].outcome # Untold /\ i # k => Earlier(s, i, k)

Truly(s, o, drive) == TellsAll(s, o) /\ \A i \in 1..Len(s) : IsSo(s[i], o, drive)

SpokenInv ==
    /\ \A i \in 1..Len(spoken) : spoken[i].time <= host
    /\ Truly(spoken, offer, attempt)

RunInv ==
    /\ Hangs(offer)
    /\ attempt.at = "driving" => attempt.ends = Untold /\ ~attempt.raised
    /\ attempt.number = 0 => ledger = << >> /\ attempt.at = "ready"
    /\ attempt.at \in {"ready", "judging", "told"} => queued = << >>

\* The file and the queue hold what was said.
StoredInv ==
    /\ \A i \in 1..Len(ledger) :
         ledger[i].type = Manifest =>
            ledger[i].decision = Untold /\ ledger[i].outcome = Untold /\ ledger[i].reason = Untold
    /\ \A i \in 1..Len(queued) : \E k \in 1..Len(spoken) : queued[i] = spoken[k]

PlainInv ==
    attempt.number = 1 /\ ~attempt.raised /\ losses = 0 =>
        /\ Len(ledger) >= 1 /\ ledger[1].type = Manifest /\ ledger[1].time <= host
        /\ \A i \in 1..Len(spoken) : ledger[1].time < spoken[i].time
        /\ InTime(spoken) = Without(ledger, 1) \o InTime(queued)

ToldInv ==
    attempt.at = "told" =>
        told = [class |-> Class, decision |-> Repeated("decision"),
                outcome |-> Repeated("outcome")]

ResultInv == ResultTypes /\ SpokenInv /\ RunInv /\ StoredInv /\ PlainInv /\ ToldInv

(* One event more. *)

\* What was so of an opportunity and of a run stays so.
Follows(o, p, drive, after) ==
    /\ o.shown => p.shown
    /\ o.status = "COMPLETED" => p.status = "COMPLETED" /\ p.outcome = o.outcome
    /\ o.status \in Ended => p.status \in Ended
    /\ o.decision # Untold => p.decision # Untold
    /\ drive.raised => after.raised
    /\ drive.ends = "left" => after.ends = "left"

\* What is said once more was not said, and says what is new.
Adds(s, e, o, p) ==
    /\ e.decision \in {Untold, p.decision}
    /\ e.type = "lc_presented" => ~o.shown
    /\ e.type = "lc_decision" => o.decision = Untold
    /\ e.type = "lc_completed" => /\ o.status # "COMPLETED"
                                 /\ \A i \in 1..Len(s) : s[i].time <= e.time
    /\ e.type = "lc_finished" => \/ o.status \notin Ended
                                \/ \A i \in 1..Len(s) : s[i].type # "lc_finished"
    /\ e.outcome # Untold => o.status # "COMPLETED"
    /\ p.shown /\ ~o.shown => e.type = "lc_presented"
    /\ p.status = "COMPLETED" /\ o.status # "COMPLETED" => e.type = "lc_completed"
    /\ p.decision # o.decision =>
          /\ e.decision = p.decision
          /\ o.decision = Untold \/ \A i \in 1..Len(s) : s[i].time < e.time

LEMMA StaysSo ==
    ASSUME NEW e, NEW o, NEW p, NEW drive, NEW after, IsSo(e, o, drive), Follows(o, p, drive, after)
    PROVE  IsSo(e, p, after)
  BY DEF IsSo, Follows

\* An event more is as true as those before it.
LEMMA SayOne ==
    ASSUME NEW s \in Seq(ExitEvents), NEW e \in ExitEvents, NEW o, NEW p, NEW drive, NEW after,
           Truly(s, o, drive), Follows(o, p, drive, after), IsSo(e, p, after), Adds(s, e, o, p)
    PROVE  Truly(Append(s, e), p, after)
  <1>0. PICK z, N : z = Append(s, e) /\ N = Len(s)  OBVIOUS
  <1>1. /\ N \in Nat /\ z \in Seq(ExitEvents) /\ Len(z) = N + 1 /\ z[N + 1] = e
        /\ \A i \in 1..N : z[i] = s[i] /\ s[i].time \in Nat
    BY <1>0, EventsOf, AppendProperties
  <1>2. \A i \in 1..(N + 1) : i \in 1..N \/ i = N + 1  BY <1>1
  <1>3. \A i \in 1..N : i \in 1..(N + 1) /\ i < N + 1  BY <1>1
  <1>4. N + 1 \in 1..(N + 1)  BY <1>1
  <1>5. \A i \in 1..N : IsSo(s[i], o, drive) /\ IsSo(s[i], p, after)  BY <1>0, StaysSo DEF Truly
  <1>6. \A i \in 1..(N + 1) : IsSo(z[i], p, after)  BY <1>1, <1>2, <1>5
  <1>7. p.shown => \E i \in 1..(N + 1) : z[i].type = "lc_presented"
    <2>1. CASE p.shown /\ ~o.shown  BY <1>1, <1>4, <2>1 DEF Adds
    <2>2. CASE o.shown
      <3>1. PICK i \in 1..N : s[i].type = "lc_presented"  BY <1>0, <2>2 DEF Truly, TellsAll, Saying
      <3> QED  BY <1>1, <1>3, <3>1
    <2> QED  BY <2>1, <2>2
  <1>8. p.status = "COMPLETED" => \E i \in 1..(N + 1) : z[i].type = "lc_completed"
    <2>1. CASE p.status = "COMPLETED" /\ o.status # "COMPLETED"  BY <1>1, <1>4, <2>1 DEF Adds
    <2>2. CASE o.status = "COMPLETED"
      <3>1. PICK i \in 1..N : s[i].type = "lc_completed"  BY <1>0, <2>2 DEF Truly, TellsAll, Saying
      <3> QED  BY <1>1, <1>3, <3>1
    <2> QED  BY <2>1, <2>2
  <1>9. p.decision # Untold => \E i \in 1..(N + 1) : z[i].decision = p.decision
    <2>1. CASE p.decision # o.decision  BY <1>1, <1>4, <2>1 DEF Adds
    <2>2. CASE p.decision = o.decision /\ p.decision # Untold
      <3>1. PICK i \in 1..N : s[i].decision = o.decision  BY <1>0, <2>2 DEF Truly, TellsAll
      <3> QED  BY <1>1, <1>3, <2>2, <3>1
    <2> QED  BY <2>1, <2>2
  <1>10. ASSUME NEW i \in 1..N, s[i].type \in OnceOnly, e.type = s[i].type
         PROVE  FALSE
    <2>1. IsSo(s[i], o, drive)  BY <1>5
    <2> QED  BY <1>0, <1>10, <2>1 DEF Adds, IsSo, OnceOnly
  <1>11. ASSUME NEW i \in 1..(N + 1), NEW k \in 1..(N + 1),
                z[i].type \in OnceOnly, z[k].type = z[i].type
         PROVE  i = k
    <2>1. CASE i \in 1..N /\ k \in 1..N  BY <1>0, <1>1, <1>11, <2>1 DEF Truly, TellsAll
    <2>2. CASE i \in 1..N /\ k = N + 1  BY <1>1, <1>10, <1>11, <2>2
    <2>3. CASE i = N + 1 /\ k \in 1..N  BY <1>1, <1>10, <1>11, <2>3
    <2> QED  BY <1>2, <2>1, <2>2, <2>3
  <1>12. ASSUME NEW i \in 1..(N + 1), z[i].decision \notin {Untold, p.decision}
         PROVE  \E k \in 1..(N + 1) : z[k].decision = p.decision /\ z[i].time < z[k].time
    <2>1. i \in 1..N  BY <1>1, <1>2, <1>12 DEF Adds
    <2>2. z[i] = s[i]  BY <1>1, <2>1
    <2>3. CASE p.decision = o.decision
      <3>1. PICK k \in 1..N : s[k].decision = o.decision /\ s[i].time < s[k].time
        BY <1>0, <1>12, <2>1, <2>2, <2>3 DEF Truly, TellsAll
      <3> QED  BY <1>1, <1>3, <2>2, <2>3, <3>1
    <2>4. CASE p.decision # o.decision
      <3>1. IsSo(s[i], o, drive)  BY <1>5, <2>1
      <3>2. o.decision # Untold  BY <1>12, <2>2, <3>1 DEF IsSo
      <3>3. e.decision = p.decision /\ s[i].time < e.time  BY <1>0, <2>1, <2>4, <3>2 DEF Adds
      <3> QED  BY <1>1, <1>4, <2>2, <3>3
    <2> QED  BY <2>3, <2>4
  <1>13. ASSUME NEW i \in 1..(N + 1), NEW k \in 1..(N + 1),
                z[k].type = "lc_completed", z[i].outcome # Untold, i # k
         PROVE  Earlier(z, i, k)
    <2>1. CASE i \in 1..N /\ k \in 1..N
      <3>1. Earlier(s, i, k)  BY <1>0, <1>1, <1>13, <2>1 DEF Truly, TellsAll
      <3>2. z[i] = s[i] /\ z[k] = s[k]  BY <1>1, <2>1
      <3> QED  BY <3>1, <3>2 DEF Earlier
    <2>2. CASE i \in 1..N /\ k = N + 1
      <3>1. s[i].time <= e.time  BY <1>0, <1>1, <1>13, <2>2 DEF Adds
      <3>2. z[i] = s[i] /\ z[k] = e /\ i < k  BY <1>1, <1>3, <2>2
      <3>3. s[i].time \in Nat /\ e.time \in Nat  BY <1>1, <2>2 DEF ExitEvents
      <3> QED  BY <3>1, <3>2, <3>3 DEF Earlier
    <2>3. ~ (i = N + 1 /\ k \in 1..N)
      <3> SUFFICES ASSUME i = N + 1, k \in 1..N  PROVE FALSE  OBVIOUS
      <3>1. IsSo(s[k], o, drive) /\ z[k] = s[k] /\ z[i] = e  BY <1>1, <1>5
      <3> QED  BY <1>13, <3>1 DEF IsSo, Adds
    <2> QED  BY <1>2, <1>13, <2>1, <2>2, <2>3
  <1>14. TellsAll(z, p)
    <2>1. Len(z) = N + 1  BY <1>1
    <2>2. /\ p.shown => Saying(z, "lc_presented") # {}
          /\ p.status = "COMPLETED" => Saying(z, "lc_completed") # {}
      BY <1>7, <1>8, <2>1 DEF Saying
    <2> QED  BY <1>9, <1>11, <1>12, <1>13, <2>1, <2>2 DEF TellsAll
  <1> QED  BY <1>0, <1>1, <1>6, <1>14 DEF Truly

\* Nothing said is as true, of an opportunity that went on without news.
LEMMA SayNothing ==
    ASSUME NEW s, NEW o, NEW p, NEW drive, NEW after,
           Truly(s, o, drive), Follows(o, p, drive, after), p.decision = o.decision,
           p.shown => o.shown, p.status = "COMPLETED" => o.status = "COMPLETED"
    PROVE  Truly(s, p, after)
  <1>1. \A i \in 1..Len(s) : IsSo(s[i], p, after)  BY StaysSo DEF Truly
  <1>2. TellsAll(s, p)  BY DEF Truly, TellsAll
  <1> QED  BY <1>1, <1>2 DEF Truly

(* The queue and the file. *)

\* All rows but one.
LEMMA WithoutFacts ==
    ASSUME NEW rows \in Seq(ExitEvents), NEW k \in 1..Len(rows)
    PROVE  /\ Without(rows, k) \in Seq(ExitEvents) /\ Len(Without(rows, k)) = Len(rows) - 1
           /\ \A i \in 1..(Len(rows) - 1) :
                 /\ Without(rows, k)[i] = rows[IF i < k THEN i ELSE i + 1]
                 /\ (IF i < k THEN i ELSE i + 1) \in 1..Len(rows)
  <1>0. PICK N : N = Len(rows)  OBVIOUS
  <1>1. N \in Nat /\ N >= 1 /\ N - 1 \in Nat /\ \A i \in 1..N : rows[i] \in ExitEvents
    BY <1>0, EventsOf
  <1>2. \A i \in 1..(N - 1) : (IF i < k THEN i ELSE i + 1) \in 1..N  BY <1>1
  <1>3. Without(rows, k) = [i \in 1..(N - 1) |-> rows[IF i < k THEN i ELSE i + 1]]
    BY <1>0 DEF Without
  <1>4. Without(rows, k) \in [1..(N - 1) -> ExitEvents]  BY <1>1, <1>2, <1>3
  <1>5. Without(rows, k) \in Seq(ExitEvents) /\ Len(Without(rows, k)) = N - 1  BY <1>1, <1>4
  <1>6. \A i \in 1..(N - 1) : Without(rows, k)[i] = rows[IF i < k THEN i ELSE i + 1]  BY <1>3
  <1> QED  BY <1>0, <1>2, <1>5, <1>6

\* Of two sequences in a row the first loses its first.
LEMMA WithoutFirst ==
    ASSUME NEW a \in Seq(ExitEvents), NEW b \in Seq(ExitEvents), Len(a) >= 1
    PROVE  Without(a \o b, 1) = Without(a, 1) \o b
  <1>0. PICK A, B, s, w, z :
            A = Len(a) /\ B = Len(b) /\ s = a \o b /\ w = Without(a, 1) /\ z = w \o b
    OBVIOUS
  <1>1. A \in Nat /\ B \in Nat /\ A >= 1  BY <1>0, EventsOf
  <1>2. /\ s \in Seq(ExitEvents) /\ Len(s) = A + B
        /\ \A i \in 1..(A + B) : s[i] = IF i <= A THEN a[i] ELSE b[i - A]
    BY <1>0, ConcatProperties
  <1>3. 1 \in 1..Len(a)  BY <1>0, <1>1
  <1>4. /\ w \in Seq(ExitEvents) /\ Len(w) = A - 1
        /\ \A i \in 1..(A - 1) : w[i] = a[IF i < 1 THEN i ELSE i + 1]
    BY <1>0, <1>3, WithoutFacts
  <1>5. /\ z \in Seq(ExitEvents) /\ Len(z) = (A - 1) + B
        /\ \A i \in 1..((A - 1) + B) : z[i] = IF i <= A - 1 THEN w[i] ELSE b[i - (A - 1)]
    BY <1>0, <1>4, ConcatProperties
  <1>6. Without(s, 1) = [i \in 1..((A + B) - 1) |-> s[IF i < 1 THEN i ELSE i + 1]]
    <2>1. Without(s, 1) = [i \in 1..(Len(s) - 1) |-> s[IF i < 1 THEN i ELSE i + 1]]
      BY Zenon DEF Without
    <2>2. Len(s) - 1 = (A + B) - 1  BY <1>1, <1>2
    <2> QED  BY <2>1, <2>2, Zenon
  <1>7. z = [i \in 1..((A - 1) + B) |-> z[i]]
    <2>1. z \in [1..((A - 1) + B) -> ExitEvents]  BY <1>5, LenProperties
    <2> QED  BY <2>1
  <1>8. (A + B) - 1 = (A - 1) + B  BY <1>1
  <1>9. ASSUME NEW i \in 1..((A - 1) + B)
        PROVE  z[i] = s[IF i < 1 THEN i ELSE i + 1]
    <2>1. i + 1 \in 1..(A + B) /\ ~ (i < 1) /\ i \in Nat  BY <1>1
    <2>2. CASE i <= A - 1
      <3>1. i \in 1..(A - 1) /\ i + 1 <= A  BY <1>1, <2>1, <2>2
      <3> QED  BY <1>2, <1>4, <1>5, <2>1, <2>2, <3>1
    <2>3. CASE ~ (i <= A - 1)
      <3>1. ~ (i + 1 <= A) /\ (i + 1) - A = i - (A - 1)  BY <1>1, <2>1, <2>3
      <3> QED  BY <1>2, <1>5, <2>1, <2>3, <3>1
    <2> QED  BY <2>2, <2>3
  <1>10. Without(s, 1) = z  BY <1>6, <1>7, <1>8, <1>9
  <1> QED  BY <1>0, <1>10

\* Rows in time are the same rows.
LEMMA InTimeHas ==
    ASSUME NEW rows \in Seq(ExitEvents)
    PROVE  /\ InTime(rows) \in Seq(ExitEvents) /\ Len(InTime(rows)) = Len(rows)
           /\ \A i \in 1..Len(rows) : \E k \in 1..Len(rows) : InTime(rows)[i] = rows[k]
           /\ \A i \in 1..Len(rows) : \E k \in 1..Len(rows) : InTime(rows)[k] = rows[i]
  <1>0. PICK p, N : p = Places(rows) /\ N = Len(rows)  OBVIOUS
  <1>1. /\ p \in [1..N -> 1..N] /\ \A i \in 1..N : \E n \in 1..N : p[n] = i
        /\ \A n \in 1..N : InTime(rows)[n] = rows[p[n]]
        /\ InTime(rows) \in Seq(ExitEvents) /\ Len(InTime(rows)) = N
    BY <1>0, PlacesInTime
  <1>2. ASSUME NEW i \in 1..N  PROVE \E k \in 1..N : InTime(rows)[i] = rows[k]  BY <1>1
  <1>3. ASSUME NEW i \in 1..N  PROVE \E k \in 1..N : InTime(rows)[k] = rows[i]
    <2>1. PICK n \in 1..N : p[n] = i  BY <1>1
    <2> QED  BY <1>1, <2>1
  <1> QED  BY <1>0, <1>1, <1>2, <1>3

LEMMA NoRows == << >> \in Seq(ExitEvents) /\ Len(<< >>) = 0 /\ InTime(<< >>) = << >>
  <1>1. << >> \in Seq(ExitEvents) /\ Len(<< >>) = 0  BY EmptySeq
  <1>2. InOrder(<< >>)  BY <1>1 DEF InOrder
  <1> QED  BY <1>1, <1>2, InOrderStays

\* What is said later waits behind what was said.
LEMMA EmitKeeps ==
    ASSUME ResultTypes, SpokenInv, StoredInv, PlainInv, NEW ev \in Seq(ExitEvents), Emit(ev),
           \A i \in 1..Len(ev) : host < ev[i].time /\ ev[i].time <= host',
           host' \in Nat, host <= host', ledger' = ledger, losses' = losses,
           attempt'.number = attempt.number, attempt'.raised = attempt.raised
    PROVE  /\ spoken' \in Seq(ExitEvents) /\ queued' \in Seq(ExitEvents)
           /\ \A i \in 1..Len(spoken') : spoken'[i].time <= host'
           /\ StoredInv' /\ PlainInv'
  <1>0. PICK s, q, s2, q2, S, Q, E :
            /\ s = spoken /\ q = queued /\ s2 = spoken' /\ q2 = queued'
            /\ S = Len(spoken) /\ Q = Len(queued) /\ E = Len(ev)
    OBVIOUS
  <1>1. /\ s \in Seq(ExitEvents) /\ q \in Seq(ExitEvents) /\ ledger \in Seq(ExitEvents)
        /\ host \in Nat /\ s2 = s \o ev /\ q2 = q \o ev
    BY <1>0 DEF ResultTypes, Emit
  <1>2. S \in Nat /\ Q \in Nat /\ E \in Nat  BY <1>0, <1>1, EventsOf
  <1>3. /\ s2 \in Seq(ExitEvents) /\ Len(s2) = S + E
        /\ \A i \in 1..(S + E) : s2[i] = IF i <= S THEN s[i] ELSE ev[i - S]
    BY <1>0, <1>1, ConcatProperties
  <1>4. /\ q2 \in Seq(ExitEvents) /\ Len(q2) = Q + E
        /\ \A i \in 1..(Q + E) : q2[i] = IF i <= Q THEN q[i] ELSE ev[i - Q]
    BY <1>0, <1>1, ConcatProperties
  <1>5. /\ \A i \in 1..S : s[i].time <= host /\ s[i].time \in Nat
        /\ \A i \in 1..E : ev[i].time \in Nat
    BY <1>0, <1>1, EventsOf DEF SpokenInv
  <1>6. \A i \in 1..S : i \in 1..(S + E) /\ s2[i] = s[i]  BY <1>2, <1>3
  <1>7. \A i \in 1..E : S + i \in 1..(S + E) /\ s2[S + i] = ev[i]
    <2> SUFFICES ASSUME NEW i \in 1..E  PROVE S + i \in 1..(S + E) /\ s2[S + i] = ev[i]  OBVIOUS
    <2>1. S + i \in 1..(S + E) /\ ~ (S + i <= S) /\ (S + i) - S = i  BY <1>2
    <2> QED  BY <1>3, <2>1
  <1>8. ASSUME NEW i \in 1..(S + E)
        PROVE  i \in 1..S \/ (~ (i <= S) /\ i - S \in 1..E)
    BY <1>2
  <1>9. \A i \in 1..(S + E) : s2[i].time <= host'
    <2> SUFFICES ASSUME NEW i \in 1..(S + E)  PROVE s2[i].time <= host'  OBVIOUS
    <2>1. CASE i \in 1..S
      <3>1. s2[i] = s[i] /\ s[i].time \in Nat /\ s[i].time <= host  BY <1>5, <1>6, <2>1
      <3> QED  BY <1>1, <3>1
    <2>2. CASE ~ (i <= S) /\ i - S \in 1..E  BY <1>0, <1>3, <2>2
    <2> QED  BY <1>8, <2>1, <2>2
  <1>10. \A i \in 1..Q : \E k \in 1..S : q[i] = s[k]  BY <1>0 DEF StoredInv
  <1>11. \A i \in 1..(Q + E) : \E k \in 1..(S + E) : q2[i] = s2[k]
    <2> SUFFICES ASSUME NEW i \in 1..(Q + E)  PROVE \E k \in 1..(S + E) : q2[i] = s2[k]  OBVIOUS
    <2>1. CASE i <= Q
      <3>1. i \in 1..Q  BY <1>2, <2>1
      <3>2. PICK k \in 1..S : q[i] = s[k]  BY <1>10, <3>1
      <3> QED  BY <1>4, <1>6, <2>1, <3>2
    <2>2. CASE ~ (i <= Q)
      <3>1. i - Q \in 1..E  BY <1>2, <2>2
      <3> QED  BY <1>4, <1>7, <2>2, <3>1
    <2> QED  BY <2>1, <2>2
  <1>12. StoredInv'
    <2>1. /\ \A i \in 1..Len(ledger') :
               ledger'[i].type = Manifest =>
                  ledger'[i].decision = Untold /\ ledger'[i].outcome = Untold
                  /\ ledger'[i].reason = Untold
      BY DEF StoredInv
    <2>2. \A i \in 1..Len(queued') : \E k \in 1..Len(spoken') : queued'[i] = spoken'[k]
      BY <1>0, <1>3, <1>4, <1>11
    <2> QED  BY <2>1, <2>2 DEF StoredInv
  <1>13. ASSUME attempt.number = 1 /\ ~attempt.raised /\ losses = 0
         PROVE  /\ Len(ledger) >= 1 /\ ledger[1].type = Manifest /\ ledger[1].time <= host'
                /\ \A i \in 1..(S + E) : ledger[1].time < s2[i].time
                /\ InTime(s2) = Without(ledger, 1) \o InTime(q2)
    <2>1. /\ Len(ledger) >= 1 /\ ledger[1].type = Manifest /\ ledger[1].time <= host
          /\ \A i \in 1..S : ledger[1].time < s[i].time
          /\ InTime(s) = Without(ledger, 1) \o InTime(q)
      BY <1>0, <1>13 DEF PlainInv
    <2>2. 1 \in 1..Len(ledger) /\ ledger[1].time \in Nat  BY <1>1, <2>1, EventsOf
    <2>3. \A i \in 1..(S + E) : ledger[1].time < s2[i].time
      <3> SUFFICES ASSUME NEW i \in 1..(S + E)  PROVE ledger[1].time < s2[i].time  OBVIOUS
      <3>1. CASE i \in 1..S  BY <1>6, <2>1, <3>1
      <3>2. CASE ~ (i <= S) /\ i - S \in 1..E
        <4>1. host < ev[i - S].time /\ ev[i - S].time \in Nat /\ s2[i] = ev[i - S]
          BY <1>0, <1>3, <1>5, <3>2
        <4> QED  BY <1>1, <2>1, <2>2, <4>1, SMTT(20)
      <3> QED  BY <1>8, <3>1, <3>2
    <2>4. \A i \in 1..S, k \in 1..E : s[i].time < ev[k].time
      <3> SUFFICES ASSUME NEW i \in 1..S, NEW k \in 1..E  PROVE s[i].time < ev[k].time  OBVIOUS
      <3>1. s[i].time \in Nat /\ s[i].time <= host /\ ev[k].time \in Nat  BY <1>5
      <3>2. host < ev[k].time  BY <1>0
      <3> QED  BY <1>1, <3>1, <3>2, SMTT(20)
    <2>5. \A i \in 1..Q, k \in 1..E : q[i].time < ev[k].time  BY <1>10, <2>4
    <2>6. InTime(s2) = InTime(s) \o InTime(ev)  BY <1>0, <1>1, <2>4, InTimeConcat
    <2>7. InTime(q2) = InTime(q) \o InTime(ev)  BY <1>0, <1>1, <2>5, InTimeConcat
    <2>8. PICK w, x, y : w = Without(ledger, 1) /\ x = InTime(q) /\ y = InTime(ev)  OBVIOUS
    <2>9. w \in Seq(ExitEvents) /\ x \in Seq(ExitEvents) /\ y \in Seq(ExitEvents)
      BY <1>1, <2>2, <2>8, WithoutFacts, InTimeHas
    <2>10. (w \o x) \o y = w \o (x \o y)  BY <2>9, ConcatThree, Zenon
    <2>11. InTime(s2) = w \o InTime(q2)  BY <2>1, <2>6, <2>7, <2>8, <2>10, Zenon
    <2>12. ledger[1].time <= host'  BY <1>1, <2>1, <2>2
    <2> QED  BY <2>1, <2>3, <2>8, <2>11, <2>12, Zenon
  <1>14. PlainInv'
    <2> SUFFICES ASSUME attempt'.number = 1, ~attempt'.raised, losses' = 0
                 PROVE  /\ Len(ledger') >= 1 /\ ledger'[1].type = Manifest
                        /\ ledger'[1].time <= host'
                        /\ \A i \in 1..Len(spoken') : ledger'[1].time < spoken'[i].time
                        /\ InTime(spoken') = Without(ledger', 1) \o InTime(queued')
      BY DEF PlainInv
    <2>1. attempt.number = 1 /\ ~attempt.raised /\ losses = 0  OBVIOUS
    <2> QED  BY <1>0, <1>3, <1>13, <2>1, Zenon
  <1> QED  BY <1>0, <1>3, <1>4, <1>9, <1>12, <1>14, Zenon

\* What a row of the manifest carries.
Bare(row) ==
    row.type = Manifest =>
        row.decision = Untold /\ row.outcome = Untold /\ row.reason = Untold

\* What the file gets of rows that are written; all of them when it lost none so far.
LEMMA Written ==
    ASSUME ledger \in Seq(ExitEvents), losses \in Nat, NEW rows \in Seq(ExitEvents),
           WriteRows(rows)
    PROVE  /\ losses' \in Nat
           /\ \E kept \in Seq(ExitEvents) :
                /\ ledger' = ledger \o kept
                /\ losses' = 0 => losses = 0 /\ kept = rows
                /\ \A i \in 1..Len(kept) : \E k \in 1..Len(rows) : kept[i] = rows[k]
  <1>0. DOMAIN rows = 1..Len(rows) /\ Len(rows) \in Nat  BY EventsOf
  <1>1. PICK kept \in KeptOf(rows) : ledger' = ledger \o kept.rows /\ losses' = losses + kept.lost
    BY DEF WriteRows
  <1>2. CASE kept = [rows |-> rows, lost |-> 0]
    <2>1. kept.rows = rows /\ kept.lost = 0  BY <1>2
    <2>2. \A i \in 1..Len(rows) : \E k \in 1..Len(rows) : rows[i] = rows[k]  OBVIOUS
    <2>3. losses' = losses /\ ledger' = ledger \o rows  BY <1>1, <2>1
    <2> QED  BY <2>2, <2>3
  <1>3. ASSUME NEW k \in DOMAIN rows, kept = [rows |-> Without(rows, k), lost |-> 1]
        PROVE  /\ losses' \in Nat
               /\ \E n \in Seq(ExitEvents) :
                    /\ ledger' = ledger \o n
                    /\ losses' = 0 => losses = 0 /\ n = rows
                    /\ \A i \in 1..Len(n) : \E m \in 1..Len(rows) : n[i] = rows[m]
    <2>1. kept.rows = Without(rows, k) /\ kept.lost = 1  BY <1>3
    <2>2. losses' \in Nat /\ losses' # 0 /\ ledger' = ledger \o Without(rows, k)  BY <1>1, <2>1
    <2>3. PICK n : n = Without(rows, k)  OBVIOUS
    <2>4. k \in 1..Len(rows)  BY <1>0
    <2>5. /\ n \in Seq(ExitEvents) /\ Len(n) = Len(rows) - 1
          /\ \A i \in 1..(Len(rows) - 1) :
                /\ n[i] = rows[IF i < k THEN i ELSE i + 1]
                /\ (IF i < k THEN i ELSE i + 1) \in 1..Len(rows)
      BY <2>3, <2>4, WithoutFacts
    <2>6. \A i \in 1..Len(n) : \E m \in 1..Len(rows) : n[i] = rows[m]  BY <2>5
    <2> QED  BY <2>2, <2>3, <2>5, <2>6
  <1>4. kept = [rows |-> rows, lost |-> 0]
          \/ \E k \in DOMAIN rows : kept = [rows |-> Without(rows, k), lost |-> 1]
    BY <1>1 DEF KeptOf
  <1> QED  BY <1>2, <1>3, <1>4

\* The file stays what it is with rows that say no more than they may.
LEMMA BareStays ==
    ASSUME ledger \in Seq(ExitEvents), NEW kept \in Seq(ExitEvents), ledger' = ledger \o kept,
           \A i \in 1..Len(ledger) : Bare(ledger[i]),
           \A i \in 1..Len(kept) : Bare(kept[i])
    PROVE  ledger' \in Seq(ExitEvents) /\ \A i \in 1..Len(ledger') : Bare(ledger'[i])
  <1>0. PICK l, l2, L, K : l = ledger /\ l2 = ledger' /\ L = Len(ledger) /\ K = Len(kept)  OBVIOUS
  <1>1. L \in Nat /\ K \in Nat  BY <1>0, EventsOf
  <1>2. /\ l2 \in Seq(ExitEvents) /\ Len(l2) = L + K
        /\ \A i \in 1..(L + K) : l2[i] = IF i <= L THEN l[i] ELSE kept[i - L]
    BY <1>0, ConcatProperties
  <1>3. ASSUME NEW i \in 1..(L + K)  PROVE Bare(l2[i])
    <2>1. CASE i <= L
      <3>1. i \in 1..L  BY <1>1, <2>1
      <3> QED  BY <1>0, <1>2, <2>1, <3>1
    <2>2. CASE ~ (i <= L)
      <3>1. i - L \in 1..K  BY <1>1, <2>2
      <3> QED  BY <1>0, <1>2, <2>2, <3>1
    <2> QED  BY <2>1, <2>2
  <1> QED  BY <1>0, <1>2, <1>3

LEMMA StoredIsBare ==
    StoredInv <=> /\ \A i \in 1..Len(ledger) : Bare(ledger[i])
                  /\ \A i \in 1..Len(queued) : \E k \in 1..Len(spoken) : queued[i] = spoken[k]
  BY DEF StoredInv, Bare

\* A flush moves what waits to the file, in time, or loses a row of it.
LEMMA FlushKeeps ==
    ASSUME ResultTypes, SpokenInv, StoredInv, PlainInv, WriteRows(InTime(queued)),
           queued' = << >>, spoken' = spoken, host' = host,
           attempt'.number = attempt.number, attempt'.raised = attempt.raised
    PROVE  /\ ledger' \in Seq(ExitEvents) /\ losses' \in Nat
           /\ StoredInv' /\ PlainInv'
  <1>0. PICK q, Q : q = InTime(queued) /\ Q = Len(queued)  OBVIOUS
  <1>1. /\ spoken \in Seq(ExitEvents) /\ queued \in Seq(ExitEvents)
        /\ ledger \in Seq(ExitEvents) /\ losses \in Nat
    BY DEF ResultTypes
  <1>2. /\ q \in Seq(ExitEvents) /\ Len(q) = Q
        /\ \A i \in 1..Q : \E k \in 1..Q : q[i] = queued[k]
    BY <1>0, <1>1, InTimeHas
  <1>3. losses' \in Nat /\ \E kept \in Seq(ExitEvents) :
          /\ ledger' = ledger \o kept
          /\ losses' = 0 => losses = 0 /\ kept = q
          /\ \A i \in 1..Len(kept) : \E k \in 1..Len(q) : kept[i] = q[k]
    <2>1. WriteRows(q)  BY <1>0
    <2> QED  BY <1>1, <1>2, <2>1, Written
  <1>4. PICK kept \in Seq(ExitEvents) :
          /\ ledger' = ledger \o kept
          /\ losses' = 0 => losses = 0 /\ kept = q
          /\ \A i \in 1..Len(kept) : \E k \in 1..Q : kept[i] = q[k]
    BY <1>2, <1>3
  <1>5. ASSUME NEW i \in 1..Len(kept)  PROVE Bare(kept[i])
    <2>1. PICK k \in 1..Q : kept[i] = q[k]  BY <1>4
    <2>2. PICK m \in 1..Q : q[k] = queued[m]  BY <1>2
    <2>3. PICK n \in 1..Len(spoken) : queued[m] = spoken[n]  BY <1>0 DEF StoredInv
    <2>4. spoken[n].type # Manifest  BY DEF SpokenInv, Truly, IsSo
    <2> QED  BY <2>1, <2>2, <2>3, <2>4 DEF Bare
  <1>6. ledger' \in Seq(ExitEvents) /\ \A i \in 1..Len(ledger') : Bare(ledger'[i])
    BY <1>1, <1>4, <1>5, BareStays, StoredIsBare
  <1>7. StoredInv'
    <2>1. \A i \in 1..Len(queued') : \E k \in 1..Len(spoken') : queued'[i] = spoken'[k]  BY NoRows
    <2> QED  BY <1>6, <2>1 DEF StoredInv, Bare
  <1>8. PlainInv'
    <2> SUFFICES ASSUME attempt'.number = 1, ~attempt'.raised, losses' = 0
                 PROVE  /\ Len(ledger') >= 1 /\ ledger'[1].type = Manifest
                        /\ ledger'[1].time <= host'
                        /\ \A i \in 1..Len(spoken') : ledger'[1].time < spoken'[i].time
                        /\ InTime(spoken') = Without(ledger', 1) \o InTime(queued')
      BY DEF PlainInv
    <2>1. attempt.number = 1 /\ ~attempt.raised /\ losses = 0 /\ ledger' = ledger \o q  BY <1>4
    <2>2. /\ Len(ledger) >= 1 /\ ledger[1].type = Manifest /\ ledger[1].time <= host
          /\ \A i \in 1..Len(spoken) : ledger[1].time < spoken[i].time
          /\ InTime(spoken) = Without(ledger, 1) \o q
      BY <1>0, <2>1 DEF PlainInv
    <2>3. /\ ledger'[1] = ledger[1] /\ Len(ledger') >= 1
      <3>1. PICK l, l2 : l = ledger /\ l2 = ledger'  OBVIOUS
      <3>2. l \in Seq(ExitEvents) /\ l2 = l \o q  BY <1>1, <2>1, <3>1, Zenon
      <3>3. Len(l) \in Nat /\ Len(q) \in Nat /\ Len(l) >= 1  BY <1>2, <2>2, <3>1, <3>2, EventsOf
      <3>4. PICK L, K : L = Len(l) /\ K = Len(q)  OBVIOUS
      <3>5. /\ Len(l2) = L + K
            /\ \A i \in 1..(L + K) : l2[i] = IF i <= L THEN l[i] ELSE q[i - L]
        <4>1. q \in Seq(ExitEvents) /\ l \in Seq(ExitEvents) /\ l2 = l \o q  BY <1>2, <3>2
        <4> QED  BY <3>4, <4>1, ConcatProperties
      <3>6. l2[1] = l[1] /\ Len(l2) >= 1  BY <3>3, <3>4, <3>5
      <3> QED  BY <3>1, <3>6, Zenon
    <2>4. PICK w : w = Without(ledger, 1) \o q  OBVIOUS
    <2>5. Without(ledger', 1) = w  BY <1>1, <1>2, <2>1, <2>2, <2>4, WithoutFirst
    <2>6. w \in Seq(ExitEvents)
      <3>1. 1 \in 1..Len(ledger)
        <4>1. Len(ledger) \in Nat  BY <1>1, EventsOf
        <4> QED  BY <2>2, <4>1
      <3>2. Without(ledger, 1) \in Seq(ExitEvents)  BY <1>1, <3>1, WithoutFacts
      <3> QED  BY <1>2, <2>4, <3>2, ConcatProperties
    <2>7. w \o << >> = w  BY <2>6, ConcatEmptySeq
    <2>8. InTime(spoken') = Without(ledger', 1) \o InTime(queued')
      BY <2>2, <2>4, <2>5, <2>7, NoRows, Zenon
    <2> QED  BY <2>2, <2>3, <2>8, Zenon
  <1> QED  BY <1>3, <1>6, <1>7, <1>8

(* The coordinator's steps. *)

Within(before, until) == {e \in ExitEvents : before < e.time /\ e.time <= until}

\* Events of a while are events.
LEMMA EventsBetween ==
    ASSUME NEW a, NEW b, NEW ev \in Seq(Within(a, b))
    PROVE  /\ ev \in Seq(ExitEvents)
           /\ \A i \in 1..Len(ev) : a < ev[i].time /\ ev[i].time <= b
  <1>1. Within(a, b) \subseteq ExitEvents  BY DEF Within
  <1>2. \A i \in 1..Len(ev) : ev[i] \in Within(a, b)  BY ElementOfSeq
  <1>3. \A i \in 1..Len(ev) : a < ev[i].time /\ ev[i].time <= b  BY <1>2 DEF Within
  <1>4. ev \in Seq(ExitEvents)  BY <1>1, SeqMonotonic
  <1> QED  BY <1>3, <1>4

\* Nothing said, or one event said.
LEMMA SayMaybe ==
    ASSUME NEW s \in Seq(ExitEvents), NEW ev, NEW o, NEW p, NEW drive, NEW after,
           NEW z \in Nat, NEW u \in Nat, z <= u,
           \A i \in 1..Len(s) : s[i].time <= z,
           Truly(s, o, drive), Follows(o, p, drive, after),
           \/ /\ ev = << >> /\ p.decision = o.decision /\ (p.shown => o.shown)
              /\ p.status = "COMPLETED" => o.status = "COMPLETED"
           \/ \E e \in ExitEvents : ev = <<e>> /\ e.time <= u /\ IsSo(e, p, after) /\ Adds(s, e, o, p)
    PROVE  /\ Truly(s \o ev, p, after) /\ s \o ev \in Seq(ExitEvents)
           /\ \A i \in 1..Len(s \o ev) : (s \o ev)[i].time <= u
  <1>1. CASE /\ ev = << >> /\ p.decision = o.decision /\ (p.shown => o.shown)
             /\ p.status = "COMPLETED" => o.status = "COMPLETED"
    <2>1. s \o ev = s  BY <1>1, ConcatEmptySeq
    <2>2. Truly(s, p, after)  BY <1>1, SayNothing
    <2>3. \A i \in 1..Len(s) : s[i].time <= u  BY EventsOf
    <2> QED  BY <2>1, <2>2, <2>3, Zenon
  <1>2. ASSUME NEW e \in ExitEvents, ev = <<e>>, e.time <= u, IsSo(e, p, after), Adds(s, e, o, p)
        PROVE  /\ Truly(s \o ev, p, after) /\ s \o ev \in Seq(ExitEvents)
               /\ \A i \in 1..Len(s \o ev) : (s \o ev)[i].time <= u
    <2>1. s \o ev = Append(s, e)  BY <1>2, AppendIsConcat
    <2>2. Truly(Append(s, e), p, after)  BY <1>2, SayOne
    <2>3. PICK r, N : r = Append(s, e) /\ N = Len(s)  OBVIOUS
    <2>4. /\ N \in Nat /\ r \in Seq(ExitEvents) /\ Len(r) = N + 1 /\ r[N + 1] = e
          /\ \A i \in 1..N : r[i] = s[i] /\ s[i].time \in Nat /\ s[i].time <= z
      BY <2>3, EventsOf, AppendProperties
    <2>5. \A i \in 1..(N + 1) : i \in 1..N \/ i = N + 1  BY <2>4
    <2>6. \A i \in 1..Len(r) : r[i].time <= u  BY <1>2, <2>4, <2>5
    <2> QED  BY <2>1, <2>2, <2>3, <2>4, <2>6, Zenon
  <1> QED  BY <1>1, <1>2

\* What is said by a step of the coordinator keeps the invariant.
LEMMA StepSays ==
    ASSUME ResultInv, NEW ev \in Seq(Within(host, host')), Emit(ev), host' \in Nat,
           host <= host', ledger' = ledger, losses' = losses, attempt' \in Attempts,
           attempt.at # "ready", attempt'.at \notin {"ready", "judging", "told"},
           attempt'.at = "driving" => attempt'.ends = Untold /\ ~attempt'.raised,
           attempt'.number = attempt.number, attempt'.raised = attempt.raised,
           offer' \in Offers, Hangs(offer'), Truly(spoken \o ev, offer', attempt')
    PROVE  ResultInv'
  <1>1. ev \in Seq(ExitEvents) /\ \A i \in 1..Len(ev) : host < ev[i].time /\ ev[i].time <= host'
    BY EventsBetween
  <1>2. /\ spoken' \in Seq(ExitEvents) /\ queued' \in Seq(ExitEvents)
        /\ \A i \in 1..Len(spoken') : spoken'[i].time <= host'
        /\ StoredInv' /\ PlainInv'
    BY <1>1, EmitKeeps DEF ResultInv
  <1>3. ResultTypes'  BY <1>2 DEF ResultInv, ResultTypes
  <1>4. SpokenInv'
    <2>1. spoken' = spoken \o ev  BY DEF Emit
    <2> QED  BY <1>2, <2>1 DEF SpokenInv
  <1>5. RunInv'  BY DEF ResultInv, RunInv
  <1>6. ToldInv'  BY DEF ToldInv
  <1> QED  BY <1>2, <1>3, <1>4, <1>5, <1>6 DEF ResultInv

\* What the coordinator says is an event.
LEMMA EventIs ==
    ASSUME NEW o \in Offers, NEW type \in EventTypes, NEW outcome \in Outcomes,
           NEW why \in Reasons, NEW time \in Nat
    PROVE  /\ ExitEvent(o, type, outcome, why, time) \in ExitEvents
           /\ ExitEvent(o, type, outcome, why, time) =
                [type |-> type, decision |-> o.decision, t0 |-> o.shown, outcome |-> outcome,
                 reason |-> why, time |-> time]
  <1>1. o.decision \in Decisions /\ o.shown \in BOOLEAN  BY DEF Offers
  <1> QED  BY <1>1 DEF ExitEvent, ExitEvents

\* A step that says one thing.
LEMMA StepSaysOne ==
    ASSUME ResultInv, NEW e \in ExitEvents, Emit(<<e>>), host' = host + 1, e.time = host',
           ledger' = ledger, losses' = losses, attempt' = attempt,
           attempt.at = "driving", offer' \in Offers, Hangs(offer'),
           Follows(offer, offer', attempt, attempt), IsSo(e, offer', attempt),
           Adds(spoken, e, offer, offer')
    PROVE  ResultInv'
  <1>1. /\ host \in Nat /\ host' \in Nat /\ host <= host' /\ host < host'
        /\ spoken \in Seq(ExitEvents) /\ attempt \in Attempts
    BY DEF ResultInv, ResultTypes
  <1>2. e \in Within(host, host')  BY <1>1 DEF Within
  <1>3. <<e>> \in Seq(Within(host, host'))  BY <1>2
  <1>4. Truly(spoken, offer, attempt) /\ \A i \in 1..Len(spoken) : spoken[i].time <= host
    BY DEF ResultInv, SpokenInv
  <1>5. PICK o, p, u, ev : o = offer /\ p = offer' /\ u = host' /\ ev = <<e>>  OBVIOUS
  <1>6. Truly(spoken \o ev, p, attempt)
    <2>1. u \in Nat /\ host <= u /\ e.time = u  BY <1>1, <1>5
    <2>2. Truly(spoken, o, attempt) /\ Follows(o, p, attempt, attempt)  BY <1>4, <1>5
    <2>3. \E d \in ExitEvents : ev = <<d>> /\ d.time <= u /\ IsSo(d, p, attempt) /\ Adds(spoken, d, o, p)
      BY <1>5
    <2> QED  BY <1>1, <1>4, <2>1, <2>2, <2>3, SayMaybe
  <1>7. Truly(spoken \o <<e>>, offer', attempt')  BY <1>5, <1>6
  <1>8. attempt.ends = Untold /\ ~attempt.raised  BY DEF ResultInv, RunInv
  <1> QED  BY <1>1, <1>3, <1>7, <1>8, StepSays

\* What all the steps of an open opportunity start from.
LEMMA OpenFacts ==
    ASSUME ResultInv, Open
    PROVE  /\ attempt.at = "driving" /\ offer \in Offers /\ Hangs(offer)
           /\ offer.status \notin {"COMPLETED", "INTERRUPTED", "NOT_PRESENTED"}
           /\ offer.outcome = Untold /\ host \in Nat
           /\ \A i \in 1..Len(spoken) : spoken[i].time \in Nat /\ spoken[i].time < host + 1
  <1>1. /\ offer \in Offers /\ Hangs(offer) /\ host \in Nat /\ spoken \in Seq(ExitEvents)
        /\ \A i \in 1..Len(spoken) : spoken[i].time <= host
    BY DEF ResultInv, ResultTypes, RunInv, SpokenInv
  <1>2. \A i \in 1..Len(spoken) : spoken[i].time \in Nat  BY <1>1, EventsOf
  <1>3. \A i \in 1..Len(spoken) : spoken[i].time < host + 1  BY <1>1, <1>2
  <1> QED  BY <1>1, <1>2, <1>3 DEF Open, InDrive, Hangs

LEMMA PresentKeeps == ResultInv /\ Present => ResultInv'
  <1> SUFFICES ASSUME ResultInv, Present  PROVE ResultInv'  OBVIOUS
  <1>1. /\ attempt.at = "driving" /\ offer \in Offers /\ Hangs(offer)
        /\ offer.status \notin {"COMPLETED", "INTERRUPTED", "NOT_PRESENTED"}
        /\ offer.outcome = Untold /\ host \in Nat
    BY OpenFacts DEF Present
  <1>2. /\ ~offer.shown /\ host' = host + 1
        /\ offer' = [offer EXCEPT !.status = "PRESENTED", !.shown = TRUE,
                                  !.automated = offer.mode = NoA]
        /\ ledger' = ledger /\ losses' = losses /\ attempt' = attempt
    BY DEF Present
  <1>3. PICK e : e = ExitEvent(offer', "lc_presented", Untold, Untold, host')  OBVIOUS
  <1>4. /\ offer' \in Offers /\ offer'.status = "PRESENTED" /\ offer'.shown
        /\ offer'.decision = Untold /\ offer'.outcome = Untold /\ offer.decision = Untold
    BY <1>1, <1>2 DEF Offers, Statuses, Decisions, Hangs
  <1>5. e = [type |-> "lc_presented", decision |-> Untold, t0 |-> TRUE, outcome |-> Untold,
             reason |-> Untold, time |-> host']
    <2>1. offer'.shown = TRUE  BY <1>4 DEF Offers
    <2> QED  BY <1>3, <1>4, <2>1 DEF ExitEvent
  <1>6. e \in ExitEvents /\ e.time = host'
    <2>1. host' \in Nat  BY <1>1, <1>2
    <2>2. "lc_presented" \in EventTypes /\ Untold \in Outcomes /\ Untold \in Reasons
      BY DEF EventTypes, Outcomes, Reasons
    <2>3. PICK p, z : p = offer' /\ z = host'  OBVIOUS
    <2>4. ExitEvent(p, "lc_presented", Untold, Untold, z) \in ExitEvents
      BY <1>4, <2>1, <2>2, <2>3, EventIs
    <2> QED  BY <1>3, <1>5, <2>3, <2>4
  <1>7. Emit(<<e>>)  BY <1>3 DEF Present
  <1>8. Hangs(offer')  BY <1>4 DEF Hangs, Untold
  <1>9. Follows(offer, offer', attempt, attempt)  BY <1>1, <1>4 DEF Follows, Ended
  <1>10. IsSo(e, offer', attempt)  BY <1>4, <1>5 DEF IsSo, Untold, Manifest
  <1>11. Adds(spoken, e, offer, offer')  BY <1>2, <1>4, <1>5 DEF Adds, Untold
  <1> QED  BY <1>1, <1>2, <1>4, <1>6, <1>7, <1>8, <1>9, <1>10, <1>11, StepSaysOne

LEMMA MarkNotPresentedKeeps == ResultInv /\ MarkNotPresented => ResultInv'
  <1> SUFFICES ASSUME ResultInv, MarkNotPresented  PROVE ResultInv'  OBVIOUS
  <1>1. /\ attempt.at = "driving" /\ offer \in Offers /\ Hangs(offer)
        /\ offer.status \notin {"COMPLETED", "INTERRUPTED", "NOT_PRESENTED"}
        /\ offer.outcome = Untold /\ host \in Nat
    BY OpenFacts DEF MarkNotPresented
  <1>2. /\ ~offer.shown /\ host' = host + 1
        /\ offer' = [offer EXCEPT !.status = "NOT_PRESENTED"]
        /\ ledger' = ledger /\ losses' = losses /\ attempt' = attempt
    BY DEF MarkNotPresented
  <1>3. PICK e : e = ExitEvent(offer', "lc_finished", "NOT_PRESENTED",
                               "ELIGIBILITY_WINDOW_CLOSED", host')
    OBVIOUS
  <1>4. /\ offer' \in Offers /\ offer'.status = "NOT_PRESENTED" /\ offer'.shown = FALSE
        /\ offer'.decision = Untold /\ offer'.outcome = Untold /\ offer.decision = Untold
    BY <1>1, <1>2 DEF Offers, Statuses, Hangs, Ended
  <1>5. e = [type |-> "lc_finished", decision |-> Untold, t0 |-> FALSE,
             outcome |-> "NOT_PRESENTED", reason |-> "ELIGIBILITY_WINDOW_CLOSED",
             time |-> host']
    BY <1>3, <1>4 DEF ExitEvent
  <1>6. e \in ExitEvents /\ e.time = host'
    <2>1. host' \in Nat  BY <1>1, <1>2
    <2>2. "lc_finished" \in EventTypes /\ "NOT_PRESENTED" \in Outcomes /\ "ELIGIBILITY_WINDOW_CLOSED" \in Reasons
      BY DEF EventTypes, Outcomes, Reasons
    <2>3. PICK p, z : p = offer' /\ z = host'  OBVIOUS
    <2>4. ExitEvent(p, "lc_finished", "NOT_PRESENTED", "ELIGIBILITY_WINDOW_CLOSED", z) \in ExitEvents
      BY <1>4, <2>1, <2>2, <2>3, EventIs
    <2> QED  BY <1>3, <1>5, <2>3, <2>4
  <1>7. Emit(<<e>>)  BY <1>3 DEF MarkNotPresented
  <1>8. Hangs(offer')  BY <1>4 DEF Hangs, Untold
  <1>9. Follows(offer, offer', attempt, attempt)  BY <1>1, <1>2, <1>4 DEF Follows, Ended
  <1>10. IsSo(e, offer', attempt)  BY <1>4, <1>5 DEF IsSo, Untold, Manifest, Ended
  <1>11. Adds(spoken, e, offer, offer')  BY <1>1, <1>2, <1>4, <1>5 DEF Adds, Untold, Ended
  <1> QED  BY <1>1, <1>2, <1>4, <1>6, <1>7, <1>8, <1>9, <1>10, <1>11, StepSaysOne

LEMMA LeaveLaneKeeps == ResultInv /\ LeaveLane => ResultInv'
  <1> SUFFICES ASSUME ResultInv, LeaveLane  PROVE ResultInv'  OBVIOUS
  <1>1. /\ attempt.at = "driving" /\ offer \in Offers /\ Hangs(offer)
        /\ offer.status \notin {"COMPLETED", "INTERRUPTED", "NOT_PRESENTED"}
        /\ offer.outcome = Untold /\ host \in Nat
        /\ \A i \in 1..Len(spoken) : spoken[i].time \in Nat /\ spoken[i].time < host + 1
    BY OpenFacts DEF LeaveLane
  <1>2. /\ offer.shown /\ host' = host + 1
        /\ offer' = [offer EXCEPT !.lateral = TRUE,
                       !.decision = IF offer.automated THEN @
                                    ELSE "MANUAL_CHANGE_OBSERVED_PROXY"]
        /\ ledger' = ledger /\ losses' = losses /\ attempt' = attempt
    BY DEF LeaveLane
  <1>3. PICK e : e = ExitEvent(offer', "lc_maneuver_start", Untold, Untold, host')  OBVIOUS
  <1>4. /\ offer' \in Offers /\ offer'.status = offer.status /\ offer'.shown = TRUE
        /\ offer'.outcome = Untold /\ offer'.decision \in Decisions
        /\ offer'.decision = offer.decision
           \/ offer'.decision = "MANUAL_CHANGE_OBSERVED_PROXY"
    <2>1. PICK d : d = IF offer.automated THEN offer.decision
                       ELSE "MANUAL_CHANGE_OBSERVED_PROXY"
      OBVIOUS
    <2>2. d \in Decisions /\ offer' = [offer EXCEPT !.lateral = TRUE, !.decision = d]
      BY <1>1, <1>2, <2>1 DEF Offers, Decisions
    <2>3. offer.shown = TRUE  BY <1>1, <1>2 DEF Offers
    <2>4. d = offer.decision \/ d = "MANUAL_CHANGE_OBSERVED_PROXY"  BY <2>1
    <2> QED  BY <1>1, <2>2, <2>3, <2>4 DEF Offers
  <1>5. e = [type |-> "lc_maneuver_start", decision |-> offer'.decision, t0 |-> TRUE,
             outcome |-> Untold, reason |-> Untold, time |-> host']
    BY <1>3, <1>4 DEF ExitEvent
  <1>6. e \in ExitEvents /\ e.time = host'
    <2>1. host' \in Nat  BY <1>1, <1>2
    <2>2. "lc_maneuver_start" \in EventTypes /\ Untold \in Outcomes /\ Untold \in Reasons
      BY DEF EventTypes, Outcomes, Reasons
    <2>3. PICK p, z : p = offer' /\ z = host'  OBVIOUS
    <2>4. ExitEvent(p, "lc_maneuver_start", Untold, Untold, z) \in ExitEvents
      BY <1>4, <2>1, <2>2, <2>3, EventIs
    <2> QED  BY <1>3, <1>5, <2>3, <2>4
  <1>7. Emit(<<e>>)  BY <1>3 DEF LeaveLane
  <1>8. Hangs(offer')  BY <1>1, <1>4 DEF Hangs, Untold
  <1>9. Follows(offer, offer', attempt, attempt)  BY <1>1, <1>4 DEF Follows, Ended, Untold
  <1>10. IsSo(e, offer', attempt)  BY <1>4, <1>5 DEF IsSo, Untold, Manifest
  <1>11. Adds(spoken, e, offer, offer')  BY <1>1, <1>2, <1>4, <1>5 DEF Adds, Untold
  <1> QED  BY <1>1, <1>2, <1>4, <1>6, <1>7, <1>8, <1>9, <1>10, <1>11, StepSaysOne


LEMMA RetireKeeps == ResultInv /\ Retire => ResultInv'
  <1> SUFFICES ASSUME ResultInv, Retire  PROVE ResultInv'  OBVIOUS
  <1>1. /\ attempt.at = "driving" /\ offer \in Offers /\ Hangs(offer)
        /\ offer.status \notin {"COMPLETED", "INTERRUPTED", "NOT_PRESENTED"}
        /\ offer.outcome = Untold /\ host \in Nat
        /\ \A i \in 1..Len(spoken) : spoken[i].time \in Nat /\ spoken[i].time < host + 1
    BY OpenFacts DEF Retire
  <1>2. /\ host' = host + 1 /\ offer' = [offer EXCEPT !.status = "INTERRUPTED"]
        /\ ledger' = ledger /\ losses' = losses /\ attempt' = attempt
    BY DEF Retire
  <1>3. PICK s, o, p, u, d, e :
          /\ s = spoken /\ o = offer /\ p = offer' /\ u = host'
          /\ d = ExitEvent(offer, "lc_opportunity_retired", Untold, "EXIT_CORRIDOR_LEFT", host')
          /\ e = ExitEvent(offer, "lc_finished", "INTERRUPTED", "EXIT_CORRIDOR_LEFT", host')
    OBVIOUS
  <1>4. /\ s \in Seq(ExitEvents) /\ Truly(s, o, attempt)
        /\ \A i \in 1..Len(s) : s[i].time <= host
        /\ attempt \in Attempts /\ attempt.ends = Untold /\ ~attempt.raised
    BY <1>1, <1>3 DEF ResultInv, ResultTypes, SpokenInv, RunInv
  <1>5. /\ p \in Offers /\ p.status = "INTERRUPTED" /\ p.shown = o.shown
        /\ p.decision = o.decision /\ p.outcome = Untold /\ p.mode = o.mode
    BY <1>1, <1>2, <1>3 DEF Offers, Statuses, Ended
  <1>6. u \in Nat /\ host <= u /\ host < u  BY <1>1, <1>2, <1>3
  <1>7. /\ d = [type |-> "lc_opportunity_retired", decision |-> o.decision, t0 |-> o.shown,
                outcome |-> Untold, reason |-> "EXIT_CORRIDOR_LEFT", time |-> u]
        /\ e = [type |-> "lc_finished", decision |-> o.decision, t0 |-> o.shown,
                outcome |-> "INTERRUPTED", reason |-> "EXIT_CORRIDOR_LEFT", time |-> u]
    BY <1>3 DEF ExitEvent
  <1>8. d \in ExitEvents /\ e \in ExitEvents
    <2>1. /\ "lc_opportunity_retired" \in EventTypes /\ "lc_finished" \in EventTypes
          /\ Untold \in Outcomes /\ "INTERRUPTED" \in Outcomes
          /\ "EXIT_CORRIDOR_LEFT" \in Reasons
      BY DEF EventTypes, Outcomes, Reasons
    <2>2. o \in Offers  BY <1>1, <1>3
    <2>3. d = ExitEvent(o, "lc_opportunity_retired", Untold, "EXIT_CORRIDOR_LEFT", u)
          /\ e = ExitEvent(o, "lc_finished", "INTERRUPTED", "EXIT_CORRIDOR_LEFT", u)
      BY <1>3
    <2>4. d \in ExitEvents  BY <1>6, <2>1, <2>2, <2>3, EventIs
    <2>5. e \in ExitEvents  BY <1>6, <2>1, <2>2, <2>3, EventIs
    <2> QED  BY <2>4, <2>5
  <1>9. Hangs(o) /\ Hangs(p)  BY <1>1, <1>3, <1>5 DEF Hangs, Untold
  <1>10. Follows(o, p, attempt, attempt) /\ Follows(p, p, attempt, attempt)
    BY <1>1, <1>3, <1>5 DEF Follows, Ended
  <1>11. IsSo(d, p, attempt) /\ IsSo(e, p, attempt)  BY <1>5, <1>7 DEF IsSo, Untold, Manifest, Ended
  <1>12. Adds(s, d, o, p)  BY <1>1, <1>3, <1>5, <1>7 DEF Adds, Untold, Ended
  <1>13. PICK r : r = s \o <<d>>  OBVIOUS
  <1>14. PICK D, E : D = <<d>> /\ E = <<e>>  OBVIOUS
  <1>15. /\ Truly(r, p, attempt) /\ r \in Seq(ExitEvents)
         /\ \A i \in 1..Len(r) : r[i].time <= u
    <2>1. \E x \in ExitEvents : D = <<x>> /\ x.time <= u /\ IsSo(x, p, attempt) /\ Adds(s, x, o, p)
      BY <1>6, <1>7, <1>8, <1>11, <1>12, <1>14
    <2>2. r = s \o D  BY <1>13, <1>14
    <2> QED  BY <1>1, <1>4, <1>6, <1>10, <2>1, <2>2, SayMaybe
  <1>16. \A i \in 1..Len(r) : r[i].type # "lc_finished"
    <2>1. r = Append(s, d)  BY <1>4, <1>8, <1>13, AppendIsConcat
    <2>2. PICK N : N = Len(s)  OBVIOUS
    <2>3. /\ N \in Nat /\ Len(r) = N + 1 /\ r[N + 1] = d /\ \A i \in 1..N : r[i] = s[i]
      BY <1>4, <1>8, <2>1, <2>2, EventsOf, AppendProperties
    <2>4. \A i \in 1..N : s[i].type # "lc_finished"
      BY <1>1, <1>3, <1>4, <2>2 DEF Truly, IsSo, Ended
    <2>5. \A i \in 1..(N + 1) : i \in 1..N \/ i = N + 1  BY <2>3
    <2> QED  BY <1>7, <2>3, <2>4, <2>5
  <1>17. Adds(r, e, p, p)  BY <1>5, <1>7, <1>16 DEF Adds, Untold, Ended
  <1>18. Truly(r \o E, p, attempt)
    <2>1. \E x \in ExitEvents : E = <<x>> /\ x.time <= u /\ IsSo(x, p, attempt) /\ Adds(r, x, p, p)
      BY <1>6, <1>7, <1>8, <1>11, <1>14, <1>17
    <2>2. u <= u  BY <1>6
    <2> QED  BY <1>6, <1>10, <1>15, <2>1, <2>2, SayMaybe
  <1>19. D \in Seq(Within(host, u)) /\ E \in Seq(Within(host, u))
    <2>1. d \in Within(host, u) /\ e \in Within(host, u)
      <3>1. host < d.time /\ d.time <= u /\ host < e.time /\ e.time <= u  BY <1>6, <1>7
      <3> QED  BY <1>8, <3>1 DEF Within
    <2> QED  BY <1>14, <2>1
  <1>20. D \o E \in Seq(Within(host, u))  BY <1>19, ConcatProperties
  <1>21. r \o E = s \o (D \o E)
    <2>1. D \in Seq(ExitEvents) /\ E \in Seq(ExitEvents)  BY <1>8, <1>14
    <2>2. (s \o D) \o E = s \o (D \o E)
      <3>1. s \in Seq(ExitEvents)  BY <1>4
      <3> QED  BY <2>1, <3>1, ConcatThree, Zenon
    <2> QED  BY <1>13, <1>14, <2>2, Zenon
  <1>22. Emit(D \o E)
    <2>1. Emit(<<d>> \o Interrupted(offer, "EXIT_CORRIDOR_LEFT", host'))  BY <1>3 DEF Retire
    <2>2. Interrupted(offer, "EXIT_CORRIDOR_LEFT", host') = <<e>>  BY <1>3 DEF Interrupted
    <2> QED  BY <1>14, <2>1, <2>2, Zenon
  <1>23. PICK ev : ev = D \o E  OBVIOUS
  <1>24. /\ ev \in Seq(Within(host, host')) /\ Emit(ev) /\ host' \in Nat /\ host <= host'
         /\ offer' \in Offers /\ Hangs(offer') /\ Truly(spoken \o ev, offer', attempt')
    <2>1. /\ Emit(ev) /\ ev \in Seq(Within(host, host'))  BY <1>3, <1>20, <1>22, <1>23, Zenon
    <2>2. Truly(spoken \o ev, offer', attempt')  BY <1>2, <1>3, <1>18, <1>21, <1>23, Zenon
    <2> QED  BY <1>3, <1>5, <1>6, <1>9, <2>1, <2>2
  <1> QED  BY <1>1, <1>2, <1>4, <1>24, StepSays


\* An event that says what is new, at any place of a step.
News(e, o, p, until) ==
    /\ e.decision \in {Untold, p.decision}
    /\ e.type = "lc_presented" => ~o.shown
    /\ e.type = "lc_decision" => o.decision = Untold
    /\ e.type = "lc_completed" => o.status # "COMPLETED" /\ e.time = until
    /\ e.type = "lc_finished" => o.status \notin Ended
    /\ e.outcome # Untold => o.status # "COMPLETED"
    /\ p.shown => o.shown
    /\ p.status = "COMPLETED" /\ o.status # "COMPLETED" => e.type = "lc_completed"
    /\ p.decision # o.decision => e.decision = p.decision /\ o.decision = Untold

\* A part of a step, with its event or with none.
Part(ev, o, p, drive, before, until) ==
    /\ Follows(o, p, drive, drive)
    /\ \/ /\ ev = << >> /\ p.decision = o.decision /\ (p.shown => o.shown)
          /\ p.status = "COMPLETED" => o.status = "COMPLETED"
       \/ \E e \in Within(before, until) :
             ev = <<e>> /\ IsSo(e, p, drive) /\ News(e, o, p, until)

LEMMA SayPart ==
    ASSUME NEW s \in Seq(ExitEvents), NEW ev, NEW o, NEW p, NEW drive, NEW h \in Nat,
           NEW u \in Nat, \A i \in 1..Len(s) : s[i].time <= u,
           Truly(s, o, drive), Part(ev, o, p, drive, h, u)
    PROVE  /\ Truly(s \o ev, p, drive) /\ s \o ev \in Seq(ExitEvents)
           /\ \A i \in 1..Len(s \o ev) : (s \o ev)[i].time <= u
           /\ ev \in Seq(Within(h, u))
  <1>1. Follows(o, p, drive, drive) /\ u <= u  BY DEF Part
  <1>2. CASE /\ ev = << >> /\ p.decision = o.decision /\ (p.shown => o.shown)
             /\ p.status = "COMPLETED" => o.status = "COMPLETED"
    <2>1. ev \in Seq(Within(h, u))  BY <1>2, EmptySeq
    <2> QED  BY <1>1, <1>2, <2>1, SayMaybe
  <1>3. ASSUME NEW e \in Within(h, u), ev = <<e>>, IsSo(e, p, drive), News(e, o, p, u)
        PROVE  /\ Truly(s \o ev, p, drive) /\ s \o ev \in Seq(ExitEvents)
               /\ \A i \in 1..Len(s \o ev) : (s \o ev)[i].time <= u
               /\ ev \in Seq(Within(h, u))
    <2>1. e \in ExitEvents /\ e.time <= u  BY DEF Within
    <2>2. Adds(s, e, o, p)  BY <1>3 DEF News, Adds
    <2>3. ev \in Seq(Within(h, u))  BY <1>3
    <2>4. \E x \in ExitEvents : ev = <<x>> /\ x.time <= u /\ IsSo(x, p, drive) /\ Adds(s, x, o, p)
      BY <1>3, <2>1, <2>2
    <2> QED  BY <1>1, <2>3, <2>4, SayMaybe
  <1> QED  BY <1>2, <1>3 DEF Part

\* A step of three parts.
LEMMA StepSaysThree ==
    ASSUME ResultInv, NEW A, NEW B, NEW C, NEW c, NEW d,
           host' \in Nat, host <= host',
           Part(A, offer, c, attempt, host, host'), Part(B, c, d, attempt, host, host'),
           Part(C, d, offer', attempt, host, host'),
           Emit((A \o B) \o C), ledger' = ledger, losses' = losses, attempt' = attempt,
           attempt.at = "driving", offer' \in Offers, Hangs(offer')
    PROVE  ResultInv'
  <1>1. PICK s, o, p, h, u : s = spoken /\ o = offer /\ p = offer' /\ h = host /\ u = host'  OBVIOUS
  <1>2. /\ s \in Seq(ExitEvents) /\ Truly(s, o, attempt) /\ h \in Nat /\ u \in Nat /\ h <= u
        /\ \A i \in 1..Len(s) : s[i].time <= h /\ s[i].time \in Nat
        /\ attempt \in Attempts /\ attempt.ends = Untold /\ ~attempt.raised
    <2>1. /\ spoken \in Seq(ExitEvents) /\ Truly(spoken, offer, attempt) /\ host \in Nat
          /\ \A i \in 1..Len(spoken) : spoken[i].time <= host
          /\ attempt \in Attempts /\ attempt.ends = Untold /\ ~attempt.raised
      BY DEF ResultInv, ResultTypes, SpokenInv, RunInv
    <2> QED  BY <1>1, <2>1, EventsOf
  <1>3. \A i \in 1..Len(s) : s[i].time <= u  BY <1>2
  <1>4. /\ Part(A, o, c, attempt, h, u) /\ Part(B, c, d, attempt, h, u)
        /\ Part(C, d, p, attempt, h, u)
    BY <1>1
  <1>5. PICK r : r = s \o A  OBVIOUS
  <1>6. /\ Truly(r, c, attempt) /\ r \in Seq(ExitEvents)
        /\ \A i \in 1..Len(r) : r[i].time <= u
        /\ A \in Seq(Within(h, u))
    BY <1>2, <1>3, <1>4, <1>5, SayPart
  <1>7. PICK z : z = r \o B  OBVIOUS
  <1>8. /\ Truly(z, d, attempt) /\ z \in Seq(ExitEvents)
        /\ \A i \in 1..Len(z) : z[i].time <= u
        /\ B \in Seq(Within(h, u))
    BY <1>2, <1>4, <1>6, <1>7, SayPart
  <1>9. Truly(z \o C, p, attempt) /\ C \in Seq(Within(h, u))  BY <1>2, <1>4, <1>8, SayPart
  <1>10. A \in Seq(ExitEvents) /\ B \in Seq(ExitEvents) /\ C \in Seq(ExitEvents)
    BY <1>6, <1>8, <1>9, EventsBetween
  <1>11. PICK ab, ev : ab = A \o B /\ ev = ab \o C  OBVIOUS
  <1>12. ab \in Seq(Within(h, u))  BY <1>6, <1>8, <1>11, ConcatProperties
  <1>13. ev \in Seq(Within(h, u))  BY <1>9, <1>11, <1>12, ConcatProperties
  <1>14. ab \in Seq(ExitEvents)  BY <1>12, EventsBetween
  <1>15. s \o ev = z \o C
    <2>1. (s \o A) \o B = s \o (A \o B)
      <3>1. s \in Seq(ExitEvents) /\ A \in Seq(ExitEvents) /\ B \in Seq(ExitEvents)  BY <1>2, <1>10
      <3> QED  BY <3>1, ConcatThree, Zenon
    <2>2. (s \o ab) \o C = s \o (ab \o C)
      <3>1. s \in Seq(ExitEvents) /\ ab \in Seq(ExitEvents) /\ C \in Seq(ExitEvents)
        BY <1>2, <1>10, <1>14
      <3> QED  BY <3>1, ConcatThree, Zenon
    <2> QED  BY <1>5, <1>7, <1>11, <2>1, <2>2, Zenon
  <1>16. /\ ev \in Seq(Within(host, host')) /\ Emit(ev)
         /\ Truly(spoken \o ev, offer', attempt')
    <2>1. Truly(spoken \o ev, offer', attempt')  BY <1>1, <1>9, <1>15, Zenon
    <2> QED  BY <1>1, <1>11, <1>13, <2>1, Zenon
  <1> QED  BY <1>2, <1>16, StepSays

\* The opportunity that guidance is over for.
LEMMA ClosedFacts ==
    ASSUME NEW o \in Offers
    PROVE  LET c == ClosedOffer(o)
           IN  /\ c \in Offers /\ c.shown = o.shown /\ c.outcome = o.outcome
               /\ c.mode = o.mode /\ c.automated = o.automated /\ c.lateral = o.lateral
               /\ \/ c.decision = o.decision /\ c.status = o.status
                  \/ /\ o.decision = Untold /\ c.decision = "NORESPONSE"
                     /\ c.status = "NORESPONSE"
  <1>1. CASE o.closed  BY <1>1 DEF ClosedOffer
  <1>2. CASE ~o.closed /\ o.decision = Untold /\ o.mode = NoA
    <2>1. ClosedOffer(o) = [o EXCEPT !.closed = TRUE, !.status = "NORESPONSE",
                                     !.decision = "NORESPONSE"]
      BY <1>2 DEF ClosedOffer
    <2> QED  BY <1>2, <2>1 DEF Offers, Statuses, Decisions
  <1>3. CASE ~o.closed /\ ~ (o.decision = Untold /\ o.mode = NoA)
    <2>1. ClosedOffer(o) = [o EXCEPT !.closed = TRUE]  BY <1>3 DEF ClosedOffer
    <2> QED  BY <2>1 DEF Offers
  <1> QED  BY <1>1, <1>2, <1>3

\* A decision that is told when there was none.
LEMMA DecidedPart ==
    ASSUME NEW o \in Offers, NEW c \in Offers, NEW drive, NEW h \in Nat, NEW u \in Nat,
           NEW time \in Nat, h < time, time <= u,
           c.shown = o.shown, c.outcome = o.outcome, o.status \notin Ended \cup {"COMPLETED"},
           c.status \notin Ended \cup {"COMPLETED"},
           c.decision = o.decision \/ o.decision = Untold
    PROVE  Part(Decided(o, c, time), o, c, drive, h, u)
  <1>1. Follows(o, c, drive, drive)  BY DEF Follows
  <1>2. CASE c.decision = o.decision
    <2>1. Decided(o, c, time) = << >>  BY <1>2 DEF Decided
    <2> QED  BY <1>1, <1>2, <2>1 DEF Part
  <1>3. CASE c.decision # o.decision
    <2>1. PICK e : e = ExitEvent(c, "lc_decision", Untold, Untold, time)  OBVIOUS
    <2>2. "lc_decision" \in EventTypes /\ Untold \in Outcomes /\ Untold \in Reasons
      BY DEF EventTypes, Outcomes, Reasons
    <2>3. e \in ExitEvents  BY <2>1, <2>2, EventIs
    <2>4. e = [type |-> "lc_decision", decision |-> c.decision, t0 |-> c.shown,
               outcome |-> Untold, reason |-> Untold, time |-> time]
      BY <2>1 DEF ExitEvent
    <2>5. e \in Within(h, u)  BY <2>3, <2>4 DEF Within
    <2>6. IsSo(e, c, drive)  BY <1>3, <2>4 DEF IsSo, Manifest, Untold
    <2>7. News(e, o, c, u)  BY <1>3, <2>4 DEF News, Untold
    <2>8. Decided(o, c, time) = <<e>>  BY <1>3, <2>1 DEF Decided
    <2> QED  BY <1>1, <2>5, <2>6, <2>7, <2>8 DEF Part
  <1> QED  BY <1>2, <1>3


LEMMA PassKeeps ==
    ASSUME NEW outcome \in {"EXIT", "MISSED"}
    PROVE  ResultInv /\ Pass(outcome) => ResultInv'
  <1> SUFFICES ASSUME ResultInv, Pass(outcome)  PROVE ResultInv'  OBVIOUS
  <1>1. /\ attempt.at = "driving" /\ offer \in Offers /\ Hangs(offer)
        /\ offer.status \notin {"COMPLETED", "INTERRUPTED", "NOT_PRESENTED"}
        /\ offer.outcome = Untold /\ host \in Nat
    BY OpenFacts DEF Pass
  <1>2. PICK o, c, u : o = offer /\ c = ClosedOffer(offer) /\ u = host'  OBVIOUS
  <1>3. PICK d : d = IF /\ outcome = "MISSED" /\ ~c.automated /\ ~c.lateral
                        /\ c.decision = Untold
                     THEN [c EXCEPT !.decision = "MANUAL_NOCHANGE"] ELSE c
    OBVIOUS
  <1>4. PICK B : B = IF outcome = "MISSED" THEN << >>
                     ELSE <<ExitEvent(c, "lc_exit_entry_observed",
                                      "EXIT_ENTRY_OBSERVED", Untold, host')>>
    OBVIOUS
  <1>5. PICK A, C : /\ A = Decided(offer, c, host')
                    /\ C = <<ExitEvent(d, "lc_completed", outcome, Untold, host')>>
    OBVIOUS
  <1>6. /\ offer.shown /\ host' = host + 1 /\ ledger' = ledger /\ losses' = losses
        /\ attempt' = attempt
    BY DEF Pass
  <1>7. /\ offer' = [d EXCEPT !.status = "COMPLETED", !.outcome = outcome]
        /\ Emit((A \o B) \o C)
    BY <1>2, <1>3, <1>4, <1>5, Zenon DEF Pass
  <1>8. u \in Nat /\ host <= u /\ host < u /\ u <= u  BY <1>1, <1>2, <1>6
  <1>9. /\ c \in Offers /\ c.shown = o.shown /\ c.outcome = o.outcome
        /\ \/ c.decision = o.decision /\ c.status = o.status
           \/ /\ o.decision = Untold /\ c.decision = "NORESPONSE"
              /\ c.status = "NORESPONSE"
        /\ o \in Offers
    BY <1>1, <1>2, ClosedFacts
  <1>10. /\ d \in Offers /\ d.shown = c.shown /\ d.outcome = c.outcome /\ d.status = c.status
         /\ d.decision = c.decision \/ c.decision = Untold
    <2>1. CASE d = c  BY <1>9, <2>1
    <2>2. CASE d = [c EXCEPT !.decision = "MANUAL_NOCHANGE"] /\ c.decision = Untold
      BY <1>9, <2>2 DEF Offers, Decisions
    <2> QED  BY <1>3, <2>1, <2>2
  <1>11. o.shown /\ o.outcome = Untold
         /\ o.status \notin {"COMPLETED", "INTERRUPTED", "NOT_PRESENTED"}
         /\ c.status \notin {"COMPLETED", "INTERRUPTED", "NOT_PRESENTED"}
    BY <1>1, <1>2, <1>6, <1>9
  <1>12. Part(A, o, c, attempt, host, u)
    <2>1. c.decision = o.decision \/ o.decision = Untold  BY <1>9
    <2>2. /\ o.status \notin Ended \cup {"COMPLETED"}
          /\ c.status \notin Ended \cup {"COMPLETED"}
      BY <1>11 DEF Ended
    <2>3. Part(Decided(o, c, u), o, c, attempt, host, u)
      BY <1>1, <1>8, <1>9, <2>1, <2>2, DecidedPart
    <2> QED  BY <1>2, <1>5, <2>3
  <1>13. Part(B, c, c, attempt, host, u)
    <2>1. Follows(c, c, attempt, attempt)  BY DEF Follows
    <2>2. CASE outcome = "MISSED"
      <3>1. B = << >>  BY <1>4, <2>2
      <3> QED  BY <2>1, <3>1 DEF Part
    <2>3. CASE outcome # "MISSED"
      <3>1. PICK e : e = ExitEvent(c, "lc_exit_entry_observed", "EXIT_ENTRY_OBSERVED", Untold, u)
        OBVIOUS
      <3>2. /\ "lc_exit_entry_observed" \in EventTypes /\ "EXIT_ENTRY_OBSERVED" \in Outcomes
            /\ Untold \in Reasons
        BY DEF EventTypes, Outcomes, Reasons
      <3>3. e \in ExitEvents  BY <1>8, <1>9, <3>1, <3>2, EventIs
      <3>4. e = [type |-> "lc_exit_entry_observed", decision |-> c.decision, t0 |-> c.shown,
                 outcome |-> "EXIT_ENTRY_OBSERVED", reason |-> Untold, time |-> u]
        BY <3>1 DEF ExitEvent
      <3>5. e \in Within(host, u)  BY <1>8, <3>3, <3>4 DEF Within
      <3>6. IsSo(e, c, attempt)  BY <3>4 DEF IsSo, Manifest, Untold
      <3>7. News(e, c, c, u)  BY <1>11, <3>4 DEF News, Untold
      <3>8. B = <<e>>  BY <1>2, <1>4, <2>3, <3>1
      <3> QED  BY <2>1, <3>5, <3>6, <3>7, <3>8 DEF Part
    <2> QED  BY <2>2, <2>3
  <1>14. PICK p : p = offer'  OBVIOUS
  <1>15. /\ p \in Offers /\ p.status = "COMPLETED" /\ p.outcome = outcome /\ p.shown = c.shown
         /\ p.decision = d.decision
    BY <1>7, <1>10, <1>14 DEF Offers, Statuses
  <1>16. Part(C, c, p, attempt, host, u)
    <2>1. PICK e : e = ExitEvent(d, "lc_completed", outcome, Untold, u)  OBVIOUS
    <2>2. "lc_completed" \in EventTypes /\ outcome \in Outcomes /\ Untold \in Reasons
      BY DEF EventTypes, Outcomes, Reasons
    <2>3. e \in ExitEvents  BY <1>8, <1>10, <2>1, <2>2, EventIs
    <2>4. e = [type |-> "lc_completed", decision |-> d.decision, t0 |-> d.shown,
               outcome |-> outcome, reason |-> Untold, time |-> u]
      BY <2>1 DEF ExitEvent
    <2>5. e \in Within(host, u)  BY <1>8, <2>3, <2>4 DEF Within
    <2>6. IsSo(e, p, attempt)  BY <1>15, <2>4 DEF IsSo, Manifest, Untold
    <2>7. News(e, c, p, u)  BY <1>10, <1>11, <1>15, <2>4 DEF News, Untold
    <2>8. C = <<e>>  BY <1>2, <1>5, <2>1
    <2>9. Follows(c, p, attempt, attempt)  BY <1>10, <1>11, <1>15 DEF Follows, Ended
    <2> QED  BY <2>5, <2>6, <2>7, <2>8, <2>9 DEF Part
  <1>17. Hangs(p)
    <2>1. p.shown  BY <1>9, <1>11, <1>15
    <2>2. p.outcome # Untold  BY <1>15 DEF Untold
    <2> QED  BY <1>15, <2>1, <2>2 DEF Hangs
  <1>18. /\ Part(A, offer, c, attempt, host, host') /\ Part(B, c, c, attempt, host, host')
         /\ Part(C, c, offer', attempt, host, host')
    <2> QED  BY <1>2, <1>12, <1>13, <1>14, <1>16
  <1> QED  BY <1>1, <1>6, <1>7, <1>8, <1>2, <1>14, <1>15, <1>17, <1>18, StepSaysThree


LEMMA TakeInputKeeps == ResultInv /\ TakeInput => ResultInv'
  <1> SUFFICES ASSUME ResultInv, TakeInput  PROVE ResultInv'  OBVIOUS
  <1>1. PICK mode \in {NoA, Manual}, signal \in {Untold, "left", "right"}, over \in BOOLEAN :
            Hear(mode, signal, over)
    BY DEF TakeInput
  <1>2. /\ attempt.at = "driving" /\ offer.status \notin {"INTERRUPTED", Untold}
        /\ ledger' = ledger /\ losses' = losses /\ attempt' = attempt
        /\ offer \in Offers /\ Hangs(offer) /\ host \in Nat
    BY DEF TakeInput, InDrive, ResultInv, ResultTypes, RunInv
  <1>3. PICK i, o, c, u, z :
            /\ i = offer /\ o = [offer EXCEPT !.mode = mode, !.inputs = @ + 1]
            /\ c = (IF over THEN ClosedOffer(o) ELSE o)
            /\ u = host + 2 /\ z = host + 1
    OBVIOUS
  <1>4. PICK d : d = IF mode = NoA /\ signal = "right" /\ c.decision = Untold /\ ~c.closed
                     THEN [c EXCEPT !.status = "CONFIRMED", !.decision = "CONFIRM",
                                    !.automated = TRUE]
                     ELSE c
    OBVIOUS
  <1>5. PICK A, B, C :
            /\ A = IF i.shown /\ mode # i.mode
                   THEN <<ExitEvent(o, "lc_mode_change", Untold, Untold, u)>> ELSE << >>
            /\ B = Decided(o, c, z) /\ C = Decided(c, d, u)
    OBVIOUS
  <1>6. /\ host' = u
        /\ IF ~i.shown \/ i.status = "COMPLETED"
           THEN offer' = o /\ Emit(A)
           ELSE IF d.decision = "CONFIRM" /\ mode # NoA
           THEN /\ offer' = [d EXCEPT !.status = "INTERRUPTED"]
                /\ Emit((A \o B) \o Interrupted(d, "MODE_CHANGED_AFTER_T0", u))
           ELSE IF d.decision = "CONFIRM" /\ signal = "left"
           THEN /\ offer' = [d EXCEPT !.status = "INTERRUPTED", !.closed = TRUE]
                /\ Emit((A \o B) \o Interrupted(d, "DRIVER_SIGNAL_PRIORITY", u))
           ELSE offer' = d /\ Emit((A \o B) \o C)
    BY <1>1, <1>3, <1>4, <1>5, ZenonT(40) DEF Hear
  <1>7. u \in Nat /\ z \in Nat /\ host < z /\ z <= u /\ u <= u /\ host < u /\ host <= u
    BY <1>2, <1>3
  <1>8. /\ i \in Offers /\ Hangs(i) /\ i.status \notin {"INTERRUPTED", Untold}
        /\ o \in Offers /\ o.shown = i.shown /\ o.outcome = i.outcome /\ o.status = i.status
        /\ o.decision = i.decision /\ o.mode = mode /\ o.automated = i.automated
    <2>1. PICK n : n = i.inputs + 1  OBVIOUS
    <2>2. i \in Offers /\ i.inputs \in Nat  BY <1>2, <1>3 DEF Offers
    <2>3. n \in Nat  BY <2>1, <2>2
    <2>4. o = [i EXCEPT !.mode = mode, !.inputs = n]  BY <1>3, <2>1
    <2> QED  BY <1>2, <1>3, <2>2, <2>3, <2>4 DEF Offers
  <1>9. Hangs(o)  BY <1>8 DEF Hangs
  <1>10. Follows(i, o, attempt, attempt)  BY <1>8 DEF Follows
  <1>11. Part(A, i, o, attempt, host, u)
    <2>1. CASE A = << >>  BY <1>8, <1>10, <2>1 DEF Part
    <2>2. CASE A = <<ExitEvent(o, "lc_mode_change", Untold, Untold, u)>>
      <3>1. PICK e : e = ExitEvent(o, "lc_mode_change", Untold, Untold, u)  OBVIOUS
      <3>2. "lc_mode_change" \in EventTypes /\ Untold \in Outcomes /\ Untold \in Reasons
        BY DEF EventTypes, Outcomes, Reasons
      <3>3. e \in ExitEvents  BY <1>7, <1>8, <3>1, <3>2, EventIs
      <3>4. e = [type |-> "lc_mode_change", decision |-> o.decision, t0 |-> o.shown,
                 outcome |-> Untold, reason |-> Untold, time |-> u]
        BY <3>1 DEF ExitEvent
      <3>5. e \in Within(host, u)  BY <1>7, <3>3, <3>4 DEF Within
      <3>6. IsSo(e, o, attempt)  BY <3>4 DEF IsSo, Manifest, Untold
      <3>7. News(e, i, o, u)  BY <1>8, <3>4 DEF News, Untold
      <3>8. A = <<e>>  BY <2>2, <3>1
      <3> QED  BY <1>10, <3>5, <3>6, <3>7, <3>8 DEF Part
    <2> QED  BY <1>5, <2>1, <2>2
  <1>12. PICK p : p = offer'  OBVIOUS
  <1>13. CASE ~i.shown \/ i.status = "COMPLETED"
    <2>1. p = o /\ Emit(A)  BY <1>6, <1>12, <1>13
    <2>2. Part(<< >>, o, o, attempt, host, u)  BY DEF Part, Follows
    <2>3. A \in Seq(ExitEvents)
      <3>2. PICK s : s = spoken  OBVIOUS
      <3>3. s \in Seq(ExitEvents) /\ Truly(s, i, attempt)
            /\ \A n \in 1..Len(s) : s[n].time <= host
        BY <1>3, <3>2 DEF ResultInv, ResultTypes, SpokenInv
      <3>4. \A n \in 1..Len(s) : s[n].time <= u  BY <1>2, <1>7, <3>3, EventsOf
      <3>5. A \in Seq(Within(host, u))  BY <1>2, <1>7, <1>11, <3>3, <3>4, SayPart
      <3> QED  BY <3>5, EventsBetween
    <2>4. (A \o << >>) \o << >> = A  BY <2>3, ConcatEmptySeq
    <2>5. PICK N : N = << >>  OBVIOUS
    <2>6. /\ Part(A, offer, o, attempt, host, host') /\ Part(N, o, o, attempt, host, host')
          /\ Part(N, o, offer', attempt, host, host') /\ Emit((A \o N) \o N)
      BY <1>3, <1>6, <1>11, <1>12, <2>1, <2>2, <2>4, <2>5
    <2>7. offer' \in Offers /\ Hangs(offer')  BY <1>8, <1>9, <1>12, <2>1
    <2> QED  BY <1>2, <1>6, <1>7, <2>6, <2>7, StepSaysThree
  <1>14. CASE ~ (~i.shown \/ i.status = "COMPLETED")
    <2>1. /\ i.shown /\ i.outcome = Untold /\ o.outcome = Untold /\ o.shown
          /\ o.status \notin Ended \cup {"COMPLETED"}
      BY <1>8, <1>14 DEF Hangs, Ended
    <2>2. /\ c \in Offers /\ c.shown = o.shown /\ c.outcome = o.outcome
          /\ c.mode = mode
          /\ \/ c.decision = o.decision /\ c.status = o.status
             \/ /\ o.decision = Untold /\ c.decision = "NORESPONSE"
                /\ c.status = "NORESPONSE"
      <3>1. CASE over  BY <1>3, <1>8, <3>1, ClosedFacts
      <3>2. CASE ~over  BY <1>3, <1>8, <3>2
      <3> QED  BY <3>1, <3>2
    <2>3. c.status \notin Ended \cup {"COMPLETED"}  BY <2>1, <2>2 DEF Ended
    <2>4. Part(B, o, c, attempt, host, u)  BY <1>2, <1>5, <1>7, <1>8, <2>1, <2>2, <2>3, DecidedPart
    <2>5. /\ d \in Offers /\ d.shown = c.shown /\ d.outcome = c.outcome
          /\ d.status \notin Ended \cup {"COMPLETED"}
          /\ d.decision = c.decision \/ c.decision = Untold
          /\ d = c \/ (mode = NoA /\ signal = "right")
      <3>1. CASE d = c  BY <2>2, <2>3, <3>1
      <3>2. CASE /\ d = [c EXCEPT !.status = "CONFIRMED", !.decision = "CONFIRM",
                                  !.automated = TRUE]
                 /\ mode = NoA /\ signal = "right" /\ c.decision = Untold
        <4>1. /\ d \in Offers /\ d.shown = c.shown /\ d.outcome = c.outcome
              /\ d.status = "CONFIRMED"
          BY <2>2, <3>2 DEF Offers, Statuses, Decisions
        <4> QED  BY <3>2, <4>1 DEF Ended
      <3> QED  BY <1>4, <3>1, <3>2
    <2>6. Part(C, c, d, attempt, host, u)  BY <1>2, <1>5, <1>7, <2>2, <2>3, <2>5, DecidedPart
    <2>7. ASSUME NEW why \in {"MODE_CHANGED_AFTER_T0", "DRIVER_SIGNAL_PRIORITY"}, d = c,
                 p \in Offers, p.status = "INTERRUPTED", p.shown = c.shown,
                 p.decision = c.decision, p.outcome = c.outcome
          PROVE  Part(Interrupted(d, why, u), c, p, attempt, host, u) /\ Hangs(p)
      <3>1. PICK e : e = ExitEvent(d, "lc_finished", "INTERRUPTED", why, u)  OBVIOUS
      <3>2. "lc_finished" \in EventTypes /\ "INTERRUPTED" \in Outcomes /\ why \in Reasons
        BY DEF EventTypes, Outcomes, Reasons
      <3>3. e \in ExitEvents  BY <1>7, <2>5, <3>1, <3>2, EventIs
      <3>4. e = [type |-> "lc_finished", decision |-> d.decision, t0 |-> d.shown,
                 outcome |-> "INTERRUPTED", reason |-> why, time |-> u]
        BY <3>1 DEF ExitEvent
      <3>5. e \in Within(host, u)  BY <1>7, <3>3, <3>4 DEF Within
      <3>6. p.shown /\ p.outcome = Untold  BY <2>1, <2>2, <2>7
      <3>7. IsSo(e, p, attempt)  BY <2>7, <3>4, <3>6 DEF IsSo, Manifest, Untold, Ended
      <3>8. News(e, c, p, u)  BY <2>3, <2>7, <3>4 DEF News, Untold, Ended
      <3>9. Interrupted(d, why, u) = <<e>>  BY <3>1 DEF Interrupted
      <3>10. Follows(c, p, attempt, attempt)  BY <2>3, <2>7 DEF Follows, Ended
      <3>11. Part(Interrupted(d, why, u), c, p, attempt, host, u)
        BY <3>5, <3>7, <3>8, <3>9, <3>10 DEF Part
      <3>12. Hangs(p)  BY <2>7, <3>6 DEF Hangs
      <3> QED  BY <3>11, <3>12
    <2>8. ASSUME NEW why \in {"MODE_CHANGED_AFTER_T0", "DRIVER_SIGNAL_PRIORITY"}, d = c,
                 p = [d EXCEPT !.status = "INTERRUPTED"]
                 \/ p = [d EXCEPT !.status = "INTERRUPTED", !.closed = TRUE],
                 Emit((A \o B) \o Interrupted(d, why, u))
          PROVE  ResultInv'
      <3>1. /\ p \in Offers /\ p.status = "INTERRUPTED" /\ p.shown = c.shown
            /\ p.decision = c.decision /\ p.outcome = c.outcome
        BY <2>2, <2>8 DEF Offers, Statuses, Ended
      <3>2. PICK D : D = Interrupted(d, why, u)  OBVIOUS
      <3>3. Part(D, c, p, attempt, host, u) /\ Hangs(p)  BY <2>7, <2>8, <3>1, <3>2
      <3>4. Emit((A \o B) \o D)  BY <2>8, <3>2
      <3>5. /\ Part(A, offer, o, attempt, host, host') /\ Part(B, o, c, attempt, host, host')
            /\ Part(D, c, offer', attempt, host, host')
        BY <1>3, <1>6, <1>11, <1>12, <2>4, <3>3
      <3>6. offer' \in Offers /\ Hangs(offer')  BY <1>12, <3>1, <3>3
      <3> QED  BY <1>2, <1>6, <1>7, <3>4, <3>5, <3>6, StepSaysThree
    <2>9. CASE d.decision = "CONFIRM" /\ mode # NoA
      <3>1. d = c  BY <2>5, <2>9
      <3>2. /\ p = [d EXCEPT !.status = "INTERRUPTED"]
            /\ Emit((A \o B) \o Interrupted(d, "MODE_CHANGED_AFTER_T0", u))
        BY <1>6, <1>12, <1>14, <2>9
      <3> QED  BY <2>8, <3>1, <3>2
    <2>10. CASE ~ (d.decision = "CONFIRM" /\ mode # NoA)
                /\ d.decision = "CONFIRM" /\ signal = "left"
      <3>1. d = c  BY <2>5, <2>10
      <3>2. /\ p = [d EXCEPT !.status = "INTERRUPTED", !.closed = TRUE]
            /\ Emit((A \o B) \o Interrupted(d, "DRIVER_SIGNAL_PRIORITY", u))
        BY <1>6, <1>12, <1>14, <2>10
      <3> QED  BY <2>8, <3>1, <3>2
    <2>11. CASE /\ ~ (d.decision = "CONFIRM" /\ mode # NoA)
                /\ ~ (d.decision = "CONFIRM" /\ signal = "left")
      <3>1. p = d /\ Emit((A \o B) \o C)  BY <1>6, <1>12, <1>14, <2>11
      <3>2. Hangs(d)  BY <2>1, <2>2, <2>5 DEF Hangs, Ended
      <3>3. /\ Part(A, offer, o, attempt, host, host') /\ Part(B, o, c, attempt, host, host')
            /\ Part(C, c, offer', attempt, host, host')
        BY <1>3, <1>6, <1>11, <1>12, <2>4, <2>6, <3>1
      <3>4. offer' \in Offers /\ Hangs(offer')  BY <1>12, <2>5, <3>1, <3>2
      <3> QED  BY <1>2, <1>6, <1>7, <3>1, <3>3, <3>4, StepSaysThree
    <2> QED  BY <2>9, <2>10, <2>11
  <1> QED  BY <1>13, <1>14


(* The steps of the run. *)

\* A step of the run that says and writes nothing.
LEMMA StepSilent ==
    ASSUME ResultInv, offer' = offer, spoken' = spoken, queued' = queued, ledger' = ledger,
           losses' = losses, host' \in Nat, host <= host', attempt' \in Attempts,
           attempt'.number = attempt.number, attempt.raised => attempt'.raised,
           attempt.ends = "left" => attempt'.ends = "left",
           attempt'.at = "driving" => attempt'.ends = Untold /\ ~attempt'.raised,
           attempt'.number = 0 => attempt'.at = "ready",
           attempt'.at \in {"ready", "judging", "told"} => queued = << >>,
           ToldInv'
    PROVE  ResultInv'
  <1>1. ResultTypes'  BY DEF ResultInv, ResultTypes
  <1>2. /\ spoken \in Seq(ExitEvents) /\ host \in Nat /\ ledger \in Seq(ExitEvents)
        /\ Truly(spoken, offer, attempt) /\ \A i \in 1..Len(spoken) : spoken[i].time <= host
    BY DEF ResultInv, ResultTypes, SpokenInv
  <1>3. SpokenInv'
    <2>1. PICK o, drive, after : o = offer /\ drive = attempt /\ after = attempt'  OBVIOUS
    <2>2. Truly(spoken, o, drive) /\ Follows(o, o, drive, after)  BY <1>2, <2>1 DEF Follows
    <2>3. Truly(spoken, o, after)  BY <2>2, SayNothing
    <2>4. Truly(spoken', offer', attempt')  BY <2>1, <2>3
    <2>5. \A i \in 1..Len(spoken) : spoken[i].time <= host'  BY <1>2, EventsOf
    <2> QED  BY <2>4, <2>5 DEF SpokenInv
  <1>4. RunInv'  BY DEF ResultInv, RunInv
  <1>5. StoredInv'  BY DEF ResultInv, StoredInv
  <1>6. PlainInv'
    <2> SUFFICES ASSUME attempt'.number = 1, ~attempt'.raised, losses' = 0
                 PROVE  /\ Len(ledger') >= 1 /\ ledger'[1].type = Manifest
                        /\ ledger'[1].time <= host'
                        /\ \A i \in 1..Len(spoken') : ledger'[1].time < spoken'[i].time
                        /\ InTime(spoken') = Without(ledger', 1) \o InTime(queued')
      BY DEF PlainInv
    <2>1. attempt.number = 1 /\ ~attempt.raised /\ losses = 0  OBVIOUS
    <2>2. /\ Len(ledger) >= 1 /\ ledger[1].type = Manifest /\ ledger[1].time <= host
          /\ \A i \in 1..Len(spoken) : ledger[1].time < spoken[i].time
          /\ InTime(spoken) = Without(ledger, 1) \o InTime(queued)
      BY <2>1 DEF ResultInv, PlainInv
    <2>3. ledger[1].time <= host'
      <3>1. 1 \in 1..Len(ledger)
        <4>1. Len(ledger) \in Nat  BY <1>2, EventsOf
        <4> QED  BY <2>2, <4>1
      <3>2. ledger[1].time \in Nat  BY <1>2, <3>1, EventsOf
      <3> QED  BY <1>2, <2>2, <3>2
    <2> QED  BY <2>2, <2>3, Zenon
  <1> QED  BY <1>1, <1>3, <1>4, <1>5, <1>6 DEF ResultInv

\* The result of what stays is the same.
LEMMA SameClass ==
    ASSUME offer' = offer, spoken' = spoken, ledger' = ledger, losses' = losses,
           attempt'.raised = attempt.raised, attempt'.ends = attempt.ends
    PROVE  /\ Class' = Class /\ Repeated("decision")' = Repeated("decision")
           /\ Repeated("outcome")' = Repeated("outcome")
  <1>1. Rows' = Rows  BY DEF Rows
  <1>2. \A type : OfType(type)' = OfType(type)  BY <1>1 DEF OfType
  <1>3. \A type : Once(type)' = Once(type)  BY <1>2 DEF Once
  <1>4. /\ Latest("decision")' = Latest("decision")
        /\ Latest("outcome")' = Latest("outcome")
        /\ Latest("reason")' = Latest("reason")
    BY <1>1 DEF Latest
  <1>5. Doubtful' = Doubtful  BY <1>1, <1>2, <1>3, Zenon DEF Doubtful
  <1>6. Shown' = Shown  BY <1>1, <1>3, Zenon DEF Shown
  <1>7. CompletedClass' = CompletedClass  BY <1>4, <1>6, Zenon DEF CompletedClass
  <1>8. Class' = Class  BY <1>2, <1>3, <1>4, <1>5, <1>6, <1>7, Zenon DEF Class
  <1> QED  BY <1>4, <1>8 DEF Repeated


\* What every step starts from.
LEMMA RunFacts ==
    ASSUME ResultInv
    PROVE  /\ attempt \in Attempts /\ offer \in Offers /\ Hangs(offer)
           /\ spoken \in Seq(ExitEvents) /\ queued \in Seq(ExitEvents)
           /\ ledger \in Seq(ExitEvents) /\ losses \in Nat /\ host \in Nat /\ host <= host
           /\ attempt.at # "ready" => attempt.number # 0
           /\ attempt.at \in {"ready", "judging", "told"} => queued = << >>
           /\ attempt.at = "driving" => attempt.ends = Untold /\ ~attempt.raised
           /\ attempt.number \in Nat /\ attempt.raised \in BOOLEAN
  BY DEF ResultInv, ResultTypes, RunInv, Attempts

LEMMA EndLoopKeeps ==
    ASSUME NEW how \in {"time", "early", "left", "collision", "error"}
    PROVE  ResultInv /\ EndLoop(how) => ResultInv'
  <1> SUFFICES ASSUME ResultInv, EndLoop(how)  PROVE ResultInv'  OBVIOUS
  <1>1. /\ attempt.at = "driving"
        /\ attempt' = [attempt EXCEPT !.at = "leaving", !.ends = how, !.raised = how = "error"]
        /\ offer' = offer /\ spoken' = spoken /\ queued' = queued /\ ledger' = ledger
        /\ losses' = losses /\ host' = host
    BY DEF EndLoop, InDrive
  <1>2. PICK a, b : a = attempt /\ b = attempt'  OBVIOUS
  <1>3. a \in Attempts /\ a.ends = Untold /\ ~a.raised /\ a.number # 0 /\ host \in Nat /\ host <= host
    BY <1>1, <1>2, RunFacts
  <1>4. PICK x : x = (how = "error")  OBVIOUS
  <1>5. x \in BOOLEAN  BY <1>4
  <1>6. b = [a EXCEPT !.at = "leaving", !.ends = how, !.raised = x]  BY <1>1, <1>2, <1>4
  <1>7. b \in Attempts /\ b.number = a.number /\ b.at = "leaving"  BY <1>3, <1>5, <1>6 DEF Attempts
  <1>9. ToldInv'  BY <1>2, <1>7 DEF ToldInv
  <1> QED  BY <1>1, <1>2, <1>3, <1>7, <1>9, StepSilent DEF Untold

LEMMA ShutdownRaisesKeeps == ResultInv /\ ShutdownRaises => ResultInv'
  <1> SUFFICES ASSUME ResultInv, ShutdownRaises  PROVE ResultInv'  OBVIOUS
  <1>1. /\ attempt.at \in {"leaving", "judging"}
        /\ attempt' = [attempt EXCEPT !.raised = TRUE]
        /\ offer' = offer /\ spoken' = spoken /\ queued' = queued /\ ledger' = ledger
        /\ losses' = losses /\ host' = host
    BY DEF ShutdownRaises
  <1>2. PICK a, b : a = attempt /\ b = attempt'  OBVIOUS
  <1>3. a \in Attempts /\ a.number # 0 /\ host \in Nat /\ host <= host
        /\ (a.at = "judging" => queued = << >>)
    BY <1>1, <1>2, RunFacts
  <1>4. /\ b \in Attempts /\ b.number = a.number /\ b.at = a.at /\ b.ends = a.ends
        /\ b.raised
    BY <1>1, <1>2, <1>3 DEF Attempts
  <1>5. ToldInv'  BY <1>1, <1>2, <1>4 DEF ToldInv
  <1> QED  BY <1>1, <1>2, <1>3, <1>4, <1>5, StepSilent

LEMMA TellResultKeeps == ResultInv /\ TellResult => ResultInv'
  <1> SUFFICES ASSUME ResultInv, TellResult  PROVE ResultInv'  OBVIOUS
  <1>1. PICK reduced \in BOOLEAN :
            attempt' = [attempt EXCEPT !.at = "told",
                          !.ran = ~attempt.raised
                                  \/ (attempt.ends = "collision" /\ reduced)]
    BY DEF TellResult
  <1>2. /\ attempt.at = "judging"
        /\ told' = [class |-> Class, decision |-> Repeated("decision"),
                    outcome |-> Repeated("outcome")]
        /\ offer' = offer /\ spoken' = spoken /\ queued' = queued /\ ledger' = ledger
        /\ losses' = losses /\ host' = host
    BY DEF TellResult
  <1>3. PICK a, b : a = attempt /\ b = attempt'  OBVIOUS
  <1>4. PICK x : x = (~a.raised \/ (a.ends = "collision" /\ reduced))  OBVIOUS
  <1>5. x \in BOOLEAN  BY <1>4
  <1>6. b = [a EXCEPT !.at = "told", !.ran = x]  BY <1>1, <1>3, <1>4
  <1>7. a \in Attempts /\ a.number # 0 /\ host \in Nat /\ host <= host /\ queued = << >>
    BY <1>2, <1>3, RunFacts
  <1>8. /\ b \in Attempts /\ b.number = a.number /\ b.at = "told" /\ b.ends = a.ends
        /\ b.raised = a.raised
    BY <1>5, <1>6, <1>7 DEF Attempts
  <1>9. /\ Class' = Class /\ Repeated("decision")' = Repeated("decision")
        /\ Repeated("outcome")' = Repeated("outcome")
    BY <1>2, <1>3, <1>8, SameClass
  <1>10. ToldInv'  BY <1>2, <1>9 DEF ToldInv
  <1> QED  BY <1>2, <1>3, <1>7, <1>8, <1>10, StepSilent

LEMMA AgainKeeps == ResultInv /\ Again => ResultInv'
  <1> SUFFICES ASSUME ResultInv, Again  PROVE ResultInv'  OBVIOUS
  <1>1. /\ attempt.at = "told" /\ attempt' = [attempt EXCEPT !.at = "ready"]
        /\ offer' = offer /\ spoken' = spoken /\ queued' = queued /\ ledger' = ledger
        /\ losses' = losses /\ host' = host
    BY DEF Again
  <1>2. PICK a, b : a = attempt /\ b = attempt'  OBVIOUS
  <1>3. a \in Attempts /\ a.number # 0 /\ host \in Nat /\ host <= host /\ queued = << >>
    BY <1>1, <1>2, RunFacts
  <1>4. /\ b \in Attempts /\ b.number = a.number /\ b.at = "ready" /\ b.ends = a.ends
        /\ b.raised = a.raised
    BY <1>1, <1>2, <1>3 DEF Attempts
  <1>5. ToldInv'  BY <1>2, <1>4 DEF ToldInv
  <1> QED  BY <1>1, <1>2, <1>3, <1>4, <1>5, StepSilent

LEMMA FlushEventsKeeps == ResultInv /\ FlushEvents => ResultInv'
  <1> SUFFICES ASSUME ResultInv, FlushEvents  PROVE ResultInv'  OBVIOUS
  <1>1. /\ attempt.at \in {"driving", "leaving"} /\ WriteRows(InTime(queued))
        /\ queued' = << >> /\ attempt' = attempt /\ offer' = offer /\ spoken' = spoken
        /\ host' = host
    BY DEF FlushEvents
  <1>2. /\ ledger' \in Seq(ExitEvents) /\ losses' \in Nat /\ StoredInv' /\ PlainInv'
    BY <1>1, FlushKeeps DEF ResultInv
  <1>3. ResultTypes'  BY <1>1, <1>2, NoRows DEF ResultInv, ResultTypes
  <1>4. SpokenInv'  BY <1>1 DEF ResultInv, SpokenInv
  <1>5. RunInv'  BY <1>1, RunFacts DEF RunInv
  <1>6. ToldInv'  BY <1>1 DEF ToldInv
  <1> QED  BY <1>2, <1>3, <1>4, <1>5, <1>6 DEF ResultInv

LEMMA LastFlushKeeps == ResultInv /\ LastFlush => ResultInv'
  <1> SUFFICES ASSUME ResultInv, LastFlush  PROVE ResultInv'  OBVIOUS
  <1>1. /\ attempt.at = "closing" /\ WriteRows(InTime(queued))
        /\ queued' = << >> /\ attempt' = [attempt EXCEPT !.at = "judging"] /\ offer' = offer
        /\ spoken' = spoken /\ host' = host
    BY DEF LastFlush
  <1>2. PICK a, b, o : a = attempt /\ b = attempt' /\ o = offer  OBVIOUS
  <1>3. a \in Attempts /\ a.number # 0  BY <1>1, <1>2, RunFacts
  <1>4. /\ b \in Attempts /\ b.number = a.number /\ b.at = "judging" /\ b.ends = a.ends
        /\ b.raised = a.raised
    BY <1>1, <1>2, <1>3 DEF Attempts
  <1>5. /\ ledger' \in Seq(ExitEvents) /\ losses' \in Nat /\ StoredInv' /\ PlainInv'
    BY <1>1, <1>2, <1>4, FlushKeeps DEF ResultInv
  <1>6. ResultTypes'  BY <1>1, <1>2, <1>4, <1>5, NoRows DEF ResultInv, ResultTypes
  <1>7. SpokenInv'
    <2>1. /\ Truly(spoken, o, a) /\ \A i \in 1..Len(spoken) : spoken[i].time <= host
      BY <1>2 DEF ResultInv, SpokenInv
    <2>2. Follows(o, o, a, b)  BY <1>4 DEF Follows
    <2>3. Truly(spoken, o, b)  BY <2>1, <2>2, SayNothing
    <2>4. Truly(spoken', offer', attempt')  BY <1>1, <1>2, <2>3
    <2> QED  BY <1>1, <2>1, <2>4 DEF SpokenInv
  <1>8. RunInv'  BY <1>1, <1>2, <1>3, <1>4, RunFacts DEF RunInv
  <1>9. ToldInv'  BY <1>2, <1>4 DEF ToldInv
  <1> QED  BY <1>5, <1>6, <1>7, <1>8, <1>9 DEF ResultInv


LEMMA FinishKeeps == ResultInv /\ Finish => ResultInv'
  <1> SUFFICES ASSUME ResultInv, Finish  PROVE ResultInv'  OBVIOUS
  <1>1. /\ attempt.at = "leaving" /\ attempt' = [attempt EXCEPT !.at = "closing"]
        /\ host' = host + 1 /\ ledger' = ledger /\ losses' = losses
    BY DEF Finish
  <1>2. PICK s, o, p, a, b, h, u :
          /\ s = spoken /\ o = offer /\ p = offer' /\ a = attempt /\ b = attempt'
          /\ h = host /\ u = host'
    OBVIOUS
  <1>3. /\ a \in Attempts /\ a.number # 0 /\ s \in Seq(ExitEvents) /\ o \in Offers /\ Hangs(o)
        /\ h \in Nat /\ u \in Nat /\ h <= u /\ h < u
    <2>1. /\ a \in Attempts /\ a.number # 0 /\ s \in Seq(ExitEvents) /\ o \in Offers
          /\ Hangs(o) /\ h \in Nat
      BY <1>1, <1>2, RunFacts
    <2> QED  BY <1>1, <1>2, <2>1
  <1>4. /\ b \in Attempts /\ b.number = a.number /\ b.at = "closing" /\ b.ends = a.ends
        /\ b.raised = a.raised
    BY <1>1, <1>2, <1>3 DEF Attempts
  <1>5. ToldInv'  BY <1>2, <1>4 DEF ToldInv
  <1>6. CASE offer.status \in {"COMPLETED", "INTERRUPTED", "NOT_PRESENTED"}
    <2>1. offer' = offer /\ spoken' = spoken /\ queued' = queued  BY <1>6 DEF Finish
    <2> QED  BY <1>1, <1>2, <1>3, <1>4, <1>5, <2>1, StepSilent
  <1>7. CASE offer.status \notin {"COMPLETED", "INTERRUPTED", "NOT_PRESENTED"}
    <2>1. PICK outcome, why :
            /\ outcome = (IF o.status = "WAITING" THEN "NOT_REACHED" ELSE "INTERRUPTED")
            /\ why = FinishReason
      OBVIOUS
    <2>2. PICK e : e = ExitEvent(o, "lc_finished", outcome, why, u)  OBVIOUS
    <2>3. offer' = [offer EXCEPT !.status = "INTERRUPTED"]
          /\ Emit(<<ExitEvent(offer, "lc_finished",
                              IF offer.status = "WAITING" THEN "NOT_REACHED"
                                                          ELSE "INTERRUPTED",
                              FinishReason, host')>>)
      BY <1>7 DEF Finish
    <2>4. Emit(<<e>>)  BY <1>2, <2>1, <2>2, <2>3, Zenon
    <2>5. /\ outcome \in {"NOT_REACHED", "INTERRUPTED"}
          /\ why \in {"ERROR", "USER_EXIT", "NORMAL", "TIME_CAP"}
          /\ why = "ERROR" => a.raised
          /\ why = "USER_EXIT" => a.ends = "left"
      BY <1>2, <2>1 DEF FinishReason
    <2>6. /\ p \in Offers /\ p.status = "INTERRUPTED" /\ p.shown = o.shown
          /\ p.decision = o.decision /\ p.outcome = o.outcome
      BY <1>2, <1>3, <2>3 DEF Offers, Statuses, Ended
    <2>7. o.status \notin Ended \cup {"COMPLETED"} /\ o.outcome = Untold
      BY <1>2, <1>3, <1>7 DEF Ended, Hangs
    <2>8. "lc_finished" \in EventTypes /\ outcome \in Outcomes /\ why \in Reasons
      BY <2>5 DEF EventTypes, Outcomes, Reasons
    <2>9. e \in ExitEvents  BY <1>3, <2>2, <2>8, EventIs
    <2>10. e = [type |-> "lc_finished", decision |-> o.decision, t0 |-> o.shown,
                outcome |-> outcome, reason |-> why, time |-> u]
      BY <2>2 DEF ExitEvent
    <2>11. e \in Within(h, u)  BY <1>3, <2>9, <2>10 DEF Within
    <2>12. IsSo(e, p, b)  BY <1>4, <2>5, <2>6, <2>10 DEF IsSo, Manifest, Ended
    <2>13. Adds(s, e, o, p)  BY <2>6, <2>7, <2>10 DEF Adds
    <2>14. Follows(o, p, a, b)  BY <1>4, <2>6, <2>7 DEF Follows, Ended
    <2>15. PICK ev : ev = <<e>>  OBVIOUS
    <2>16. Truly(s, o, a) /\ \A i \in 1..Len(s) : s[i].time <= h  BY <1>2 DEF ResultInv, SpokenInv
    <2>17. Truly(s \o ev, p, b)
      <3>1. \E x \in ExitEvents : ev = <<x>> /\ x.time <= u /\ IsSo(x, p, b) /\ Adds(s, x, o, p)
        BY <1>3, <2>9, <2>10, <2>12, <2>13, <2>15
      <3> QED  BY <1>3, <2>14, <2>16, <3>1, SayMaybe
    <2>18. ev \in Seq(Within(h, u))  BY <2>11, <2>15
    <2>19. Hangs(p)  BY <1>3, <2>6, <2>7 DEF Hangs
    <2>20. /\ ev \in Seq(Within(host, host')) /\ Emit(ev) /\ host' \in Nat /\ host <= host'
           /\ offer' \in Offers /\ Hangs(offer') /\ Truly(spoken \o ev, offer', attempt')
           /\ attempt' \in Attempts
      BY <1>2, <1>3, <1>4, <2>4, <2>6, <2>15, <2>17, <2>18, <2>19, Zenon
    <2>21. /\ attempt'.at = "closing" /\ attempt'.number = attempt.number
           /\ attempt'.raised = attempt.raised
      BY <1>2, <1>4
    <2> QED  BY <1>1, <2>20, <2>21, StepSays
  <1> QED  BY <1>6, <1>7

\* A run that starts has said nothing.
LEMMA FreshIsTrue ==
    ASSUME NEW o, NEW drive, ~o.shown, o.decision = Untold, o.status # "COMPLETED"
    PROVE  Truly(<< >>, o, drive)
  <1>1. Len(<< >>) = 0 /\ 1..0 = {}  BY EmptySeq
  <1>2. PICK s : s = << >>  OBVIOUS
  <1>3. 1..Len(s) = {}  BY <1>1, <1>2
  <1>4. TellsAll(s, o)  BY <1>3 DEF TellsAll
  <1>5. \A i \in 1..Len(s) : IsSo(s[i], o, drive)  BY <1>3
  <1> QED  BY <1>2, <1>4, <1>5 DEF Truly

\* A run that starts finds the file as the runs before it left it, or with its manifest.
LEMMA StartKeeps ==
    ASSUME ResultInv, attempt.at = "ready", NEW m \in Seq(ExitEvents),
           m = <<ExitEvent(NoOffer, "p5_exit_manifest", Untold, Untold, host')>>,
           host' = host + 1, spoken' = << >>, queued' = << >>,
           UNCHANGED <<ledger, losses>> \/ WriteRows(m)
    PROVE  /\ ledger' \in Seq(ExitEvents) /\ losses' \in Nat /\ StoredInv'
  <1>1. ledger \in Seq(ExitEvents) /\ losses \in Nat  BY RunFacts
  <1>2. \A i \in 1..Len(ledger) : Bare(ledger[i])  BY StoredIsBare DEF ResultInv
  <1>3. ledger' \in Seq(ExitEvents) /\ losses' \in Nat
        /\ \A i \in 1..Len(ledger') : Bare(ledger'[i])
    <2>1. CASE UNCHANGED <<ledger, losses>>  BY <1>1, <1>2, <2>1
    <2>2. CASE WriteRows(m)
      <3>1. losses' \in Nat /\ \E kept \in Seq(ExitEvents) :
              /\ ledger' = ledger \o kept
              /\ losses' = 0 => losses = 0 /\ kept = m
              /\ \A i \in 1..Len(kept) : \E k \in 1..Len(m) : kept[i] = m[k]
        BY <1>1, <2>2, Written
      <3>2. PICK kept \in Seq(ExitEvents) :
              /\ ledger' = ledger \o kept
              /\ \A i \in 1..Len(kept) : \E k \in 1..Len(m) : kept[i] = m[k]
        BY <3>1
      <3>3. \A k \in 1..Len(m) : Bare(m[k])
        <4>1. PICK e : e = ExitEvent(NoOffer, "p5_exit_manifest", Untold, Untold, host')  OBVIOUS
        <4>2. e.decision = Untold /\ e.outcome = Untold /\ e.reason = Untold
          BY <4>1 DEF ExitEvent, NoOffer
        <4>3. m = <<e>>  BY <4>1
        <4>4. \A k \in 1..Len(m) : m[k] = e  BY <4>3
        <4> QED  BY <4>2, <4>4 DEF Bare
      <3>4. \A i \in 1..Len(kept) : Bare(kept[i])  BY <3>2, <3>3
      <3> QED  BY <1>1, <1>2, <3>1, <3>2, <3>4, BareStays
    <2> QED  BY <2>1, <2>2
  <1>4. \A i \in 1..Len(queued') : \E k \in 1..Len(spoken') : queued'[i] = spoken'[k]  BY NoRows
  <1> QED  BY <1>3, <1>4 DEF StoredInv, Bare

\* The manifest's row.
LEMMA ManifestRow ==
    ASSUME NEW time \in Nat
    PROVE  LET e == ExitEvent(NoOffer, "p5_exit_manifest", Untold, Untold, time)
           IN  e \in ExitEvents /\ <<e>> \in Seq(ExitEvents) /\ e.type = Manifest
               /\ e.time = time
  <1>1. "p5_exit_manifest" \in EventTypes /\ Untold \in Outcomes /\ Untold \in Reasons
        /\ Untold \in Decisions
    BY DEF EventTypes, Outcomes, Reasons, Decisions
  <1>2. PICK e : e = ExitEvent(NoOffer, "p5_exit_manifest", Untold, Untold, time)  OBVIOUS
  <1>3. e = [type |-> "p5_exit_manifest", decision |-> Untold, t0 |-> FALSE,
             outcome |-> Untold, reason |-> Untold, time |-> time]
    BY <1>2 DEF ExitEvent, NoOffer
  <1>4. e \in ExitEvents /\ e.type = Manifest /\ e.time = time
    BY <1>1, <1>3 DEF ExitEvents, Manifest
  <1>5. <<e>> \in Seq(ExitEvents)  BY <1>4
  <1> QED  BY <1>2, <1>4, <1>5

LEMMA BindRaisesKeeps == ResultInv /\ BindRaises => ResultInv'
  <1> SUFFICES ASSUME ResultInv, BindRaises  PROVE ResultInv'  OBVIOUS
  <1>1. /\ attempt.at = "ready"
        /\ attempt' = [attempt EXCEPT !.number = @ + 1, !.at = "judging", !.ends = "error",
                                      !.raised = TRUE]
        /\ offer' = NoOffer /\ host' = host + 1 /\ spoken' = << >> /\ queued' = << >>
        /\ \/ UNCHANGED <<ledger, losses>>
           \/ WriteRows(<<ExitEvent(NoOffer, "p5_exit_manifest", Untold, Untold, host')>>)
    BY DEF BindRaises
  <1>2. PICK a, b, n, u : a = attempt /\ b = attempt' /\ n = a.number + 1 /\ u = host'  OBVIOUS
  <1>3. a \in Attempts /\ a.number \in Nat /\ n \in Nat /\ n # 0 /\ host \in Nat /\ u \in Nat
    <2>1. a \in Attempts /\ a.number \in Nat /\ host \in Nat  BY <1>2, RunFacts
    <2> QED  BY <1>1, <1>2, <2>1
  <1>4. b = [a EXCEPT !.number = n, !.at = "judging", !.ends = "error", !.raised = TRUE]
    BY <1>1, <1>2
  <1>5. b \in Attempts /\ b.number = n /\ b.at = "judging" /\ b.raised  BY <1>3, <1>4 DEF Attempts
  <1>6. PICK m : m = <<ExitEvent(NoOffer, "p5_exit_manifest", Untold, Untold, u)>>  OBVIOUS
  <1>7. m \in Seq(ExitEvents)  BY <1>3, <1>6, ManifestRow
  <1>8. ledger' \in Seq(ExitEvents) /\ losses' \in Nat /\ StoredInv'
    <2>1. UNCHANGED <<ledger, losses>> \/ WriteRows(m)  BY <1>1, <1>2, <1>6
    <2>2. m = <<ExitEvent(NoOffer, "p5_exit_manifest", Untold, Untold, host')>>  BY <1>2, <1>6
    <2> QED  BY <1>1, <1>7, <2>1, <2>2, StartKeeps
  <1>9. NoOffer \in Offers /\ Hangs(NoOffer) /\ ~NoOffer.shown
        /\ NoOffer.decision = Untold /\ NoOffer.status # "COMPLETED"
    BY DEF NoOffer, Offers, Statuses, Decisions, Hangs, Untold, Manual, NoA
  <1>10. ResultTypes'  BY <1>1, <1>2, <1>3, <1>5, <1>8, <1>9, NoRows DEF ResultTypes
  <1>11. SpokenInv'
    <2>1. Truly(<< >>, NoOffer, b)  BY <1>9, FreshIsTrue
    <2>2. Truly(spoken', offer', attempt')  BY <1>1, <1>2, <2>1, Zenon
    <2>3. \A i \in 1..Len(spoken') : spoken'[i].time <= host'  BY <1>1, NoRows
    <2> QED  BY <2>2, <2>3 DEF SpokenInv
  <1>12. RunInv'  BY <1>1, <1>2, <1>3, <1>5, <1>9 DEF RunInv
  <1>13. PlainInv'  BY <1>2, <1>5 DEF PlainInv
  <1>14. ToldInv'  BY <1>2, <1>5 DEF ToldInv
  <1> QED  BY <1>8, <1>10, <1>11, <1>12, <1>13, <1>14 DEF ResultInv

LEMMA BindKeeps == ResultInv /\ Bind => ResultInv'
  <1> SUFFICES ASSUME ResultInv, Bind  PROVE ResultInv'  OBVIOUS
  <1>1. /\ attempt.at = "ready"
        /\ attempt' = [attempt EXCEPT !.number = @ + 1, !.at = "driving", !.ends = Untold,
                                      !.raised = FALSE]
        /\ host' = host + 1 /\ spoken' = << >> /\ queued' = << >>
        /\ WriteRows(<<ExitEvent(NoOffer, "p5_exit_manifest", Untold, Untold, host')>>)
    BY DEF Bind
  <1>2. PICK mode \in {NoA, Manual} : offer' = [NoOffer EXCEPT !.status = "WAITING", !.mode = mode]
    BY DEF Bind
  <1>3. PICK a, b, n, u, p :
            a = attempt /\ b = attempt' /\ n = a.number + 1 /\ u = host' /\ p = offer'
    OBVIOUS
  <1>4. a \in Attempts /\ a.number \in Nat /\ n \in Nat /\ n # 0 /\ host \in Nat /\ u \in Nat
    <2>1. a \in Attempts /\ a.number \in Nat /\ host \in Nat  BY <1>3, RunFacts
    <2> QED  BY <1>1, <1>3, <2>1
  <1>5. b = [a EXCEPT !.number = n, !.at = "driving", !.ends = Untold, !.raised = FALSE]
    BY <1>1, <1>3
  <1>6. b \in Attempts /\ b.number = n /\ b.at = "driving" /\ ~b.raised /\ b.ends = Untold
    BY <1>4, <1>5 DEF Attempts
  <1>7. PICK e : e = ExitEvent(NoOffer, "p5_exit_manifest", Untold, Untold, u)  OBVIOUS
  <1>8. PICK m : m = <<e>>  OBVIOUS
  <1>9. e \in ExitEvents /\ m \in Seq(ExitEvents) /\ e.type = Manifest /\ e.time = u
    BY <1>4, <1>7, <1>8, ManifestRow
  <1>10. WriteRows(m) /\ m = <<ExitEvent(NoOffer, "p5_exit_manifest", Untold, Untold, host')>>
    BY <1>1, <1>3, <1>7, <1>8
  <1>11. ledger' \in Seq(ExitEvents) /\ losses' \in Nat /\ StoredInv'
    BY <1>1, <1>9, <1>10, StartKeeps
  <1>12. /\ p \in Offers /\ Hangs(p) /\ ~p.shown /\ p.decision = Untold
         /\ p.status # "COMPLETED"
    <2>1. p = [status |-> "WAITING", decision |-> Untold, mode |-> mode, automated |-> FALSE,
               shown |-> FALSE, closed |-> FALSE, lateral |-> FALSE, outcome |-> Untold,
               inputs |-> 0]
      BY <1>2, <1>3 DEF NoOffer
    <2> QED  BY <2>1 DEF Offers, Statuses, Decisions, Hangs, Untold, Manual, NoA
  <1>13. ResultTypes'  BY <1>1, <1>3, <1>4, <1>6, <1>11, <1>12, NoRows DEF ResultTypes
  <1>14. SpokenInv'
    <2>1. Truly(<< >>, p, b)  BY <1>12, FreshIsTrue
    <2>2. Truly(spoken', offer', attempt')  BY <1>1, <1>3, <2>1, Zenon
    <2>3. \A i \in 1..Len(spoken') : spoken'[i].time <= host'  BY <1>1, NoRows
    <2> QED  BY <2>2, <2>3 DEF SpokenInv
  <1>15. RunInv'  BY <1>1, <1>3, <1>4, <1>6, <1>12 DEF RunInv
  <1>16. PlainInv'
    <2> SUFFICES ASSUME attempt'.number = 1, ~attempt'.raised, losses' = 0
                 PROVE  /\ Len(ledger') >= 1 /\ ledger'[1].type = Manifest
                        /\ ledger'[1].time <= host'
                        /\ \A i \in 1..Len(spoken') : ledger'[1].time < spoken'[i].time
                        /\ InTime(spoken') = Without(ledger', 1) \o InTime(queued')
      BY DEF PlainInv
    <2>1. a.number = 0  BY <1>3, <1>4, <1>6
    <2>2. ledger = << >>  BY <1>3, <2>1 DEF ResultInv, RunInv
    <2>3. losses \in Nat /\ ledger \in Seq(ExitEvents)  BY RunFacts
    <2>4. ledger' = ledger \o m
      <3>1. losses' \in Nat /\ \E kept \in Seq(ExitEvents) :
              /\ ledger' = ledger \o kept
              /\ losses' = 0 => losses = 0 /\ kept = m
              /\ \A i \in 1..Len(kept) : \E k \in 1..Len(m) : kept[i] = m[k]
        BY <1>9, <1>10, <2>3, Written
      <3> QED  BY <3>1
    <2>5. << >> \o m = m  BY <1>9, ConcatEmptySeq
    <2>6. ledger' = m  BY <2>2, <2>4, <2>5, Zenon
    <2>7. Len(m) = 1 /\ m[1] = e  BY <1>8
    <2>8. Without(m, 1) = << >>
      <3>1. 1 \in 1..Len(m)  BY <2>7
      <3>2. PICK w : w = Without(m, 1)  OBVIOUS
      <3>3. w \in Seq(ExitEvents) /\ Len(w) = 0
        <4>1. PICK k : k = 1  OBVIOUS
        <4>2. k \in 1..Len(m)  BY <3>1, <4>1
        <4>3. Without(m, k) \in Seq(ExitEvents) /\ Len(Without(m, k)) = Len(m) - 1
          BY <1>9, <4>2, WithoutFacts
        <4>4. Len(m) - 1 = 0  BY <2>7
        <4> QED  BY <3>2, <4>1, <4>3, <4>4, Zenon
      <3> QED  BY <3>2, <3>3, EmptySeq
    <2>9. << >> \o << >> = << >>  BY NoRows, ConcatEmptySeq
    <2>10. InTime(spoken') = Without(ledger', 1) \o InTime(queued')
      BY <1>1, <2>6, <2>8, <2>9, NoRows, Zenon
    <2>11. /\ Len(ledger') >= 1 /\ ledger'[1].type = Manifest /\ ledger'[1].time <= host'
      BY <1>3, <1>4, <1>9, <2>6, <2>7
    <2>12. \A i \in 1..Len(spoken') : ledger'[1].time < spoken'[i].time  BY <1>1, NoRows
    <2> QED  BY <2>10, <2>11, <2>12, Zenon
  <1>17. ToldInv'  BY <1>3, <1>6 DEF ToldInv
  <1> QED  BY <1>11, <1>13, <1>14, <1>15, <1>16, <1>17 DEF ResultInv

LEMMA ResultInitKeeps == ResultInit => ResultInv
  <1> SUFFICES ASSUME ResultInit  PROVE ResultInv  OBVIOUS
  <1>1. /\ attempt = [number |-> 0, at |-> "ready", ends |-> Untold, raised |-> FALSE,
                      ran |-> FALSE]
        /\ offer = NoOffer /\ spoken = << >> /\ queued = << >> /\ ledger = << >>
        /\ losses = 0 /\ host = 0
    BY DEF ResultInit
  <1>2. NoOffer \in Offers /\ Hangs(NoOffer) /\ ~NoOffer.shown
        /\ NoOffer.decision = Untold /\ NoOffer.status # "COMPLETED"
    BY DEF NoOffer, Offers, Statuses, Decisions, Hangs, Untold, Manual, NoA
  <1>3. attempt \in Attempts /\ attempt.number = 0 /\ attempt.at = "ready"  BY <1>1 DEF Attempts
  <1>4. ResultTypes  BY <1>1, <1>2, <1>3, NoRows DEF ResultTypes
  <1>5. SpokenInv
    <2>1. Truly(<< >>, NoOffer, attempt)  BY <1>2, FreshIsTrue
    <2>2. \A i \in 1..Len(spoken) : spoken[i].time <= host  BY <1>1, NoRows
    <2> QED  BY <1>1, <2>1, <2>2 DEF SpokenInv
  <1>6. RunInv  BY <1>1, <1>2, <1>3 DEF RunInv
  <1>7. StoredInv  BY <1>1, NoRows DEF StoredInv
  <1>8. PlainInv  BY <1>3 DEF PlainInv
  <1>9. ToldInv  BY <1>3 DEF ToldInv
  <1> QED  BY <1>4, <1>5, <1>6, <1>7, <1>8, <1>9 DEF ResultInv

LEMMA ResultStep == ResultInv /\ [ResultNext]_resultVars => ResultInv'
  <1> SUFFICES ASSUME ResultInv, [ResultNext]_resultVars  PROVE ResultInv'  OBVIOUS
  <1>1. CASE UNCHANGED resultVars
    <2>1. /\ offer' = offer /\ spoken' = spoken /\ queued' = queued /\ ledger' = ledger
          /\ losses' = losses /\ host' = host /\ attempt' = attempt /\ told' = told
      BY <1>1 DEF resultVars
    <2>2. /\ Class' = Class /\ Repeated("decision")' = Repeated("decision")
          /\ Repeated("outcome")' = Repeated("outcome")
      BY <2>1, SameClass
    <2>3. ToldInv'  BY <2>1, <2>2 DEF ResultInv, ToldInv
    <2> QED  BY <2>1, <2>3, RunFacts, StepSilent
  <1>2. CASE ResultNext
    BY <1>2, BindKeeps, BindRaisesKeeps, PresentKeeps, MarkNotPresentedKeeps,
       TakeInputKeeps, LeaveLaneKeeps, PassKeeps, RetireKeeps, FlushEventsKeeps,
       EndLoopKeeps, ShutdownRaisesKeeps, FinishKeeps, LastFlushKeeps, TellResultKeeps,
       AgainKeeps DEF ResultNext
  <1> QED  BY <1>1, <1>2

LEMMA ResultInductive == ResultSpec => []ResultInv
  BY ResultInitKeeps, ResultStep, PTL DEF ResultSpec


(* What a result is read from. *)

\* Of places that have something there is a last one.
LEMMA LastPlace ==
    ASSUME NEW N \in Nat, NEW T \in SUBSET (1..N), T # {}
    PROVE  \E i \in T : \A k \in T : k <= i
  <1> DEFINE U == {N - i : i \in T}
  <1>1. U \in SUBSET Nat /\ U # {}
    <2>1. \A i \in T : N - i \in Nat  OBVIOUS
    <2>2. PICK i : i \in T  OBVIOUS
    <2>3. N - i \in U  BY <2>2
    <2> QED  BY <2>1, <2>3
  <1>2. PICK x \in U : \A y \in U : x <= y
    <2> HIDE DEF U
    <2> QED  BY <1>1, LeastNatural
  <1>3. PICK i \in T : x = N - i  OBVIOUS
  <1>4. ASSUME NEW k \in T  PROVE k <= i
    <2>1. N - k \in U  OBVIOUS
    <2>2. N - i <= N - k  BY <1>2, <1>3, <2>1
    <2> QED  BY <2>2
  <1> QED  BY <1>4

LEMMA LatestNone ==
    ASSUME NEW rows \in Seq(ExitEvents), NEW field,
           \A i \in 1..Len(rows) : rows[i][field] = Untold
    PROVE  LatestOf(rows, field) = Untold
  <1>1. DOMAIN rows = 1..Len(rows)  BY EventsOf
  <1>2. {i \in DOMAIN rows : rows[i][field] # Untold} = {}  BY <1>1
  <1> QED  BY <1>2, Zenon DEF LatestOf

LEMMA LatestIs ==
    ASSUME NEW rows \in Seq(ExitEvents), NEW field, NEW i \in 1..Len(rows),
           rows[i][field] # Untold,
           \A k \in 1..Len(rows) : rows[k][field] # Untold => k <= i
    PROVE  LatestOf(rows, field) = rows[i][field]
  <1>1. DOMAIN rows = 1..Len(rows) /\ Len(rows) \in Nat  BY EventsOf
  <1>2. PICK saying : saying = {k \in DOMAIN rows : rows[k][field] # Untold}  OBVIOUS
  <1>3. i \in saying /\ (\A k \in saying : k <= i) /\ \A k \in saying : k \in Nat  BY <1>1, <1>2
  <1>4. PICK j : j = CHOOSE k \in saying : \A n \in saying : n <= k  OBVIOUS
  <1>5. j \in saying /\ \A n \in saying : n <= j  BY <1>3, <1>4, Zenon
  <1>6. j = i  BY <1>3, <1>5
  <1>7. LatestOf(rows, field) = rows[j][field]
    <2>1. saying # {}  BY <1>3
    <2> QED  BY <1>2, <1>4, <2>1, Zenon DEF LatestOf
  <1> QED  BY <1>6, <1>7

\* There is none, or it is the last one's.
LEMMA LatestLast ==
    ASSUME NEW rows \in Seq(ExitEvents), NEW field
    PROVE  \/ /\ LatestOf(rows, field) = Untold
              /\ \A i \in 1..Len(rows) : rows[i][field] = Untold
           \/ \E i \in 1..Len(rows) :
                /\ rows[i][field] # Untold /\ LatestOf(rows, field) = rows[i][field]
                /\ \A k \in 1..Len(rows) : rows[k][field] # Untold => k <= i
  <1>1. PICK N, T : N = Len(rows) /\ T = {i \in 1..N : rows[i][field] # Untold}  OBVIOUS
  <1>2. N \in Nat /\ T \in SUBSET (1..N)  BY <1>1, EventsOf
  <1>3. CASE T = {}
    <2>1. \A i \in 1..Len(rows) : rows[i][field] = Untold  BY <1>1, <1>3
    <2> QED  BY <2>1, LatestNone
  <1>4. CASE T # {}
    <2>1. PICK i \in T : \A k \in T : k <= i  BY <1>2, <1>4, LastPlace
    <2>2. /\ i \in 1..Len(rows) /\ rows[i][field] # Untold
          /\ \A k \in 1..Len(rows) : rows[k][field] # Untold => k <= i
      BY <1>1, <2>1
    <2>3. LatestOf(rows, field) = rows[i][field]  BY <2>2, LatestIs
    <2> QED  BY <2>2, <2>3
  <1> QED  BY <1>3, <1>4

\* All rows but one: where they stood.
LEMMA WithoutPlaces ==
    ASSUME NEW rows \in Seq(ExitEvents), NEW k \in 1..Len(rows)
    PROVE  \E g \in [1..Len(Without(rows, k)) -> 1..Len(rows)] :
              /\ \A i \in 1..Len(Without(rows, k)) :
                    Without(rows, k)[i] = rows[g[i]] /\ g[i] # k
              /\ \A i, n \in 1..Len(Without(rows, k)) : i < n => g[i] < g[n]
              /\ \A j \in 1..Len(rows) : j # k =>
                    \E i \in 1..Len(Without(rows, k)) : g[i] = j
  <1>0. PICK w, N, M : w = Without(rows, k) /\ N = Len(rows) /\ M = N - 1  OBVIOUS
  <1>1. N \in Nat /\ k \in 1..N /\ N >= 1 /\ M \in Nat /\ k \in Nat  BY <1>0, EventsOf
  <1>2. /\ Len(w) = M
        /\ \A i \in 1..M : w[i] = rows[IF i < k THEN i ELSE i + 1]
    BY <1>0, WithoutFacts
  <1> DEFINE g == [i \in 1..M |-> IF i < k THEN i ELSE i + 1]
  <1>3. \A i \in 1..M : g[i] = IF i < k THEN i ELSE i + 1  OBVIOUS
  <1>4. \A i \in 1..M : (IF i < k THEN i ELSE i + 1) \in 1..N  BY <1>0, <1>1
  <1>5. g \in [1..M -> 1..N]  BY <1>4
  <1> HIDE DEF g
  <1>6. \A i \in 1..M : w[i] = rows[g[i]]  BY <1>2, <1>3
  <1>7. \A i \in 1..M : g[i] # k  BY <1>1, <1>3
  <1>8. \A i, n \in 1..M : i < n => g[i] < g[n]  BY <1>1, <1>3
  <1>9. ASSUME NEW j \in 1..N, j # k  PROVE \E i \in 1..M : g[i] = j
    <2>1. CASE j < k
      <3>1. j \in 1..M  BY <1>0, <1>1, <2>1
      <3>2. g[j] = j  BY <1>3, <2>1, <3>1
      <3> QED  BY <3>1, <3>2
    <2>2. CASE ~ (j < k)
      <3>1. j - 1 \in 1..M /\ ~ (j - 1 < k) /\ (j - 1) + 1 = j  BY <1>0, <1>1, <1>9, <2>2
      <3>2. g[j - 1] = j  BY <1>3, <3>1
      <3> QED  BY <3>1, <3>2
    <2> QED  BY <2>1, <2>2
  <1>10. /\ g \in [1..Len(w) -> 1..Len(rows)]
         /\ \A i \in 1..Len(w) : w[i] = rows[g[i]] /\ g[i] # k
         /\ \A i, n \in 1..Len(w) : i < n => g[i] < g[n]
         /\ \A j \in 1..Len(rows) : j # k => \E i \in 1..Len(w) : g[i] = j
    BY <1>0, <1>2, <1>5, <1>6, <1>7, <1>8, <1>9
  <1> QED  BY <1>0, <1>10, Zenon

\* A row that says nothing of it changes nothing of what the latest says.
LEMMA LatestWithout ==
    ASSUME NEW rows \in Seq(ExitEvents), NEW k \in 1..Len(rows), NEW field,
           rows[k][field] = Untold
    PROVE  LatestOf(rows, field) = LatestOf(Without(rows, k), field)
  <1>1. PICK w, N, M : w = Without(rows, k) /\ N = Len(rows) /\ M = Len(w)  OBVIOUS
  <1>2. w \in Seq(ExitEvents) /\ M \in Nat /\ N \in Nat  BY <1>1, WithoutFacts, EventsOf
  <1>3. PICK g \in [1..M -> 1..N] :
          /\ \A i \in 1..M : w[i] = rows[g[i]] /\ g[i] # k
          /\ \A i, n \in 1..M : i < n => g[i] < g[n]
          /\ \A j \in 1..N : j # k => \E i \in 1..M : g[i] = j
    BY <1>1, WithoutPlaces
  <1>4. \A j \in 1..N : rows[j][field] # Untold => \E i \in 1..M : g[i] = j /\ w[i] = rows[j]
    BY <1>3
  <1>5. CASE LatestOf(w, field) = Untold /\ \A i \in 1..M : w[i][field] = Untold
    <2>1. \A j \in 1..N : rows[j][field] = Untold  BY <1>4, <1>5
    <2>2. LatestOf(rows, field) = Untold  BY <1>1, <2>1, LatestNone
    <2> QED  BY <1>1, <1>5, <2>2
  <1>6. ASSUME NEW i \in 1..M, w[i][field] # Untold, LatestOf(w, field) = w[i][field],
               \A n \in 1..M : w[n][field] # Untold => n <= i
        PROVE  LatestOf(rows, field) = LatestOf(w, field)
    <2>1. g[i] \in 1..N /\ rows[g[i]] = w[i]  BY <1>3
    <2>2. ASSUME NEW j \in 1..N, rows[j][field] # Untold  PROVE j <= g[i]
      <3>1. PICK n \in 1..M : g[n] = j /\ w[n] = rows[j]  BY <1>4, <2>2
      <3>2. n <= i  BY <1>6, <2>2, <3>1
      <3>3. n = i \/ n < i  BY <1>2, <3>2
      <3>4. g[n] = g[i] \/ g[n] < g[i]  BY <1>3, <3>3
      <3>5. g[n] \in Nat /\ g[i] \in Nat  BY <1>2, <1>3
      <3> QED  BY <3>1, <3>4, <3>5
    <2>3. PICK m : m = g[i]  OBVIOUS
    <2>4. /\ m \in 1..Len(rows) /\ rows[m][field] # Untold
          /\ \A j \in 1..Len(rows) : rows[j][field] # Untold => j <= m
      BY <1>1, <1>6, <2>1, <2>2, <2>3
    <2>5. LatestOf(rows, field) = rows[m][field]  BY <2>4, LatestIs
    <2> QED  BY <1>6, <2>1, <2>3, <2>5
  <1>7. \/ /\ LatestOf(w, field) = Untold /\ \A i \in 1..M : w[i][field] = Untold
        \/ \E i \in 1..M : /\ w[i][field] # Untold /\ LatestOf(w, field) = w[i][field]
                           /\ \A n \in 1..M : w[n][field] # Untold => n <= i
    BY <1>1, <1>2, LatestLast
  <1>8. LatestOf(rows, field) = LatestOf(w, field)  BY <1>1, <1>5, <1>6, <1>7
  <1> QED  BY <1>1, <1>8

\* In time, the latest of what was said is what the opportunity came to.
LEMMA SaidInTime ==
    ASSUME NEW s \in Seq(ExitEvents), NEW o, NEW drive, Truly(s, o, drive)
    PROVE  LET z == InTime(s)
           IN  /\ z \in Seq(ExitEvents) /\ Len(z) = Len(s)
               /\ \A n \in 1..Len(z) : IsSo(z[n], o, drive)
               /\ \A n, m \in 1..Len(z) :
                     z[n].type \in OnceOnly /\ z[m].type = z[n].type => n = m
               /\ o.shown => \E n \in 1..Len(z) : z[n].type = "lc_presented"
               /\ o.status = "COMPLETED" => \E n \in 1..Len(z) : z[n].type = "lc_completed"
               /\ LatestOf(z, "decision") = o.decision
               /\ o.status = "COMPLETED" /\ o.outcome # Untold =>
                     LatestOf(z, "outcome") = o.outcome
               /\ o.status \notin Ended => LatestOf(z, "reason") = Untold
  <1>0. PICK z, p, N : z = InTime(s) /\ p = Places(s) /\ N = Len(s)  OBVIOUS
  <1>1. /\ p \in [1..N -> 1..N]
        /\ \A i \in 1..N : \E n \in 1..N : p[n] = i
        /\ \A n, m \in 1..N : p[n] = p[m] => n = m
        /\ \A n, m \in 1..N : n < m => Earlier(s, p[n], p[m])
        /\ z \in Seq(ExitEvents) /\ Len(z) = N /\ \A n \in 1..N : z[n] = s[p[n]]
        /\ N \in Nat /\ \A i \in 1..N : s[i].time \in Nat
    BY <1>0, PlacesInTime, EventsOf
  <1>2. /\ \A i \in 1..N : IsSo(s[i], o, drive)
        /\ TellsAll(s, o)
    BY <1>0 DEF Truly
  <1>3. \A n \in 1..N : IsSo(z[n], o, drive)  BY <1>1, <1>2, ZenonT(40)
  <1>4. \A n, m \in 1..N : z[n].type \in OnceOnly /\ z[m].type = z[n].type => n = m
    <2> SUFFICES ASSUME NEW n \in 1..N, NEW m \in 1..N,
                        z[n].type \in OnceOnly, z[m].type = z[n].type
                 PROVE  n = m
      OBVIOUS
    <2>1. p[n] \in 1..N /\ p[m] \in 1..N /\ s[p[n]].type \in OnceOnly
          /\ s[p[m]].type = s[p[n]].type
      BY <1>1
    <2>2. p[n] = p[m]  BY <1>0, <1>2, <2>1 DEF TellsAll
    <2> QED  BY <1>1, <2>2
  <1>5. ASSUME NEW type, Saying(s, type) # {}  PROVE \E n \in 1..N : z[n].type = type
    <2>1. PICK i \in 1..N : s[i].type = type  BY <1>0, <1>5 DEF Saying
    <2>2. PICK n \in 1..N : p[n] = i  BY <1>1
    <2> QED  BY <1>1, <2>1, <2>2
  <1>6. /\ o.shown => \E n \in 1..N : z[n].type = "lc_presented"
        /\ o.status = "COMPLETED" => \E n \in 1..N : z[n].type = "lc_completed"
    BY <1>2, <1>5 DEF TellsAll
  <1>7. LatestOf(z, "decision") = o.decision
    <2>1. CASE LatestOf(z, "decision") = Untold /\ \A n \in 1..N : z[n]["decision"] = Untold
      <3>1. ASSUME o.decision # Untold  PROVE FALSE
        <4>1. PICK i \in 1..N : s[i].decision = o.decision  BY <1>0, <1>2, <3>1 DEF TellsAll
        <4>2. PICK n \in 1..N : p[n] = i  BY <1>1
        <4>3. z[n].decision = o.decision  BY <1>1, <4>1, <4>2
        <4> QED  BY <2>1, <3>1, <4>3
      <3> QED  BY <2>1, <3>1
    <2>2. ASSUME NEW n \in 1..N, z[n]["decision"] # Untold,
                 LatestOf(z, "decision") = z[n]["decision"],
                 \A m \in 1..N : z[m]["decision"] # Untold => m <= n
          PROVE  LatestOf(z, "decision") = o.decision
      <3> SUFFICES ASSUME z[n].decision # o.decision  PROVE FALSE  BY <2>2
      <3>1. p[n] \in 1..N /\ s[p[n]].decision \notin {Untold, o.decision}  BY <1>1, <2>2
      <3>2. PICK i \in 1..N : s[i].decision = o.decision /\ s[p[n]].time < s[i].time
        BY <1>0, <1>2, <3>1 DEF TellsAll
      <3>3. PICK m \in 1..N : p[m] = i  BY <1>1
      <3>4. o.decision # Untold  BY <1>3, <2>2 DEF IsSo
      <3>5. m <= n  BY <1>1, <2>2, <3>2, <3>3, <3>4
      <3>6. m # n
        <4>1. s[i].time \in Nat  BY <1>1
        <4> QED  BY <3>2, <3>3, <4>1
      <3>7. m < n  BY <1>1, <3>5, <3>6
      <3>8. Earlier(s, i, p[n])  BY <1>1, <3>3, <3>7
      <3>9. s[i].time \in Nat /\ s[p[n]].time \in Nat  BY <1>1, <3>1
      <3> QED  BY <3>2, <3>8, <3>9 DEF Earlier
    <2> QED  BY <1>1, <2>1, <2>2, LatestLast, ZenonT(40)
  <1>8. ASSUME o.status = "COMPLETED", o.outcome # Untold
        PROVE  LatestOf(z, "outcome") = o.outcome
    <2>1. PICK n \in 1..N : z[n].type = "lc_completed"  BY <1>6, <1>8
    <2>2. z[n].outcome = o.outcome  BY <1>3, <2>1 DEF IsSo
    <2>3. ASSUME NEW m \in 1..N, z[m].outcome # Untold  PROVE m <= n
      <3> SUFFICES ASSUME n < m  PROVE FALSE  BY <1>1
      <3>1. Earlier(s, p[n], p[m]) /\ p[n] \in 1..N /\ p[m] \in 1..N /\ p[m] # p[n]  BY <1>1
      <3>2. s[p[n]].type = "lc_completed" /\ s[p[m]].outcome # Untold  BY <1>1, <2>1, <2>3
      <3>3. Earlier(s, p[m], p[n])  BY <1>0, <1>2, <3>1, <3>2 DEF TellsAll
      <3> QED  BY <1>0, <3>1, <3>3, EarlierIsTotal
    <2>4. PICK f : f = "outcome"  OBVIOUS
    <2>5. /\ n \in 1..Len(z) /\ z[n][f] # Untold
          /\ \A m \in 1..Len(z) : z[m][f] # Untold => m <= n
      BY <1>1, <1>8, <2>2, <2>3, <2>4
    <2>6. LatestOf(z, f) = z[n][f]
      <3>1. z \in Seq(ExitEvents)  BY <1>1
      <3> QED  BY <2>5, <3>1, LatestIs
    <2>7. LatestOf(z, "outcome") = z[n].outcome  BY <2>4, <2>6
    <2> QED  BY <2>2, <2>7
  <1>9. ASSUME o.status \notin Ended  PROVE LatestOf(z, "reason") = Untold
    <2>1. \A n \in 1..N : z[n]["reason"] = Untold  BY <1>3, <1>9 DEF IsSo
    <2> QED  BY <1>1, <2>1, LatestNone
  <1> QED  BY <1>0, <1>1, <1>3, <1>4, <1>6, <1>7, <1>8, <1>9


\* A file that holds the manifest and, in time, what was said.
LEMMA HeldFacts ==
    ASSUME ResultInv, NEW k \in 1..Len(Rows), Rows[k].type = Manifest,
           InTime(spoken) = Without(Rows, k)
    PROVE  /\ Latest("decision") = offer.decision
           /\ offer.status = "COMPLETED" => Latest("outcome") = offer.outcome
           /\ offer.status \notin Ended => Latest("reason") = Untold
           /\ Latest("reason") # Untold =>
                 \E i \in 1..Len(Rows) : i # k /\ Rows[i].reason = Latest("reason")
           /\ \A i \in 1..Len(Rows) : i # k => IsSo(Rows[i], offer, attempt)
           /\ \A i, n \in 1..Len(Rows) :
                 Rows[i].type \in OnceOnly /\ Rows[n].type = Rows[i].type => i = n
           /\ offer.shown => \E i \in 1..Len(Rows) : i # k /\ Rows[i].type = "lc_presented"
           /\ offer.status = "COMPLETED" =>
                 \E i \in 1..Len(Rows) : i # k /\ Rows[i].type = "lc_completed"
           /\ \A i \in 1..Len(spoken) : \E n \in 1..Len(ledger) : ledger[n] = spoken[i]
  <1>0. PICK r, l, s, z, N, M, o, drive :
          /\ r = Rows /\ l = ledger /\ s = spoken /\ z = InTime(spoken)
          /\ N = Len(Rows) /\ M = Len(Without(Rows, k)) /\ o = offer /\ drive = attempt
    OBVIOUS
  <1>1. l \in Seq(ExitEvents) /\ s \in Seq(ExitEvents) /\ Truly(s, o, drive) /\ Hangs(o)
    BY <1>0 DEF ResultInv, ResultTypes, SpokenInv, RunInv
  <1>2. /\ r \in Seq(ExitEvents) /\ Len(r) = Len(l) /\ k \in 1..N /\ N = Len(r)
        /\ \A i \in 1..Len(l) : \E n \in 1..Len(l) : r[i] = l[n]
        /\ \A i \in 1..Len(l) : \E n \in 1..Len(l) : r[n] = l[i]
    BY <1>0, <1>1, InTimeHas, ZenonT(40) DEF Rows
  <1>3. /\ z \in Seq(ExitEvents) /\ Len(z) = M /\ M = Len(s)
        /\ \A n \in 1..M : IsSo(z[n], o, drive)
        /\ \A n, m \in 1..M : z[n].type \in OnceOnly /\ z[m].type = z[n].type => n = m
        /\ o.shown => \E n \in 1..M : z[n].type = "lc_presented"
        /\ o.status = "COMPLETED" => \E n \in 1..M : z[n].type = "lc_completed"
    <2>1. Len(z) = M  BY <1>0
    <2> QED  BY <1>0, <1>1, <2>1, SaidInTime
  <1>4. /\ LatestOf(z, "decision") = o.decision
        /\ o.status = "COMPLETED" => LatestOf(z, "outcome") = o.outcome
        /\ o.status \notin Ended => LatestOf(z, "reason") = Untold
    <2>1. o.status = "COMPLETED" => o.outcome # Untold  BY <1>1 DEF Hangs
    <2> QED  BY <1>0, <1>1, <2>1, SaidInTime
  <1>5. z = Without(r, k)  BY <1>0
  <1>6. PICK g \in [1..M -> 1..N] :
          /\ \A i \in 1..M : z[i] = r[g[i]] /\ g[i] # k
          /\ \A i, n \in 1..M : i < n => g[i] < g[n]
          /\ \A j \in 1..N : j # k => \E i \in 1..M : g[i] = j
    <2>1. k \in 1..Len(r) /\ r \in Seq(ExitEvents)  BY <1>2
    <2>2. \E g \in [1..Len(Without(r, k)) -> 1..Len(r)] :
              /\ \A i \in 1..Len(Without(r, k)) : Without(r, k)[i] = r[g[i]] /\ g[i] # k
              /\ \A i, n \in 1..Len(Without(r, k)) : i < n => g[i] < g[n]
              /\ \A j \in 1..Len(r) : j # k => \E i \in 1..Len(Without(r, k)) : g[i] = j
      BY <2>1, WithoutPlaces
    <2>3. PICK w : w = Without(r, k)  OBVIOUS
    <2>4. PICK g \in [1..Len(w) -> 1..Len(r)] :
              /\ \A i \in 1..Len(w) : w[i] = r[g[i]] /\ g[i] # k
              /\ \A i, n \in 1..Len(w) : i < n => g[i] < g[n]
              /\ \A j \in 1..Len(r) : j # k => \E i \in 1..Len(w) : g[i] = j
      BY <2>2, <2>3, Zenon, SMTT(20)
    <2>5. w = z /\ Len(w) = M /\ Len(r) = N  BY <1>2, <1>3, <1>5, <2>3
    <2>6. g \in [1..M -> 1..N]  BY <2>5, Zenon
    <2>7. \A i \in 1..M : z[i] = r[g[i]] /\ g[i] # k  BY <2>4, <2>5, Zenon
    <2>8. \A i, n \in 1..M : i < n => g[i] < g[n]  BY <2>4, <2>5, Zenon
    <2>9. \A j \in 1..N : j # k => \E i \in 1..M : g[i] = j  BY <2>4, <2>5, Zenon
    <2> QED  BY <2>6, <2>7, <2>8, <2>9, Zenon
  <1>7. r[k].decision = Untold /\ r[k].outcome = Untold /\ r[k].reason = Untold
    <2>1. PICK n \in 1..Len(l) : r[k] = l[n]  BY <1>2
    <2>2. l[n].type = Manifest  BY <1>0, <2>1
    <2> QED  BY <1>0, <2>1, <2>2 DEF ResultInv, StoredInv
  <1>8. ASSUME NEW f, r[k][f] = Untold  PROVE Latest(f) = LatestOf(z, f)
    <2>1. LatestOf(r, f) = LatestOf(Without(r, k), f)  BY <1>2, <1>8, LatestWithout
    <2> QED  BY <1>0, <1>5, <2>1, Zenon DEF Latest
  <1>9. /\ Latest("decision") = LatestOf(z, "decision")
        /\ Latest("outcome") = LatestOf(z, "outcome")
        /\ Latest("reason") = LatestOf(z, "reason")
    <2>1. r[k]["decision"] = Untold /\ r[k]["outcome"] = Untold /\ r[k]["reason"] = Untold  BY <1>7
    <2> QED  BY <1>8, <2>1
  <1>10. /\ Latest("decision") = offer.decision
         /\ offer.status = "COMPLETED" => Latest("outcome") = offer.outcome
         /\ offer.status \notin Ended => Latest("reason") = Untold
    BY <1>0, <1>4, <1>9
  <1>11. Latest("reason") # Untold =>
            \E i \in 1..N : i # k /\ r[i].reason = Latest("reason")
    <2>1. LatestOf(z, "reason") = Untold
          \/ \E n \in 1..Len(z) : LatestOf(z, "reason") = z[n]["reason"]
      BY <1>3, LatestLast
    <2> SUFFICES ASSUME Latest("reason") # Untold
                 PROVE  \E i \in 1..N : i # k /\ r[i].reason = Latest("reason")
      OBVIOUS
    <2>2. PICK n \in 1..M : Latest("reason") = z[n].reason  BY <1>3, <1>9, <2>1
    <2>3. g[n] \in 1..N /\ g[n] # k /\ r[g[n]].reason = Latest("reason")  BY <1>6, <2>2
    <2> QED  BY <2>3
  <1>12. \A i \in 1..N : i # k => IsSo(r[i], o, drive)
    <2> SUFFICES ASSUME NEW i \in 1..N, i # k  PROVE IsSo(r[i], o, drive)  OBVIOUS
    <2>1. PICK n \in 1..M : g[n] = i  BY <1>6
    <2>2. r[i] = z[n]  BY <1>6, <2>1
    <2> QED  BY <1>3, <2>2
  <1>13. \A i, n \in 1..N : r[i].type \in OnceOnly /\ r[n].type = r[i].type => i = n
    <2> SUFFICES ASSUME NEW i \in 1..N, NEW n \in 1..N,
                        r[i].type \in OnceOnly, r[n].type = r[i].type
                 PROVE  i = n
      OBVIOUS
    <2>1. Manifest \notin OnceOnly  BY DEF OnceOnly, Manifest
    <2>2. i # k /\ n # k  BY <1>0, <2>1
    <2>3. PICK a \in 1..M : g[a] = i  BY <1>6, <2>2
    <2>4. PICK b \in 1..M : g[b] = n  BY <1>6, <2>2
    <2>5. z[a].type \in OnceOnly /\ z[b].type = z[a].type  BY <1>6, <2>3, <2>4
    <2>6. a = b  BY <1>3, <2>5
    <2> QED  BY <2>3, <2>4, <2>6
  <1>14. ASSUME NEW type, \E n \in 1..M : z[n].type = type
         PROVE  \E i \in 1..N : i # k /\ r[i].type = type
    <2>1. PICK n \in 1..M : z[n].type = type  BY <1>14
    <2>2. g[n] \in 1..N /\ g[n] # k /\ r[g[n]].type = type  BY <1>6, <2>1
    <2> QED  BY <2>2
  <1>15. /\ o.shown => \E i \in 1..N : i # k /\ r[i].type = "lc_presented"
         /\ o.status = "COMPLETED" => \E i \in 1..N : i # k /\ r[i].type = "lc_completed"
    BY <1>3, <1>14
  <1>16. \A i \in 1..Len(s) : \E n \in 1..Len(l) : l[n] = s[i]
    <2> SUFFICES ASSUME NEW i \in 1..Len(s)  PROVE \E n \in 1..Len(l) : l[n] = s[i]  OBVIOUS
    <2>1. PICK m \in 1..Len(s) : z[m] = s[i]  BY <1>0, <1>1, InTimeHas
    <2>2. m \in 1..M  BY <1>3
    <2>3. g[m] \in 1..N /\ r[g[m]] = s[i]  BY <1>6, <2>1, <2>2
    <2>4. PICK n \in 1..Len(l) : r[g[m]] = l[n]  BY <1>2, <2>3
    <2> QED  BY <2>3, <2>4
  <1> QED  BY <1>0, <1>10, <1>11, <1>12, <1>13, <1>15, <1>16

LEMMA AtMostOne ==
    ASSUME NEW S, \A x, y \in S : x = y
    PROVE  Cardinality(S) \in {0, 1} /\ (S # {} <=> Cardinality(S) = 1)
  <1>1. CASE S = {}  BY <1>1, FS_EmptySet
  <1>2. CASE S # {}
    <2>1. PICK x : x \in S  BY <1>2
    <2>2. S = {x}  BY <2>1
    <2> QED  BY <2>2, FS_Singleton
  <1> QED  BY <1>1, <1>2

LEMMA OneIsSome ==
    ASSUME NEW S, Cardinality(S) = 1
    PROVE  \E x : x \in S
  <1>1. Cardinality({}) = 0  BY FS_EmptySet
  <1> QED  BY <1>1

\* A physical outcome that is told was reached, and all of it is in the file.
LEMMA ClaimsFollow == ResultInv => ClaimsHappened
  <1> SUFFICES ASSUME ResultInv, attempt.at = "told",
                      told.class \in {"EXIT_CONFIRMED", "NORMAL_MISSED"}
               PROVE  /\ offer.shown /\ offer.status = "COMPLETED"
                      /\ offer.outcome = told.outcome
                      /\ (told.class = "EXIT_CONFIRMED") = (offer.outcome = "EXIT")
                      /\ told.decision = offer.decision
                      /\ ~attempt.raised /\ attempt.ends # "left"
                      /\ \A i \in DOMAIN spoken : \E k \in DOMAIN ledger : ledger[k] = spoken[i]
    BY DEF ClaimsHappened
  <1>1. told = [class |-> Class, decision |-> Repeated("decision"),
                outcome |-> Repeated("outcome")]
    BY DEF ResultInv, ToldInv
  <1>2. Class \in {"EXIT_CONFIRMED", "NORMAL_MISSED"}  BY <1>1
  <1>3. /\ ~attempt.raised /\ ~ (losses > 0) /\ attempt.ends # "left" /\ ~Doubtful
        /\ Class = CompletedClass
    BY <1>2 DEF Class
  <1>4. /\ offer.status = "COMPLETED"
        /\ CompletedClass = "EXIT_CONFIRMED" => Latest("outcome") = "EXIT"
        /\ CompletedClass = "NORMAL_MISSED" => Latest("outcome") = "MISSED"
    BY <1>2, <1>3 DEF CompletedClass
  <1>5. Repeated("decision") = Latest("decision") /\ Repeated("outcome") = Latest("outcome")
    BY <1>3 DEF Repeated
  <1>6. DOMAIN Rows = 1..Len(Rows) /\ DOMAIN spoken = 1..Len(spoken)
        /\ DOMAIN ledger = 1..Len(ledger)
    <2>1. ledger \in Seq(ExitEvents) /\ spoken \in Seq(ExitEvents)  BY RunFacts
    <2>2. Rows \in Seq(ExitEvents)  BY <2>1, InTimeHas DEF Rows
    <2> QED  BY <2>1, <2>2, EventsOf
  <1>7. PICK k : k \in OfType("p5_exit_manifest")  BY <1>3, OneIsSome DEF Doubtful, Once
  <1>8. k \in 1..Len(Rows) /\ Rows[k].type = Manifest  BY <1>6, <1>7 DEF OfType, Manifest
  <1>9. InTime(spoken) = Without(Rows, k)  BY <1>3, <1>7 DEF Doubtful
  <1>10. /\ Latest("decision") = offer.decision
         /\ Latest("outcome") = offer.outcome
         /\ \A i \in 1..Len(spoken) : \E n \in 1..Len(ledger) : ledger[n] = spoken[i]
    BY <1>4, <1>8, <1>9, HeldFacts
  <1>11. offer.shown  BY <1>4, RunFacts DEF Hangs, Untold
  <1>12. told.class = Class /\ told.decision = Latest("decision")
         /\ told.outcome = Latest("outcome")
    BY <1>1, <1>5
  <1>13. (told.class = "EXIT_CONFIRMED") = (offer.outcome = "EXIT")
    BY <1>2, <1>3, <1>4, <1>10, <1>12
  <1> QED  BY <1>3, <1>4, <1>6, <1>10, <1>11, <1>12, <1>13, SMTT(20)

\* The file of a first run without a loss, once its queue is empty.
LEMMA PlainRows ==
    ASSUME ResultInv, attempt.at = "told", attempt.number = 1, ~attempt.raised, losses = 0
    PROVE  /\ Rows = ledger /\ Rows \in Seq(ExitEvents) /\ 1 \in 1..Len(Rows)
           /\ Rows[1].type = Manifest /\ InTime(spoken) = Without(Rows, 1)
  <1>1. /\ ledger \in Seq(ExitEvents) /\ spoken \in Seq(ExitEvents) /\ queued = << >>  BY RunFacts
  <1>2. /\ Len(ledger) >= 1 /\ ledger[1].type = Manifest
        /\ \A i \in 1..Len(spoken) : ledger[1].time < spoken[i].time
        /\ InTime(spoken) = Without(ledger, 1) \o InTime(queued)
    BY DEF ResultInv, PlainInv
  <1>3. PICK l, N, one : l = ledger /\ N = Len(ledger) /\ one = 1  OBVIOUS
  <1>4. N \in Nat /\ one \in 1..Len(l) /\ l \in Seq(ExitEvents)
        /\ \A i \in 1..N : l[i].time \in Nat
    BY <1>1, <1>2, <1>3, EventsOf, SMTT(30)
  <1>5. PICK z, w : z = InTime(spoken) /\ w = Without(l, one)  OBVIOUS
  <1>6. w \in Seq(ExitEvents) /\ Len(w) = N - 1
        /\ \A i \in 1..(N - 1) : w[i] = l[IF i < one THEN i ELSE i + 1]
    BY <1>3, <1>4, <1>5, WithoutFacts
  <1>7. z = w
    <2>1. w \o << >> = w  BY <1>6, ConcatEmptySeq
    <2> QED  BY <1>1, <1>2, <1>3, <1>5, <2>1, NoRows, Zenon
  <1>8. InOrder(z) /\ \A i \in 1..Len(z) : l[1].time < z[i].time
    <2>1. InOrder(z)  BY <1>1, <1>5, InTimeInOrder
    <2>2. ASSUME NEW i \in 1..Len(z)  PROVE l[1].time < z[i].time
      <3>1. i \in 1..Len(spoken)  BY <1>1, <1>5, InTimeHas
      <3>2. PICK m \in 1..Len(spoken) : z[i] = spoken[m]  BY <1>1, <1>5, <3>1, InTimeHas
      <3> QED  BY <1>2, <1>3, <3>2
    <2> QED  BY <2>1, <2>2
  <1>9. \A i \in 1..N : i = 1 \/ (i - 1 \in 1..(N - 1) /\ l[i] = z[i - 1])
    <2> SUFFICES ASSUME NEW i \in 1..N, i # 1
                 PROVE  i - 1 \in 1..(N - 1) /\ l[i] = z[i - 1]
      OBVIOUS
    <2>1. i - 1 \in 1..(N - 1) /\ ~ (i - 1 < one) /\ (i - 1) + 1 = i  BY <1>3, <1>4
    <2>2. w[i - 1] = l[i]  BY <1>6, <2>1
    <2> QED  BY <1>7, <2>1, <2>2
  <1>10. InOrder(l)
    <2> SUFFICES ASSUME NEW i \in 1..N, NEW n \in 1..N, i < n
                 PROVE  l[i].time <= l[n].time
      BY <1>3 DEF InOrder
    <2>1. n # 1 /\ n - 1 \in 1..(N - 1) /\ l[n] = z[n - 1]  BY <1>4, <1>9
    <2>2. n - 1 \in 1..Len(z)  BY <1>6, <1>7, <2>1
    <2>3. CASE i = 1
      <3>1. l[1].time < l[n].time  BY <1>8, <2>1, <2>2
      <3> QED  BY <1>4, <2>3, <3>1
    <2>4. CASE i # 1
      <3>1. i - 1 \in 1..(N - 1) /\ l[i] = z[i - 1] /\ i - 1 < n - 1  BY <1>4, <1>9, <2>4
      <3>2. i - 1 \in 1..Len(z)  BY <1>6, <1>7, <3>1
      <3>3. z[i - 1].time <= z[n - 1].time  BY <1>8, <2>2, <3>1, <3>2 DEF InOrder
      <3> QED  BY <2>1, <3>1, <3>3
    <2> QED  BY <2>3, <2>4
  <1>11. InTime(l) = l  BY <1>4, <1>10, InOrderStays
  <1>12. Rows = ledger  BY <1>3, <1>11, Zenon DEF Rows
  <1>13. /\ Rows \in Seq(ExitEvents) /\ 1 \in 1..Len(Rows) /\ Rows[1].type = Manifest
    BY <1>1, <1>2, <1>3, <1>4, <1>12
  <1>14. InTime(spoken) = Without(Rows, 1)  BY <1>3, <1>5, <1>7, <1>12, Zenon
  <1> QED  BY <1>12, <1>13, <1>14


\* What a run that nothing disturbed is told as.
LEMMA PlainFollows == ResultInv => PlainRunIsTold
  <1> SUFFICES ASSUME ResultInv, attempt.at = "told", attempt.number = 1, ~attempt.raised,
                      losses = 0, attempt.ends # "left"
               PROVE  /\ told.class # "TECHNICAL_ERROR"
                      /\ told.decision = offer.decision
                      /\ (told.class = "CONFIGURED_NOT_PRESENTED") = ~offer.shown
                      /\ (told.class = "INCOMPLETE") =
                            (offer.outcome = "EXIT" /\ offer.decision = "NORESPONSE")
    BY DEF PlainRunIsTold
  <1>1. told.class = Class /\ told.decision = Latest("decision")
    <2>1. told = [class |-> Class, decision |-> Repeated("decision"),
                  outcome |-> Repeated("outcome")]
      BY DEF ResultInv, ToldInv
    <2>2. ~ (losses > 0)  OBVIOUS
    <2> QED  BY <2>1, <2>2 DEF Repeated
  <1>2. /\ Rows \in Seq(ExitEvents) /\ 1 \in 1..Len(Rows) /\ Rows[1].type = Manifest
        /\ InTime(spoken) = Without(Rows, 1)
    BY PlainRows
  <1>3. DOMAIN Rows = 1..Len(Rows)  BY <1>2, EventsOf
  <1>4. PICK one : one = 1  OBVIOUS
  <1>5. /\ one \in 1..Len(Rows) /\ Rows[one].type = Manifest
        /\ InTime(spoken) = Without(Rows, one)
    BY <1>2, <1>4
  <1>6. /\ Latest("decision") = offer.decision
        /\ offer.status = "COMPLETED" => Latest("outcome") = offer.outcome
        /\ offer.status \notin Ended => Latest("reason") = Untold
        /\ Latest("reason") # Untold =>
              \E i \in 1..Len(Rows) : i # one /\ Rows[i].reason = Latest("reason")
        /\ \A i \in 1..Len(Rows) : i # one => IsSo(Rows[i], offer, attempt)
        /\ \A i, n \in 1..Len(Rows) :
              Rows[i].type \in OnceOnly /\ Rows[n].type = Rows[i].type => i = n
        /\ offer.shown => \E i \in 1..Len(Rows) : i # one /\ Rows[i].type = "lc_presented"
        /\ offer.status = "COMPLETED" =>
              \E i \in 1..Len(Rows) : i # one /\ Rows[i].type = "lc_completed"
    BY <1>5, HeldFacts
  <1>7. /\ offer \in Offers /\ Hangs(offer)  BY RunFacts
  <1>8. \A type : OfType(type) = {i \in 1..Len(Rows) : Rows[i].type = type}  BY <1>3 DEF OfType
  <1>9. OfType("p5_exit_manifest") = {one}
    <2>1. \A i \in 1..Len(Rows) : Rows[i].type = "p5_exit_manifest" => i = one
      BY <1>6 DEF IsSo, Manifest
    <2>2. one \in 1..Len(Rows) /\ Rows[one].type = "p5_exit_manifest"  BY <1>5 DEF Manifest
    <2> QED  BY <1>8, <2>1, <2>2
  <1>10. Once("p5_exit_manifest")  BY <1>9, FS_Singleton DEF Once
  <1>11. ASSUME NEW type \in OnceOnly
         PROVE  /\ Cardinality(OfType(type)) \in {0, 1}
                /\ OfType(type) # {} <=> Once(type)
    <2>1. \A x, y \in OfType(type) : x = y  BY <1>6, <1>8
    <2> QED  BY <2>1, AtMostOne DEF Once
  <1>12. ~Doubtful
    <2>1. \A type \in Told : ~ (Cardinality(OfType(type)) > 1)
      <3> SUFFICES ASSUME NEW type \in Told  PROVE ~ (Cardinality(OfType(type)) > 1)  OBVIOUS
      <3>1. type \in OnceOnly \/ type = "p5_exit_manifest"  BY DEF Told, OnceOnly
      <3>2. CASE type \in OnceOnly  BY <1>11, <3>2
      <3>3. CASE type = "p5_exit_manifest"  BY <1>10, <3>3 DEF Once
      <3> QED  BY <3>1, <3>2, <3>3
    <2>2. \A i \in OfType("p5_exit_manifest") : InTime(spoken) = Without(Rows, i)  BY <1>5, <1>9
    <2> QED  BY <1>10, <2>1, <2>2 DEF Doubtful
  <1>13. ASSUME offer.shown  PROVE Shown /\ OfType("lc_presented") # {}
    <2>1. PICK i \in 1..Len(Rows) : i # one /\ Rows[i].type = "lc_presented"  BY <1>6, <1>13
    <2>2. IsSo(Rows[i], offer, attempt)  BY <1>6, <2>1
    <2>3. Rows[i].t0  BY <2>1, <2>2 DEF IsSo
    <2>4. OfType("lc_presented") # {}  BY <1>8, <2>1
    <2>5. "lc_presented" \in OnceOnly  BY DEF OnceOnly
    <2>6. Once("lc_presented")  BY <1>11, <2>4, <2>5
    <2> QED  BY <1>3, <2>3, <2>4, <2>6 DEF Shown
  <1>14. ASSUME NEW i \in OfType("lc_presented")  PROVE offer.shown
    <2>1. i \in 1..Len(Rows) /\ Rows[i].type = "lc_presented"  BY <1>8
    <2>2. i # one  BY <1>5, <2>1 DEF Manifest
    <2> QED  BY <1>6, <2>1, <2>2 DEF IsSo
  <1>15. (Once("lc_completed") /\ OfType("lc_finished") = {}) <=> offer.status = "COMPLETED"
    <2>1. ASSUME Once("lc_completed")  PROVE offer.status = "COMPLETED"
      <3>1. PICK i : i \in OfType("lc_completed")  BY <2>1, OneIsSome DEF Once
      <3>2. i \in 1..Len(Rows) /\ Rows[i].type = "lc_completed"  BY <1>8, <3>1
      <3>3. i # one  BY <1>5, <3>2 DEF Manifest
      <3> QED  BY <1>6, <3>2, <3>3 DEF IsSo
    <2>2. ASSUME offer.status = "COMPLETED"
          PROVE  Once("lc_completed") /\ OfType("lc_finished") = {}
      <3>1. PICK i \in 1..Len(Rows) : Rows[i].type = "lc_completed"  BY <1>6, <2>2
      <3>2. OfType("lc_completed") # {} /\ "lc_completed" \in OnceOnly  BY <1>8, <3>1 DEF OnceOnly
      <3>3. Once("lc_completed")  BY <1>11, <3>2
      <3>4. ASSUME NEW n \in OfType("lc_finished")  PROVE FALSE
        <4>1. n \in 1..Len(Rows) /\ Rows[n].type = "lc_finished"  BY <1>8
        <4>2. n # one  BY <1>5, <4>1 DEF Manifest
        <4>3. offer.status \in Ended  BY <1>6, <4>1, <4>2 DEF IsSo
        <4> QED  BY <2>2, <4>3 DEF Ended
      <3> QED  BY <3>3, <3>4
    <2> QED  BY <2>1, <2>2
  <1>16. ASSUME Latest("reason") # Untold
         PROVE  /\ Latest("reason") \notin {"ERROR", "USER_EXIT"}
                /\ Latest("reason") \in ByParticipant => offer.shown
    <2>1. PICK i \in 1..Len(Rows) : i # one /\ Rows[i].reason = Latest("reason")  BY <1>6, <1>16
    <2>2. IsSo(Rows[i], offer, attempt)  BY <1>6, <2>1
    <2>3. Rows[i].reason \notin {"ERROR", "USER_EXIT"}  BY <2>2 DEF IsSo
    <2>4. Rows[i].reason \in ByParticipant => offer.shown  BY <2>2, <2>3 DEF IsSo, ByParticipant
    <2> QED  BY <2>1, <2>3, <2>4, Zenon
  <1>17. Latest("reason") # "ERROR"  BY <1>16 DEF Untold
  <1>18. CASE offer.status = "COMPLETED"
    <2>1. Class = CompletedClass  BY <1>12, <1>15, <1>17, <1>18 DEF Class
    <2>2. offer.shown /\ offer.outcome \in {"EXIT", "MISSED"}
      BY <1>7, <1>18 DEF Hangs, Offers, Untold
    <2>3. Shown /\ Latest("reason") = Untold /\ Latest("outcome") = offer.outcome
      BY <1>6, <1>13, <1>18, <2>2 DEF Ended
    <2>4. /\ CompletedClass \in {"INCOMPLETE", "EXIT_CONFIRMED", "NORMAL_MISSED"}
          /\ (CompletedClass = "INCOMPLETE") =
                (offer.outcome = "EXIT" /\ offer.decision = "NORESPONSE")
      BY <1>6, <1>18, <2>2, <2>3 DEF CompletedClass
    <2> QED  BY <1>1, <1>6, <2>1, <2>2, <2>4
  <1>19. CASE offer.status # "COMPLETED"
    <2>1. offer.outcome = Untold  BY <1>7, <1>19 DEF Hangs
    <2>2. offer.outcome # "EXIT"  BY <2>1 DEF Untold
    <2>3. CASE Latest("reason") \in ByParticipant
      <3>1. Class = "PARTICIPANT_INTERRUPTED"  BY <1>12, <1>15, <1>17, <1>19, <2>3 DEF Class
      <3>2. offer.shown  BY <1>16, <2>3 DEF Untold, ByParticipant
      <3> QED  BY <1>1, <1>6, <2>2, <3>1, <3>2
    <2>4. CASE Latest("reason") \notin ByParticipant /\ Latest("decision") # Untold
      <3>1. offer.shown  BY <1>6, <1>7, <2>4 DEF Hangs
      <3>2. Class = "DECISION_RECORDED"  BY <1>12, <1>13, <1>15, <1>17, <1>19, <2>4, <3>1 DEF Class
      <3> QED  BY <1>1, <1>6, <2>2, <3>1, <3>2
    <2>5. CASE Latest("reason") \notin ByParticipant /\ Latest("decision") = Untold
      <3>1. CASE offer.shown
        <4>1. Class = "PRESENTED"  BY <1>12, <1>13, <1>15, <1>17, <1>19, <2>5, <3>1 DEF Class
        <4> QED  BY <1>1, <1>6, <2>2, <3>1, <4>1
      <3>2. CASE ~offer.shown
        <4>1. OfType("lc_presented") = {}  BY <1>14, <3>2
        <4>2. Class = "CONFIGURED_NOT_PRESENTED"
          BY <1>12, <1>15, <1>17, <1>19, <2>5, <4>1 DEF Class
        <4> QED  BY <1>1, <1>6, <2>2, <3>2, <4>2
      <3> QED  BY <3>1, <3>2
    <2> QED  BY <2>3, <2>4, <2>5
  <1> QED  BY <1>18, <1>19

\* A physical outcome that is told of an exit opportunity was reached in this very run,
\* and every event of it is in the file; the first run of a module that nothing
\* disturbed is told as what it was: for any number of runs, inputs and lost rows
\* (configured_exit_result, reconstruct_exit_ledger and live_evidence over the
\* coordinator's events and the flushed rows).
THEOREM ResultIsAlwaysTrue == ResultSpec => []ResultIsTrue
  <1>1. ResultInv => ResultIsTrue  BY ClaimsFollow, PlainFollows DEF ResultIsTrue
  <1> QED  BY <1>1, ResultInductive, PTL

=============================================================================
