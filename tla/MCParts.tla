------------------------------ MODULE MCParts ------------------------------
(***************************************************************************)
(* Seven parts of the system that share no state: the force-feedback      *)
(* evaluator, the driving wheel, the names of runs, the development        *)
(* drives' own controller, the native trace, the view's measurements and   *)
(* the result of an exit.  A behaviour belongs to one of them, the others  *)
(* rest in an initial state, so that one run explores each part alone.     *)
(***************************************************************************)
EXTENDS FfbSafety, WheelInput, RunIdentity, CustomControl, NativeTrace,
        ViewMeasurement, ExitResult, TLC

VARIABLE subject

\* The parts a behaviour is not about begin in one state only.
AtRest ==
    /\ subject # "wheel" => ~subsystem /\ ~key.down /\ ~button
    /\ subject # "identity" => windows
    /\ subject # "control" => policy.speed.hold /\ policy.steeringEnds /\ world.speed = 0
    /\ subject # "trace" => port.owners = {}
    /\ subject # "view" => view.way = "scene"

Init ==
    /\ subject \in {"ffb", "wheel", "identity", "control", "trace", "view", "result"}
    /\ FfbInit /\ WheelInit /\ IdentityInit /\ ControlInit /\ TraceInit
    /\ ViewInit /\ ResultInit
    /\ AtRest

Next ==
    /\ UNCHANGED subject
    /\ \/ /\ subject = "ffb" /\ FfbNext
          /\ UNCHANGED <<wheelVars, identityVars, controlVars, traceVars, viewVars,
                         resultVars>>
       \/ /\ subject = "wheel" /\ WheelNext
          /\ UNCHANGED <<ffbVars, identityVars, controlVars, traceVars, viewVars,
                         resultVars>>
       \/ /\ subject = "identity" /\ IdentityNext
          /\ UNCHANGED <<ffbVars, wheelVars, controlVars, traceVars, viewVars,
                         resultVars>>
       \/ /\ subject = "control" /\ ControlNext
          /\ UNCHANGED <<ffbVars, wheelVars, identityVars, traceVars, viewVars,
                         resultVars>>
       \/ /\ subject = "trace" /\ TraceNext
          /\ UNCHANGED <<ffbVars, wheelVars, identityVars, controlVars, viewVars,
                         resultVars>>
       \/ /\ subject = "view" /\ ViewNext
          /\ UNCHANGED <<ffbVars, wheelVars, identityVars, controlVars, traceVars,
                         resultVars>>
       \/ /\ subject = "result" /\ ResultNext
          /\ UNCHANGED <<ffbVars, wheelVars, identityVars, controlVars, traceVars,
                         viewVars>>

Spec ==
    /\ Init
    /\ [][Next]_<<ffbVars, wheelVars, identityVars, controlVars,
                traceVars, viewVars, resultVars, subject>>

Symmetry == Permutations(Contexts) \cup Permutations(Starts)

StrengthTargets == {1, 3}
=============================================================================
