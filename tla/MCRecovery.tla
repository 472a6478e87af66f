----------------------------- MODULE MCRecovery -----------------------------
(* A supervised operator session that follows the execution policy, with    *)
(* one receipt a stage at most and one approval the operator may give.      *)
EXTENDS SessionRecovery

MCReceipts ==
  [s \in Stages |->
     CASE s = "CONSENT_AND_ELIGIBILITY" -> {"consent"}
       [] s = "EYE_TRACKER_CALIBRATION" -> {"calibration_boundary"}
       [] OTHER -> {}]
MCAnswers == { << "consent", "OPERATOR_CONFIRMED" >>,
               << "calibration_boundary", "EXTERNAL_OPERATOR_STEP" >> }
MCApprovals == { << "FINAL_HAZARD", "BLOCKED" >> }
=============================================================================
