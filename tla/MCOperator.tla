----------------------------- MODULE MCOperator -----------------------------
(* OperatorFlow with the receipt table of model.RECEIPTS.                  *)
EXTENDS OperatorFlow

MCReceipts ==
  [s \in Stages |->
     CASE s = "CONSENT_AND_ELIGIBILITY" -> {"consent", "eligibility"}
       [] s = "TRAINING" -> {"training"}
       [] s = "EYE_TRACKER_CALIBRATION" -> {"calibration_boundary"}
       [] s = "POST_EXPERIMENT" -> {"data_use"}
       [] OTHER -> {}]
MCAnswers == { << "calibration_boundary", "EXTERNAL_OPERATOR_STEP" >> }

\* Nominal drives with and without the version 1 hazard, and bounded ones.
MCConfigs ==
  { [v1 |-> TRUE, nominal |-> TRUE, gaze |-> TRUE],
    [v1 |-> FALSE, nominal |-> TRUE, gaze |-> FALSE],
    [v1 |-> FALSE, nominal |-> FALSE, gaze |-> FALSE] }
=============================================================================
