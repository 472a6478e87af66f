----------------------------- MODULE MCSession -----------------------------
(* Session with the receipt table of model.RECEIPTS, its seven training    *)
(* requirements standing as one: they are treated alike.                   *)
EXTENDS Session

MCReceipts ==
  [s \in Stages |->
     CASE s = "CONSENT_AND_ELIGIBILITY" -> {"consent", "eligibility"}
       [] s = "TRAINING" -> {"training"}
       [] s = "EYE_TRACKER_CALIBRATION" -> {"calibration_boundary"}
       [] s = "POST_EXPERIMENT" -> {"data_use"}
       [] OTHER -> {}]

MCNames == UNION { MCReceipts[s] : s \in Stages }

\* The development caller acknowledges with stubs; a participant may refuse.
DevAnswers == MCNames \X {"DEV_STUB", "REFUSED"}

=============================================================================
