--------------------------- MODULE LifecycleTable ---------------------------
(* The lifecycle of one external execution request, as the transition table *)
(* that cydra/external_execution.py and cydra/execution_lifecycle.py each   *)
(* hold a copy of.  "ABSENT" stands for Python's None.                      *)

\* EXECUTION_STATES, and the absence of a state.
States == {"ABSENT", "PERSISTED", "RUNNING", "RESULT_RECORDED",
           "OUTCOME_UNRECORDED", "COMPLETED", "FAILED"}

Terminal == {"COMPLETED", "FAILED"}

\* States in which the adapter ran but nothing final is known.
Unsettled == {"RESULT_RECORDED", "OUTCOME_UNRECORDED"}

\* _ALLOWED_TRANSITIONS as a set of pairs.
Allowed == {<<"ABSENT", "PERSISTED">>, <<"PERSISTED", "RUNNING">>,
            <<"RUNNING", "RESULT_RECORDED">>, <<"RUNNING", "FAILED">>,
            <<"RUNNING", "OUTCOME_UNRECORDED">>,
            <<"RESULT_RECORDED", "COMPLETED">>,
            <<"RESULT_RECORDED", "OUTCOME_UNRECORDED">>,
            <<"OUTCOME_UNRECORDED", "COMPLETED">>,
            <<"OUTCOME_UNRECORDED", "FAILED">>}

\* Slip: only what runs can fail.
Legal_FailsWhileRunning(s, t) ==
    <<s, t>> \in Allowed /\ (t = "FAILED" => s = "RUNNING")

Legal(s, t) == <<s, t>> \in Allowed
=============================================================================
