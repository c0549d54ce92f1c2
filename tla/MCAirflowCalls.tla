--------------------------- MODULE MCAirflowCalls ---------------------------
(* An instance of AirflowCalls for TLC.                                    *)
EXTENDS AirflowCalls

CONSTANTS c1, c2

TwoCallers == {c1, c2}
=============================================================================
