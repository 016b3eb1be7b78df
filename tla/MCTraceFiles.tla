----------------------------- MODULE MCTraceFiles ------------------------------
(* Small instances of TraceFiles. *)
EXTENDS TraceFiles

MCSent == {Set(2, 1), Wipe}

================================================================================
