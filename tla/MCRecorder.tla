----------------------------- MODULE MCRecorder -----------------------------
(* Recorder, with a stretch of local time that comes twice.                *)
EXTENDS Recorder

\* The seconds 3 and later are called 1 and later once more.
MCLocal == [t \in 0..MaxTime |-> IF t < 3 THEN t ELSE t - 2]
=============================================================================
