---------------------------- MODULE RecordingLog ----------------------------
(***************************************************************************)
(* What the recorder promises the user of the recording switch: the frames *)
(* that arrive while the switch is on are handed over to be recorded, all  *)
(* of them, in the order of their arrival, and no other frame is.          *)
(***************************************************************************)
EXTENDS Naturals, Sequences

VARIABLES
  on,      \* the switch
  frames,  \* frames seen so far; the next one is frames + 1
  log      \* the frames handed over to be recorded

vars == <<on, frames, log>>

Init == on = FALSE /\ frames = 0 /\ log = <<>>

Switch(b) == on' = b /\ UNCHANGED <<frames, log>>

Frame ==
  /\ frames' = frames + 1
  /\ log' = IF on THEN Append(log, frames + 1) ELSE log
  /\ UNCHANGED on

Next == Frame \/ \E b \in BOOLEAN : Switch(b)

Spec == Init /\ [][Next]_vars
=============================================================================
