------------------------------ MODULE Recorder ------------------------------
(***************************************************************************)
(* The recorder: AppStreamRecorderController (src/src/main/app.cpp), which *)
(* the HTTP workers and the capturer thread call under confMut, the event  *)
(* queue, and AppStreamRecorderRunner (src/src/main/stream.cpp), a thread  *)
(* of its own that turns the events into files named after the local time  *)
(* of the second in which they are opened. That time comes from the wall   *)
(* clock, which can be set back, and local time repeats by itself when     *)
(* daylight saving ends. EventQueue.tla justifies the atomic Push and Pop. *)
(* A frame is its number of arrival.                                       *)
(***************************************************************************)
EXTENDS Integers, Sequences, SequencesExt

CONSTANTS
  MaxRecordingTime,  \* maxRecordingTimeInSeconds, 0: no rotation
  MaxFrames,         \* bound: captured frames
  MaxSwitches,       \* bound: calls of Start and Stop
  MaxTime,           \* bound: the last second of the clock
  MaxSetBacks,       \* bound: times the clock is set back
  Local              \* what strftime makes of a second's local time; not injective

ASSUME RecorderAssumption ==
  /\ MaxRecordingTime \in Nat
  /\ MaxFrames \in Nat /\ MaxSwitches \in Nat /\ MaxTime \in Nat /\ MaxSetBacks \in Nat
  /\ Local \in [0..MaxTime -> Nat]

VARIABLES
  isRecording,  \* the controller's flag
  conf,         \* what the holder of confMut is about to push; Free: no holder
  queue,        \* the event queue
  cur,          \* the event the runner has popped; Free: none
  step,         \* where the runner is in the handler of cur
  saveRecord,   \* recorderOptions.saveRecord
  startTime,    \* recorderStartTime
  now,          \* the second the runner read in Process
  open,         \* the name of the transcoder's file, Closed without transcoder
  files,        \* the frames in each file, by its name
  written,      \* history: every frame handed to a transcoder
  frames,       \* frames captured so far
  switches,     \* Start and Stop calls so far
  clock,        \* the wall clock, in seconds
  setBacks,     \* times it was set back
  stale         \* history: the names given before it was last set back

controllerVars == <<isRecording, conf, frames, switches>>
runnerVars     == <<cur, step, saveRecord, startTime, now, open, files, written>>
clockVars      == <<clock, setBacks, stale>>
vars           == <<controllerVars, queue, runnerVars, clockVars>>

-----------------------------------------------------------------------------
StartRecording == [kind |-> "start", frame |-> 0]
StopRecording  == [kind |-> "stop", frame |-> 0]
RecordData(f)  == [kind |-> "data", frame |-> f]
Event == [kind : {"start", "stop", "data"}, frame : 0..MaxFrames]
Free   == [kind |-> "none", frame |-> 0]
Closed == -1
Names  == {Local[t] : t \in 0..MaxTime}

\* main() starts with saveRecord = false, so the runner's constructor opens
\* no file.
Init ==
  /\ isRecording = FALSE /\ conf = Free /\ frames = 0 /\ switches = 0
  /\ queue = <<>>
  /\ cur = Free /\ step = "pop" /\ saveRecord = FALSE
  /\ startTime = 0 /\ now = 0 /\ open = Closed
  /\ files = [n \in {} |-> <<>>] /\ written = <<>>
  /\ clock = 0 /\ setBacks = 0 /\ stale = {}

-----------------------------------------------------------------------------
(* The controller. confMut covers the change of the flag and the push.     *)

\* Notify, called by the capturer thread for each frame.
Notify ==
  /\ conf = Free
  /\ frames < MaxFrames
  /\ frames' = frames + 1
  /\ conf' = IF isRecording THEN RecordData(frames + 1) ELSE Free
  /\ UNCHANGED <<isRecording, switches, queue, runnerVars, clockVars>>

Start ==
  /\ conf = Free
  /\ switches < MaxSwitches
  /\ switches' = switches + 1
  /\ isRecording' = TRUE
  /\ conf' = StartRecording
  /\ UNCHANGED <<frames, queue, runnerVars, clockVars>>

\* Mutant: Stop does not take confMut.
StopUnlocked ==
  /\ switches < MaxSwitches
  /\ switches' = switches + 1
  /\ isRecording' = FALSE
  /\ queue' = Append(queue, StopRecording)
  /\ UNCHANGED <<conf, frames, runnerVars, clockVars>>

Stop ==
  /\ conf = Free
  /\ switches < MaxSwitches
  /\ switches' = switches + 1
  /\ isRecording' = FALSE
  /\ conf' = StopRecording
  /\ UNCHANGED <<frames, queue, runnerVars, clockVars>>

\* Each of the three ends with a push and gives the lock back.
Push ==
  /\ conf # Free
  /\ queue' = Append(queue, conf)
  /\ conf' = Free
  /\ UNCHANGED <<isRecording, frames, switches, runnerVars, clockVars>>

-----------------------------------------------------------------------------
(* The runner.                                                             *)

Pop ==
  /\ step = "pop"
  /\ queue # <<>>
  /\ cur' = Head(queue)
  /\ queue' = Tail(queue)
  /\ step' = "handle"
  /\ UNCHANGED <<controllerVars, saveRecord, startTime, now, open, files, written, clockVars>>

\* The file of that name is created, or truncated.
Created(n) == [m \in DOMAIN files \cup {n} |-> IF m = n THEN <<>> ELSE files[m]]

\* Mutant: the name is made from the previous recorderStartTime.
ResetStaleName(save) ==
  /\ open' = IF save THEN Local[startTime] ELSE Closed
  /\ startTime' = IF save THEN clock ELSE startTime
  /\ files' = IF save THEN Created(Local[startTime]) ELSE files

\* Reset(): the old transcoder is destroyed, which completes its file; with
\* "save" a new one opens the file named after the present second.
Reset(save) ==
  /\ open' = IF save THEN Local[clock] ELSE Closed
  /\ startTime' = IF save THEN clock ELSE startTime
  /\ files' = IF save THEN Created(Local[clock]) ELSE files

Return == step' = "pop" /\ cur' = Free

HandleStart ==
  /\ step = "handle" /\ cur.kind = "start"
  /\ saveRecord' = TRUE
  /\ IF saveRecord THEN UNCHANGED <<open, startTime, files>> ELSE Reset(TRUE)
  /\ Return
  /\ UNCHANGED <<controllerVars, queue, now, written, clockVars>>

\* Mutant: saveRecord is set after Reset.
HandleStopLate ==
  /\ step = "handle" /\ cur.kind = "stop"
  /\ saveRecord' = FALSE
  /\ Reset(saveRecord)
  /\ Return
  /\ UNCHANGED <<controllerVars, queue, now, written, clockVars>>

HandleStop ==
  /\ step = "handle" /\ cur.kind = "stop"
  /\ saveRecord' = FALSE
  /\ Reset(FALSE)
  /\ Return
  /\ UNCHANGED <<controllerVars, queue, now, written, clockVars>>

\* Mutant: ">" for ">=".
DueLate == MaxRecordingTime > 0 /\ clock - startTime > MaxRecordingTime

\* The file is as old as it may get.
Due == MaxRecordingTime > 0 /\ clock - startTime >= MaxRecordingTime

\* Process(): a frame is dropped unless recording; then the first reading
\* of the clock.
HandleData ==
  /\ step = "handle" /\ cur.kind = "data"
  /\ IF saveRecord
       THEN /\ now' = clock
            /\ step' = IF Due THEN "rotate" ELSE "write"
            /\ UNCHANGED cur
       ELSE Return /\ UNCHANGED now
  /\ UNCHANGED <<controllerVars, queue, saveRecord, startTime, open, files, written, clockVars>>

\* Mutant: the frame that finds the file too old is not written.
RotateDropsFrame ==
  /\ step = "rotate"
  /\ Reset(saveRecord)
  /\ Return
  /\ UNCHANGED <<controllerVars, queue, saveRecord, now, written, clockVars>>

\* Reset() within Process(): the second reading of the clock.
Rotate ==
  /\ step = "rotate"
  /\ Reset(saveRecord)
  /\ step' = "write"
  /\ UNCHANGED <<controllerVars, queue, cur, saveRecord, now, written, clockVars>>

\* transcoder->Process(buffer)
Write ==
  /\ step = "write"
  /\ files' = [files EXCEPT ![open] = Append(@, cur.frame)]
  /\ written' = Append(written, cur.frame)
  /\ Return
  /\ UNCHANGED <<controllerVars, queue, saveRecord, startTime, now, open, clockVars>>

Tick ==
  /\ clock < MaxTime
  /\ clock' = clock + 1
  /\ UNCHANGED <<controllerVars, queue, runnerVars, setBacks, stale>>

\* The clock is set back, to any earlier second. (Set forward, it ticks.)
SetBack ==
  /\ setBacks < MaxSetBacks
  /\ \E t \in 0..(clock - 1) : clock' = t
  /\ setBacks' = setBacks + 1
  /\ stale' = DOMAIN files
  /\ UNCHANGED <<controllerVars, queue, runnerVars>>

-----------------------------------------------------------------------------
Controller == Notify \/ Start \/ Stop \/ Push
Runner == Pop \/ HandleStart \/ HandleStop \/ HandleData \/ Rotate \/ Write

\* The bounds are reached and the runner waits for an event.
Exhausted ==
  /\ frames = MaxFrames /\ switches = MaxSwitches
  /\ clock = MaxTime /\ setBacks = MaxSetBacks
  /\ conf = Free /\ queue = <<>> /\ step = "pop"
  /\ UNCHANGED vars

Next == Controller \/ Runner \/ Tick \/ SetBack \/ Exhausted

Spec == Init /\ [][Next]_vars

\* The holder of confMut and the runner thread are never blocked for good.
FairSpec == Spec /\ WF_vars(Push) /\ WF_vars(Runner)

-----------------------------------------------------------------------------
\* The type invariant.
TypeOK ==
  /\ isRecording \in BOOLEAN /\ saveRecord \in BOOLEAN
  /\ conf \in Event \cup {Free} /\ cur \in Event \cup {Free}
  /\ queue \in Seq(Event)
  /\ step \in {"pop", "handle", "rotate", "write"}
  /\ startTime \in 0..MaxTime /\ now \in 0..MaxTime /\ clock \in 0..MaxTime
  /\ setBacks \in 0..MaxSetBacks /\ stale \subseteq DOMAIN files
  /\ open \in Names \cup {Closed}
  /\ DOMAIN files \subseteq Names
  /\ files \in [DOMAIN files -> Seq(0..MaxFrames)]
  /\ written \in Seq(0..MaxFrames)
  /\ frames \in 0..MaxFrames /\ switches \in 0..MaxSwitches

\* A frame that was accepted while the switch was on never meets a runner
\* that does not record, although the flag and saveRecord belong to two
\* threads and Start, Stop and frames race: the events are pushed under the
\* same lock as the flag changes (app.cpp, Notify, Start, Stop).
AcceptedIsRecorded == step = "handle" /\ cur.kind = "data" => saveRecord

\* The runner has a transcoder exactly while it records, so Process never
\* dereferences a null one; and once it has caught up, it does what the
\* switch, and so GET /recording, says.
FollowsSwitch ==
  /\ (open # Closed) = saveRecord
  /\ conf = Free /\ queue = <<>> /\ cur = Free => saveRecord = isRecording

\* No frame goes to a file that is maxRecordingTimeInSeconds old, by the
\* clock: the check of Process includes the boundary and looks at the time of
\* this very frame. A clock set back between the two readings of a rotation
\* makes its new file look old, but to its first frame only.
FileAgeBounded ==
  step = "write" /\ MaxRecordingTime > 0 =>
    \/ now - startTime < MaxRecordingTime
    \/ setBacks > 0 /\ files[open] = <<>>

\* Local time says n a second time.
SaidTwice(n) == \E t \in 0..(clock - 1) : Local[t] = n

\* A file loses recorded frames only to a file opened later under the same
\* name, and that takes a recording started again within the second in which
\* the last file was opened, a clock that was set back since the name was
\* given, or local time saying the same twice. Rotation alone, although it
\* reads the clock once for the age and once more for the name (stream.cpp,
\* Process and Reset), never overwrites a file.
OnlyRestartOverwrites ==
  [][\A n \in DOMAIN files :
       \/ n \in DOMAIN files' /\ IsPrefix(files[n], files'[n])
       \/ /\ n = Local[clock]
          /\ \/ cur.kind = "start" /\ clock = startTime
             \/ n \in stale
             \/ SaidTwice(n)]_vars

\* The recorder implements the recording log: the accepted frames are those
\* handed to a transcoder, then the one in the runner's hand, then those on their way.
Logged(e) == IF e.kind = "data" THEN <<e.frame>> ELSE <<>>
Queued(q) == FlattenSeq([i \in DOMAIN q |-> Logged(q[i])])
Log == INSTANCE RecordingLog WITH
         on <- isRecording,
         log <- written \o Logged(cur) \o Queued(queue) \o Logged(conf)
LogSpec == Log!Spec

\* Every accepted frame is handed to a transcoder in the end, without further
\* traffic.
FramesWritten ==
  \A f \in 1..MaxFrames : conf = RecordData(f) ~> f \in ToSet(written)

=============================================================================
