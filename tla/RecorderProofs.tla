--------------------------- MODULE RecorderProofs ---------------------------
(***************************************************************************)
(* Proofs about Recorder, for every number of frames, switches, seconds    *)
(* and set-backs of the clock, every rotation period and every local time: *)
(* its invariants, and that it implements the abstract RecordingLog.       *)
(***************************************************************************)
EXTENDS Recorder, SequenceTheorems, WellFoundedInduction, TLAPS

-----------------------------------------------------------------------------
(* The inductive invariant. Its heart is OrderInv: read from the runner    *)
(* through the queue to the controller, the events tell one story. What    *)
(* an event leaves the recorder doing is On(event).                        *)

On(e) == e.kind # "stop"

\* What the runner does once the event in its hand is handled,
Settled == IF cur = Free THEN saveRecord ELSE On(cur)

\* and once every queued event is handled.
Final == IF queue = <<>> THEN Settled ELSE On(queue[Len(queue)])

OrderInv ==
  /\ cur.kind = "data" => saveRecord
  /\ queue # <<>> /\ queue[1].kind = "data" => Settled
  /\ \A i \in 2..Len(queue) : queue[i].kind = "data" => On(queue[i - 1])
  /\ conf = Free => Final = isRecording
  /\ conf.kind = "data" => Final /\ isRecording
  /\ conf.kind = "start" => isRecording
  /\ conf.kind = "stop" => ~isRecording

\* The runner's own variables.
RunnerInv ==
  /\ (open # Closed) = saveRecord
  /\ step = "pop" <=> cur = Free
  /\ step \in {"rotate", "write"} => cur.kind = "data"

\* A name given since the clock was last set back is that of a second that
\* has passed, no later than startTime, and a rotation is under way only in a
\* later second than that.
FreshName(n) ==
  /\ startTime <= clock
  /\ step = "rotate" => startTime < clock
  /\ \E t \in 0..startTime : Local[t] = n

ClockInv ==
  /\ \A n \in DOMAIN files : n \in stale \/ FreshName(n)
  /\ step = "rotate" /\ setBacks = 0 => now <= clock
  /\ FileAgeBounded

RecorderInv == TypeOK /\ OrderInv /\ RunnerInv /\ ClockInv

-----------------------------------------------------------------------------
\* The invariant holds initially.
LEMMA RecorderInit == Init => RecorderInv
  <1> SUFFICES ASSUME Init PROVE RecorderInv
    OBVIOUS
  <1> USE RecorderAssumption DEF Init
  <1>1. TypeOK
    <2>1. queue \in Seq(Event) /\ written \in Seq(0..MaxFrames)
      OBVIOUS
    <2>2. DOMAIN files = {} /\ files \in [DOMAIN files -> Seq(0..MaxFrames)]
      OBVIOUS
    <2>3. 0 \in 0..MaxFrames /\ 0 \in 0..MaxSwitches /\ 0 \in 0..MaxTime /\ 0 \in 0..MaxSetBacks
      OBVIOUS
    <2> QED BY <2>1, <2>2, <2>3 DEF TypeOK
  <1>2. OrderInv
    <2>1. Len(queue) = 0
      BY EmptySeq
    <2>2. Final = FALSE
      BY DEF Final, Settled
    <2>3. conf.kind = "none" /\ cur.kind = "none"
      BY DEF Free
    <2>4. \A i \in 2..Len(queue) : FALSE
      BY <2>1
    <2> QED BY <2>2, <2>3, <2>4 DEF OrderInv
  <1>3. RunnerInv
    BY DEF RunnerInv, Closed
  <1>4. ClockInv
    BY DEF ClockInv, FileAgeBounded
  <1> QED BY <1>1, <1>2, <1>3, <1>4 DEF RecorderInv

\* Reset keeps the types of what it assigns.
LEMMA ResetType ==
  ASSUME TypeOK, NEW save \in BOOLEAN, Reset(save)
  PROVE  /\ open' \in Names \cup {Closed}
         /\ startTime' \in 0..MaxTime
         /\ DOMAIN files \subseteq DOMAIN files'
         /\ DOMAIN files' \subseteq Names
         /\ files' \in [DOMAIN files' -> Seq(0..MaxFrames)]
  <1>0. Local[clock] \in Names
    BY DEF Names, TypeOK
  <1>1. CASE save
    <2>1. PICK c : c = Local[clock]
      OBVIOUS
    <2>0. files' = [t \in DOMAIN files \cup {c} |-> IF t = c THEN <<>> ELSE files[t]]
      BY <1>1, <2>1 DEF Reset, Created
    <2>2. \A t \in DOMAIN files : files[t] \in Seq(0..MaxFrames)
      BY DEF TypeOK
    <2>3. files' \in [DOMAIN files \cup {c} -> Seq(0..MaxFrames)]
      <3>1. \A t \in DOMAIN files \cup {c} :
              (IF t = c THEN <<>> ELSE files[t]) \in Seq(0..MaxFrames)
        BY <2>2, EmptySeq
      <3> QED BY <2>0, <3>1
    <2> QED BY <1>0, <1>1, <2>0, <2>1, <2>3 DEF Reset, TypeOK
  <1>2. CASE ~save
    BY <1>2 DEF Reset, TypeOK
  <1> QED BY <1>1, <1>2

\* Every step keeps the type invariant.
LEMMA TypeNext == TypeOK /\ RunnerInv /\ [Next]_vars => TypeOK'
  <1> SUFFICES ASSUME TypeOK, RunnerInv, [Next]_vars PROVE TypeOK'
    OBVIOUS
  <1> USE RecorderAssumption DEF clockVars
  <1>1. CASE Notify
    <2>1. frames' \in 0..MaxFrames
      BY <1>1 DEF Notify, TypeOK
    <2>2. conf' \in Event \cup {Free}
      BY <1>1, <2>1 DEF Notify, RecordData, Event
    <2> QED BY <1>1, <2>1, <2>2 DEF Notify, TypeOK, runnerVars
  <1>2. CASE Start \/ Stop
    <2>1. conf' \in Event \cup {Free} /\ switches' \in 0..MaxSwitches
      BY <1>2 DEF Start, Stop, StartRecording, StopRecording, Event, TypeOK
    <2> QED BY <1>2, <2>1 DEF Start, Stop, TypeOK, runnerVars
  <1>3. CASE Push
    <2>1. queue' \in Seq(Event)
      BY <1>3 DEF Push, TypeOK
    <2> QED BY <1>3, <2>1 DEF Push, TypeOK, runnerVars
  <1>4. CASE Pop
    <2>1. Head(queue) \in Event /\ Tail(queue) \in Seq(Event)
      BY <1>4, HeadTailProperties DEF Pop, TypeOK
    <2> QED BY <1>4, <2>1 DEF Pop, TypeOK, controllerVars
  <1>5. CASE HandleStart
    <2>1. CASE saveRecord
      BY <1>5, <2>1 DEF HandleStart, Return, TypeOK, controllerVars
    <2>2. CASE ~saveRecord
      BY <1>5, <2>2, ResetType DEF HandleStart, Return, TypeOK, controllerVars
    <2> QED BY <2>1, <2>2
  <1>6. CASE HandleStop
    BY <1>6, ResetType DEF HandleStop, Return, TypeOK, controllerVars
  <1>7. CASE HandleData
    BY <1>7 DEF HandleData, Return, TypeOK, controllerVars
  <1>8. CASE Rotate
    <2>1. saveRecord \in BOOLEAN /\ Reset(saveRecord)
      BY <1>8 DEF Rotate, TypeOK
    <2> QED BY <1>8, <2>1, ResetType DEF Rotate, TypeOK, controllerVars
  <1>9. CASE Write
    <2>1. cur.frame \in 0..MaxFrames
      BY <1>9 DEF Write, RunnerInv, TypeOK, Event, Free
    <2>2. written' \in Seq(0..MaxFrames)
      BY <1>9, <2>1 DEF Write, TypeOK
    <2>3. DOMAIN files' = DOMAIN files
      BY <1>9 DEF Write
    <2>4. \A t \in DOMAIN files : files'[t] \in Seq(0..MaxFrames)
      BY <1>9, <2>1, AppendProperties DEF Write, TypeOK
    <2>5. files' \in [DOMAIN files' -> Seq(0..MaxFrames)]
      BY <1>9, <2>3, <2>4 DEF Write, TypeOK
    <2> QED BY <1>9, <2>2, <2>3, <2>5 DEF Write, Return, TypeOK, controllerVars
  <1>10. CASE Tick
    BY <1>10 DEF Tick, TypeOK, controllerVars, runnerVars
  <1>12. CASE SetBack
    <2>1. clock' \in 0..MaxTime /\ setBacks' \in 0..MaxSetBacks
      BY <1>12 DEF SetBack, TypeOK
    <2> QED BY <1>12, <2>1 DEF SetBack, TypeOK, controllerVars, runnerVars
  <1>11. CASE UNCHANGED vars
    BY <1>11 DEF vars, controllerVars, runnerVars, TypeOK
  <1> QED
    BY <1>1, <1>2, <1>3, <1>4, <1>5, <1>6, <1>7, <1>8, <1>9, <1>10, <1>11,
       <1>12
    DEF Next, Controller, Runner, Exhausted

\* Every step keeps the order of the events.
LEMMA OrderNext == RecorderInv /\ [Next]_vars => OrderInv'
  <1> SUFFICES ASSUME TypeOK, OrderInv, RunnerInv, [Next]_vars PROVE OrderInv'
    BY DEF RecorderInv
  <1>0. Len(queue) \in Nat /\ (queue = <<>> <=> Len(queue) = 0)
    BY EmptySeq, LenProperties DEF TypeOK
  <1>1. CASE Notify
    BY <1>1 DEF Notify, RecordData, Free, OrderInv, Final, Settled, On, runnerVars
  <1>2. CASE Start \/ Stop
    BY <1>2 DEF Start, Stop, StartRecording, StopRecording, Free, OrderInv, Final,
                Settled, On, runnerVars
  <1>3. CASE Push
    <2>1. conf \in Event /\ queue' = Append(queue, conf) /\ conf' = Free
      BY <1>3 DEF Push, TypeOK
    <2>2. /\ Len(queue') = Len(queue) + 1
          /\ queue'[Len(queue) + 1] = conf
          /\ \A i \in 1..Len(queue) : queue'[i] = queue[i]
          /\ queue' # <<>>
      BY <2>1, AppendProperties DEF TypeOK
    <2>3. Settled' = Settled
      BY <1>3 DEF Push, Settled, runnerVars
    <2>4. Final' = isRecording'
      <3>1. queue'[Len(queue')] = conf
        BY <1>0, <2>2
      <3>2. Final' = On(conf)
        BY <2>2, <3>1 DEF Final, On
      <3>3. conf.kind \in {"start", "stop", "data"}
        BY <2>1 DEF Event
      <3>4. On(conf) = isRecording
        BY <3>3 DEF On, OrderInv, TypeOK
      <3> QED BY <1>3, <3>2, <3>4 DEF Push
    <2>5. queue'[1].kind = "data" => Settled'
      BY <1>0, <2>1, <2>2, <2>3 DEF OrderInv, Final
    <2>6. ASSUME NEW i \in 2..Len(queue'), queue'[i].kind = "data"
          PROVE  On(queue'[i - 1])
      <3>1. CASE i \in 2..Len(queue)
        BY <1>0, <2>2, <2>6, <3>1 DEF OrderInv
      <3>2. CASE i = Len(queue) + 1
        BY <1>0, <2>2, <2>6, <3>2 DEF OrderInv, Final
      <3> QED BY <1>0, <2>2, <3>1, <3>2
    <2>7. cur'.kind = "data" => saveRecord'
      BY <1>3 DEF Push, runnerVars, OrderInv
    <2> QED BY <2>1, <2>4, <2>5, <2>6, <2>7 DEF OrderInv, Free
  <1>4. CASE Pop
    <2>1. cur = Free /\ queue # <<>> /\ cur' = queue[1] /\ queue' = Tail(queue)
      BY <1>4 DEF Pop, RunnerInv
    <2>2. /\ Len(queue') = Len(queue) - 1
          /\ \A i \in 1..Len(queue') : queue'[i] = queue[i + 1]
          /\ queue[1] \in Event
      BY <2>1, HeadTailProperties, <1>0, ElementOfSeq DEF TypeOK
    <2>3. saveRecord' = saveRecord /\ isRecording' = isRecording /\ conf' = conf
      BY <1>4 DEF Pop, controllerVars
    <2>4. cur' # Free /\ Settled' = On(queue[1])
      BY <2>1, <2>2 DEF Settled, Event, Free, On
    <2>5. cur'.kind = "data" => saveRecord'
      BY <2>1, <2>3 DEF OrderInv, Settled
    <2>6. queue' # <<>> <=> Len(queue) > 1
      <3>1. queue' \in Seq(Event)
        BY <2>1, HeadTailProperties DEF TypeOK
      <3>2. queue' = <<>> <=> Len(queue') = 0
        BY <3>1, EmptySeq
      <3> QED BY <1>0, <2>1, <2>2, <3>2
    <2>7. queue' # <<>> /\ queue'[1].kind = "data" => Settled'
      <3> SUFFICES ASSUME queue' # <<>>, queue'[1].kind = "data" PROVE Settled'
        OBVIOUS
      <3>1. queue'[1] = queue[2] /\ 2 \in 2..Len(queue) /\ 2 - 1 = 1
        BY <1>0, <2>2, <2>6
      <3> QED BY <2>4, <3>1 DEF OrderInv
    <2>8. \A i \in 2..Len(queue') : queue'[i].kind = "data" => On(queue'[i - 1])
      <3> SUFFICES ASSUME NEW i \in 2..Len(queue'), queue'[i].kind = "data"
                   PROVE  On(queue'[i - 1])
        OBVIOUS
      <3>1. queue'[i] = queue[i + 1] /\ queue'[i - 1] = queue[i] /\ i + 1 \in 2..Len(queue)
        BY <1>0, <2>2
      <3> QED BY <3>1 DEF OrderInv
    <2>9. Final' = Final
      <3>1. CASE queue' = <<>>
        BY <1>0, <2>1, <2>4, <2>6, <3>1 DEF Final
      <3>2. CASE queue' # <<>>
        <4>1. queue'[Len(queue')] = queue[Len(queue)]
          BY <1>0, <2>2, <2>6, <3>2
        <4> QED BY <2>1, <3>2, <4>1 DEF Final, On
      <3> QED BY <3>1, <3>2
    <2> QED BY <2>3, <2>5, <2>7, <2>8, <2>9 DEF OrderInv
  <1>5. CASE HandleStart \/ HandleStop \/ HandleData \/ Rotate \/ Write
    <2>1. UNCHANGED <<queue, isRecording, conf>>
      BY <1>5 DEF HandleStart, HandleStop, HandleData, Rotate, Write, controllerVars
    <2>2. cur # Free /\ Settled' = Settled /\ (cur'.kind = "data" => saveRecord')
      <3>1. CASE HandleStart \/ HandleStop
        <4>1. cur # Free
          BY <3>1 DEF HandleStart, HandleStop, RunnerInv
        <4>2. cur' = Free /\ saveRecord' = On(cur)
          BY <3>1 DEF HandleStart, HandleStop, Return, On
        <4>3. cur'.kind = "none"
          BY <4>2 DEF Free
        <4> QED BY <4>1, <4>2, <4>3 DEF Settled
      <3>2. CASE HandleData
        BY <3>2 DEF HandleData, Return, Settled, On, Free, RunnerInv, OrderInv, TypeOK
      <3>3. CASE Rotate
        BY <3>3 DEF Rotate, Settled, On, RunnerInv, OrderInv, Free
      <3>4. CASE Write
        BY <3>4 DEF Write, Return, Settled, On, Free, RunnerInv, OrderInv, TypeOK
      <3> QED BY <1>5, <3>1, <3>2, <3>3, <3>4
    <2> QED BY <2>1, <2>2 DEF OrderInv, Final
  <1>6. CASE Tick \/ SetBack \/ UNCHANGED vars
    BY <1>6 DEF Tick, SetBack, vars, controllerVars, runnerVars, OrderInv, Final, Settled
  <1> QED
    BY <1>1, <1>2, <1>3, <1>4, <1>5, <1>6 DEF Next, Controller, Runner, Exhausted

\* Every step keeps the runner's own invariant.
LEMMA RunnerNext == RecorderInv /\ [Next]_vars => RunnerInv'
  <1> SUFFICES ASSUME TypeOK, OrderInv, RunnerInv, [Next]_vars PROVE RunnerInv'
    BY DEF RecorderInv
  <1>1. CASE Controller \/ Tick \/ SetBack \/ UNCHANGED vars
    BY <1>1 DEF Controller, Notify, Start, Stop, Push, Tick, SetBack, vars, controllerVars,
                runnerVars, RunnerInv
  <1>2. CASE Pop
    <2>1. Head(queue) \in Event
      BY <1>2, HeadTailProperties DEF Pop, TypeOK
    <2> QED BY <1>2, <2>1 DEF Pop, RunnerInv, Event, Free
  <1>3. CASE HandleStart \/ HandleStop
    <2>1. CASE HandleStart /\ saveRecord
      BY <2>1 DEF HandleStart, Return, RunnerInv, Free
    <2>2. CASE HandleStart /\ ~saveRecord
      <3>1. Local[clock] # Closed
        BY RecorderAssumption DEF TypeOK, Closed
      <3> QED BY <2>2, <3>1 DEF HandleStart, Reset, Return, RunnerInv, Free
    <2>3. CASE HandleStop
      BY <2>3 DEF HandleStop, Reset, Return, RunnerInv, Free
    <2> QED BY <1>3, <2>1, <2>2, <2>3
  <1>4. CASE HandleData
    BY <1>4 DEF HandleData, Return, RunnerInv
  <1>5. CASE Rotate
    BY <1>5, RecorderAssumption DEF Rotate, Reset, RunnerInv, OrderInv, Closed, TypeOK
  <1>6. CASE Write
    BY <1>6 DEF Write, Return, RunnerInv
  <1> QED BY <1>1, <1>2, <1>3, <1>4, <1>5, <1>6 DEF Next, Runner, Exhausted

\* Reset gives a name of the present second to a new file.
LEMMA ResetNames ==
  ASSUME TypeOK, ClockInv, NEW save \in BOOLEAN, Reset(save), UNCHANGED clockVars,
         step' # "rotate"
  PROVE  \A n \in DOMAIN files' : n \in stale' \/ FreshName(n)'
  <1> SUFFICES ASSUME NEW n \in DOMAIN files', n \notin stale PROVE FreshName(n)'
    BY DEF clockVars
  <1> USE RecorderAssumption DEF clockVars
  <1>1. CASE n \in DOMAIN files /\ ~save
    BY <1>1 DEF Reset, ClockInv, FreshName, TypeOK
  <1>2. CASE n \in DOMAIN files /\ save
    <2>1. startTime' = clock /\ clock' = clock
      BY <1>2 DEF Reset
    <2>2. PICK t \in 0..startTime : Local[t] = n
      BY <1>2 DEF ClockInv, FreshName
    <2>3. startTime <= clock
      BY <1>2 DEF ClockInv, FreshName
    <2>4. t \in 0..startTime'
      BY <2>1, <2>2, <2>3 DEF TypeOK
    <2> QED BY <2>1, <2>2, <2>4 DEF FreshName, TypeOK
  <1>3. CASE n \notin DOMAIN files
    <2>1. save /\ n = Local[clock] /\ startTime' = clock /\ clock' = clock
      BY <1>3 DEF Reset, Created
    <2>2. clock \in 0..startTime'
      BY <2>1 DEF TypeOK
    <2> QED BY <2>1, <2>2 DEF FreshName, TypeOK
  <1> QED BY <1>1, <1>2, <1>3

\* A step that leaves the files, their last opening and the clock alone keeps
\* the names, unless a rotation begins.
LEMMA NamesKept ==
  ASSUME ClockInv, DOMAIN files' = DOMAIN files, startTime' = startTime, UNCHANGED clockVars,
         step' = "rotate" => step = "rotate"
  PROVE  \A n \in DOMAIN files' : n \in stale' \/ FreshName(n)'
  BY DEF ClockInv, FreshName, clockVars

\* Every step keeps names and ages right.
LEMMA ClockNext == RecorderInv /\ [Next]_vars => ClockInv'
  <1> SUFFICES ASSUME TypeOK, OrderInv, RunnerInv, ClockInv, [Next]_vars PROVE ClockInv'
    BY DEF RecorderInv
  <1> USE RecorderAssumption
  <1>1. CASE Controller \/ UNCHANGED vars
    <2>1. UNCHANGED <<runnerVars, clockVars>>
      BY <1>1 DEF Controller, Notify, Start, Stop, Push, vars
    <2> QED BY <2>1 DEF runnerVars, clockVars, ClockInv, FreshName, FileAgeBounded
  <1>2. CASE Tick
    <2>1. UNCHANGED <<runnerVars, setBacks, stale>> /\ clock' = clock + 1
      BY <1>2 DEF Tick
    <2>2. ASSUME NEW n \in DOMAIN files', n \notin stale' PROVE FreshName(n)'
      <3>1. UNCHANGED <<files, startTime, step>> /\ n \in DOMAIN files /\ n \notin stale
        BY <2>1, <2>2 DEF runnerVars
      <3>2. FreshName(n)
        BY <3>1 DEF ClockInv
      <3>3. startTime \in Nat /\ clock \in Nat
        BY DEF TypeOK
      <3> QED BY <2>1, <3>1, <3>2, <3>3 DEF FreshName
    <2> QED BY <2>1, <2>2 DEF runnerVars, ClockInv, FileAgeBounded, TypeOK
  <1>3. CASE SetBack
    <2>1. UNCHANGED runnerVars /\ setBacks' > 0 /\ stale' = DOMAIN files'
      BY <1>3 DEF SetBack, runnerVars, TypeOK
    <2>2. FileAgeBounded'
      BY <2>1 DEF runnerVars, ClockInv, FileAgeBounded
    <2> QED BY <2>1, <2>2 DEF ClockInv
  <1>4. CASE Pop
    <2>1. /\ UNCHANGED <<files, startTime, clockVars>> /\ step' = "handle"
      BY <1>4 DEF Pop
    <2> QED BY <2>1, NamesKept DEF ClockInv, FileAgeBounded
  <1>5. CASE HandleStart \/ HandleStop
    <2>1. step' = "pop" /\ UNCHANGED clockVars
      BY <1>5 DEF HandleStart, HandleStop, Return
    <2>2. CASE Reset(TRUE) \/ Reset(FALSE)
      BY <2>1, <2>2, ResetNames DEF ClockInv, FileAgeBounded
    <2>3. CASE UNCHANGED <<startTime, files>>
      BY <2>1, <2>3, NamesKept DEF ClockInv, FileAgeBounded
    <2> QED BY <1>5, <2>2, <2>3 DEF HandleStart, HandleStop
  <1>6. CASE HandleData
    <2>1. UNCHANGED <<files, startTime, clockVars, open>>
      BY <1>6 DEF HandleData
    <2>2. CASE ~saveRecord
      BY <1>6, <2>1, <2>2, NamesKept DEF HandleData, Return, ClockInv, FileAgeBounded
    <2>3. CASE saveRecord /\ Due
      <3>1. now' = clock /\ step' = "rotate" /\ clock - startTime >= MaxRecordingTime
        BY <1>6, <2>3 DEF HandleData, Due
      <3>2. startTime < clock
        BY <2>3, <3>1 DEF Due, TypeOK
      <3>3. \A n \in DOMAIN files' : n \in stale' \/ FreshName(n)'
        BY <2>1, <3>2 DEF ClockInv, FreshName, clockVars
      <3> QED BY <2>1, <3>1, <3>3 DEF ClockInv, FileAgeBounded, clockVars, TypeOK
    <2>4. CASE saveRecord /\ ~Due
      <3>1. now' = clock /\ step' = "write"
        BY <1>6, <2>4 DEF HandleData
      <3>2. \A n \in DOMAIN files' : n \in stale' \/ FreshName(n)'
        BY <2>1, <3>1, NamesKept
      <3>3. FileAgeBounded'
        BY <2>1, <2>4, <3>1 DEF FileAgeBounded, Due, TypeOK
      <3> QED BY <3>1, <3>2, <3>3 DEF ClockInv
    <2> QED BY <2>2, <2>3, <2>4
  <1>7. CASE Rotate
    <2>1. Reset(TRUE) /\ step = "rotate" /\ step' = "write" /\ UNCHANGED <<now, clockVars>>
      BY <1>7 DEF Rotate, OrderInv, RunnerInv
    <2>2. \A n \in DOMAIN files' : n \in stale' \/ FreshName(n)'
      BY <2>1, ResetNames
    <2>3. FileAgeBounded'
      <3>1. CASE setBacks = 0
        <4>1. now <= clock /\ startTime' = clock /\ now' = now
          BY <2>1, <3>1 DEF ClockInv, Reset
        <4> QED BY <4>1 DEF FileAgeBounded, TypeOK
      <3>2. CASE setBacks # 0
        <4>1. setBacks' > 0
          BY <2>1, <3>2 DEF clockVars, TypeOK
        <4>2. files'[open'] = <<>>
          BY <2>1 DEF Reset, Created
        <4> QED BY <4>1, <4>2 DEF FileAgeBounded
      <3> QED BY <3>1, <3>2
    <2> QED BY <2>1, <2>2, <2>3 DEF ClockInv
  <1>8. CASE Write
    <2>1. /\ step' = "pop" /\ UNCHANGED <<startTime, clockVars>>
          /\ DOMAIN files' = DOMAIN files
      BY <1>8 DEF Write, Return
    <2> QED BY <2>1, NamesKept DEF ClockInv, FileAgeBounded
  <1> QED
    BY <1>1, <1>2, <1>3, <1>4, <1>5, <1>6, <1>7, <1>8 DEF Next, Runner, Exhausted

\* The inductive invariant holds in every reachable state.
THEOREM RecorderInvariant == Spec => []RecorderInv
  <1>1. RecorderInv /\ [Next]_vars => RecorderInv'
    BY TypeNext, OrderNext, RunnerNext, ClockNext DEF RecorderInv
  <1> QED BY <1>1, RecorderInit, PTL DEF Spec

\* No accepted frame meets a runner that does not record.
THEOREM AcceptedCorrect == Spec => []AcceptedIsRecorded
  <1>1. RecorderInv => AcceptedIsRecorded
    BY DEF RecorderInv, OrderInv, AcceptedIsRecorded
  <1> QED BY <1>1, RecorderInvariant, PTL

\* The runner has a transcoder exactly while it records, and once it has
\* caught up with the queue it does what the switch says.
THEOREM SwitchCorrect == Spec => []FollowsSwitch
  <1>1. RecorderInv => FollowsSwitch
    BY DEF RecorderInv, OrderInv, RunnerInv, Final, Settled, FollowsSwitch
  <1> QED BY <1>1, RecorderInvariant, PTL

\* No frame goes to a file that is too old.
THEOREM AgeCorrect == Spec => []FileAgeBounded
  <1>1. RecorderInv => FileAgeBounded
    BY DEF RecorderInv, ClockInv
  <1> QED BY <1>1, RecorderInvariant, PTL

\* A sequence is a prefix of itself
LEMMA PrefixSelf ==
  ASSUME NEW S, NEW q \in Seq(S)
  PROVE  IsPrefix(q, q)
  BY LenProperties DEF IsPrefix

\* and of what is appended to it.
LEMMA PrefixAppend ==
  ASSUME NEW S, NEW q \in Seq(S), NEW e \in S
  PROVE  IsPrefix(q, Append(q, e))
  <1>1. Len(q) \in Nat /\ \A i \in 1..Len(q) : q[i] \in S
    BY LenProperties, ElementOfSeq
  <1>2. /\ Append(q, e) \in Seq(S)
        /\ Len(Append(q, e)) = Len(q) + 1
        /\ \A i \in 1..Len(q) : Append(q, e)[i] = q[i]
    BY AppendProperties
  <1> DEFINE a == SubSeq(q, 1, Len(q))
             b == SubSeq(Append(q, e), 1, Len(q))
  <1>3. a \in Seq(S) /\ Len(a) = Len(q) /\ \A i \in 1..Len(q) : a[i] = q[i]
    BY <1>1, SubSeqProperties
  <1>4. \A i \in 1..Len(q) : Append(q, e)[i] \in S
    BY <1>1, <1>2
  <1>5. b \in Seq(S) /\ Len(b) = Len(q) /\ \A i \in 1..Len(q) : b[i] = q[i]
    BY <1>1, <1>2, <1>4, SubSeqProperties
  <1>6. a = b
    BY <1>3, <1>5, SeqEqual
  <1> QED BY <1>1, <1>2, <1>6 DEF IsPrefix

\* Recorded frames are lost only to a file opened later under the same name:
\* by a restart within the second, after the clock was set back, or in a
\* second whose local time was said before; never by rotation alone.
THEOREM OverwriteCorrect == Spec => OnlyRestartOverwrites
  <1> DEFINE Kept(n) == n \in DOMAIN files' /\ IsPrefix(files[n], files'[n])
             KeptOrRepeated(n) == \/ n \in DOMAIN files' /\ IsPrefix(files[n], files'[n])
                                  \/ /\ n = Local[clock]
                                     /\ \/ cur.kind = "start" /\ clock = startTime
                                        \/ n \in stale
                                        \/ SaidTwice(n)
  <1>1. ASSUME RecorderInv, [Next]_vars, NEW n \in DOMAIN files PROVE KeptOrRepeated(n)
    <2>1. files[n] \in Seq(0..MaxFrames)
      BY <1>1 DEF RecorderInv, TypeOK
    <2>2. CASE UNCHANGED files
      BY <2>1, <2>2, PrefixSelf
    \* A name said before, in this second or an earlier one.
    <2>3. ASSUME n = Local[clock], n \notin stale, ~SaidTwice(n)
          PROVE  clock = startTime /\ step # "rotate"
      <3>1. FreshName(n) /\ startTime \in Nat /\ clock \in Nat
        BY <1>1, <2>3, RecorderAssumption DEF RecorderInv, ClockInv, TypeOK
      <3>2. PICK t \in 0..startTime : Local[t] = n
        BY <3>1 DEF FreshName
      <3>3. t \notin 0..(clock - 1)
        BY <2>3, <3>2 DEF SaidTwice
      <3>4. clock = startTime
        BY <3>1, <3>2, <3>3 DEF FreshName
      <3> QED BY <3>1, <3>4 DEF FreshName
    <2>4. ASSUME Reset(TRUE) PROVE Kept(n) \/ n = Local[clock]
      <3>1. PICK c : c = Local[clock]
        OBVIOUS
      <3>2. files' = [u \in DOMAIN files \cup {c} |-> IF u = c THEN <<>> ELSE files[u]]
        BY <2>4, <3>1 DEF Reset, Created
      <3>3. CASE n # c
        BY <2>1, <3>2, <3>3, PrefixSelf
      <3> QED BY <3>1, <3>3
    <2>5. CASE HandleStart /\ ~saveRecord
      <3>1. cur.kind = "start" /\ Reset(TRUE)
        BY <2>5 DEF HandleStart
      <3> QED BY <2>3, <2>4, <3>1
    <2>6. CASE Rotate
      <3>1. step = "rotate" /\ Reset(TRUE)
        BY <1>1, <2>6 DEF Rotate, RecorderInv, RunnerInv, OrderInv
      <3> QED BY <2>3, <2>4, <3>1
    <2>7. CASE Write
      <3>1. cur.frame \in 0..MaxFrames
        BY <1>1, <2>7 DEF Write, RecorderInv, RunnerInv, TypeOK, Event, Free
      <3>2. files' = [files EXCEPT ![open] = Append(@, cur.frame)]
        BY <2>7 DEF Write
      <3>3. files'[n] \in {files[n], Append(files[n], cur.frame)} /\ n \in DOMAIN files'
        BY <3>2
      <3>4. IsPrefix(files[n], files[n])
        BY <2>1, PrefixSelf
      <3>5. IsPrefix(files[n], Append(files[n], cur.frame))
        BY <2>1, <3>1, PrefixAppend
      <3> QED BY <3>3, <3>4, <3>5
    <2>8. UNCHANGED files \/ (HandleStart /\ ~saveRecord) \/ Rotate \/ Write
      BY <1>1
      DEF Next, Controller, Runner, Exhausted, Notify, Start, Stop, Push, Pop, HandleStart,
          HandleStop, HandleData, Reset, Tick, SetBack, vars, controllerVars, runnerVars
    <2> QED BY <2>2, <2>5, <2>6, <2>7, <2>8
  <1>2. RecorderInv /\ [Next]_vars => [\A n \in DOMAIN files : KeptOrRepeated(n)]_vars
    BY <1>1
  <1> QED BY <1>2, RecorderInvariant, PTL DEF Spec, OnlyRestartOverwrites

-----------------------------------------------------------------------------
(* The recorder implements the recording log.                              *)

\* A set of numbers has a least member.
LEMMA LeastNumber ==
  ASSUME NEW T, T \subseteq Nat, T # {}
  PROVE  \E m \in T : \A n \in T : m <= n
  <1> DEFINE R == OpToRel(<, Nat)
  <1>1. IsWellFoundedOn(R, Nat)
    BY NatLessThanWellFounded
  <1>2. \E m \in T : \A n \in T : ~ (<<n, m>> \in R)
    <2> HIDE DEF R
    <2> QED BY <1>1, WFMin
  <1>3. PICK m \in T : \A n \in T : ~ (<<n, m>> \in R)
    BY <1>2
  <1>4. ASSUME NEW n \in T PROVE m <= n
    <2>1. m \in Nat /\ n \in Nat
      OBVIOUS
    <2>2. ~ (n < m)
      BY <1>3, <2>1, Zenon DEF OpToRel
    <2> QED BY <2>1, <2>2
  <1> QED BY <1>4

(* Facts about FlattenSeq. Its definition is recursive; what holds of all  *)
(* its values is shown by a least counterexample.                          *)

\* What FlattenSeq computes: the concatenation of the first i sequences.
Flattens(s, n, f) ==
  f = [i \in 1..n |-> IF i = 1 THEN s[i] ELSE f[i - 1] \o s[i]]

\* It is defined,
LEMMA FlattenExists ==
  ASSUME NEW s, NEW n \in Nat
  PROVE  \E f : Flattens(s, n, f)
  <1> DEFINE Bad == {m \in Nat : ~ \E f : Flattens(s, m, f)}
  <1> SUFFICES ASSUME n \in Bad PROVE FALSE
    OBVIOUS
  <1>1. PICK m \in Bad : \A k \in Bad : m <= k
    BY LeastNumber
  <1>2. CASE m = 0
    <2> DEFINE f == [i \in 1..0 |-> 0]
    <2>1. Flattens(s, 0, f)
      BY DEF Flattens
    <2> QED BY <1>2, <2>1
  <1>3. CASE m # 0
    <2>1. m - 1 \in Nat /\ m - 1 \notin Bad
      BY <1>1, <1>3
    <2>2. PICK g : Flattens(s, m - 1, g)
      BY <2>1
    <2> DEFINE f == [i \in 1..m |-> IF i < m THEN g[i] ELSE IF m = 1 THEN s[m] ELSE g[m - 1] \o s[m]]
    <2>3. \A i \in 1..m : f[i] = IF i = 1 THEN s[i] ELSE f[i - 1] \o s[i]
      <3> TAKE i \in 1..m
      <3>1. CASE i < m
        <4>1. i \in 1..(m - 1)
          BY <3>1
        <4>2. g[i] = IF i = 1 THEN s[i] ELSE g[i - 1] \o s[i]
          BY <2>2, <4>1 DEF Flattens
        <4>3. f[i] = g[i] /\ (i # 1 => f[i - 1] = g[i - 1])
          BY <3>1, <2>1
        <4> QED BY <4>2, <4>3
      <3>2. CASE i = m
        <4>1. f[i] = IF m = 1 THEN s[m] ELSE g[m - 1] \o s[m]
          BY <3>2
        <4>2. m # 1 => f[m - 1] = g[m - 1]
          BY <2>1
        <4> QED BY <3>2, <4>1, <4>2
      <3> QED BY <3>1, <3>2
    <2>4. Flattens(s, m, f)
      <3> DEFINE h == [i \in 1..m |-> IF i = 1 THEN s[i] ELSE f[i - 1] \o s[i]]
      <3>1. \A i \in 1..m : f[i] = h[i]
        BY <2>3
      <3>2. f = h
        <4> HIDE DEF h
        <4>1. DOMAIN h = 1..m /\ h = [i \in DOMAIN h |-> h[i]]
          BY DEF h
        <4>2. DOMAIN f = 1..m /\ f = [i \in DOMAIN f |-> f[i]]
          OBVIOUS
        <4> HIDE DEF f
        <4> QED BY <3>1, <4>1, <4>2
      <3> QED BY <3>2 DEF Flattens
    <2> QED BY <2>4
  <1> QED BY <1>2, <1>3

\* FlattenSeq is the last value of such a function,
LEMMA FlattenIs ==
  ASSUME NEW s, Len(s) \in Nat, Len(s) # 0
  PROVE  \E f : Flattens(s, Len(s), f) /\ FlattenSeq(s) = f[Len(s)]
  <1> DEFINE f == CHOOSE f : Flattens(s, Len(s), f)
  <1>1. Flattens(s, Len(s), f)
    BY FlattenExists
  <1>2. FlattenSeq(s) = f[Len(s)]
    BY DEF FlattenSeq, Flattens
  <1> QED BY <1>1, <1>2

\* whose values are sequences, and do not depend on the sequences to come.
LEMMA FlattenValues ==
  ASSUME NEW S, NEW s \in Seq(Seq(S)), NEW n \in 0..Len(s), NEW f, Flattens(s, n, f),
         NEW i \in 1..n
  PROVE  f[i] \in Seq(S)
  <1> DEFINE Bad == {m \in 1..n : f[m] \notin Seq(S)}
  <1> SUFFICES ASSUME i \in Bad PROVE FALSE
    OBVIOUS
  <1>1. Bad \subseteq Nat
    BY LenProperties
  <1>2. PICK m \in Bad : \A k \in Bad : m <= k
    BY <1>1, LeastNumber
  <1>3. f[m] = IF m = 1 THEN s[m] ELSE f[m - 1] \o s[m]
    BY DEF Flattens
  <1>4. m \in 1..Len(s) /\ s[m] \in Seq(S)
    BY ElementOfSeq, LenProperties
  <1>5. m # 1 => f[m - 1] \in Seq(S)
    <2>1. m # 1 => m - 1 \in 1..n /\ m - 1 \notin Bad
      BY <1>2, LenProperties
    <2> QED BY <2>1
  <1> QED BY <1>3, <1>4, <1>5, ConcatProperties

\* Two such functions agree where their sequences do.
LEMMA FlattenSame ==
  ASSUME NEW S, NEW s \in Seq(Seq(S)), NEW x \in Seq(S),
         NEW f, Flattens(s, Len(s), f), NEW g, Flattens(Append(s, x), Len(s) + 1, g),
         NEW i \in 1..Len(s)
  PROVE  f[i] = g[i]
  <1> DEFINE n == Len(s)
             t == Append(s, x)
             Bad == {k \in 1..n : f[k] # g[k]}
  <1> SUFFICES ASSUME i \in Bad PROVE FALSE
    OBVIOUS
  <1>1. n \in Nat /\ \A k \in 1..n : s[k] = t[k]
    BY AppendProperties, LenProperties
  <1>2. Bad \subseteq Nat
    OBVIOUS
  <1>3. PICK k \in Bad : \A j \in Bad : k <= j
    BY <1>2, LeastNumber
  <1>4. /\ f[k] = IF k = 1 THEN s[k] ELSE f[k - 1] \o s[k]
        /\ g[k] = IF k = 1 THEN t[k] ELSE g[k - 1] \o t[k]
    <2>1. k \in 1..n /\ k \in 1..(n + 1)
      BY <1>1
    <2> HIDE DEF n, t
    <2>2. Flattens(s, n, f) /\ Flattens(t, n + 1, g)
      BY DEF n, t
    <2> QED BY <2>1, <2>2 DEF Flattens
  <1>5. k # 1 => f[k - 1] = g[k - 1]
    <2>1. n \in Nat /\ k \in 1..n
      BY <1>1
    <2> SUFFICES ASSUME k # 1 PROVE f[k - 1] = g[k - 1]
      OBVIOUS
    <2>2. k - 1 \in 1..n /\ ~ (k <= k - 1)
      BY <2>1
    <2>3. k - 1 \notin Bad
      BY <1>3, <2>2
    <2> QED BY <2>2, <2>3
  <1>6. s[k] = t[k]
    BY <1>1
  <1> QED BY <1>4, <1>5, <1>6

\* Flattening nothing gives nothing.
LEMMA FlattenEmpty == FlattenSeq(<<>>) = <<>>
  BY DEF FlattenSeq

\* Flattening gives a sequence of the same elements,
LEMMA FlattenType ==
  ASSUME NEW S, NEW s \in Seq(Seq(S))
  PROVE  FlattenSeq(s) \in Seq(S)
  <1>1. CASE Len(s) = 0
    <2>1. s = <<>>
      BY <1>1, EmptySeq
    <2> QED BY <2>1, FlattenEmpty, EmptySeq
  <1>2. CASE Len(s) # 0
    <2>1. Len(s) \in Nat /\ Len(s) \in 1..Len(s) /\ Len(s) \in 0..Len(s)
      BY <1>2, LenProperties
    <2>2. PICK f : Flattens(s, Len(s), f) /\ FlattenSeq(s) = f[Len(s)]
      BY <1>2, <2>1, FlattenIs
    <2> QED BY <2>1, <2>2, FlattenValues
  <1> QED BY <1>1, <1>2

\* grows at its end with the sequence of sequences,
LEMMA FlattenAppend ==
  ASSUME NEW S, NEW s \in Seq(Seq(S)), NEW x \in Seq(S)
  PROVE  FlattenSeq(Append(s, x)) = FlattenSeq(s) \o x
  <1> DEFINE t == Append(s, x)
             n == Len(s)
  <1>1. /\ t \in Seq(Seq(S)) /\ Len(t) = n + 1 /\ n \in Nat
        /\ \A i \in 1..n : s[i] = t[i]
        /\ t[n + 1] = x
    BY AppendProperties, LenProperties
  <1> HIDE DEF t
  <1>2. PICK g : Flattens(t, n + 1, g) /\ FlattenSeq(t) = g[n + 1]
    BY <1>1, FlattenIs
  <1>3. g[n + 1] = IF n = 0 THEN x ELSE g[n] \o x
    <2>1. n + 1 \in 1..(n + 1) /\ (n + 1) - 1 = n /\ (n + 1 = 1 <=> n = 0)
      BY <1>1
    <2>2. g[n + 1] = IF n + 1 = 1 THEN t[n + 1] ELSE g[(n + 1) - 1] \o t[n + 1]
      BY <1>2, <2>1 DEF Flattens
    <2> QED BY <1>1, <2>1, <2>2
  <1>4. CASE n = 0
    <2>1. s = <<>>
      BY <1>4, EmptySeq
    <2>2. FlattenSeq(s) = <<>>
      BY <2>1, FlattenEmpty
    <2> QED BY <1>2, <1>3, <1>4, <2>2, ConcatEmptySeq DEF t
  <1>5. CASE n # 0
    <2>1. PICK f : Flattens(s, n, f) /\ FlattenSeq(s) = f[n]
      BY <1>1, <1>5, FlattenIs
    <2>2. f[n] = g[n]
      <3>1. n \in 1..n
        BY <1>1, <1>5
      <3>2. Flattens(Append(s, x), n + 1, g)
        BY <1>2 DEF t
      <3> QED BY <2>1, <3>1, <3>2, FlattenSame
    <2> QED BY <1>2, <1>3, <1>5, <2>1, <2>2 DEF t
  <1> QED BY <1>4, <1>5

\* and keeps its head when it grows,
LEMMA FlattenHeadStep ==
  ASSUME NEW S, NEW p \in Seq(Seq(S)), NEW x \in Seq(S)
  PROVE  p # <<>> /\ FlattenSeq(p) = Head(p) \o FlattenSeq(Tail(p)) =>
           FlattenSeq(Append(p, x)) = Head(p) \o FlattenSeq(Append(Tail(p), x))
  <1>1. ASSUME NEW h \in Seq(S), NEW r \in Seq(S)
        PROVE  (h \o r) \o x = h \o (r \o x)
    BY ConcatAssociative
  <1>2. FlattenSeq(Append(p, x)) = FlattenSeq(p) \o x
    BY FlattenAppend
  <1> SUFFICES ASSUME p # <<>>, FlattenSeq(p) = Head(p) \o FlattenSeq(Tail(p))
               PROVE  FlattenSeq(Append(p, x)) = Head(p) \o FlattenSeq(Append(Tail(p), x))
    OBVIOUS
  <1>3. Head(p) \in Seq(S) /\ Tail(p) \in Seq(Seq(S))
    BY HeadTailProperties
  <1>4. FlattenSeq(Append(Tail(p), x)) = FlattenSeq(Tail(p)) \o x
    BY <1>3, FlattenAppend
  <1>5. FlattenSeq(Tail(p)) \in Seq(S)
    BY <1>3, FlattenType
  <1> QED BY <1>1, <1>2, <1>3, <1>4, <1>5

\* and begins with its first element.
LEMMA FlattenHead ==
  ASSUME NEW S, NEW s \in Seq(Seq(S)), s # <<>>
  PROVE  FlattenSeq(s) = Head(s) \o FlattenSeq(Tail(s))
  <1> DEFINE Q == Seq(Seq(S))
             Right(q) == FlattenSeq(q) = Head(q) \o FlattenSeq(Tail(q))
             Bad == {n \in Nat : \E q \in Q : q # <<>> /\ Len(q) = n /\ ~ Right(q)}
  <1> SUFFICES ASSUME ~ Right(s) PROVE FALSE
    OBVIOUS
  <1>1. Len(s) \in Bad
    BY LenProperties
  <1>2. PICK n \in Bad : \A k \in Bad : n <= k
    BY <1>1, LeastNumber
  <1>3. PICK q \in Q : q # <<>> /\ Len(q) = n /\ ~ Right(q)
    BY <1>2
  <1>4. PICK p \in Q, x \in Seq(S) : q = Append(p, x)
    BY <1>3, SequenceEmptyOrAppend
  <1>5. FlattenSeq(q) = FlattenSeq(p) \o x
    BY <1>4, FlattenAppend
  <1>6. CASE p = <<>>
    <2>1. Head(q) = x /\ Tail(q) = <<>>
      BY <1>4, <1>6, HeadTailAppend
    <2>2. FlattenSeq(q) = x /\ FlattenSeq(Tail(q)) = <<>>
      BY <1>5, <1>6, <2>1, FlattenEmpty, ConcatEmptySeq
    <2> QED BY <1>3, <2>1, <2>2, ConcatEmptySeq
  <1>7. CASE p # <<>>
    <2>1. Head(q) = Head(p) /\ Tail(q) = Append(Tail(p), x)
      BY <1>4, <1>7, HeadTailAppend
    <2>2. Head(p) \in Seq(S) /\ Tail(p) \in Q
      BY <1>7, HeadTailProperties
    <2>3. Len(p) \in Nat /\ Len(p) < n
      BY <1>3, <1>4, AppendProperties, LenProperties
    <2>4. Right(p)
      <3>1. Len(p) \notin Bad
        BY <1>2, <1>3, <2>3
      <3> QED BY <1>7, <2>3, <3>1
    <2>5. FlattenSeq(q) = Head(p) \o FlattenSeq(Append(Tail(p), x))
      BY <1>4, <1>7, <2>4, FlattenHeadStep
    <2> QED BY <1>3, <2>1, <2>5
  <1> QED BY <1>6, <1>7

\* What an event adds to the log,
LEMMA LoggedType ==
  ASSUME TypeOK
  PROVE  /\ \A e \in Event \cup {Free} : Logged(e) \in Seq(0..MaxFrames)
         /\ Logged(Free) = <<>>
         /\ cur \in Event \cup {Free} /\ conf \in Event \cup {Free}
         /\ queue \in Seq(Event) /\ written \in Seq(0..MaxFrames)
  <1>1. ASSUME NEW e \in Event \cup {Free} PROVE Logged(e) \in Seq(0..MaxFrames)
    <2>1. e.kind = "data" => e.frame \in 0..MaxFrames
      BY DEF Event, Free
    <2>2. CASE e.kind = "data"
      <3>1. Logged(e) = <<e.frame>>
        BY <2>2 DEF Logged
      <3> QED BY <2>1, <2>2, <3>1
    <2>3. CASE e.kind # "data"
      <3>1. Logged(e) = <<>>
        BY <2>3 DEF Logged
      <3> QED BY <3>1, EmptySeq
    <2> QED BY <2>2, <2>3
  <1> QED BY <1>1 DEF TypeOK, Logged, Free

\* and what a queue of events does,
LEMMA QueuedType ==
  ASSUME TypeOK, NEW q \in Seq(Event)
  PROVE  /\ [i \in DOMAIN q |-> Logged(q[i])] \in Seq(Seq(0..MaxFrames))
         /\ Len([i \in DOMAIN q |-> Logged(q[i])]) = Len(q)
         /\ Queued(q) \in Seq(0..MaxFrames)
  <1> DEFINE f == [i \in DOMAIN q |-> Logged(q[i])]
  <1>1. DOMAIN q = 1..Len(q) /\ Len(q) \in Nat /\ \A i \in 1..Len(q) : q[i] \in Event
    BY LenProperties, ElementOfSeq
  <1>2. \A i \in 1..Len(q) : Logged(q[i]) \in Seq(0..MaxFrames)
    BY <1>1, LoggedType
  <1>3. f \in Seq(Seq(0..MaxFrames)) /\ Len(f) = Len(q)
    BY <1>1, <1>2
  <1>4. FlattenSeq(f) \in Seq(0..MaxFrames)
    BY <1>3, FlattenType
  <1> QED BY <1>3, <1>4 DEF Queued

\* when one event is pushed
LEMMA QueuedPushed ==
  ASSUME TypeOK, NEW q \in Seq(Event), NEW e \in Event
  PROVE  Queued(Append(q, e)) = Queued(q) \o Logged(e)
  <1> DEFINE p == Append(q, e)
             f == [i \in DOMAIN q |-> Logged(q[i])]
             g == [i \in DOMAIN p |-> Logged(p[i])]
             h == Append(f, Logged(e))
  <1>1. /\ p \in Seq(Event) /\ Len(p) = Len(q) + 1 /\ Len(q) \in Nat
        /\ \A i \in 1..Len(q) : p[i] = q[i]
        /\ p[Len(q) + 1] = e
    BY AppendProperties, LenProperties
  <1>2. DOMAIN p = 1..(Len(q) + 1) /\ DOMAIN q = 1..Len(q)
    BY <1>1, LenProperties
  <1>3. f \in Seq(Seq(0..MaxFrames)) /\ Len(f) = Len(q)
    BY QueuedType
  <1>4. g \in Seq(Seq(0..MaxFrames)) /\ Len(g) = Len(q) + 1
    BY <1>1, QueuedType
  <1>5. Logged(e) \in Seq(0..MaxFrames)
    BY LoggedType
  <1>6. /\ h \in Seq(Seq(0..MaxFrames)) /\ Len(h) = Len(q) + 1
        /\ \A i \in 1..Len(q) : h[i] = f[i]
        /\ h[Len(q) + 1] = Logged(e)
    BY <1>3, <1>5, AppendProperties
  <1>7. ASSUME NEW i \in 1..(Len(q) + 1) PROVE g[i] = h[i]
    <2>1. g[i] = Logged(p[i])
      BY <1>2
    <2>2. CASE i = Len(q) + 1
      BY <1>1, <1>6, <2>1, <2>2
    <2>3. CASE i # Len(q) + 1
      <3>1. i \in 1..Len(q)
        BY <1>1, <2>3
      <3>2. f[i] = Logged(q[i])
        BY <1>2, <3>1
      <3> QED BY <1>1, <1>6, <2>1, <3>1, <3>2
    <2> QED BY <2>2, <2>3
  <1> HIDE DEF g, h
  <1>8. g = h
    BY <1>4, <1>6, <1>7, SeqEqual
  <1>9. FlattenSeq(h) = FlattenSeq(f) \o Logged(e)
    BY <1>3, <1>5, FlattenAppend DEF h
  <1> QED BY <1>8, <1>9 DEF Queued, g

\* or popped.
LEMMA QueuedPopped ==
  ASSUME TypeOK, NEW q \in Seq(Event), q # <<>>
  PROVE  /\ Queued(q) = Logged(Head(q)) \o Queued(Tail(q))
         /\ Head(q) \in Event /\ Tail(q) \in Seq(Event)
  <1> DEFINE t == Tail(q)
             f == [i \in DOMAIN q |-> Logged(q[i])]
             g == [i \in DOMAIN t |-> Logged(t[i])]
  <1>1. /\ Head(q) = q[1] /\ Head(q) \in Event /\ t \in Seq(Event) /\ Len(t) = Len(q) - 1
        /\ \A i \in 1..Len(t) : t[i] = q[i + 1]
    BY HeadTailProperties
  <1>2. Len(q) \in Nat /\ Len(q) >= 1 /\ DOMAIN q = 1..Len(q) /\ DOMAIN t = 1..(Len(q) - 1)
    <2>1. Len(q) \in Nat /\ DOMAIN q = 1..Len(q) /\ DOMAIN t = 1..Len(t)
      BY <1>1, LenProperties
    <2>2. Len(q) # 0
      BY EmptySeq
    <2> QED BY <1>1, <2>1, <2>2
  <1>3. f \in Seq(Seq(0..MaxFrames)) /\ Len(f) = Len(q)
    BY QueuedType
  <1>4. g \in Seq(Seq(0..MaxFrames)) /\ Len(g) = Len(q) - 1
    BY <1>1, QueuedType
  <1>5. f # <<>>
    BY <1>2, <1>3, EmptySeq
  <1>6. /\ Head(f) = f[1] /\ Tail(f) \in Seq(Seq(0..MaxFrames)) /\ Len(Tail(f)) = Len(q) - 1
        /\ \A i \in 1..(Len(q) - 1) : Tail(f)[i] = f[i + 1]
    BY <1>3, <1>5, HeadTailProperties
  <1>7. ASSUME NEW i \in 1..(Len(q) - 1) PROVE g[i] = Tail(f)[i]
    <2>1. i + 1 \in DOMAIN q /\ i \in DOMAIN t
      BY <1>2
    <2>2. f[i + 1] = Logged(q[i + 1]) /\ g[i] = Logged(t[i])
      BY <2>1
    <2> QED BY <1>1, <1>2, <1>6, <2>2
  <1>8. f[1] = Logged(Head(q))
    BY <1>1, <1>2
  <1> HIDE DEF f, g
  <1>9. g = Tail(f)
    BY <1>4, <1>6, <1>7, SeqEqual
  <1>10. FlattenSeq(f) = Head(f) \o FlattenSeq(Tail(f))
    BY <1>3, <1>5, FlattenHead
  <1> QED BY <1>1, <1>6, <1>8, <1>9, <1>10 DEF Queued, f, g

-----------------------------------------------------------------------------
(* Step by step. What is logged are four stretches: written, in the        *)
(* runner's hand, queued, in the controller's hand.                        *)

Logs(w, c, q, k) == w \o Logged(c) \o Queued(q) \o Logged(k)

\* An event moves from the controller's hand into the queue,
LEMMA PushMoves ==
  ASSUME TypeOK, NEW w \in Seq(0..MaxFrames), NEW c \in Event \cup {Free}, NEW q \in Seq(Event),
         NEW k \in Event
  PROVE  Logs(w, c, Append(q, k), Free) = Logs(w, c, q, k)
  <1>1. PICK a, b, d : a = w \o Logged(c) /\ b = Queued(q) /\ d = Logged(k)
    OBVIOUS
  <1>2. a \in Seq(0..MaxFrames) /\ b \in Seq(0..MaxFrames) /\ d \in Seq(0..MaxFrames)
    <2>1. Logged(c) \in Seq(0..MaxFrames) /\ Logged(k) \in Seq(0..MaxFrames)
      BY LoggedType
    <2>2. w \o Logged(c) \in Seq(0..MaxFrames)
      BY <2>1, ConcatProperties
    <2> QED BY <1>1, <2>1, <2>2, QueuedType
  <1>3. Queued(Append(q, k)) = b \o d /\ Logged(Free) = <<>>
    BY <1>1, QueuedPushed, LoggedType
  <1>4. Logs(w, c, Append(q, k), Free) = (a \o (b \o d)) \o <<>>
    BY <1>1, <1>3 DEF Logs
  <1>5. a \o (b \o d) \in Seq(0..MaxFrames) /\ a \o (b \o d) = (a \o b) \o d
    <2>1. b \o d \in Seq(0..MaxFrames)
      BY <1>2, ConcatProperties
    <2>2. a \o (b \o d) \in Seq(0..MaxFrames)
      BY <1>2, <2>1, ConcatProperties
    <2>3. (a \o b) \o d = a \o (b \o d)
      BY <1>2, ConcatAssociative
    <2> QED BY <2>2, <2>3
  <1>6. (a \o (b \o d)) \o <<>> = a \o (b \o d)
    BY <1>5, ConcatEmptySeq
  <1> QED BY <1>1, <1>4, <1>5, <1>6 DEF Logs

\* from the queue into the runner's,
LEMMA PopMoves ==
  ASSUME TypeOK, NEW w \in Seq(0..MaxFrames), NEW q \in Seq(Event), q # <<>>,
         NEW k \in Event \cup {Free}
  PROVE  Logs(w, Head(q), Tail(q), k) = Logs(w, Free, q, k)
  <1>1. PICK a, b, d : a = Logged(Head(q)) /\ b = Queued(Tail(q)) /\ d = Logged(k)
    OBVIOUS
  <1>2. a \in Seq(0..MaxFrames) /\ b \in Seq(0..MaxFrames)
    <2>1. Head(q) \in Event \cup {Free} /\ Tail(q) \in Seq(Event)
      BY QueuedPopped
    <2> QED BY <1>1, <2>1, LoggedType, QueuedType
  <1>3. Queued(q) = a \o b /\ Logged(Free) = <<>>
    BY <1>1, QueuedPopped, LoggedType
  <1>4. (w \o a) \o b = w \o (a \o b)
    BY <1>2, ConcatAssociative
  <1>5. w \o <<>> = w
    BY ConcatEmptySeq
  <1> QED BY <1>1, <1>3, <1>4, <1>5 DEF Logs

\* and from there into a file.
LEMMA WriteMoves ==
  ASSUME TypeOK, NEW w \in Seq(0..MaxFrames), NEW c \in Event \cup {Free}, c.kind = "data"
  PROVE  w \o Logged(c) = Append(w, c.frame) /\ Append(w, c.frame) \in Seq(0..MaxFrames)
  <1>1. c.frame \in 0..MaxFrames
    BY DEF Event, Free
  <1>2. Logged(c) = <<c.frame>>
    BY DEF Logged
  <1> QED BY <1>1, <1>2, AppendIsConcat, AppendProperties

\* Each step of the recorder is a frame that arrives, a turn of the switch, or
\* nothing to whom reads the recordings.
LEMMA LogStep == RecorderInv /\ [Next]_vars => [Log!Next]_(Log!vars)
  <1> SUFFICES ASSUME RecorderInv, [Next]_vars PROVE [Log!Next]_(Log!vars)
    OBVIOUS
  <1> DEFINE log == Logs(written, cur, queue, conf)
             newLog == Logs(written', cur', queue', conf')
  <1>1. /\ TypeOK /\ Logged(Free) = <<>>
        /\ cur \in Event \cup {Free} /\ conf \in Event \cup {Free}
        /\ queue \in Seq(Event) /\ written \in Seq(0..MaxFrames)
    BY LoggedType DEF RecorderInv
  <1>2. ASSUME isRecording' = isRecording, frames' = frames, newLog = log
        PROVE  [Log!Next]_(Log!vars)
    BY <1>2 DEF Log!vars, Logs
  <1>3. CASE Notify
    <2>1. /\ conf = Free /\ frames' = frames + 1 /\ isRecording' = isRecording
          /\ conf' = IF isRecording THEN RecordData(frames + 1) ELSE Free
          /\ written' = written /\ cur' = cur /\ queue' = queue
      BY <1>3 DEF Notify, runnerVars
    <2>2. PICK a : a = written \o Logged(cur) \o Queued(queue)
      OBVIOUS
    <2>3. a \in Seq(0..MaxFrames)
      <3>1. Logged(cur) \in Seq(0..MaxFrames) /\ Queued(queue) \in Seq(0..MaxFrames)
        BY <1>1, LoggedType, QueuedType
      <3>2. written \o Logged(cur) \in Seq(0..MaxFrames)
        BY <1>1, <3>1, ConcatProperties
      <3> QED BY <2>2, <3>1, <3>2, ConcatProperties
    <2>4. log = a
      <3>1. log = a \o <<>>
        BY <1>1, <2>1, <2>2 DEF Logs
      <3> QED BY <2>3, <3>1, ConcatEmptySeq
    <2>5. newLog = a \o Logged(conf')
      BY <2>1, <2>2 DEF Logs
    <2>6. newLog = IF isRecording THEN Append(log, frames + 1) ELSE log
      <3>1. CASE isRecording
        <4>1. Logged(conf') = <<frames + 1>>
          BY <2>1, <3>1 DEF Logged, RecordData
        <4>2. frames + 1 \in Nat /\ a \in Seq(Nat)
          <5>1. frames \in Nat /\ 0..MaxFrames \subseteq Nat
            BY <1>1, RecorderAssumption DEF TypeOK
          <5>2. Seq(0..MaxFrames) \subseteq Seq(Nat)
            BY <5>1, SeqMonotonic
          <5> QED BY <2>3, <5>1, <5>2
        <4>3. Append(a, frames + 1) = a \o <<frames + 1>>
          BY <4>2, AppendIsConcat
        <4> QED BY <2>4, <2>5, <3>1, <4>1, <4>3
      <3>2. CASE ~isRecording
        <4>1. Logged(conf') = <<>>
          BY <1>1, <2>1, <3>2
        <4>2. a \o <<>> = a
          BY <2>3, ConcatEmptySeq
        <4> QED BY <2>4, <2>5, <3>2, <4>1, <4>2
      <3> QED BY <3>1, <3>2
    <2>7. Log!Frame
      BY <2>1, <2>6 DEF Log!Frame, Logs
    <2> QED BY <2>7 DEF Log!Next
  <1>4. CASE Start \/ Stop
    <2>1. /\ conf = Free /\ frames' = frames /\ isRecording' \in BOOLEAN
          /\ conf' \in {StartRecording, StopRecording}
          /\ written' = written /\ cur' = cur /\ queue' = queue
      BY <1>4 DEF Start, Stop, runnerVars
    <2>2. Logged(conf') = <<>>
      BY <2>1 DEF Logged, StartRecording, StopRecording
    <2>3. newLog = log
      BY <1>1, <2>1, <2>2 DEF Logs
    <2>4. Log!Switch(isRecording')
      BY <2>1, <2>3 DEF Log!Switch, Logs
    <2> QED BY <2>1, <2>4 DEF Log!Next
  <1>5. CASE Push
    <2>1. /\ conf # Free /\ queue' = Append(queue, conf) /\ conf' = Free
          /\ isRecording' = isRecording /\ frames' = frames
          /\ written' = written /\ cur' = cur
      BY <1>5 DEF Push, runnerVars
    <2>2. conf \in Event
      BY <1>1, <2>1
    <2>3. newLog = log
      BY <1>1, <2>1, <2>2, PushMoves
    <2> QED BY <1>2, <2>1, <2>3
  <1>6. CASE Pop
    <2>1. /\ queue # <<>> /\ cur' = Head(queue) /\ queue' = Tail(queue) /\ step = "pop"
          /\ isRecording' = isRecording /\ frames' = frames /\ conf' = conf /\ written' = written
      BY <1>6 DEF Pop, controllerVars
    <2>2. cur = Free
      BY <2>1 DEF RecorderInv, RunnerInv
    <2>3. newLog = log
      BY <1>1, <2>1, <2>2, PopMoves
    <2> QED BY <1>2, <2>1, <2>3
  <1>7. CASE HandleStart \/ HandleStop
    <2>1. /\ cur.kind # "data" /\ cur' = Free
          /\ isRecording' = isRecording /\ frames' = frames /\ conf' = conf
          /\ written' = written /\ queue' = queue
      BY <1>7 DEF HandleStart, HandleStop, Return, controllerVars
    <2>2. Logged(cur) = <<>> /\ Logged(cur') = <<>>
      BY <1>1, <2>1 DEF Logged
    <2>3. newLog = log
      BY <2>1, <2>2 DEF Logs
    <2> QED BY <1>2, <2>1, <2>3
  \* The frame in the runner's hand is not dropped.
  <1>8. CASE HandleData \/ Rotate
    <2>1. /\ cur' = cur /\ written' = written /\ queue' = queue
          /\ isRecording' = isRecording /\ frames' = frames /\ conf' = conf
      <3>1. HandleData => saveRecord
        BY DEF HandleData, RecorderInv, OrderInv
      <3> QED BY <1>8, <3>1 DEF HandleData, Rotate, controllerVars
    <2>2. newLog = log
      BY <2>1
    <2> QED BY <1>2, <2>1, <2>2
  <1>9. CASE Write
    <2>1. /\ step = "write" /\ written' = Append(written, cur.frame) /\ cur' = Free
          /\ isRecording' = isRecording /\ frames' = frames /\ conf' = conf /\ queue' = queue
      BY <1>9 DEF Write, Return, controllerVars
    <2>2. cur.kind = "data"
      BY <2>1 DEF RecorderInv, RunnerInv
    <2>3. /\ written \o Logged(cur) = Append(written, cur.frame)
          /\ Append(written, cur.frame) \in Seq(0..MaxFrames)
      BY <1>1, <2>2, WriteMoves
    <2>4. Append(written, cur.frame) \o <<>> = Append(written, cur.frame)
      BY <2>3, ConcatEmptySeq
    <2>5. newLog = log
      BY <1>1, <2>1, <2>3, <2>4 DEF Logs
    <2> QED BY <1>2, <2>1, <2>5
  <1>10. CASE Tick \/ SetBack \/ Exhausted \/ UNCHANGED vars
    <2>1. /\ cur' = cur /\ written' = written /\ queue' = queue
          /\ isRecording' = isRecording /\ frames' = frames /\ conf' = conf
      BY <1>10 DEF Tick, SetBack, Exhausted, vars, controllerVars, runnerVars
    <2>2. newLog = log
      BY <2>1
    <2> QED BY <1>2, <2>1, <2>2
  <1> HIDE DEF log, newLog
  <1> QED BY <1>3, <1>4, <1>5, <1>6, <1>7, <1>8, <1>9, <1>10 DEF Next, Controller, Runner

\* The frames that arrive while the switch is on are recorded, all of them, in
\* the order of their arrival, and no other frame is, for any number of
\* frames and switches: the recorder implements RecordingLog.
THEOREM RecorderIsLog == Spec => LogSpec
  <1>1. Init => Log!Init
    <2> SUFFICES ASSUME Init PROVE Log!Init
      OBVIOUS
    <2>1. /\ isRecording = FALSE /\ frames = 0 /\ written = <<>> /\ cur = Free /\ queue = <<>>
          /\ conf = Free
      BY DEF Init
    <2>2. Logged(Free) = <<>>
      BY DEF Logged, Free
    <2>3. Queued(<<>>) = <<>>
      <3>1. [i \in DOMAIN <<>> |-> Logged(<<>>[i])] = <<>>
        OBVIOUS
      <3> QED BY <3>1, FlattenEmpty DEF Queued
    <2>4. written \o Logged(cur) \o Queued(queue) \o Logged(conf) = <<>>
      BY <2>1, <2>2, <2>3
    <2> QED BY <2>1, <2>4 DEF Log!Init
  <1> QED BY <1>1, LogStep, RecorderInvariant, PTL DEF Spec, LogSpec, Log!Spec
=============================================================================
