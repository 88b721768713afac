---------------------------- MODULE StartupProofs ----------------------------
(***************************************************************************)
(* Proofs about Startup: for any number of workers, frames, requests and   *)
(* failures, no thread uses a local of main before its construction or     *)
(* after its destruction, and a snapshot is as new as what had been        *)
(* distributed when it was asked for.                                      *)
(***************************************************************************)
EXTENDS Startup, SequenceTheorems, TLAPS

Phases == {"configure", "construct", "spawn", "join", "destroy", "terminated"}
Starting == {"none", "epoll", "socket", "setsockopt", "bind", "listen", "register", "ended"}
Serving == {"loop", "snapshot", "query", "on", "off", "other", "send"}
Recordings == {"StartRecording", "RecordData", "StopRecording"}

TypeOK ==
  /\ main \in Phases /\ built \in 0..10
  /\ notifying \in BOOLEAN /\ todo \subseteq Receiver /\ receivers \subseteq Receiver
  /\ frame \in Nat /\ snapshot \in Nat /\ unseen \in Nat
  /\ isRecording \in BOOLEAN /\ saveRecord \in BOOLEAN /\ events \in Seq(Recordings)
  /\ worker \in [Workers -> Starting \cup Serving]
  /\ asked \in [Workers -> Nat] /\ answer \in [Workers -> Nat]

\* What exists in each phase of main, and where its workers can be then.
PhaseInv ==
  /\ main = "configure" => built = 0
  /\ main = "construct" => built < 10
  /\ main \in {"spawn", "join"} => built = 10
  /\ main = "destroy" => built >= 5
  /\ main = "terminated" => built < 5
  /\ main \in {"configure", "construct"} => \A w \in Workers : worker[w] = "none"
  /\ main \in {"destroy", "terminated"} => \A w \in Workers : worker[w] \in {"none", "ended"}

\* The receivers that exist are subscribed, and only they are notified, while
\* the distributer is locked.
ReceiverInv ==
  /\ \A o \in Receiver : o \in receivers <=> Alive(o)
  /\ todo \subseteq receivers
  /\ todo # {} => notifying

\* Nothing was ever recorded if no worker came to serve, and one that serves
\* never ends.
QuietInv ==
  (\A w \in Workers : worker[w] \in Starting) => ~saveRecord /\ events = <<>> /\ ~isRecording

\* The last frame that the saver has got, if it was there for it.
Last == IF "snapshotSaver" \in todo THEN frame - 1 ELSE frame

\* The snapshot is that frame, and it only gets newer.
SnapshotInv ==
  /\ snapshot =< frame
  /\ Alive("snapshotSaver") /\ Last > unseen => Last =< snapshot
  /\ \A w \in Workers :
       /\ worker[w] = "snapshot" => asked[w] =< snapshot
       /\ worker[w] = "send" => asked[w] =< answer[w] /\ answer[w] =< frame

StartInv ==
  /\ TypeOK
  /\ PhaseInv
  /\ ReceiverInv
  /\ QuietInv
  /\ SnapshotInv

-----------------------------------------------------------------------------
\* Lemma: where the locals stand that the threads use.
LEMMA Places ==
  /\ Len(Locals) = 10
  /\ \A i \in 1..10 : /\ Locals[i] = "mjpegDistributer" <=> i = 1
                      /\ Locals[i] = "capturerRunner" <=> i = 2
                      /\ Locals[i] = "recorderEventQueue" <=> i = 3
                      /\ Locals[i] = "recorderRunner" <=> i = 5
                      /\ Locals[i] = "snapshotSaver" <=> i = 6
                      /\ Locals[i] = "recorderController" <=> i = 7
                      /\ Locals[i] = "workers" <=> i = 10
<1>1. Len(Locals) = 10
  BY DEF Locals
<1>2. \A i \in 1..10 : i \in {1, 2, 3, 4, 5, 6, 7, 8, 9, 10}
  OBVIOUS
<1>3. /\ Locals[1] = "mjpegDistributer" /\ Locals[2] = "capturerRunner"
      /\ Locals[3] = "recorderEventQueue" /\ Locals[4] = "recorderTranscoderFactory"
      /\ Locals[5] = "recorderRunner" /\ Locals[6] = "snapshotSaver"
      /\ Locals[7] = "recorderController" /\ Locals[8] = "encodedStreamTranscoderFactory"
      /\ Locals[9] = "appHttpLayer" /\ Locals[10] = "workers"
  BY DEF Locals
<1> QED
  BY <1>1, <1>2, <1>3

\* Lemma: from when on they are alive.
LEMMA AliveFrom ==
  ASSUME built \in 0..10
  PROVE  /\ Alive("mjpegDistributer") <=> built >= 1
         /\ Alive("capturerRunner") <=> built >= 2
         /\ Alive("recorderEventQueue") <=> built >= 3
         /\ Alive("recorderRunner") <=> built >= 5
         /\ Alive("snapshotSaver") <=> built >= 6
         /\ Alive("recorderController") <=> built >= 7
BY Places DEF Alive

\* The same of the next state.
LEMMA AliveFromNext ==
  ASSUME built' \in 0..10
  PROVE  /\ Alive("snapshotSaver")' <=> built' >= 6
         /\ Alive("recorderController")' <=> built' >= 7
BY Places DEF Alive

\* Lemma: the initial states.
LEMMA StartInit == Init => StartInv
<1> SUFFICES ASSUME Init
             PROVE  StartInv
  OBVIOUS
<1> USE DEF Init
<1>1. TypeOK
  <2>1. events \in Seq(Recordings)
    OBVIOUS
  <2>2. worker \in [Workers -> Starting \cup Serving]
    BY DEF Starting
  <2>3. asked \in [Workers -> Nat] /\ answer \in [Workers -> Nat]
    OBVIOUS
  <2>4. main \in Phases /\ built \in 0..10 /\ frame \in Nat /\ snapshot \in Nat /\ unseen \in Nat
    BY DEF Phases
  <2>5. notifying \in BOOLEAN /\ isRecording \in BOOLEAN /\ saveRecord \in BOOLEAN
    OBVIOUS
  <2>6. todo \subseteq Receiver /\ receivers \subseteq Receiver
    OBVIOUS
  <2> QED
    BY <2>1, <2>2, <2>3, <2>4, <2>5, <2>6 DEF TypeOK
<1>2. PhaseInv
  BY DEF PhaseInv
<1>3. ReceiverInv
  <2>1. ~ Alive("snapshotSaver") /\ ~ Alive("recorderController")
    BY AliveFrom
  <2> QED
    BY <2>1 DEF ReceiverInv, Receiver
<1>4. QuietInv
  BY DEF QuietInv
<1>5. SnapshotInv
  BY DEF SnapshotInv, Last
<1> QED
  BY <1>1, <1>2, <1>3, <1>4, <1>5 DEF StartInv

\* Lemma: what exists depends on how much is built.
LEMMA AliveSame ==
  ASSUME built' = built, NEW o
  PROVE  Alive(o)' <=> Alive(o)
BY DEF Alive

\* Lemma: a worker that runs has everything built, and main is not beyond the
\* point where it waits for it.
LEMMA ActiveAt ==
  ASSUME StartInv, NEW w \in Workers, Active(w)
  PROVE  main \in {"spawn", "join"} /\ built = 10
BY DEF StartInv, TypeOK, PhaseInv, Active, Phases

\* Lemma: a step of a worker that leaves main and the capturer alone.
LEMMA WorkerSame ==
  ASSUME StartInv, UNCHANGED <<main, built, captureVars>>, TypeOK', QuietInv',
         main \in {"spawn", "join"},
         NEW w \in Workers, \A v \in Workers \ {w} :
           worker'[v] = worker[v] /\ asked'[v] = asked[v] /\ answer'[v] = answer[v],
         worker'[w] = "snapshot" => asked'[w] =< snapshot,
         worker'[w] = "send" => asked'[w] =< answer'[w] /\ answer'[w] =< frame
  PROVE  StartInv'
<1> USE DEF captureVars
<1>1. PhaseInv'
  BY DEF StartInv, PhaseInv
<1>2. ReceiverInv'
  BY AliveSame DEF StartInv, ReceiverInv
<1>3. SnapshotInv'
  <2>1. snapshot' =< frame' /\ (Alive("snapshotSaver")' /\ Last' > unseen' => Last' =< snapshot')
    BY AliveSame DEF StartInv, SnapshotInv, Last
  <2>2. \A v \in Workers :
          /\ worker'[v] = "snapshot" => asked'[v] =< snapshot
          /\ worker'[v] = "send" => asked'[v] =< answer'[v] /\ answer'[v] =< frame
    BY DEF StartInv, SnapshotInv
  <2> QED
    BY <2>1, <2>2 DEF SnapshotInv
<1> QED
  BY <1>1, <1>2, <1>3 DEF StartInv

\* Lemma: config.yaml, which is read while nothing exists.
LEMMA ConfigureKeeps == StartInv /\ Configure => StartInv'
<1> SUFFICES ASSUME StartInv, Configure
             PROVE  StartInv'
  OBVIOUS
<1> USE DEF captureVars, recordVars, workerVars
<1>1. UNCHANGED <<built, captureVars, recordVars, workerVars>> /\ main' \in {"construct", "terminated"}
  BY DEF Configure
<1>2. built = 0 /\ \A w \in Workers : worker[w] = "none"
  BY DEF Configure, StartInv, PhaseInv
<1>3. TypeOK'
  BY <1>1 DEF StartInv, TypeOK, Phases
<1>4. PhaseInv'
  BY <1>1, <1>2 DEF PhaseInv
<1>5. ReceiverInv'
  BY <1>1, AliveSame DEF StartInv, ReceiverInv
<1>6. QuietInv'
  BY <1>1 DEF StartInv, QuietInv
<1>7. SnapshotInv'
  BY <1>1, AliveSame DEF StartInv, SnapshotInv, Last
<1> QED
  BY <1>3, <1>4, <1>5, <1>6, <1>7 DEF StartInv

\* Lemma: one local more; a receiver subscribes, between two frames.
LEMMA ConstructKeeps == StartInv /\ Construct => StartInv'
<1> SUFFICES ASSUME StartInv, Construct
             PROVE  StartInv'
  OBVIOUS
<1> USE DEF recordVars, workerVars
<1> DEFINE o == Locals[built + 1]
<1>1. /\ main = "construct" /\ built \in 0..9
      /\ \A w \in Workers : worker[w] = "none"
  BY DEF Construct, StartInv, PhaseInv, TypeOK
<1>2. /\ o \in Receiver => ~ notifying
      /\ receivers' = receivers \cup ({o} \cap Receiver)
      /\ unseen' = IF o = "snapshotSaver" THEN frame ELSE unseen
      /\ main' = IF o = "workers" THEN "spawn" ELSE main
      /\ built' = built + 1
      /\ UNCHANGED <<notifying, todo, frame, snapshot, recordVars, workerVars>>
  BY DEF Construct
<1>3. /\ o = "snapshotSaver" <=> built = 5
      /\ o = "recorderController" <=> built = 6
      /\ o = "workers" <=> built = 9
  BY <1>1, Places
<1> HIDE DEF o
<1>4. TypeOK'
  <2>1. main' \in Phases
    BY <1>1, <1>2 DEF Phases
  <2>2. built' \in 0..10
    BY <1>1, <1>2
  <2>3. receivers' \subseteq Receiver
    BY <1>2 DEF StartInv, TypeOK
  <2>4. unseen' \in Nat
    BY <1>2 DEF StartInv, TypeOK
  <2> QED
    BY <1>2, <2>1, <2>2, <2>3, <2>4 DEF StartInv, TypeOK
<1>5. PhaseInv'
  BY <1>1, <1>2, <1>3 DEF PhaseInv
<1>6. \A r \in Receiver : Alive(r)' <=> Alive(r) \/ r = o
  <2>1. built \in 0..10 /\ built' \in 0..10
    BY <1>1, <1>2
  <2>2. /\ Alive("snapshotSaver")' <=> Alive("snapshotSaver") \/ o = "snapshotSaver"
        /\ Alive("recorderController")' <=> Alive("recorderController") \/ o = "recorderController"
    BY <1>1, <1>2, <1>3, <2>1, AliveFrom, AliveFromNext
  <2> QED
    BY <2>2 DEF Receiver
<1>7. ReceiverInv'
  BY <1>2, <1>6 DEF StartInv, ReceiverInv
<1>8. QuietInv'
  BY <1>2 DEF StartInv, QuietInv
<1>9. SnapshotInv'
  <2>1. CASE o = "snapshotSaver"
    <3>1. todo = {}
      BY <1>2, <2>1 DEF StartInv, ReceiverInv, Receiver
    <3>2. Last' = unseen'
      BY <1>2, <2>1, <3>1 DEF Last
    <3>3. ~ (Last' > unseen')
      BY <1>2, <2>1, <3>2 DEF StartInv, TypeOK
    <3> QED
      BY <1>1, <1>2, <3>3 DEF StartInv, SnapshotInv
  <2>2. CASE o # "snapshotSaver"
    <3>1. Alive("snapshotSaver")' <=> Alive("snapshotSaver")
      BY <1>6, <2>2 DEF Receiver
    <3> QED
      BY <1>1, <1>2, <2>2, <3>1 DEF StartInv, SnapshotInv, Last
  <2> QED
    BY <2>1, <2>2
<1> QED
  BY <1>4, <1>5, <1>7, <1>8, <1>9 DEF StartInv

\* Lemma: a worker's thread begins.
LEMMA SpawnKeeps ==
  ASSUME StartInv, NEW w \in Workers, Spawn(w)
  PROVE  StartInv'
<1> USE DEF captureVars, recordVars
<1>1. /\ UNCHANGED <<built, captureVars, recordVars, asked, answer>>
      /\ main = "spawn" /\ main' \in {"spawn", "join"}
      /\ worker[w] = "none"
      /\ worker' = [worker EXCEPT ![w] = "epoll"]
  BY DEF Spawn
<1>2. \A v \in Workers : worker'[v] = IF v = w THEN "epoll" ELSE worker[v]
  BY <1>1 DEF StartInv, TypeOK
<1>3. TypeOK'
  <2>1. worker' \in [Workers -> Starting \cup Serving]
    BY <1>1 DEF StartInv, TypeOK, Starting
  <2> QED
    BY <1>1, <2>1 DEF StartInv, TypeOK, Phases
<1>4. PhaseInv'
  BY <1>1 DEF StartInv, PhaseInv
<1>5. ReceiverInv'
  BY <1>1, AliveSame DEF StartInv, ReceiverInv
<1>6. QuietInv'
  BY <1>1, <1>2 DEF StartInv, QuietInv, Starting
<1>7. SnapshotInv'
  <2>1. snapshot' =< frame' /\ (Alive("snapshotSaver")' /\ Last' > unseen' => Last' =< snapshot')
    BY <1>1, AliveSame DEF StartInv, SnapshotInv, Last
  <2> QED
    BY <1>1, <1>2, <2>1 DEF StartInv, SnapshotInv
<1> QED
  BY <1>3, <1>4, <1>5, <1>6, <1>7 DEF StartInv

\* Lemma: main has waited for all of them.
LEMMA JoinKeeps == StartInv /\ JoinAll => StartInv'
<1> SUFFICES ASSUME StartInv, JoinAll
             PROVE  StartInv'
  OBVIOUS
<1> USE DEF captureVars, recordVars, workerVars
<1>1. /\ UNCHANGED <<built, captureVars, recordVars, workerVars>>
      /\ main = "join" /\ main' = "destroy"
      /\ \A w \in Workers : worker[w] = "ended"
  BY DEF JoinAll
<1>2. TypeOK'
  BY <1>1 DEF StartInv, TypeOK, Phases
<1>3. PhaseInv'
  BY <1>1 DEF StartInv, PhaseInv
<1>4. ReceiverInv'
  BY <1>1, AliveSame DEF StartInv, ReceiverInv
<1>5. QuietInv'
  BY <1>1 DEF StartInv, QuietInv
<1>6. SnapshotInv'
  BY <1>1, AliveSame DEF StartInv, SnapshotInv, Last
<1> QED
  BY <1>2, <1>3, <1>4, <1>5, <1>6 DEF StartInv

\* Lemma: the last local goes; a receiver unsubscribes, between two frames.
LEMMA DestroyKeeps == StartInv /\ Destroy => StartInv'
<1> SUFFICES ASSUME StartInv, Destroy
             PROVE  StartInv'
  OBVIOUS
<1> USE DEF recordVars, workerVars
<1> DEFINE o == Locals[built]
<1>1. main = "destroy" /\ built \in 5..10
  BY DEF Destroy, StartInv, PhaseInv, TypeOK
<1>2. \A w \in Workers : worker[w] \in {"none", "ended"}
  BY <1>1 DEF StartInv, PhaseInv
<1>3. /\ o \in Receiver => ~ notifying
      /\ receivers' = receivers \ {o}
      /\ main' = IF o = "recorderRunner" THEN "terminated" ELSE main
      /\ built' = built - 1
      /\ UNCHANGED <<notifying, todo, frame, snapshot, unseen, recordVars, workerVars>>
  BY DEF Destroy
<1>4. /\ o = "snapshotSaver" <=> built = 6
      /\ o = "recorderController" <=> built = 7
      /\ o = "recorderRunner" <=> built = 5
  BY <1>1, Places
<1> HIDE DEF o
<1>5. TypeOK'
  <2>1. main' \in Phases
    BY <1>1, <1>3 DEF Phases
  <2>2. built' \in 0..10
    BY <1>1, <1>3
  <2> QED
    BY <1>3, <2>1, <2>2 DEF StartInv, TypeOK
<1>6. PhaseInv'
  <2>1. built' \in 4..9 /\ (main' = "terminated" => built' = 4) /\ (main' # "terminated" => built' >= 5)
    BY <1>1, <1>3, <1>4
  <2> QED
    BY <1>1, <1>2, <1>3, <2>1 DEF PhaseInv
<1>7. \A r \in Receiver : Alive(r)' <=> Alive(r) /\ r # o
  <2>1. built \in 0..10 /\ built' \in 0..10
    BY <1>1, <1>3
  <2>2. /\ Alive("snapshotSaver")' <=> Alive("snapshotSaver") /\ o # "snapshotSaver"
        /\ Alive("recorderController")' <=> Alive("recorderController") /\ o # "recorderController"
    BY <1>1, <1>3, <1>4, <2>1, AliveFrom, AliveFromNext
  <2> QED
    BY <2>2 DEF Receiver
<1>8. ReceiverInv'
  <2>1. todo \subseteq receivers'
    BY <1>3 DEF StartInv, ReceiverInv, TypeOK
  <2> QED
    BY <1>3, <1>7, <2>1 DEF StartInv, ReceiverInv
<1>9. QuietInv'
  BY <1>3 DEF StartInv, QuietInv
<1>10. SnapshotInv'
  BY <1>2, <1>3, <1>7 DEF StartInv, SnapshotInv, Last, Receiver
<1> QED
  BY <1>5, <1>6, <1>8, <1>9, <1>10 DEF StartInv

\* Lemma: a frame is captured: the saver that is there is told of it.
LEMMA CaptureKeeps == StartInv /\ Capture => StartInv'
<1> SUFFICES ASSUME StartInv, Capture
             PROVE  StartInv'
  OBVIOUS
<1> USE DEF recordVars, workerVars
<1>1. /\ UNCHANGED <<main, built, receivers, snapshot, unseen, recordVars, workerVars>>
      /\ ~ notifying /\ frame' = frame + 1 /\ notifying' = TRUE /\ todo' = receivers
  BY DEF Capture
<1>2. TypeOK'
  <2>1. frame' \in Nat /\ todo' \subseteq Receiver
    BY <1>1 DEF StartInv, TypeOK
  <2>2. notifying' \in BOOLEAN
    BY <1>1
  <2> QED
    BY <1>1, <2>1, <2>2 DEF StartInv, TypeOK
<1>3. PhaseInv'
  BY <1>1 DEF StartInv, PhaseInv
<1>4. ReceiverInv'
  BY <1>1, AliveSame DEF StartInv, ReceiverInv
<1>5. QuietInv'
  BY <1>1 DEF StartInv, QuietInv
<1>6. SnapshotInv'
  <2>1. Alive("snapshotSaver")' <=> Alive("snapshotSaver")
    BY <1>1, AliveSame
  <2>2. Alive("snapshotSaver") <=> "snapshotSaver" \in receivers
    BY DEF StartInv, ReceiverInv, Receiver
  <2>3. todo = {}
    BY <1>1 DEF StartInv, ReceiverInv
  <2>4. frame \in Nat /\ snapshot \in Nat
    BY DEF StartInv, TypeOK
  <2>5. Alive("snapshotSaver") => Last' = Last
    BY <1>1, <2>2, <2>3, <2>4 DEF Last
  <2>6. snapshot' =< frame'
    BY <1>1, <2>4 DEF StartInv, SnapshotInv
  <2>7. Alive("snapshotSaver")' /\ Last' > unseen' => Last' =< snapshot'
    BY <1>1, <2>1, <2>5 DEF StartInv, SnapshotInv
  <2>8. \A w \in Workers : worker[w] = "send" => answer[w] =< frame'
    BY <1>1, <2>4 DEF StartInv, SnapshotInv, TypeOK
  <2>9. \A w \in Workers :
          /\ worker[w] = "snapshot" => asked[w] =< snapshot
          /\ worker[w] = "send" => asked[w] =< answer[w]
    BY DEF StartInv, SnapshotInv
  <2> QED
    BY <1>1, <2>6, <2>7, <2>8, <2>9 DEF SnapshotInv
<1> QED
  BY <1>2, <1>3, <1>4, <1>5, <1>6 DEF StartInv

\* Lemma: AppStreamSnapshotSaver::Notify: the snapshot is the newest frame.
LEMMA SaveKeeps == StartInv /\ SaveSnapshot => StartInv'
<1> SUFFICES ASSUME StartInv, SaveSnapshot
             PROVE  StartInv'
  OBVIOUS
<1> USE DEF recordVars, workerVars
<1>1. /\ UNCHANGED <<main, built, notifying, frame, receivers, unseen, recordVars, workerVars>>
      /\ todo' = todo \ {"snapshotSaver"} /\ snapshot' = frame
  BY DEF SaveSnapshot
<1>2. TypeOK'
  BY <1>1 DEF StartInv, TypeOK
<1>3. PhaseInv'
  BY <1>1 DEF StartInv, PhaseInv
<1>4. ReceiverInv'
  BY <1>1, AliveSame DEF StartInv, ReceiverInv
<1>5. QuietInv'
  BY <1>1 DEF StartInv, QuietInv
<1>6. SnapshotInv'
  <2>1. frame \in Nat /\ snapshot \in Nat /\ snapshot =< frame
    BY DEF StartInv, TypeOK, SnapshotInv
  <2>2. Last' = frame
    BY <1>1 DEF Last
  <2>3. \A w \in Workers :
          /\ worker[w] = "snapshot" => asked[w] =< frame
          /\ worker[w] = "send" => asked[w] =< answer[w] /\ answer[w] =< frame
    BY <2>1 DEF StartInv, SnapshotInv, TypeOK
  <2> QED
    BY <1>1, <2>1, <2>2, <2>3 DEF SnapshotInv
<1> QED
  BY <1>2, <1>3, <1>4, <1>5, <1>6 DEF StartInv

\* Lemma: AppStreamRecorderController::Notify: nothing is recorded unless a
\* worker turned it on.
LEMMA RecordKeeps == StartInv /\ Record => StartInv'
<1> SUFFICES ASSUME StartInv, Record
             PROVE  StartInv'
  OBVIOUS
<1> USE DEF workerVars
<1>1. /\ UNCHANGED <<main, built, notifying, frame, receivers, snapshot, unseen,
                     isRecording, saveRecord, workerVars>>
      /\ todo' = todo \ {"recorderController"}
      /\ events' = IF isRecording THEN Append(events, "RecordData") ELSE events
  BY DEF Record
<1>2. TypeOK'
  <2>1. events' \in Seq(Recordings)
    BY <1>1 DEF StartInv, TypeOK, Recordings
  <2> QED
    BY <1>1, <2>1 DEF StartInv, TypeOK
<1>3. PhaseInv'
  BY <1>1 DEF StartInv, PhaseInv
<1>4. ReceiverInv'
  BY <1>1, AliveSame DEF StartInv, ReceiverInv
<1>5. QuietInv'
  BY <1>1 DEF StartInv, QuietInv
<1>6. SnapshotInv'
  <2>1. Last' = Last
    BY <1>1 DEF Last
  <2> QED
    BY <1>1, <2>1, AliveSame DEF StartInv, SnapshotInv
<1> QED
  BY <1>2, <1>3, <1>4, <1>5, <1>6 DEF StartInv

\* AppStreamDistributer::Process releases receiversMut.
LEMMA CaptureEndKeeps == StartInv /\ CaptureEnd => StartInv'
<1> SUFFICES ASSUME StartInv, CaptureEnd
             PROVE  StartInv'
  OBVIOUS
<1> USE DEF recordVars, workerVars
<1>1. /\ UNCHANGED <<main, built, todo, frame, receivers, snapshot, unseen, recordVars, workerVars>>
      /\ todo = {} /\ notifying' = FALSE
  BY DEF CaptureEnd
<1>2. TypeOK'
  <2>1. notifying' \in BOOLEAN
    BY <1>1
  <2> QED
    BY <1>1, <2>1 DEF StartInv, TypeOK
<1>3. PhaseInv'
  BY <1>1 DEF StartInv, PhaseInv
<1>4. ReceiverInv'
  BY <1>1, AliveSame DEF StartInv, ReceiverInv
<1>5. QuietInv'
  BY <1>1 DEF StartInv, QuietInv
<1>6. SnapshotInv'
  BY <1>1, AliveSame DEF StartInv, SnapshotInv, Last
<1> QED
  BY <1>2, <1>3, <1>4, <1>5, <1>6 DEF StartInv

\* Lemma: the recorder's thread takes an event; without one it has nothing to
\* do.
LEMMA RecorderKeeps == StartInv /\ Recorder => StartInv'
<1> SUFFICES ASSUME StartInv, Recorder
             PROVE  StartInv'
  OBVIOUS
<1> USE DEF captureVars, workerVars
<1>1. /\ UNCHANGED <<main, built, captureVars, isRecording, workerVars>>
      /\ events # <<>> /\ events' = Tail(events)
      /\ saveRecord' = CASE Head(events) = "StartRecording" -> TRUE
                         [] Head(events) = "StopRecording" -> FALSE
                         [] OTHER -> saveRecord
  BY DEF Recorder
<1>2. TypeOK'
  <2>1. events' \in Seq(Recordings) /\ Head(events) \in Recordings
    BY <1>1 DEF StartInv, TypeOK
  <2>2. saveRecord' \in {TRUE, FALSE, saveRecord}
    BY <1>1, <2>1 DEF Recordings
  <2>3. saveRecord' \in BOOLEAN
    BY <2>2, Zenon DEF StartInv, TypeOK
  <2> QED
    BY <1>1, <2>1, <2>3 DEF StartInv, TypeOK
<1>3. PhaseInv'
  BY <1>1 DEF StartInv, PhaseInv
<1>4. ReceiverInv'
  BY <1>1, AliveSame DEF StartInv, ReceiverInv
<1>5. QuietInv'
  BY <1>1 DEF StartInv, QuietInv
<1>6. SnapshotInv'
  BY <1>1, AliveSame DEF StartInv, SnapshotInv, Last
<1> QED
  BY <1>2, <1>3, <1>4, <1>5, <1>6 DEF StartInv

\* Lemma: the calls of Start: the worker is not serving before the last.
LEMMA OpenKeeps ==
  ASSUME StartInv, NEW w \in Workers, Open(w)
  PROVE  StartInv'
<1>1. /\ UNCHANGED <<main, built, captureVars, recordVars, asked, answer>>
      /\ worker[w] \in DOMAIN After
      /\ Goto(w, After[worker[w]]) \/ Goto(w, "ended")
      /\ Active(w)
  BY DEF Open
<1>2. main \in {"spawn", "join"}
  BY <1>1, ActiveAt
<1>3. worker[w] \in Starting /\ After[worker[w]] \in Starting
  BY <1>1 DEF After, Starting
<1>4. PICK there \in Starting : worker' = [worker EXCEPT ![w] = there]
  BY <1>1, <1>3 DEF Goto, Starting
<1>5. \A v \in Workers : worker'[v] = IF v = w THEN there ELSE worker[v]
  BY <1>4 DEF StartInv, TypeOK
<1>6. TypeOK'
  BY <1>1, <1>4 DEF StartInv, TypeOK, captureVars, recordVars
<1>7. QuietInv'
  BY <1>1, <1>3, <1>5 DEF StartInv, QuietInv, recordVars
<1>8. worker'[w] \notin {"snapshot", "send"}
  BY <1>5 DEF Starting
<1> QED
  BY <1>1, <1>2, <1>5, <1>6, <1>7, <1>8, WorkerSame

\* Lemma: it serves.
LEMMA RegisterKeeps ==
  ASSUME StartInv, NEW w \in Workers, Register(w)
  PROVE  StartInv'
<1>1. /\ UNCHANGED <<main, built, captureVars, recordVars, asked, answer>>
      /\ worker' = [worker EXCEPT ![w] = "loop"]
      /\ Active(w)
  BY DEF Register, At, Goto
<1>2. main \in {"spawn", "join"}
  BY <1>1, ActiveAt
<1>3. \A v \in Workers : worker'[v] = IF v = w THEN "loop" ELSE worker[v]
  BY <1>1 DEF StartInv, TypeOK
<1>4. TypeOK'
  <2>1. worker' \in [Workers -> Starting \cup Serving]
    BY <1>1 DEF StartInv, TypeOK, Serving
  <2> QED
    BY <1>1, <2>1 DEF StartInv, TypeOK, captureVars, recordVars
<1>5. QuietInv'
  BY <1>3 DEF QuietInv, Starting
<1> QED
  BY <1>1, <1>2, <1>3, <1>4, <1>5, WorkerSame

\* A client connects to the listening socket of a worker.
LEMMA ConnectKeeps ==
  ASSUME StartInv, NEW w \in Workers, Connect(w)
  PROVE  StartInv'
<1>1. /\ UNCHANGED <<main, built, captureVars, recordVars, worker, asked, answer>>
      /\ Active(w)
  BY DEF Connect
<1>2. main \in {"spawn", "join"}
  BY <1>1, ActiveAt
<1>3. TypeOK' /\ QuietInv'
  BY <1>1 DEF StartInv, TypeOK, QuietInv, captureVars, recordVars
<1>4. /\ worker'[w] = "snapshot" => asked'[w] =< snapshot
      /\ worker'[w] = "send" => asked'[w] =< answer'[w] /\ answer'[w] =< frame
  BY <1>1 DEF StartInv, SnapshotInv
<1> QED
  BY <1>1, <1>2, <1>3, <1>4, WorkerSame

\* Lemma: a request: if it is for the snapshot, that is at least as new as the
\* last frame the saver was told of.
LEMMA AcceptRequestKeeps ==
  ASSUME StartInv, NEW w \in Workers, Accept(w)
  PROVE  StartInv'
<1>1. PICK where \in {"snapshot", "query", "on", "off", "other"} :
        worker' = [worker EXCEPT ![w] = where]
  BY DEF Accept, Goto
<1>2. /\ UNCHANGED <<main, built, captureVars, recordVars, answer>>
      /\ asked' = [asked EXCEPT ![w] = IF Last > unseen THEN Last ELSE 0]
      /\ Active(w) /\ worker[w] = "loop"
  BY DEF Accept, At, Last
<1>3. main \in {"spawn", "join"} /\ built = 10
  BY <1>2, ActiveAt
<1>4. \A v \in Workers : worker'[v] = IF v = w THEN where ELSE worker[v]
  BY <1>1 DEF StartInv, TypeOK
<1>5. frame \in Nat /\ snapshot \in Nat /\ unseen \in Nat
  BY DEF StartInv, TypeOK
<1>6. Alive("snapshotSaver")
  BY <1>3, AliveFrom
<1>7. /\ (IF Last > unseen THEN Last ELSE 0) \in Nat
      /\ (IF Last > unseen THEN Last ELSE 0) =< snapshot
  BY <1>5, <1>6 DEF StartInv, SnapshotInv, Last
<1>8. asked' \in [Workers -> Nat] /\ asked'[w] =< snapshot
  BY <1>2, <1>7 DEF StartInv, TypeOK
<1>9. TypeOK'
  <2>1. worker' \in [Workers -> Starting \cup Serving]
    BY <1>1 DEF StartInv, TypeOK, Serving
  <2> QED
    BY <1>2, <1>8, <2>1 DEF StartInv, TypeOK, captureVars, recordVars
<1>10. QuietInv'
  BY <1>4 DEF QuietInv, Starting
<1>11. \A v \in Workers \ {w} :
         worker'[v] = worker[v] /\ asked'[v] = asked[v] /\ answer'[v] = answer[v]
  BY <1>2, <1>4 DEF StartInv, TypeOK
<1> QED
  BY <1>2, <1>3, <1>4, <1>8, <1>9, <1>10, <1>11, WorkerSame

\* Lemma: GetSnapshot's copy.
LEMMA GetSnapshotKeeps ==
  ASSUME StartInv, NEW w \in Workers, GetSnapshot(w)
  PROVE  StartInv'
<1>1. /\ UNCHANGED <<main, built, captureVars, recordVars, asked>>
      /\ worker' = [worker EXCEPT ![w] = "send"]
      /\ answer' = [answer EXCEPT ![w] = snapshot]
      /\ Active(w) /\ worker[w] = "snapshot"
  BY DEF GetSnapshot, At, Goto
<1>2. main \in {"spawn", "join"}
  BY <1>1, ActiveAt
<1>3. \A v \in Workers : /\ worker'[v] = IF v = w THEN "send" ELSE worker[v]
                         /\ answer'[v] = IF v = w THEN snapshot ELSE answer[v]
  BY <1>1 DEF StartInv, TypeOK
<1>4. TypeOK'
  <2>1. worker' \in [Workers -> Starting \cup Serving]
    BY <1>1 DEF StartInv, TypeOK, Serving
  <2>2. answer' \in [Workers -> Nat]
    BY <1>1 DEF StartInv, TypeOK
  <2> QED
    BY <1>1, <2>1, <2>2 DEF StartInv, TypeOK, captureVars, recordVars
<1>5. QuietInv'
  BY <1>3 DEF QuietInv, Starting
<1>6. asked'[w] =< answer'[w] /\ answer'[w] =< frame
  BY <1>1, <1>3 DEF StartInv, SnapshotInv
<1> QED
  BY <1>1, <1>2, <1>3, <1>4, <1>5, <1>6, WorkerSame

\* Lemma: the recording switch, and the endpoints that change nothing.
LEMMA SetRecordingKeeps ==
  ASSUME StartInv, NEW w \in Workers, SetRecording(w)
  PROVE  StartInv'
<1>1. /\ UNCHANGED <<main, built, captureVars, saveRecord, asked, answer>>
      /\ worker' = [worker EXCEPT ![w] = "loop"]
      /\ Active(w) /\ worker[w] \in {"query", "on", "off", "other"}
  BY DEF SetRecording, Goto
<1>2. main \in {"spawn", "join"}
  BY <1>1, ActiveAt
<1>3. \A v \in Workers : worker'[v] = IF v = w THEN "loop" ELSE worker[v]
  BY <1>1 DEF StartInv, TypeOK
<1>4. isRecording' \in BOOLEAN /\ events' \in Seq(Recordings)
  <2>1. isRecording \in BOOLEAN /\ events \in Seq(Recordings)
    BY DEF StartInv, TypeOK
  <2>2. CASE worker[w] = "on"
    <3>1. isRecording' = TRUE /\ events' = Append(events, "StartRecording")
      BY <2>2 DEF SetRecording
    <3>2. events' \in Seq(Recordings)
      BY <2>1, <3>1 DEF Recordings
    <3> QED
      BY <3>1, <3>2
  <2>3. CASE worker[w] = "off"
    <3>1. isRecording' = FALSE /\ events' = Append(events, "StopRecording")
      BY <2>3 DEF SetRecording
    <3>2. events' \in Seq(Recordings)
      BY <2>1, <3>1 DEF Recordings
    <3> QED
      BY <3>1, <3>2
  <2>4. CASE worker[w] \in {"query", "other"}
    <3>1. isRecording' = isRecording /\ events' = events
      BY <2>4 DEF SetRecording
    <3> QED
      BY <2>1, <3>1
  <2> QED
    BY <1>1, <2>2, <2>3, <2>4
<1>5. TypeOK'
  <2>1. worker' \in [Workers -> Starting \cup Serving]
    BY <1>1 DEF StartInv, TypeOK, Serving
  <2> QED
    BY <1>1, <1>4, <2>1 DEF StartInv, TypeOK, captureVars
<1>6. QuietInv'
  BY <1>3 DEF QuietInv, Starting
<1> QED
  BY <1>1, <1>2, <1>3, <1>5, <1>6, WorkerSame

\* Lemma: the copy is sent.
LEMMA SendSnapshotKeeps ==
  ASSUME StartInv, NEW w \in Workers, SendSnapshot(w)
  PROVE  StartInv'
<1>1. /\ UNCHANGED <<main, built, captureVars, recordVars, asked>>
      /\ worker' = [worker EXCEPT ![w] = "loop"]
      /\ answer' = [answer EXCEPT ![w] = 0]
      /\ Active(w)
  BY DEF SendSnapshot, At, Goto
<1>2. main \in {"spawn", "join"}
  BY <1>1, ActiveAt
<1>3. \A v \in Workers : /\ worker'[v] = IF v = w THEN "loop" ELSE worker[v]
                         /\ answer'[v] = IF v = w THEN 0 ELSE answer[v]
  BY <1>1 DEF StartInv, TypeOK
<1>4. TypeOK'
  <2>1. worker' \in [Workers -> Starting \cup Serving]
    BY <1>1 DEF StartInv, TypeOK, Serving
  <2>2. answer' \in [Workers -> Nat]
    BY <1>1 DEF StartInv, TypeOK
  <2> QED
    BY <1>1, <2>1, <2>2 DEF StartInv, TypeOK, captureVars, recordVars
<1>5. QuietInv'
  BY <1>3 DEF QuietInv, Starting
<1> QED
  BY <1>1, <1>2, <1>3, <1>4, <1>5, WorkerSame

\* Lemma: every step keeps the invariant.
LEMMA StartNext == StartInv /\ [Next]_vars => StartInv'
<1> SUFFICES ASSUME StartInv, [Next]_vars
             PROVE  StartInv'
  OBVIOUS
<1>1. CASE Main
  BY <1>1, ConfigureKeeps, ConstructKeeps, SpawnKeeps, JoinKeeps, DestroyKeeps DEF Main
<1>2. CASE Capture \/ Notify \/ Recorder
  BY <1>2, CaptureKeeps, SaveKeeps, RecordKeeps, CaptureEndKeeps, RecorderKeeps DEF Notify
<1>3. ASSUME NEW w \in Workers, Worker(w) \/ Connect(w)
      PROVE  StartInv'
  BY <1>3, OpenKeeps, RegisterKeeps, ConnectKeeps, AcceptRequestKeeps, GetSnapshotKeeps,
     SetRecordingKeeps, SendSnapshotKeeps DEF Worker
<1>4. CASE UNCHANGED vars
  <2> USE <1>4 DEF vars, captureVars, recordVars, workerVars
  <2>1. TypeOK' /\ PhaseInv' /\ QuietInv'
    BY DEF StartInv, TypeOK, PhaseInv, QuietInv
  <2>2. ReceiverInv'
    BY AliveSame DEF StartInv, ReceiverInv
  <2>3. SnapshotInv'
    BY AliveSame DEF StartInv, SnapshotInv, Last
  <2> QED
    BY <2>1, <2>2, <2>3 DEF StartInv
<1> QED
  BY <1>1, <1>2, <1>3, <1>4 DEF Next, Exhausted

-----------------------------------------------------------------------------
\* Theorem: the phases of main, what exists in each, who may be notified and
\* how new the snapshot is.
THEOREM StartupInvariant == Spec => []StartInv
<1>1. Init => StartInv
  BY StartInit
<1>2. StartInv /\ [Next]_vars => StartInv'
  BY StartNext
<1> QED
  BY <1>1, <1>2, PTL DEF Spec

\* Theorem: the threads of main.cpp start before what they will use exists
\* and none is told to stop, yet no local is used outside its lifetime, and
\* no recording was ever begun when main takes its locals down.
THEOREM LifetimesAreNested == Spec => []LifetimesNest
<1>1. StartInv => LifetimesNest
  <2> SUFFICES ASSUME StartInv
               PROVE  LifetimesNest
    OBVIOUS
  <2>1. built \in 0..10
    BY DEF StartInv, TypeOK
  <2>2. receivers \cup todo \subseteq {o \in Receiver : Alive(o)}
    BY DEF StartInv, TypeOK, ReceiverInv
  <2>3. Running("capturer") => Alive("mjpegDistributer")
    BY <2>1, AliveFrom DEF Running
  <2>4. Running("recorder") => Alive("recorderEventQueue")
    BY <2>1, AliveFrom DEF Running
  <2>5. (\E w \in Workers : Active(w)) => built = Len(Locals)
    BY ActiveAt, Places
  <2>6. main \in {"destroy", "terminated"} => ~ saveRecord /\ events = <<>> /\ ~ isRecording
    BY DEF StartInv, PhaseInv, QuietInv, Starting
  <2> QED
    BY <2>2, <2>3, <2>4, <2>5, <2>6 DEF LifetimesNest
<1> QED
  BY <1>1, StartupInvariant, PTL

\* Theorem: GET /snapshot is answered with a frame at least as new as the last
\* one that the saver had been told of when the request was taken up
\* (AppStreamSnapshotSaver::Notify and GetSnapshot, by two threads).
THEOREM AnswersAreCurrent == Spec => []AnswersCurrent
<1>1. StartInv => AnswersCurrent
  <2> SUFFICES ASSUME StartInv, NEW w \in Workers, worker[w] = "send"
               PROVE  answer[w] \in asked[w]..frame
    BY DEF AnswersCurrent
  <2>1. asked[w] \in Nat /\ answer[w] \in Nat /\ frame \in Nat
    BY DEF StartInv, TypeOK
  <2>2. asked[w] =< answer[w] /\ answer[w] =< frame
    BY DEF StartInv, SnapshotInv
  <2> QED
    BY <2>1, <2>2
<1> QED
  BY <1>1, StartupInvariant, PTL
=============================================================================
