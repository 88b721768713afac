------------------------------- MODULE Startup -------------------------------
(***************************************************************************)
(* The process as main (src/src/main/main.cpp) builds it and takes it      *)
(* down: locals constructed one after the other while the threads of the   *)
(* earlier ones already run, a worker thread per Server, each of which     *)
(* opens its own listening socket (src/src/core/server.cpp, tcp.cpp) and   *)
(* ends if that fails, and, when all of them have ended, the destruction   *)
(* of the locals in reverse order. Workers answer the four endpoints of    *)
(* AppHttpLayer (src/src/main/app.cpp) from the snapshot and the recording *)
(* switch, which the capturer thread uses at the same time.                *)
(***************************************************************************)
EXTENDS Integers, Sequences, FiniteSets

CONSTANTS
  Workers,      \* hardware_concurrency() + 1 of them
  MaxFrames,    \* bound: captured frames
  MaxRequests,  \* bound: connections made, each with one request
  MaxErrors     \* bound: system calls that fail while a worker starts

ASSUME StartupAssumption ==
  /\ Workers # {} /\ IsFiniteSet(Workers)
  /\ MaxFrames \in Nat /\ MaxRequests \in Nat /\ MaxErrors \in Nat

\* main's locals from the first thread on, in the order of construction.
Locals == <<"mjpegDistributer", "capturerRunner", "recorderEventQueue",
            "recorderTranscoderFactory", "recorderRunner", "snapshotSaver",
            "recorderController", "encodedStreamTranscoderFactory",
            "appHttpLayer", "workers">>

VARIABLES
  main,       \* "configure", "construct", "spawn", "join", "destroy",
              \* "terminated"
  built,      \* how many of Locals exist
  notifying,  \* the capturer holds receiversMut
  todo,       \* receivers not yet notified of the frame
  frame,      \* the number of the last captured frame
  receivers,  \* of mjpegDistributer
  snapshot,   \* snapshotSaver's: the number of a frame; 0: none yet
  unseen,     \* history: the last frame before snapshotSaver subscribed
  isRecording,  \* recorderController's
  events,     \* recorderEventQueue
  saveRecord, \* recorderRunner's; it has a transcoder exactly then
  worker,     \* where each worker is
  deaf,       \* workers whose listening socket is not registered
  backlog,    \* connections that wait at each worker's socket
  asked,      \* history: the last frame snapshotSaver surely had when the
              \* worker took up its request
  answer,     \* what the worker has read of the snapshot
  requests,   \* connections made so far
  errors      \* failures so far

captureVars == <<notifying, todo, frame, receivers, snapshot, unseen>>
recordVars == <<isRecording, events, saveRecord>>
workerVars == <<worker, deaf, backlog, asked, answer, requests, errors>>
vars == <<main, built, captureVars, recordVars, workerVars>>

Alive(o) == \E i \in 1..built : Locals[i] = o
Running(thread) ==
  main # "terminated" /\ Alive(IF thread = "capturer" THEN "capturerRunner" ELSE "recorderRunner")
Active(w) == main # "terminated" /\ worker[w] \notin {"none", "ended"}

Init ==
  /\ main = "configure" /\ built = 0
  /\ notifying = FALSE /\ todo = {} /\ frame = 0 /\ receivers = {} /\ snapshot = 0
  /\ unseen = 0
  /\ isRecording = FALSE /\ events = <<>> /\ saveRecord = FALSE
  /\ worker = [w \in Workers |-> "none"] /\ deaf = {} /\ backlog = [w \in Workers |-> 0]
  /\ asked = [w \in Workers |-> 0] /\ answer = [w \in Workers |-> 0]
  /\ requests = 0 /\ errors = 0

-----------------------------------------------------------------------------
(* main.                                                                   *)

\* config.yaml is read before anything exists; what is missing from it, or has
\* not the type that is asked for, throws, and nobody catches.
Configure ==
  /\ main = "configure"
  /\ main' \in {"construct", "terminated"}
  /\ UNCHANGED <<built, captureVars, recordVars, workerVars>>

\* The locals that subscribe themselves in their constructor.
Receiver == {"snapshotSaver", "recorderController"}

\* One local: the runners' Run starts their thread, and a constructor that
\* calls AddSubscriber waits for the capturer.
Construct ==
  /\ main = "construct"
  /\ LET o == Locals[built + 1] IN
       /\ o \in Receiver => ~notifying
       /\ receivers' = receivers \cup ({o} \cap Receiver)
       /\ unseen' = IF o = "snapshotSaver" THEN frame ELSE unseen
       /\ main' = IF o = "workers" THEN "spawn" ELSE main
  /\ built' = built + 1
  /\ UNCHANGED <<notifying, todo, frame, snapshot, recordVars, workerVars>>

\* workers.emplace_back: the next thread,
Spawn(w) ==
  /\ main = "spawn"
  /\ worker[w] = "none"
  /\ worker' = [worker EXCEPT ![w] = "epoll"]
  /\ main' = IF \A v \in Workers \ {w} : worker[v] # "none" THEN "join" ELSE main
  /\ UNCHANGED <<built, captureVars, recordVars, deaf, backlog, asked, answer, requests, errors>>

\* Mutant: main waits for one worker only.
JoinOne ==
  /\ main = "join"
  /\ \E w \in Workers : worker[w] = "ended"
  /\ main' = "destroy"
  /\ UNCHANGED <<built, captureVars, recordVars, workerVars>>

\* and join of each.
JoinAll ==
  /\ main = "join"
  /\ \A w \in Workers : worker[w] = "ended"
  /\ main' = "destroy"
  /\ UNCHANGED <<built, captureVars, recordVars, workerVars>>

\* return 0: the last local is destroyed. ~AppStreamRecorderRunner destroys
\* its transcoder first and then a thread that was never joined, which is
\* std::terminate: the locals before it are never destroyed.
Destroy ==
  /\ main = "destroy"
  /\ LET o == Locals[built] IN
       /\ o \in Receiver => ~notifying
       /\ receivers' = receivers \ {o}
       /\ main' = IF o = "recorderRunner" THEN "terminated" ELSE main
  /\ built' = built - 1
  /\ UNCHANGED <<notifying, todo, frame, snapshot, unseen, recordVars, workerVars>>

-----------------------------------------------------------------------------
(* The capturer and the recorder thread.                                   *)

Capture ==
  /\ Running("capturer") /\ ~notifying
  /\ frame < MaxFrames
  /\ frame' = frame + 1
  /\ notifying' = TRUE /\ todo' = receivers
  /\ UNCHANGED <<main, built, receivers, snapshot, unseen, recordVars, workerVars>>

\* Mutant: the saver keeps the first frame.
SaveSnapshotOnce ==
  /\ Running("capturer") /\ "snapshotSaver" \in todo
  /\ todo' = todo \ {"snapshotSaver"}
  /\ snapshot' = IF snapshot = 0 THEN frame ELSE snapshot
  /\ UNCHANGED <<main, built, notifying, frame, receivers, unseen, recordVars, workerVars>>

\* AppStreamSnapshotSaver::Notify
SaveSnapshot ==
  /\ Running("capturer") /\ "snapshotSaver" \in todo
  /\ todo' = todo \ {"snapshotSaver"}
  /\ snapshot' = frame
  /\ UNCHANGED <<main, built, notifying, frame, receivers, unseen, recordVars, workerVars>>

\* AppStreamRecorderController::Notify
Record ==
  /\ Running("capturer") /\ "recorderController" \in todo
  /\ todo' = todo \ {"recorderController"}
  /\ events' = IF isRecording THEN Append(events, "RecordData") ELSE events
  /\ UNCHANGED <<main, built, notifying, frame, receivers, snapshot, unseen, isRecording>>
  /\ UNCHANGED <<saveRecord, workerVars>>

CaptureEnd ==
  /\ Running("capturer") /\ notifying /\ todo = {}
  /\ notifying' = FALSE
  /\ UNCHANGED <<main, built, todo, frame, receivers, snapshot, unseen, recordVars, workerVars>>

\* AppStreamRecorderRunner: one event, as in Recorder.tla.
Recorder ==
  /\ Running("recorder") /\ events # <<>>
  /\ events' = Tail(events)
  /\ saveRecord' = CASE Head(events) = "StartRecording" -> TRUE
                     [] Head(events) = "StopRecording" -> FALSE
                     [] OTHER -> saveRecord
  /\ UNCHANGED <<main, built, captureVars, isRecording, workerVars>>

-----------------------------------------------------------------------------
(* A worker: Server::Start, TcpLayer::Start.                               *)

Fails == errors < MaxErrors /\ errors' = errors + 1
At(w, here) == Active(w) /\ worker[w] = here
Goto(w, there) == worker' = [worker EXCEPT ![w] = there]

\* Where Start goes on. Adding the routes touches nothing that is shared.
After == [epoll |-> "socket", socket |-> "setsockopt", setsockopt |-> "bind",
          bind |-> "listen", listen |-> "register"]

\* epoll_create1, and the calls of CreateSocket, of which the first to fail
\* closes what there is: the worker's Start returns and its thread ends.
Open(w) ==
  /\ Active(w) /\ worker[w] \in DOMAIN After
  /\ \/ Goto(w, After[worker[w]]) /\ UNCHANGED errors
     \/ Goto(w, "ended") /\ Fails
  /\ UNCHANGED <<main, built, captureVars, recordVars, deaf, backlog, asked, answer, requests>>

\* Mutant: the listening socket is not registered.
RegisterNot(w) ==
  /\ At(w, "register")
  /\ deaf' = deaf \cup {w}
  /\ Goto(w, "loop")
  /\ UNCHANGED <<main, built, captureVars, recordVars, backlog, asked, answer, requests, errors>>

\* MarkReceiverPending(localDescriptor); if it fails StartLoop waits for an
\* event that cannot come.
Register(w) ==
  /\ At(w, "register")
  /\ \/ UNCHANGED <<deaf, errors>>
     \/ deaf' = deaf \cup {w} /\ Fails
  /\ Goto(w, "loop")
  /\ UNCHANGED <<main, built, captureVars, recordVars, backlog, asked, answer, requests>>

\* A client: the kernel puts the connection on one of the sockets that listen
\* (SO_REUSEPORT).
Connect(w) ==
  /\ Active(w) /\ worker[w] \notin DOMAIN After
  /\ requests < MaxRequests
  /\ requests' = requests + 1
  /\ backlog' = [backlog EXCEPT ![w] = @ + 1]
  /\ UNCHANGED <<main, built, captureVars, recordVars, worker, deaf, asked, answer, errors>>

\* SetupPeer, and the request of that client.
Accept(w) ==
  /\ At(w, "loop") /\ w \notin deaf
  /\ backlog[w] > 0
  /\ backlog' = [backlog EXCEPT ![w] = @ - 1]
  /\ LET last == IF "snapshotSaver" \in todo THEN frame - 1 ELSE frame IN
       asked' = [asked EXCEPT ![w] = IF last > unseen THEN last ELSE 0]
  /\ \E where \in {"snapshot", "query", "on", "off", "other"} : Goto(w, where)
  /\ UNCHANGED <<main, built, captureVars, recordVars, deaf, answer, requests, errors>>

\* GET /snapshot: GetSnapshot copies the frame and sends the copy.
GetSnapshot(w) ==
  /\ At(w, "snapshot")
  /\ answer' = [answer EXCEPT ![w] = snapshot]
  /\ Goto(w, "send")
  /\ UNCHANGED <<main, built, captureVars, recordVars, deaf, backlog, asked, requests, errors>>

\* GET /recording reads the switch, POST /recording turns it if the body says
\* so; the index page, a request without a route and another body leave
\* everything as it is.
SetRecording(w) ==
  /\ Active(w) /\ worker[w] \in {"query", "on", "off", "other"}
  /\ isRecording' = CASE worker[w] = "on" -> TRUE
                      [] worker[w] = "off" -> FALSE
                      [] OTHER -> isRecording
  /\ events' = CASE worker[w] = "on" -> Append(events, "StartRecording")
                 [] worker[w] = "off" -> Append(events, "StopRecording")
                 [] OTHER -> events
  /\ Goto(w, "loop")
  /\ UNCHANGED <<main, built, captureVars, saveRecord, deaf, backlog, asked, answer>>
  /\ UNCHANGED <<requests, errors>>

SendSnapshot(w) ==
  /\ At(w, "send")
  /\ answer' = [answer EXCEPT ![w] = 0]
  /\ Goto(w, "loop")
  /\ UNCHANGED <<main, built, captureVars, recordVars, deaf, backlog, asked, requests, errors>>

-----------------------------------------------------------------------------
Main == Configure \/ Construct \/ (\E w \in Workers : Spawn(w)) \/ JoinAll \/ Destroy
Notify == SaveSnapshot \/ Record \/ CaptureEnd
Worker(w) == \/ Open(w) \/ Register(w) \/ Accept(w) \/ GetSnapshot(w) \/ SetRecording(w)
             \/ SendSnapshot(w)

\* The process is gone, or it waits for requests and frames.
Exhausted ==
  /\ \/ main = "terminated"
     \/ /\ frame = MaxFrames /\ requests = MaxRequests /\ ~notifying /\ events = <<>>
        /\ main = "join"
        /\ \A w \in Workers : \/ worker[w] = "ended"
                              \/ worker[w] = "loop" /\ (backlog[w] = 0 \/ w \in deaf)
  /\ UNCHANGED vars

Next ==
  \/ Main \/ Capture \/ Notify \/ Recorder
  \/ \E w \in Workers : Worker(w) \/ Connect(w)
  \/ Exhausted

Spec == Init /\ [][Next]_vars

\* Threads run, and main gets receiversMut in the end (it is free between two
\* frames). System calls need not fail, clients need not come.
FairSpec ==
  /\ Spec
  /\ SF_vars(Main) /\ WF_vars(Notify) /\ WF_vars(Recorder)
  /\ \A w \in Workers : WF_vars(Worker(w))

-----------------------------------------------------------------------------
\* The lifetimes nest. Threads start before what they will use exists and
\* are never told to stop, yet none touches a local before its construction
\* or after its destruction: the capturer reaches receivers through the
\* distributer only while they exist; workers use everything, and main
\* destroys nothing while one of them lives; the recorder's own thread cannot
\* be in the transcoder that ~AppStreamRecorderRunner takes away before the
\* process ends, since no worker ever served a request by then.
LifetimesNest ==
  /\ receivers \cup todo \subseteq {o \in Receiver : Alive(o)}
  /\ Running("capturer") => Alive("mjpegDistributer")
  /\ Running("recorder") => Alive("recorderEventQueue")
  /\ (\E w \in Workers : Active(w)) => built = Len(Locals)
  /\ main \in {"destroy", "terminated"} => ~saveRecord /\ events = <<>> /\ ~isRecording

\* A client that asks for a snapshot gets a frame of the camera at least as
\* new as the last one that had been distributed when the request was taken
\* up, although it is read while the capturer replaces it. (The capturer
\* starts before the saver subscribes, so the first frames may never be seen.)
AnswersCurrent ==
  \A w \in Workers : worker[w] = "send" => answer[w] \in asked[w]..frame

\* Errors at the start stay with the worker that had them. A connection is
\* never left on the socket of a worker that gave up: sooner or later it is
\* accepted (unless its worker's epoll_ctl failed, after which the socket
\* still listens and nobody accepts). And the process comes to serve, with a
\* worker that hears its socket, or it ends. The code leaves one way out: a
\* call failed in every worker, and for one of them it was the registration
\* of its socket (TcpLayer::MarkReceiverPending), which is logged and then
\* waited on for ever.
ServesOrEnds ==
  /\ \A w \in Workers : backlog[w] > 0 ~> backlog[w] = 0 \/ w \in deaf
  /\ <>(\/ main = "terminated"
        \/ \E w \in Workers : worker[w] = "loop" /\ w \notin deaf
        \/ deaf # {} /\ errors >= Cardinality(Workers))
=============================================================================
