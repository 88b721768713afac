# net.streaming in TLA+

A specification of the IP camera server net.streaming: modules that follow the
C++ code in `src/src/core` and `src/src/main`, TLC configurations that check
them on small instances, and proofs for TLAPS. Everything is written from the
code; names of variables, actions and operators are the code's where TLA+
allows it. `PROJECT.json` says for each definition which lines it stands for.

## 1. The system

One process. `main.cpp` starts

* the **capturer thread** (`AppStreamCapturerRunner`), which reads MJPEG frames
  from a V4L2 device and hands each one to the distributer,
* the **recorder thread** (`AppStreamRecorderRunner`), which takes events from a
  queue and writes files,
* `hardware_concurrency() + 1` **workers**, each with its own listening socket
  (`SO_REUSEPORT`), epoll instance and connections,
* for every `GET /stream` request, a **transcoder thread** of that request.

There is no shutdown: all of these run until the process is killed. Only when
every worker has failed to start does `main` return, into the destruction of
objects whose threads still run (`Startup`).

| Component | State | Operations | Talks to |
|---|---|---|---|
| `TcpLayer` (tcp.cpp) | epoll instance, map of connections | accept, read, write, close, in the order of a batch of events | kernel; creates a sender and a `ProtocolLayer` per connection |
| `ConcreteTcpSender` (tcp.cpp) | queue of buffers and files, `pending`, descriptor, `senderMut` | `Send`, `Send(File)`, `SendBuffered`, `Close`, destruction | called by its worker, the capturer and a transcoder thread |
| `ProtocolLayer`, `HttpLayer`, `WebsocketLayer` | unconsumed bytes, current layer | `Process`: parse until nothing complete is left | the router |
| `ConcreteRouter` (router.cpp) | `httpProcessor`, `websocketProcessor` | upgrade, route, 404, frame | processors, through factories |
| `AppStreamDistributer` (stream.cpp) | set of receivers, `receiversMut` | `AddSubscriber`, `RemoveSubscriber`, `Process` | calls `Notify` of every receiver under the mutex |
| `AppMjpegSender` (app.cpp) | `skipCount`, `skipped` | `Process`, `Notify`, destruction | distributer, sender |
| `AppEncodedStreamSender` (app.cpp) | queue, thread, transcoder | `Process`, `Notify`, `WriteData`, destruction | distributer, transcoder, sender |
| `AppStreamRecorderController` and `...Runner` | `isRecording`; `saveRecord`, current file, its start time | `Start`, `Stop`, `Notify`; handlers of three events, `Reset` | event queue, transcoder |
| `ConcreteEventQueue` (event_queue.hpp) | deque, mutex, condition variable | `Push`, `Pop` | |
| `Decoder`, `Filter`, `Encoder`, `Writer`, `Transcoder` (codec.cpp) | libav contexts, `pts` | `Process`, `Flush`, `Begin`, `End` | each other, by callbacks |
| `video::Stream` (video.cpp) | mapped buffers | bind, start, `ProcessFrame` | driver; distributer |
| `AppStreamSnapshotSaver`, `AppHttpLayer` | last frame | `Notify`, `GetSnapshot`, four endpoints | distributer, recorder controller |

What is hard about it:

* *Lifetimes across threads.* A processor is destroyed by its worker while the
  capturer may be about to call it, and with it the sender both write to. The
  only protection is the order of destruction and `receiversMut`.
* *Interest in EPOLLOUT.* Whether the worker is told that a socket is writable
  follows a flag that every sending thread may set and the worker clears.
* *Bytes.* Buffers are merged, partly written, and mixed with files.
* *Descriptors* are numbers that are reused at once, by other workers too.
* *Byte streams* come in arbitrary pieces, and the parser changes in mid-buffer.
* *Queues between threads* carry control and data, and a sentinel.
* *Codecs* hold frames back and reorder them, and any call may fail.

What makes each component correct is the list of properties in section 4; the
places in the code where each hazard sits are in `PROJECT.json`, "hazards".

## 2. Modules

| Module | Models | Form |
|---|---|---|
| `Startup` | `main`, its objects and threads, the workers' start, the four plain endpoints | |
| `StartupProofs` | | theorems |
| `ByteStream` | what a `TcpSender` promises | abstract specification |
| `TcpSender` (+ `MCTcpSender`) | one connection: sender, worker, callers, client | refines `ByteStream` |
| `TcpSenderProofs` | | theorems |
| `TcpLayer` (+ `MCTcpLayer`) | all workers and connections, descriptor numbers | |
| `TcpLayerProofs` | | theorems |
| `Protocol` (+ `MCProtocol`) | segments, parsers, layers, router | |
| `WebsocketFraming` | the bytes of websocket headers | algorithm against its reference |
| `ProtocolProofs` | both `Protocol` and `WebsocketFraming` | theorems |
| `StreamServer` (+ `MCStreamServer`) | router, MJPEG processors, distributer, capturer | |
| `EncodedStream` | `StreamServer` with the processors of `GET /stream`: queue, thread, destructor | extends `StreamServer`, refines `EventQueue` |
| `EncodedStreamProofs` | both `StreamServer` and `EncodedStream` | theorems |
| `RecordingLog` | what the recorder promises | abstract specification |
| `Recorder` (+ `MCRecorder`) | controller, queue, runner, files | refines `RecordingLog` |
| `RecorderProofs` | | theorems |
| `EventQueue` | mutex, condition variable, deque | also the abstract queue of `EncodedStream` |
| `Transcoder` | construction, decode, filter, encode, write, flush | |
| `TranscoderProofs` | both `Transcoder` and `EventQueue` | theorems |
| `Capture` | setting the camera up, ownership of its buffers | |
| `CaptureProofs` | | theorems |

How they fit together. `TcpLayer` treats a connection as a descriptor and what
its client did; `TcpSender` opens one connection up. Both contain the handlers
of `StartLoop`: `TcpLayer` for the numbers, `TcpSender` for queue and interest.
`Protocol` starts where `ReadFromPeer` calls `Process`, and `StreamServer` where
the router calls a processor; `SenderOutlivesCallers` (one sender) and
`NoDanglingReceiver` (all processors) are the two halves of one argument.
`EncodedStream` is `StreamServer` with a second kind of processor: it reuses its
actions, so that MJPEG and encoded streams replace each other on one connection,
and gives each stream a queue in the steps of `ConcreteEventQueue`; `QueueSpec`
is the refinement that says those queues are `EventQueue`'s. `Recorder` uses a
FIFO queue, which is what `EventQueue` promises; both treat the transcoder as
something that holds frames and gives them back, which `Transcoder` details.
`Startup` stands around all of them: it says that the objects the other modules
take for granted exist while their threads use them. `Protocol` takes a frame's
head as one unit, and the words of a request; `WebsocketFraming` shows that the
parser's arithmetic allows that, and `FramesKeepInStep` proves it. `Capture`
produces the frames that are only numbers elsewhere.

### Correspondence with the code

A variable is a member (`buffered`, `pending`, `receivers`, `isRecording`,
`httpProcessor`, ...), a local that lives across steps (`cur`, `hand`, `batch`),
a thread's position (`pc`, `step`, `loop`), something of the environment (`sock`,
`client`, `clock`), or a history (named so in its declaration). One action is
what a thread does without another thread being able to see the middle of it:
code under a mutex is one action unless it is long on purpose; a call that takes
another mutex, or a system call, begins a new one. Payloads are short sequences
of numbers (`TcpSender`), lengths (`WebsocketFraming`) or frame numbers.

Operators whose comment begins with "Mutant:" are not part of the model. Each is
a small mistake one could make in the definition that follows it; with it in
place, the property named in `PROJECT.json` fails. They show that the
properties are sensitive to the code.

## 3. Runs

| Run | Question | Bounds |
|---|---|---|
| `tcp_sender_safety` | interest, bytes, SIGPIPE, lifetimes | 2 producers, 3 calls, payloads of 1 and 2 bytes, files of 0 and 2, socket buffer of 2 |
| `tcp_sender_live` | refinement of `ByteStream`, delivery, reclamation | 1 producer, 2 calls |
| `recorder` | order, switch, rotation, overwriting, refinement of `RecordingLog`, accepted frames are written | 3 frames, 3 switches, clock 0 to 3 (the name of 3 is that of 1 again), set back once, limit 2 s |
| `stream_server` | lifetimes, form of streams, skipping | 2 connections, 3 addresses, 4 frames, 3 requests, `skip` from -1 to 1 |
| `event_queue` | FIFO, no lost wakeup | 2 producers, 2 consumers, 3 pushes |
| `encoded_stream` | complete streams, lifetimes, refinement of `EventQueue`, requests served and connections torn down | 1 connection, 2 addresses, 2 requests (of three kinds), 3 frames, 1 held back, calls that fail at any time |
| `protocol` | segmentation, layers, router | 4 messages, segments up to 5 units, 1 stream part |
| `websocket_framing` | boundaries of the length forms | 2 frames, lengths 0, 125, 126, 65535, 65536 |
| `tcp_layer` | reuse of numbers, leaks, accept and close happen | 2 workers, 3 connections, 2 numbers, registrations that may fail |
| `transcoder` | parts built half, loss, order, flush | 4 frames, 2 errors, delays of 2 |
| `capture` | set-up that fails, stable reads, order, buffers kept | up to 3 buffers, 5 frames, 3 errors |
| `startup` | lifetimes, current answers, the process serves or ends | 2 workers, 2 frames, 2 requests, 2 errors |

Why these are enough. The properties of `TcpSender` concern two neighbours in
the queue, a partial write and one competitor for the lock: a capacity of two
with payloads of one and two bytes gives writes of a part, of all and of none,
and the calls suffice for buffer, file, buffer. Two producers are two threads
besides the worker, the most that one sender has (the capturer and a transcoder
thread). In `StreamServer` three addresses for two connections let a new
processor get the address of a destroyed one while the other is live. In
`TcpLayer` two numbers for three connections force reuse, and two workers reuse
across epoll instances. Four messages in `Protocol` are a request with a stream,
a handshake and two frames; every segmentation is tried, and numbers that are
none come in every position. `encoded_stream` has one connection: two requests
on it are what makes processors overlap, the capturer's and the transcoders'
threads being common to all; two connections at once are `stream_server`'s
subject. Its two addresses let both processors live while one replaces the
other, and a freed one be used again. `startup` can let every worker fail (two
errors), so that `main` returns. The clock of `Recorder` passes the limit in the
middle of a file and at its boundary; set back once, it comes to the same
seconds a second time, and `Local` (`MCRecorder`) gives two of them one name. In
`Capture` as many errors as buffers let the last one be lost. The driver may
grant more buffers than the four it is asked for: the proofs hold for any number
from two on. Lengths of websocket frames stay below 2^31: the bytes that the
parser would shift out of an `int` (`websocket.cpp:34`, undefined) are zero
there, and zero however they are shifted. `Configure` of `Startup` has no bound:
it either succeeds or ends the process.

Symmetry is used in `tcp_sender_safety` (producers) and `stream_server`
(connections, addresses): no definition orders them, and neither run checks a
temporal property. `tcp_layer` checks its temporal property for one connection
of three: without symmetry in the search, but because no definition tells
connections apart, one stands for all.

Deadlock is checked everywhere. Where the bounds stop a model, an explicit
stuttering step (`Exhausted`, `AllFramed`, `Gone`, `Waiting`) says so and states
what must hold in such a state.

## 4. Properties

**Sender.** `InterestFollowsQueue`: with the lock free and the descriptor valid,
`pending`, the registration and the queue agree. `Conservation`: what was
accepted is what went out, then what is queued, then what a thread is adding.
`SigpipeNeedsFinAndReset`: the missing `MSG_NOSIGNAL` can only matter if the
client shuts down and resets between `epoll_wait` and the write.
`SenderOutlivesCallers`: nobody is inside a sender that is destroyed; the
callers include the worker itself, whose destruction of an encoded stream's
processor flushes the transcoder into the sender (`"flush"`). `StreamSpec`: the
sender implements `ByteStream`. `Delivered`, `Reclaimed`: liveness.

**TCP layer.** `OwnDescriptor`: the number in a worker's map denotes that very
connection and is registered there and nowhere else. It also says that no
descriptor leaks. The exception is a connection whose `EPOLL_CTL_ADD` failed
(`unheard`): `SetupPeer` goes on as if nothing had happened, so that it keeps
its number and its entry in the map, and is neither read nor closed.
`EventsCurrent`: an event not yet handled is about the connection that has its
number now (the listening socket and the connections share a batch, in any
order). `OneAcceptedAndClosed`, liveness: a waiting connection is accepted, and
one that ended is closed unless it is `unheard`.

**Protocol.** `InStep`: messages, in order, once, without waiting for more than
they need; a `content-length` or a `skip` that is not a number ends the process,
but only when its turn has come. `OneProcessor`: a connection has one processor
at a time, and the layer in charge has it; `router.cpp:39-42` tests for a null
processor and uses it all the same, but it is never null there.
`OnlyFramesAfterSwitching`: after "101" no part of a running stream reaches the
client. Requests that the parser can never accept (`Malformed`: an unknown
method) stay in the buffer for ever and are the stated exception of `InStep`.
`main.cpp` adds no websocket route: what is said of the handshake and of frames
is about the library that `Server` offers. `WebsocketFraming`: `FramesInStep`
(whole frames are parsed, incomplete ones are left alone) and `AnswersReadable`;
the latter is limited to 65535 bytes, because from there on `Send` announces
eight bytes of length and writes four.

**Streams.** `NoDanglingReceiver`: whoever the distributer may call is the live
object that subscribed, with a live sender. `StreamsWellFormed`: parts follow
their header; a "404" may come in between, since the router answers it while the
old processor stays. `SkipsExactly`: between two parts of one stream as many
frames are missing as the client asked for; a negative `skip`, which `std::stoi`
accepts, is none. With encoded streams: `NoUseAfterDelete` (also: the codecs
have one user at a time), `StreamComplete` (a stream is one response, its parts
are not mixed with those of the stream that replaces it, and each frame taken is
shown once, still in the codecs, or was lost to a call of libav that failed;
none is in the codecs when the trailer is sent), `OwedTaken` (exactly the frames
pushed before the sentinel are transcoded, without a gap since the
subscription), `QueueSpec` (each stream's queue implements `EventQueue`),
`ClosesAndServes` (a request is served and a closing connection torn down
although frames keep coming and threads must be joined).

**Process.** `LifetimesNest`: threads run before what they will use exists and
nobody tells them to stop, yet none touches an object before its construction or
after its destruction; in particular `~AppStreamRecorderRunner` never meets a
recording. `AnswersCurrent`: a snapshot is at least as new as the last frame
distributed before the request was taken up. `ServesOrEnds`: connections are
accepted, unless the worker's `epoll_ctl` failed; and the process comes to have
a worker that hears its socket, or it ends. The code leaves one way out, which
the property names: a call failed in every worker, and in one of them it was the
registration of the socket (`deaf`); that one waits for ever, and so does
`main`, which joins it.

**Recorder.** `AcceptedIsRecorded`: no frame accepted while the switch was on
meets a runner that does not record. `FollowsSwitch`: a file is open exactly
while the runner records, and when everything is handled that is what the switch
says. `FileAgeBounded`: by the clock, no frame goes to a file that has reached
the limit, except the first one of a file opened while the clock was set back.
`OnlyRestartOverwrites`: a file is named by the local time of the second in
which it is opened (`Local`, any function, injective or not). A file loses
recorded frames only to one opened later under the same name, and that takes a
recording restarted within the second, a clock set back since, or a local time
that says the name a second time (the end of daylight saving); with a clock that
runs forward through names that differ, a rotation overwrites nothing.
`LogSpec`: the recorder implements `RecordingLog`. "Recorded" and `written` mean
handed to the transcoder: what the codecs drop is `Transcoder`'s subject, what a
later file replaces that of `OnlyRestartOverwrites`. `FramesWritten`: liveness.

**Queue, codecs, camera.** `Fifo`, `NoLostWakeup`, `EventsPopped`.
`FramesAccounted`: a frame is lost only by an error, and none is written twice.
`FlushComplete`: after a flush the trailer is last and nothing is held back,
unless a call failed. Time stamps rise with the camera's order (part of
`FramesAccounted`). `DefinedOnceReady`: a transcoder that was built completely
and wrote its header is never used outside the life of one of its parts; one
that was not had a failure, which its constructors only log. `ReadIsStable`: the
driver does not write to the buffer the receivers read, and frames reach them in
the camera's order; memory that was not mapped is read only if an `mmap` failed.
`BuffersKept`: the driver, the thread and the lost ones are all buffers there
are, and the loop is deaf only if a call failed.

### Fairness

Threads are scheduled: weak fairness of each thread's own steps. A thread that
waits for a mutex held again and again by another gets strong fairness of that
one step (`DestroyProcessor`, `Subscribe`, `Unsubscribe` and their counterparts
for encoded streams, `main`'s constructors in `Startup`): `std::mutex` is not
fair, but the only holder that comes back for ever is the capturer, which
releases it for the time between two frames and blocks in `epoll_wait` without
it. Nothing is assumed of clients (they need not send, read or leave, except
where a property says "a client that reads"), of the camera or of spurious
wakeups, and nothing of the clock: it need not advance, it may be set back, and
its local times may repeat. Starvation at a mutex is what strong fairness
assumes away: the models do not show that it cannot happen. `Delivered` says
nothing of a client that keeps sending: `StartLoop` always prefers its input.
`Protocol`, `WebsocketFraming`, `Transcoder` and `Capture` are checked for
safety only and state no fairness; there "in the end" is said of the states in
which the loop has returned.

## 5. Proofs

A proof module extends the module it is about. Each one states an inductive
invariant as a conjunction of named parts, shows it for `Init` and, action by
action, for every step, and derives the properties from it. TLC checked each
invariant on an instance before it was proved; what a step needs and the
property alone does not give is what the parts are there for. The theorems hold
for all values of the constants that the named `ASSUME`s of the modules admit:
bounds are numbers, `Null`, `None` and the like are none of the things they
stand beside. The type invariants are parts of the proved invariants and are
not repeated in the runs.

`TcpSenderProofs`. `SenderInv` is `TypeOK`; `LockInv`, which ties the holder of
`senderMut` and the set of threads inside a notification to the position of the
worker; `InterestInv`, which is `InterestFollowsQueue` extended to the states in
which a thread holds the lock and has changed the queue but not yet the flag;
`SocketInv`, which says at which positions of the worker the socket can be in a
state that kills the process. `InterestFollowsQueue`, `SigpipeNeedsFinAndReset`
and `SenderOutlivesCallers` follow. `ByteInv` adds `Conservation` and what the
thread inside the lock has already accepted; its steps append at one end of the
queue or shorten the other. The lemmas say what flattening does then; as they
cannot be had by induction over the queue, each is proved by the smallest length
at which it would fail (`LeastNumber`). `SenderIsByteStream` is the refinement:
each step of the sender is an `Accept`, a `Deliver` or a `Shut` of `ByteStream`,
or changes nothing of it.

`TcpLayerProofs`. `DescriptorInv` is `TypeOK`; `OwnerInv` (a descriptor that is
open has one owner, whose map leads back to it); `HandInv` (the same for
`SetupPeer` and `ClosePeer` between two of their steps: the entry is made after
`accept` and erased before `close`); `RegisteredInv` (an epoll instance knows
only its worker's descriptors, the one being closed included); `BatchInv`
(events not yet handled are of different descriptors, and never of the one being
closed). The last one is why a number that is reused at once does not bring an
old event to a new connection: only the worker itself closes its descriptors,
and it handles an event before it does. `LayerInv` adds `ClientInv` (a
connection has one descriptor, and is in one backlog while it has none) and
`UnheardInv` (in a worker's map, the connections that are not registered are
those whose registration failed; no event is about one of them, so none is ever
closed). `OwnDescriptor` and `EventsCurrent` follow.

`EncodedStreamProofs` is about `StreamServer` and `EncodedStream`. `ServerInv`
is `TypeOK`; `OwnInv` (what a connection holds lives and is its own; what lives
is held); `WorkerInv` (what a worker holds at each position); `ReceiverInv`
(whom the capturer serves is subscribed, and no receiver is past
`RemoveSubscriber`). `NoDanglingReceiver` follows. `FormInv` adds what was sent:
its receiver knows which header its stream began with, which part it showed last
and how many frames it left out since (`Shows`), and whether the frame of the
moment is still to come (`NextFrame`); a connection whose processor runs has no
receiver. The order `httpProcessor = Create()`, then destruction, then `Process`
is what makes the last point true, and it is what keeps a part from getting
between the head of a file and its body. `StreamsWellFormed` and `SkipsExactly`
follow. For the encoded streams the lemmas on single actions are used again, and
`StreamInv` adds that requests suffice for the streams (`CountInv`), each
processor has a stream of its own (`GenInv`), the capturer is inside a receiver
it still serves (`InsideInv`), a thread ends before its processor does
(`ThreadInv`), and frames, sentinel and pushes agree (`PushInv`).
`NoUseAfterDelete` follows, and `QueuesImplemented`: every step is, for each
stream's queue, one of `EventQueue`, or leaves it alone. `TakenInv` says what a
stream is pushed: a processor is a receiver from its own `Process` until its
destructor (`SubscribedInv`), so that what was pushed is a run of frames from
the subscription to the sentinel with at most the frame of the moment missing
(`RunInv`, `FedInv`), and the thread takes a prefix of that and nothing after
the sentinel (`EndInv`). `OwedTaken` follows. `SentInv` says what the sender of
a stream's connection was given: as long as the stream is not flushed nothing
but a "404" comes between its parts (`Kept`: another processor answers only
after this one is gone, which is again the order create, destroy, process),
every frame taken is in a chunk, held back, or lost to a failed call (`LostInv`:
only frames that were taken are lost), and a trailer comes when nothing is held
back any more. `StreamComplete` follows.

`RecorderProofs`. `RecorderInv` is `TypeOK`; `OrderInv`, which says which events
can follow which in the queue (`Settled`, `Final`: the state the runner will be
in after the current and after the last event); `RunnerInv` (`saveRecord`, the
open file and the position of the runner); `ClockInv` (`FreshName`: a name given
since the clock was last set back is that of a second that has passed, and a
rotation is under way only in a later one; a due file was rotated before the
write). `AcceptedIsRecorded`, `FollowsSwitch` and `FileAgeBounded` follow from
it; `OnlyRestartOverwrites` is an action property proved from it, for any
function `Local`. `RecorderIsLog` is the refinement: what is logged are four
stretches (`Logs`), the frames written, the one in the runner's hand, those
queued and the one in the controller's hand. Each step moves one event from a
stretch to the one before it and leaves their concatenation as it was, except
the controller's: a frame it accepts and the switch it turns are
`RecordingLog`'s own steps. That a frame which is taken is also written is what
`OrderInv` is needed for.

`ProtocolProofs`. First the parsers. Each function of the HTTP parser is shown
to take from a buffer that agrees with the beginning of a request (`Agree`) what
the request says at that place, or to find that not enough has arrived
(`HeadersRead` for the lines, `RequestParsed` for the whole); `FrameParsed` says
the same of a websocket frame. Together they are `MessageParsed`: nothing is
taken before the message is complete, and then exactly it, whatever is behind
it. `RouterInv` ties the position of the router to the two processors and to
what was sent; `OneProcessor` and `OnlyFramesAfterSwitching` follow from it
without a word about bytes. `StepInv` is about the bytes: `StepType`; `OrderInv`
(frames come after a handshake and nothing else does, and the layer in charge is
the one the messages handled so far ask for); `Prefix` (what was handled begins
what was sent); `Kept` (buffer and bytes on the way are the encoding of what was
not handled); `Prompt` (a layer that returned has less than a whole message, or
one it never takes); `InTurn` (what ended the process was the next message).
`InStep` follows. The layer switches in the middle of a buffer, and `OrderInv` is
what makes the other parser meet a message of its own kind there. Facts about
`FlattenSeq`, here and for the recorder, are shown by a least counterexample.

For `WebsocketFraming`, `HeadIs` says what the bytes of a client's head are and
`ParseFrame` that the parser, on a buffer that begins like it, takes the frame
as soon as it is whole and nothing before; the arithmetic is that of division by
256, 65536 and 2^24 (`TwoBytes`, `FourBytes`). `FramingInv` says that the stream
is made of such heads (`Heads`), that frames follow each other without a gap
(`Borders`) and that the parser stands at the border behind the last frame it
took (`Reader`). `FramesInStep` follows; `AnswersReadable` because what `Send`
writes for fewer than 65536 bytes is a head without a key (`SendHeadIs`).

`TranscoderProofs` is about `EventQueue` and `Transcoder`. `QueueInv`: `Fifo`
and `NoLostWakeup` are inductive together with the types. `TransInv` is
`TypeOK`; `PhaseInv` (where the thread can be in each phase); `BuildInv` (what
is missing of a part is missing by a failure, parts not yet begun have nothing);
`CodecInv` (the codecs have room when the loops give them more, and learn of the
end in order); `FlushInv` (without a failure a loop ends only with an empty
codec); `WriterInv` (packets only after a header, the trailer only at the end);
`PlaceInv` (a frame is in one place); `DropInv` (what is lost is lost by a
failure); `StampInv` (stamps are given in the order in which the decoder returns
frames). `DefinedOnceReady`, `FlushComplete` and `FramesAccounted` follow, for
any delays of the codecs.

`CaptureProofs`. `CaptureInv` is `TypeOK`; `PlaceInv` (what is set up at each
position); `BufferInv` (a bound buffer is with the driver, filled, in use or
lost, and in one of these places only); `FrameInv` (shown, in use, filled: in
the order of the camera); `ErrorInv` (a buffer is lost, an address bad and the
loop deaf only after a call failed). `ReadIsStable` and `BuffersKept` follow.

`StartupProofs`. `StartInv` is `TypeOK`; `PhaseInv` (which locals and workers
exist in each phase of `main`); `ReceiverInv` (who is subscribed exists);
`QuietInv` (if no worker came to serve, nothing was ever recorded, and one that
serves never ends: this is what makes the destruction at the end of `main`
harmless); `SnapshotInv` (the snapshot is the last frame, or the one before it
while that is being distributed). `LifetimesNest` and `AnswersCurrent` follow.

Only model-checked: the liveness properties `Delivered`, `Reclaimed`,
`OneAcceptedAndClosed`, `ClosesAndServes`, `ServesOrEnds`, `FramesWritten` and
`EventsPopped`. Fairness and ENABLED are beyond the prover. Every invariant,
action property and refinement that a run checks is also a theorem.

## 6. Not modelled

* Characters inside a word of a request (query strings, upper and lower case),
  formatting of responses.
* SHA-1, Base64, `ToLower` (`common.cpp`): pure functions on bits, with
  published test vectors in `tests/common_tests.cpp`.
* The filter graph inside libav, which gives one frame for one (`drawtext`) and
  holds none; what a step on a part that was built half does (`"undefined"`).
  `EncodedStream` and `Recorder` take a transcoder that was built, although its
  calls may fail in `EncodedStream`; one that was not is `Transcoder`'s subject.
* An `encoder.format` whose muxer writes a header in `Begin` (`EncodedStream` is
  for the `mpegts` of `config.yaml`, which does not): the transcoder begins in
  the constructor of the processor (`app.cpp:55`), before its member `sender`,
  which `WriteData` uses, refers to anything (`app.hpp:46-47`), and before the
  chunked header.
* The outcome of `SetParameters`, which the program does not look at, and
  destructors of objects that live as long as the process.
* Which option of `config.yaml` goes where (`main.cpp:38-101`).
* Unbounded memory: the queues have no limit in the code.

Known limits of the code that the models contain or name: a file that shrinks
while it is sent keeps its operation in the queue (`DrainStall`); a request with
an unknown method blocks its connection (`Malformed`), one with a malformed
number ends the process (`Terminate`); a 404 may come between the parts of a
stream; a recording replaces an earlier one of the same name (restarted within a
second, clock set back, local time repeated); a websocket frame of 65536 bytes
or more is not sent in a form the parser reads; an encoded stream ends without a
terminating chunk, the connection's end being the end of the stream; a worker
that could not register its socket still attracts connections (`deaf`); a
connection that could not be registered keeps its descriptor for good
(`unheard`); a frame that libav refuses is missing in the stream (`lost`); after
a failed `STREAMON` the camera's `epfd` is indeterminate, and whatever it names,
no frame is ever fetched; a failed `mmap` is used (`broken`); a transcoder whose
construction failed is used (`Misuse`).

## 7. Plan

Done: the modules of section 2; encoded streams composed with MJPEG streams and
with the queue they use; set-up, start and end with their failures (`Startup`,
`Capture`, `Transcoder`); the parser in the functions of the code; the proofs of
section 5: all safety properties, and the refinements `StreamSpec`, `QueueSpec`
and `LogSpec` step by step.

Left, in this order:

1. The characters inside a word of a request: `ToLower`, the query string and
   its escapes, as a module of their own under `Protocol`.
2. Two connections with encoded streams in one run, with a coarser capturer to
   pay for it.
3. The liveness arguments, should the prover learn ENABLED.
