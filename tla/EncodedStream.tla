---------------------------- MODULE EncodedStream ----------------------------
(***************************************************************************)
(* StreamServer.tla with the processors behind GET /stream added:          *)
(* AppEncodedStreamSender (src/src/main/app.cpp). Each has a queue, a      *)
(* transcoder thread that pops frames and sends chunks, and a destructor   *)
(* that ends the thread and lets out what the codecs held back. A new one  *)
(* is created, and its thread runs, before the one it replaces on the      *)
(* connection is destroyed. The queue is event_queue.hpp step by step; the *)
(* property QueueSpec compares it with EventQueue.tla. The codecs may hold *)
(* frames back and change their order (Transcoder.tla).                    *)
(***************************************************************************)
EXTENDS StreamServer, SequencesExt

CONSTANTS
  Sentinel,  \* std::nullopt
  MaxHeld    \* frames the codec pipeline can hold back

ASSUME StreamAssumption == Sentinel \notin 1..MaxFrames /\ MaxHeld \in Nat

\* The processors of GET /stream, in the order of their creation; 0: none.
Stream == 1..MaxRequests

VARIABLES
  streams,   \* how many were created
  gen,       \* which one is, or was last, at each address
  queue,     \* transcoderQueue
  inside,    \* the capturer is in Push of this one, about to notify_one
  thread,    \* its thread: "none", "run", "wait" (in cv.wait), "work", "done"
  held,      \* frames inside decoder, encoder and muxer
  lost,      \* history: frames lost to a call of libav that failed
  pushed,    \* history: what was pushed
  popped,    \* history: what was popped
  since,     \* history: the last frame before AddSubscriber
  until      \* history: the last frame pushed before the sentinel, as far as
             \* the capturer had come

streamVars == <<streams, gen, queue, inside, thread, held, lost, pushed, popped, since, until>>
allVars == <<vars, streamVars>>

StreamRequest == [kind |-> "stream", skip |-> 0]
Chunk(g, x) == [type |-> "chunk", n |-> x, stream |-> g]
ChunkHead(g) == [type |-> "chunkhead", n |-> 0, stream |-> g]
Trailer(g) == [type |-> "trailer", n |-> 0, stream |-> g]

New(c) == gen[httpProcessor[c]]
Old(c) == gen[old[c]]

StreamInit ==
  /\ Init
  /\ streams = 0 /\ gen = [a \in Addr |-> 0] /\ inside = 0
  /\ queue = [g \in Stream |-> <<>>] /\ thread = [g \in Stream |-> "none"]
  /\ held = [g \in Stream |-> {}] /\ lost = [g \in Stream |-> {}]
  /\ pushed = [g \in Stream |-> <<>>] /\ popped = [g \in Stream |-> <<>>]
  /\ since = [g \in Stream |-> 0] /\ until = [g \in Stream |-> 0]

-----------------------------------------------------------------------------
(* The queue.                                                              *)

\* Mutant: an event is pushed at the front.
PushFront(g, e) ==
  /\ queue' = [queue EXCEPT ![g] = <<e>> \o @]
  /\ pushed' = [pushed EXCEPT ![g] = Append(@, e)]

\* Push: the critical section. notify_one comes after the unlock.
Push(g, e) ==
  /\ queue' = [queue EXCEPT ![g] = Append(@, e)]
  /\ pushed' = [pushed EXCEPT ![g] = Append(@, e)]

\* Mutant: nobody is notified.
WokenNot(g) == thread' = [thread EXCEPT ![g] = @]

\* notify_one: the thread wakes up if it is in cv.wait.
Woken(g) == thread' = [thread EXCEPT ![g] = IF @ = "wait" THEN "run" ELSE @]

\* Mutant: the thread works on until the queue is empty.
PopAll(g) ==
  /\ thread[g] = "run" /\ queue[g] # <<>>
  /\ LET e == Head(queue[g])
         ends == e = Sentinel /\ Len(queue[g]) = 1
     IN /\ thread' = [thread EXCEPT ![g] = IF ends THEN "done" ELSE "work"]
        /\ held' = [held EXCEPT ![g] = IF e = Sentinel THEN @ ELSE @ \cup {e}]
        /\ popped' = [popped EXCEPT ![g] = Append(@, e)]
  /\ queue' = [queue EXCEPT ![g] = Tail(@)]
  /\ UNCHANGED <<vars, streams, gen, inside, lost, pushed, since, until>>

\* RunTranscoder: Pop. The sentinel ends the thread, a frame goes into
\* transcoder->Process.
Pop(g) ==
  /\ thread[g] = "run" /\ queue[g] # <<>>
  /\ LET e == Head(queue[g]) IN
       /\ thread' = [thread EXCEPT ![g] = IF e = Sentinel THEN "done" ELSE "work"]
       /\ held' = [held EXCEPT ![g] = IF e = Sentinel THEN @ ELSE @ \cup {e}]
       /\ popped' = [popped EXCEPT ![g] = Append(@, e)]
  /\ queue' = [queue EXCEPT ![g] = Tail(@)]
  /\ UNCHANGED <<vars, streams, gen, inside, lost, pushed, since, until>>

Wait(g) ==
  /\ thread[g] = "run" /\ queue[g] = <<>>
  /\ thread' = [thread EXCEPT ![g] = "wait"]
  /\ UNCHANGED <<vars, streams, gen, inside, queue, held, lost, pushed, popped, since, until>>

SpuriousWakeup(g) ==
  /\ thread[g] = "wait"
  /\ Woken(g)
  /\ UNCHANGED <<vars, streams, gen, inside, queue, held, lost, pushed, popped, since, until>>

-----------------------------------------------------------------------------
(* The worker.                                                             *)

\* A request for a stream arrives like any other.
ReceiveStream(c) == Receive(c, StreamRequest) /\ UNCHANGED streamVars

\* The constructor: the transcoder and the thread. Begin is taken to write
\* nothing, as with the "mpegts" of config.yaml, whose tables come with the
\* first packet: a muxer that writes a header there would send it before the
\* member "sender" refers to anything.
CreateStream(c, a) ==
  /\ Create(c, a) /\ request[c].kind = "stream"
  /\ streams' = streams + 1
  /\ gen' = [gen EXCEPT ![a] = streams']
  /\ thread' = [thread EXCEPT ![streams'] = "run"]
  /\ UNCHANGED <<queue, inside, held, lost, pushed, popped, since, until>>

\* Process: the header,
SendHeader(c) ==
  /\ pc[c] = "process" /\ request[c].kind = "stream"
  /\ Send(c, ChunkHead(New(c)))
  /\ Goto(c, "subscribe")
  /\ UNCHANGED <<receivers, captureVars, heap, httpProcessor, old, request, requests>>
  /\ UNCHANGED streamVars

\* then AddSubscriber(this).
SubscribeStream(c) ==
  /\ Subscribe(c) /\ request[c].kind = "stream"
  /\ since' = [since EXCEPT ![New(c)] = frame]
  /\ UNCHANGED <<streams, gen, queue, inside, thread, held, lost, pushed, popped, until>>

\* ~AppEncodedStreamSender: Push(std::nullopt), in its two steps,
PushSentinel(c) ==
  /\ pc[c] = "destroy" /\ OldKind(c) = "stream"
  /\ Push(Old(c), Sentinel)
  /\ until' = [until EXCEPT ![Old(c)] = IF old[c] \in todo /\ inside # Old(c)
                                          THEN frame - 1 ELSE frame]
  /\ Goto(c, "notify")
  /\ UNCHANGED <<receivers, captureVars, heap, httpProcessor, old, request, sent, requests>>
  /\ UNCHANGED <<streams, gen, inside, thread, held, lost, popped, since>>

NotifySentinel(c) ==
  /\ pc[c] = "notify"
  /\ Woken(Old(c))
  /\ Goto(c, "unsubscribe")
  /\ UNCHANGED <<receivers, captureVars, heap, httpProcessor, old, request, sent, requests>>
  /\ UNCHANGED <<streams, gen, queue, inside, held, lost, pushed, popped, since, until>>

\* RemoveSubscriber(this),
UnsubscribeStream(c) ==
  /\ pc[c] = "unsubscribe"
  /\ ~notifying
  /\ receivers' = receivers \ {old[c]}
  /\ Goto(c, "join")
  /\ UNCHANGED <<captureVars, heap, httpProcessor, old, request, sent, requests>>
  /\ UNCHANGED streamVars

\* Mutant: the thread is not joined.
JoinNot(c) ==
  /\ pc[c] = "join"
  /\ Goto(c, "flush")
  /\ UNCHANGED <<receivers, captureVars, heap, httpProcessor, old, request, sent, requests>>
  /\ UNCHANGED streamVars

\* transcoderThread.join(),
Join(c) ==
  /\ pc[c] = "join"
  /\ thread[Old(c)] = "done"
  /\ Goto(c, "flush")
  /\ UNCHANGED <<receivers, captureVars, heap, httpProcessor, old, request, sent, requests>>
  /\ UNCHANGED streamVars

\* WriteData: some held frame leaves the muxer.
WriteData(c, g) ==
  \E x \in held[g] : Send(c, Chunk(g, x)) /\ held' = [held EXCEPT ![g] = @ \ {x}]

\* A call of libav fails, which is logged: these frames get no further.
Lose(g, X) ==
  /\ X # {} /\ X \subseteq held[g]
  /\ held' = [held EXCEPT ![g] = @ \ X]
  /\ lost' = [lost EXCEPT ![g] = @ \cup X]

\* Mutant: what is held back is not flushed.
FlushNot(c) ==
  /\ pc[c] = "flush"
  /\ Send(c, Trailer(Old(c)))
  /\ Goto(c, "delete")
  /\ UNCHANGED <<receivers, captureVars, heap, httpProcessor, old, request, requests>>
  /\ UNCHANGED streamVars

\* transcoder.reset(): Flush, one packet after the other, then End. A decoder
\* or encoder that cannot be drained keeps all it holds. The other members
\* need nothing: StreamServer's Delete.
Flush(c) ==
  /\ pc[c] = "flush"
  /\ \/ WriteData(c, Old(c)) /\ UNCHANGED <<pc, lost>>
     \/ (\E X \in SUBSET held[Old(c)] : Lose(Old(c), X)) /\ UNCHANGED <<pc, sent>>
     \/ /\ held[Old(c)] = {}
        /\ Send(c, Trailer(Old(c))) /\ Goto(c, "delete")
        /\ UNCHANGED <<held, lost>>
  /\ UNCHANGED <<receivers, captureVars, heap, httpProcessor, old, request, requests>>
  /\ UNCHANGED <<streams, gen, queue, inside, thread, pushed, popped, since, until>>

-----------------------------------------------------------------------------
(* The capturer and the transcoder thread.                                 *)

\* AppEncodedStreamSender::Notify pushes the frame,
NotifyStream(a) ==
  /\ notifying /\ inside = 0
  /\ a \in todo /\ heap[a].kind = "stream"
  /\ Push(gen[a], frame)
  /\ inside' = gen[a]
  /\ UNCHANGED <<vars, streams, gen, thread, held, lost, popped, since, until>>

\* and returns after notify_one.
NotifyStreamEnd(a) ==
  /\ inside # 0 /\ a \in todo /\ inside = gen[a]
  /\ Woken(inside)
  /\ inside' = 0
  /\ todo' = todo \ {a}
  /\ UNCHANGED <<receivers, notifying, frame, heap, routerVars, sent, requests>>
  /\ UNCHANGED <<streams, gen, queue, held, lost, pushed, popped, since, until>>

\* transcoder->Process sends any number of chunks before it returns, and any
\* call on the way that fails drops the frame it was for. The connection is
\* the one of the processor.
Transcode(a) ==
  /\ heap[a].kind = "stream" /\ thread[gen[a]] = "work"
  /\ \/ WriteData(heap[a].conn, gen[a]) /\ UNCHANGED <<thread, lost>>
     \/ (\E x \in held[gen[a]] : Lose(gen[a], {x})) /\ UNCHANGED <<thread, sent>>
     \/ /\ Cardinality(held[gen[a]]) <= MaxHeld
        /\ thread' = [thread EXCEPT ![gen[a]] = "run"]
        /\ UNCHANGED <<sent, held, lost>>
  /\ UNCHANGED <<receivers, captureVars, heap, routerVars, requests>>
  /\ UNCHANGED <<streams, gen, queue, inside, pushed, popped, since, until>>

-----------------------------------------------------------------------------
StreamWorker(c) ==
  \/ /\ \/ \E r \in Request : Receive(c, r)
        \/ \E a \in Addr : Create(c, a) /\ request[c].kind # "stream"
        \/ Closing(c) \/ Unsubscribe(c) \/ Delete(c) \/ ProcessMjpeg(c) \/ ProcessPlain(c)
        \/ ProcessFile(c) \/ DestroySender(c)
        \/ Subscribe(c) /\ request[c].kind # "stream"
     /\ UNCHANGED streamVars
  \/ ReceiveStream(c) \/ (\E a \in Addr : CreateStream(c, a))
  \/ SendHeader(c) \/ SubscribeStream(c)
  \/ PushSentinel(c) \/ NotifySentinel(c) \/ UnsubscribeStream(c) \/ Join(c) \/ Flush(c)

StreamCapturer ==
  \/ inside = 0 /\ Capturer /\ UNCHANGED streamVars
  \/ \E a \in todo : NotifyStream(a) \/ NotifyStreamEnd(a)

Thread(g) == Pop(g) \/ Wait(g) \/ \E a \in Addr : gen[a] = g /\ Transcode(a)

StreamNext ==
  \/ StreamCapturer
  \/ \E c \in Conns : StreamWorker(c)
  \/ \E g \in Stream : Thread(g) \/ SpuriousWakeup(g)
  \/ Exhausted /\ UNCHANGED streamVars

StreamSpecification == StreamInit /\ [][StreamNext]_allVars

\* As in StreamServer, and transcoder threads run. A client may keep its
\* stream for ever; spurious wakeups need not happen.
StreamFairness ==
  /\ WF_allVars(\/ /\ inside = 0 /\ ((\E a \in todo : Notify(a)) \/ CaptureEnd)
                   /\ UNCHANGED streamVars
                \/ \E a \in todo : NotifyStream(a) \/ NotifyStreamEnd(a))
  /\ \A g \in Stream : WF_allVars(Thread(g))
  /\ \A c \in Conns :
       /\ SF_allVars(\/ UnsubscribeStream(c) \/ SubscribeStream(c)
                     \/ (Unsubscribe(c) \/ Subscribe(c)) /\ UNCHANGED streamVars)
       /\ WF_allVars(pc[c] # "idle" /\ StreamWorker(c))

FairStreamSpec == StreamSpecification /\ StreamFairness

-----------------------------------------------------------------------------
Live(g) == \E a \in Addr : heap[a].kind = "stream" /\ gen[a] = g

\* Nothing uses a processor whose members are gone or going: not the
\* distributer, not the capturer inside Push (it has yet to notify the
\* condition variable), not the transcoder thread. And the codecs, which are
\* not thread-safe, have one user at a time: Flush starts after the thread
\* has ended.
NoUseAfterDelete ==
  /\ NoDanglingReceiver
  /\ inside # 0 => Live(inside)
  /\ \A g \in Stream : thread[g] \notin {"none", "done"} => Live(g)
  /\ \A c \in Conns : pc[c] \in {"flush", "delete"} /\ OldKind(c) = "stream"
                       => thread[Old(c)] = "done" /\ inside # Old(c)

IsOf(item, g) == item.type \in {"chunkhead", "chunk", "trailer"} /\ item.stream = g

\* A client gets a stream as one response: the header first, then frames the
\* thread has popped, each once, and nothing in between, although the next
\* request's processor exists before this one lets go of its frames (only a
\* "404" may: see StreamsWellFormed). Every popped frame is shown, still in
\* the codecs, or was lost to a call that failed; when the processor is gone
\* none is in the codecs, and the trailer ends the stream.
StreamComplete ==
  \A c \in Conns, g \in Stream :
    LET s == sent[c]
        at == {i \in DOMAIN s : IsOf(s[i], g)}
        shown == {s[i].n : i \in {j \in at : s[j].type = "chunk"}}
    IN at # {} =>
         /\ \A i \in at : s[i] = ChunkHead(g) <=> \A j \in at : i <= j
         /\ \A i, j \in at : s[i] = s[j] => i = j
         /\ \A i, j \in at : \A k \in i..j : k \in at \/ s[k].type = "notfound"
         /\ ToSet(popped[g]) \ {Sentinel} = shown \cup held[g] \cup lost[g]
         /\ shown \cap held[g] = {} /\ (shown \cup held[g]) \cap lost[g] = {}
         /\ \A i \in at : s[i] = Trailer(g) => held[g] = {} /\ \A j \in at : j <= i
         /\ ~Live(g) => \E i \in at : s[i] = Trailer(g)

\* A stream shows the camera without a gap from the subscription to the
\* moment the connection was closed or the next request came: the thread
\* takes every frame the capturer pushed before the sentinel, and none of
\* those it still pushed between the sentinel and RemoveSubscriber.
OwedTaken ==
  \A g \in Stream : \A i \in DOMAIN popped[g] :
    IF popped[g][i] = Sentinel
      THEN i = Len(popped[g]) /\ since[g] + i - 1 = until[g]
      ELSE popped[g][i] = since[g] + i

\* Each transcoderQueue is a queue as EventQueue.tla describes them, although
\* its worker and the capturer push at the same time and it is destroyed as
\* soon as the thread has ended.
Queue(g) == INSTANCE EventQueue WITH
  Producers <- {"worker", "capturer"}, Consumers <- {"thread"},
  Event <- 1..MaxFrames \cup {Sentinel}, MaxPushes <- MaxFrames + 1,
  events <- queue[g],
  notifying <- (IF inside = g THEN {"capturer"} ELSE {})
               \cup {"worker" : c \in {d \in Conns : pc[d] = "notify" /\ Old(d) = g}},
  waiting <- IF thread[g] = "wait" THEN {"thread"} ELSE {},
  pushed <- pushed[g], popped <- popped[g]

QueueSpec ==
  /\ \A g \in Stream : Queue(g)!QueueInit
  /\ [][\A g \in Stream : [Queue(g)!QueueNext]_(Queue(g)!queueVars)]_allVars
=============================================================================
