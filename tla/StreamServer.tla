---------------------------- MODULE StreamServer ----------------------------
(***************************************************************************)
(* The camera stream and its clients: the capturer thread, which hands     *)
(* every frame to the receivers of AppStreamDistributer                    *)
(* (src/src/main/stream.cpp), and the worker threads, whose ConcreteRouter *)
(* (src/src/core/router.cpp) creates, runs and destroys one HTTP processor *)
(* per request. The AppMjpegSender processors (src/src/main/app.cpp)       *)
(* subscribe themselves to the distributer by their address. Addresses are *)
(* reused. A connection's sender is a sequence of whole Sends here;        *)
(* TcpSender.tla is about the bytes.                                       *)
(***************************************************************************)
EXTENDS Integers, Sequences, FiniteSets

CONSTANTS
  Conns,        \* connections, each with the worker that serves it
  Addr,         \* addresses of the heap
  Null,         \* the null pointer
  Kind,         \* the requests made, of those below
  Skips,        \* values of the query parameter "skip"
  MaxFrames,    \* bound: captured frames
  MaxRequests   \* bound: requests in one behaviour

ASSUME ServerAssumption ==
  /\ Null \notin Addr
  /\ Kind \subseteq {"mjpeg", "plain", "file", "unknown"}
  /\ Skips \subseteq Int
  /\ MaxFrames \in Nat /\ MaxRequests \in Nat

VARIABLES
  receivers,   \* the subscribed processors, by address
  notifying,   \* the capturer holds receiversMut
  todo,        \* receivers not yet notified of the frame
  frame,       \* the number of the last captured frame
  heap,        \* the live processor at each address
  httpProcessor,  \* the router's member, per connection
  old,         \* the processor being destroyed, per connection
  pc,          \* where the connection's worker is
  request,     \* the request it handles
  sent,        \* what the connection's sender was given; Gone once destroyed
  requests     \* requests so far

captureVars == <<notifying, todo, frame>>
routerVars  == <<httpProcessor, old, pc, request>>
vars == <<receivers, captureVars, heap, routerVars, sent, requests>>

-----------------------------------------------------------------------------
(* Processors: AppMjpegSender, and the wrapper of a lambda, which answers  *)
(* in Process and keeps nothing.                                           *)

Free == [kind |-> "free", conn |-> Null, skip |-> 0, skipped |-> 0]

NewProcessor(c, kind) == [kind |-> kind, conn |-> c, skip |-> 0, skipped |-> 0]

\* "plain": one response. "file": the index page, a header and a file.
\* "unknown": no route. "end": the client or an error ended the connection.
Request == [kind : Kind, skip : Skips]
Close == [kind |-> "end", skip |-> 0]

Item(type, n) == [type |-> type, n |-> n]
Gone == <<Item("gone", 0)>>

Send(c, item) == sent' = [sent EXCEPT ![c] = Append(@, item)]
Goto(c, where) == pc' = [pc EXCEPT ![c] = where]

Init ==
  /\ receivers = {} /\ notifying = FALSE /\ todo = {} /\ frame = 0
  /\ heap = [a \in Addr |-> Free]
  /\ httpProcessor = [c \in Conns |-> Null] /\ old = [c \in Conns |-> Null]
  /\ pc = [c \in Conns |-> "idle"] /\ request = [c \in Conns |-> Close]
  /\ sent = [c \in Conns |-> <<>>] /\ requests = 0

-----------------------------------------------------------------------------
(* The workers: ConcreteRouter::Process(HttpRequest).                      *)

\* The next request; without a route it is answered at once, and whatever
\* processor the connection has stays (it may be streaming).
Receive(c, r) ==
  /\ pc[c] = "idle"
  /\ requests < MaxRequests
  /\ requests' = requests + 1
  /\ request' = [request EXCEPT ![c] = r]
  /\ IF r.kind = "unknown"
       THEN Send(c, Item("notfound", 0)) /\ UNCHANGED pc
       ELSE Goto(c, "create") /\ UNCHANGED sent
  /\ UNCHANGED <<receivers, captureVars, heap, httpProcessor, old>>

\* httpProcessor = entry->Create(httpSender): the new processor is in place
\* before the old one is destroyed, so their addresses differ.
Create(c, a) ==
  /\ pc[c] = "create"
  /\ heap[a] = Free
  /\ heap' = [heap EXCEPT ![a] = NewProcessor(c, request[c].kind)]
  /\ httpProcessor' = [httpProcessor EXCEPT ![c] = a]
  /\ old' = [old EXCEPT ![c] = httpProcessor[c]]
  /\ Goto(c, "destroy")
  /\ UNCHANGED <<receivers, captureVars, request, sent, requests>>

\* The connection is closed: ~ConcreteRouter destroys the processor.
Closing(c) ==
  /\ pc[c] = "idle"
  /\ request' = [request EXCEPT ![c] = Close]
  /\ old' = [old EXCEPT ![c] = httpProcessor[c]]
  /\ httpProcessor' = [httpProcessor EXCEPT ![c] = Null]
  /\ Goto(c, "destroy")
  /\ UNCHANGED <<receivers, captureVars, heap, sent, requests>>

OldKind(c) == IF old[c] = Null THEN "none" ELSE heap[old[c]].kind

\* The processors that subscribe themselves. Those of GET /stream are added
\* by EncodedStream.tla.
Streaming == {"mjpeg", "stream"}

\* Mutant: RemoveSubscriber does not take receiversMut.
UnsubscribeUnlocked(c) ==
  /\ pc[c] = "destroy"
  /\ OldKind(c) = "mjpeg"
  /\ receivers' = receivers \ {old[c]}
  /\ Goto(c, "delete")
  /\ UNCHANGED <<captureVars, heap, httpProcessor, old, request, sent, requests>>

\* ~AppMjpegSender: RemoveSubscriber(this).
Unsubscribe(c) ==
  /\ pc[c] = "destroy"
  /\ OldKind(c) = "mjpeg"
  /\ ~notifying
  /\ receivers' = receivers \ {old[c]}
  /\ Goto(c, "delete")
  /\ UNCHANGED <<captureVars, heap, httpProcessor, old, request, sent, requests>>

\* The end of the destructor and operator delete. A processor of another
\* kind, or none, needs nothing else.
Delete(c) ==
  /\ pc[c] = "delete" \/ (pc[c] = "destroy" /\ OldKind(c) \notin Streaming)
  /\ heap' = IF old[c] = Null THEN heap ELSE [heap EXCEPT ![old[c]] = Free]
  /\ old' = [old EXCEPT ![c] = Null]
  /\ Goto(c, IF request[c] = Close THEN "closed" ELSE "process")
  /\ UNCHANGED <<receivers, captureVars, httpProcessor, request, sent, requests>>

\* Mutant: AddSubscriber comes before the response header.
ProcessMjpegLate(c) ==
  /\ request[c].kind = "mjpeg"
  /\ \/ /\ pc[c] = "process" /\ ~notifying
        /\ heap' = [heap EXCEPT ![httpProcessor[c]].skip = request[c].skip]
        /\ receivers' = receivers \cup {httpProcessor[c]}
        /\ Goto(c, "body")
        /\ UNCHANGED sent
     \/ /\ pc[c] = "body"
        /\ Send(c, Item("header", request[c].skip))
        /\ Goto(c, "idle")
        /\ UNCHANGED <<heap, receivers>>
  /\ UNCHANGED <<captureVars, httpProcessor, old, request, requests>>

\* AppMjpegSender::Process: skipCount and the header,
ProcessMjpeg(c) ==
  /\ pc[c] = "process" /\ request[c].kind = "mjpeg"
  /\ heap' = [heap EXCEPT ![httpProcessor[c]].skip = request[c].skip]
  /\ Send(c, Item("header", request[c].skip))
  /\ Goto(c, "subscribe")
  /\ UNCHANGED <<receivers, captureVars, httpProcessor, old, request, requests>>

\* then AddSubscriber(this).
Subscribe(c) ==
  /\ pc[c] = "subscribe"
  /\ ~notifying
  /\ receivers' = receivers \cup {httpProcessor[c]}
  /\ Goto(c, "idle")
  /\ UNCHANGED <<captureVars, heap, httpProcessor, old, request, sent, requests>>

\* A lambda answers with one Send,
ProcessPlain(c) ==
  /\ pc[c] = "process" /\ request[c].kind = "plain"
  /\ Send(c, Item("response", 0))
  /\ Goto(c, "idle")
  /\ UNCHANGED <<receivers, captureVars, heap, httpProcessor, old, request, requests>>

\* or with two: ConcreteHttpSender::Send(FileHttpResponse).
ProcessFile(c) ==
  /\ request[c].kind = "file"
  /\ \/ pc[c] = "process" /\ Send(c, Item("filehead", 0)) /\ Goto(c, "body")
     \/ pc[c] = "body" /\ Send(c, Item("filebody", 0)) /\ Goto(c, "idle")
  /\ UNCHANGED <<receivers, captureVars, heap, httpProcessor, old, request, requests>>

\* ~TcpConnectionContext: sender.reset(), after the processor.
DestroySender(c) ==
  /\ pc[c] = "closed"
  /\ sent' = [sent EXCEPT ![c] = Gone]
  /\ Goto(c, "gone")
  /\ UNCHANGED <<receivers, captureVars, heap, httpProcessor, old, request, requests>>

-----------------------------------------------------------------------------
(* The capturer: AppStreamDistributer::Process under receiversMut.         *)

Capture ==
  /\ ~notifying
  /\ frame < MaxFrames
  /\ frame' = frame + 1
  /\ notifying' = TRUE
  /\ todo' = receivers
  /\ UNCHANGED <<receivers, heap, routerVars, sent, requests>>

\* Mutant: "<" for "<=".
SkipsOneLess(p) == p.skipped + 1 < p.skip

\* ++skipped <= skipCount
SkipsFrame(p) == p.skipped + 1 <= p.skip

\* AppMjpegSender::Notify, of any receiver not yet served.
Notify(a) ==
  /\ notifying
  /\ a \in todo
  /\ heap[a].kind = "mjpeg"
  /\ todo' = todo \ {a}
  /\ IF SkipsFrame(heap[a])
       THEN /\ heap' = [heap EXCEPT ![a].skipped = @ + 1]
            /\ UNCHANGED sent
       ELSE /\ heap' = [heap EXCEPT ![a].skipped = 0]
            /\ Send(heap[a].conn, Item("part", frame))
  /\ UNCHANGED <<receivers, notifying, frame, routerVars, requests>>

CaptureEnd ==
  /\ notifying
  /\ todo = {}
  /\ notifying' = FALSE
  /\ UNCHANGED <<receivers, todo, frame, heap, routerVars, sent, requests>>

-----------------------------------------------------------------------------
Worker(c) ==
  \/ \E r \in Request : Receive(c, r)
  \/ \E a \in Addr : Create(c, a)
  \/ Closing(c) \/ Unsubscribe(c) \/ Delete(c)
  \/ ProcessMjpeg(c) \/ Subscribe(c) \/ ProcessPlain(c) \/ ProcessFile(c)
  \/ DestroySender(c)

Capturer == Capture \/ (\E a \in todo : Notify(a)) \/ CaptureEnd

\* Every connection is gone and the bound on frames is reached.
Exhausted ==
  /\ \A c \in Conns : pc[c] = "gone"
  /\ frame = MaxFrames /\ ~notifying
  /\ UNCHANGED vars

Next == Capturer \/ (\E c \in Conns : Worker(c)) \/ Exhausted

Spec == Init /\ [][Next]_vars

-----------------------------------------------------------------------------
\* Whoever the distributer may call is a live streaming processor, the very
\* object that subscribed itself (not a later one at its address), and the
\* sender it writes to is alive: connections close and requests replace each
\* other while the capturer iterates over the receivers.
NoDanglingReceiver ==
  \A a \in receivers \cup todo :
    /\ heap[a].kind \in Streaming
    /\ LET c == heap[a].conn IN
         /\ a \in {httpProcessor[c], old[c]}
         /\ pc[c] \notin {"closed", "gone"}

\* What a client reads is a sequence of responses: a part of a multipart
\* stream follows its header, with nothing in between but other parts and
\* "404 Not Found" responses (Process answers a request without a route while
\* the old processor goes on streaming), and a file follows its header
\* directly.
Response(s, i) == {j \in 1..(i - 1) : s[j].type \notin {"part", "notfound"}}
StreamsWellFormed ==
  \A c \in Conns : \A i \in DOMAIN sent[c] :
    LET s == sent[c]
        before == Response(s, i)
    IN /\ s[i].type = "part" =>
            \E j \in before : s[j].type = "header" /\ \A k \in before : k <= j
       /\ s[i].type = "filebody" => i > 1 /\ s[i - 1].type = "filehead"
       /\ s[i].type = "filehead" /\ i < Len(s) => s[i + 1].type = "filebody"

\* Within one stream exactly "skip" frames are left out between two parts
\* (none, if it is negative): none is sent twice, out of order or lost.
SkipsExactly ==
  \A c \in Conns : \A i, j \in DOMAIN sent[c] :
    LET s == sent[c] IN
      ( /\ i < j /\ s[i].type = "part" /\ s[j].type = "part"
        /\ \A k \in (i + 1)..(j - 1) : s[k].type = "notfound" )
      => \E h \in 1..(i - 1) : /\ s[h].type = "header"
                               /\ \A k \in (h + 1)..i : s[k].type # "header"
                               /\ s[j].n = s[i].n + (IF s[h].n > 0 THEN s[h].n ELSE 0) + 1

\* A connection that is closing gets rid of its processor although frames
\* keep coming, and no request waits forever for receiversMut.
ClosesAndServes ==
  \A c \in Conns : /\ (request[c] = Close /\ pc[c] # "idle") ~> pc[c] = "gone"
                   /\ pc[c] = "create" ~> pc[c] = "idle"
=============================================================================
