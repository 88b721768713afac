------------------------ MODULE EncodedStreamProofs ------------------------
(***************************************************************************)
(* Proofs about StreamServer and EncodedStream, for any number of          *)
(* connections, addresses, frames, requests and held frames: the           *)
(* distributer calls only what is alive, clients read whole responses and  *)
(* every frame they asked for, nothing is used after it was deleted, every *)
(* transcoderQueue is a queue in the sense of EventQueue, and a stream     *)
(* takes every frame between its subscription and its end and conveys      *)
(* what it took as one whole response.                                     *)
(***************************************************************************)
EXTENDS EncodedStream, FiniteSetTheorems, SequenceTheorems, TLAPS

-----------------------------------------------------------------------------
(* Processors, connections and the distributer: the inductive invariant of *)
(* StreamServer. It and the lemmas on single actions admit the processors  *)
(* of GET /stream too, and the steps of their destructor, and are used     *)
(* again for the encoded streams below.                                    *)

Processor == [kind : Kind \cup {"free", "stream"}, conn : Conns \cup {Null},
              skip : Int, skipped : Int]

\* Where a worker has a processor to destroy, and where it has one to run:
\* then it is of the kind the request asked for.
Destroying == {"destroy", "notify", "unsubscribe", "join", "flush", "delete"}
Processing == {"process", "subscribe", "body"}

Where == Destroying \cup Processing \cup {"idle", "create", "closed", "gone"}

TypeOK ==
  /\ receivers \subseteq Addr
  /\ notifying \in BOOLEAN
  /\ frame \in 0..MaxFrames
  /\ heap \in [Addr -> Processor]
  /\ httpProcessor \in [Conns -> Addr \cup {Null}]
  /\ old \in [Conns -> Addr \cup {Null}]
  /\ pc \in [Conns -> Where]
  /\ request \in [Conns -> [kind : Kind \cup {"end", "stream"}, skip : Int]]
  /\ requests \in 0..MaxRequests

\* The processors a connection holds are alive and its own, and different;
\* what is alive is held by its connection.
OwnInv ==
  /\ \A c \in Conns : \A a \in {httpProcessor[c], old[c]} :
       a # Null => heap[a].kind # "free" /\ heap[a].conn = c
  /\ \A c \in Conns : httpProcessor[c] = old[c] => old[c] = Null
  /\ \A a \in Addr : heap[a].kind # "free" =>
       /\ heap[a].conn \in Conns
       /\ a \in {httpProcessor[heap[a].conn], old[heap[a].conn]}

WorkerInv ==
  \A c \in Conns :
    /\ old[c] # Null => pc[c] \in Destroying
    /\ pc[c] \in Destroying \cup Processing /\ request[c].kind # "end" =>
         /\ httpProcessor[c] # Null
         /\ heap[httpProcessor[c]].kind = request[c].kind
    /\ pc[c] \in Processing \cup {"create"} => request[c].kind # "end"
    /\ request[c].kind = "end" => request[c] = Close
    /\ pc[c] = "subscribe" => request[c].kind \in Streaming
    /\ pc[c] \in Destroying /\ request[c].kind = "end" => httpProcessor[c] = Null
    /\ pc[c] \in {"closed", "gone"} => httpProcessor[c] = Null

\* The capturer serves subscribers only, which stream and are not past
\* RemoveSubscriber.
Subscribed == {"destroy", "notify", "unsubscribe"}

ReceiverInv ==
  /\ todo \subseteq receivers
  /\ ~notifying => todo = {}
  /\ \A a \in receivers : heap[a].kind \in Streaming
  /\ \A c \in Conns : old[c] \in receivers => pc[c] \in Subscribed

ServerInv == TypeOK /\ OwnInv /\ WorkerInv /\ ReceiverInv
-----------------------------------------------------------------------------
\* The invariant holds before the first connection.
LEMMA ServerInit == Init => ServerInv
  <1> SUFFICES ASSUME Init PROVE ServerInv
    OBVIOUS
  <1> USE ServerAssumption DEF Init
  <1>1. TypeOK
    <2>1. Free \in Processor
      BY DEF Free, Processor
    <2>2. Close \in [kind : Kind \cup {"end", "stream"}, skip : Int]
      BY DEF Close
    <2>3. "idle" \in Where
      BY DEF Where
    <2>4. heap \in [Addr -> Processor] /\ request \in [Conns -> [kind : Kind \cup {"end", "stream"}, skip : Int]]
      BY <2>1, <2>2
    <2>5. pc \in [Conns -> Where] /\ requests \in 0..MaxRequests
      BY <2>3
    <2>6. /\ httpProcessor \in [Conns -> Addr \cup {Null}] /\ old \in [Conns -> Addr \cup {Null}]
      OBVIOUS
    <2>7. receivers \subseteq Addr /\ notifying \in BOOLEAN
      OBVIOUS
    <2>8. frame \in 0..MaxFrames
      OBVIOUS
    <2> QED BY <2>4, <2>5, <2>6, <2>7, <2>8 DEF TypeOK
  <1>2. OwnInv
    BY DEF OwnInv, Free
  <1>3. WorkerInv
    BY DEF WorkerInv, Destroying, Processing, Close
  <1>4. ReceiverInv
    BY DEF ReceiverInv
  <1> QED BY <1>1, <1>2, <1>3, <1>4 DEF ServerInv

-----------------------------------------------------------------------------
(* The workers: one lemma per action.                                      *)

\* A request changes what the worker is to do, not what it holds.
LEMMA ReceiveKeeps ==
  ASSUME ServerInv, NEW c \in Conns, NEW r, r.skip \in Int,
         r \in [kind : Kind \cup {"stream"}, skip : Int], Receive(c, r)
  PROVE  ServerInv'
  <1> USE ServerAssumption DEF ServerInv, Receive, captureVars, Goto
  <1>1. TypeOK'
    BY DEF TypeOK, Where
  <1>2. OwnInv'
    BY DEF OwnInv
  <1>3. WorkerInv'
    BY DEF WorkerInv, Destroying, Processing, TypeOK
  <1>4. ReceiverInv'
    BY DEF ReceiverInv, Subscribed, WorkerInv, Destroying, TypeOK
  <1> QED BY <1>1, <1>2, <1>3, <1>4

\* The new processor is put at a free address, and the one it replaces
\* becomes the one to destroy.
LEMMA CreateKeeps ==
  ASSUME ServerInv, NEW c \in Conns, NEW a \in Addr, Create(c, a)
  PROVE  ServerInv'
  <1> USE ServerAssumption DEF ServerInv, Where, Destroying, Create, captureVars, Goto
  <1>1. /\ request[c].kind \in Kind \cup {"stream"} /\ old[c] = Null
        /\ heap[a].kind = "free" /\ a # Null
    BY DEF WorkerInv, TypeOK, Destroying, Processing, Free
  <1>2. TypeOK'
    BY <1>1 DEF TypeOK, NewProcessor, Processor, Where
  <1>3. OwnInv'
    <2>1. heap' = [heap EXCEPT ![a] = NewProcessor(c, request[c].kind)] /\ heap'[a].conn = c
          /\ heap'[a].kind = request[c].kind /\ request[c].kind # "free"
      BY <1>1 DEF TypeOK, NewProcessor
    <2>2. \A d \in Conns : a \notin {httpProcessor[d], old[d]}
      BY <1>1 DEF OwnInv
    <2> QED BY <1>1, <2>1, <2>2 DEF OwnInv, TypeOK
  <1>4. WorkerInv'
    BY <1>1 DEF WorkerInv, Destroying, Processing, TypeOK, NewProcessor, OwnInv
  <1>5. ReceiverInv'
    BY <1>1 DEF ReceiverInv, Subscribed, WorkerInv, Destroying, TypeOK, Streaming, NewProcessor
  <1> QED BY <1>2, <1>3, <1>4, <1>5

\* Closing turns the connection's processor into the one to destroy.
LEMMA ClosingKeeps ==
  ASSUME ServerInv, NEW c \in Conns, Closing(c)
  PROVE  ServerInv'
  <1> USE ServerAssumption DEF ServerInv, Closing, captureVars, Goto
  <1>1. old[c] = Null
    BY DEF WorkerInv, Destroying
  <1>2. TypeOK'
    BY DEF TypeOK, Close, Where, Destroying
  <1>3. OwnInv'
    BY <1>1 DEF OwnInv, TypeOK
  <1>4. WorkerInv'
    BY <1>1 DEF WorkerInv, Destroying, Processing, TypeOK, Close
  <1>5. ReceiverInv'
    BY <1>1 DEF ReceiverInv, Subscribed, TypeOK, WorkerInv, Destroying
  <1> QED BY <1>2, <1>3, <1>4, <1>5

\* Up to RemoveSubscriber a destructor changes nothing but its own place,
\* from there on its processor is no receiver any more. RemoveSubscriber waits
\* for the capturer, which then has nobody left to serve.
LEMMA DestructorKeeps ==
  ASSUME ServerInv, NEW c \in Conns, NEW where \in Destroying,
         pc[c] \in Destroying, Goto(c, where),
         receivers' \subseteq receivers, todo \subseteq receivers',
         where \in Subscribed \/ old[c] \notin receivers',
         UNCHANGED <<captureVars, heap, httpProcessor, old, request, requests>>
  PROVE  ServerInv'
  <1> USE ServerAssumption DEF ServerInv, captureVars, Goto
  <1>1. TypeOK'
    BY DEF TypeOK, Where
  <1>2. OwnInv'
    BY DEF OwnInv
  <1>3. WorkerInv'
    BY DEF WorkerInv, Destroying, Processing, TypeOK
  <1>4. ReceiverInv'
    BY DEF ReceiverInv, TypeOK
  <1> QED BY <1>1, <1>2, <1>3, <1>4

\* The destructor ends: its processor is no receiver, either because it was
\* unsubscribed or because it never streamed, so the address may be free.
LEMMA DeleteKeeps ==
  ASSUME ServerInv, NEW c \in Conns, Delete(c)
  PROVE  ServerInv'
  <1> USE ServerAssumption DEF ServerInv, Delete, captureVars, Goto
  <1>1. old[c] \notin receivers
    BY DEF ReceiverInv, Subscribed, OldKind, TypeOK
  <1>2. /\ httpProcessor[c] = old[c] => old[c] = Null
        /\ \A d \in Conns : d # c /\ old[c] # Null => old[c] \notin {httpProcessor[d], old[d]}
    BY DEF OwnInv
  <1>3. /\ \A a \in Addr : a # old[c] => heap'[a] = heap[a]
        /\ \A a \in Addr : a = old[c] => heap'[a].kind = "free"
        /\ heap' \in [Addr -> Processor]
    <2>1. CASE old[c] = Null
      BY <2>1 DEF TypeOK
    <2>2. CASE old[c] # Null
      <3>1. Free \in Processor
        BY DEF Free, Processor
      <3>2. heap' = [heap EXCEPT ![old[c]] = Free] /\ old[c] \in Addr
        BY <2>2 DEF TypeOK
      <3> QED BY <3>1, <3>2 DEF TypeOK, Free
    <2> QED BY <2>1, <2>2
  <1>4. TypeOK'
    BY <1>3 DEF TypeOK, Where, Processing
  <1>5. OwnInv'
    BY <1>2, <1>3 DEF OwnInv, TypeOK
  <1>6. WorkerInv'
    <2>1. pc[c] \in Destroying /\ (request[c] = Close <=> request[c].kind = "end")
      BY DEF Destroying, WorkerInv, Close
    <2>2. \A d \in Conns : httpProcessor[d] # Null => heap'[httpProcessor[d]] = heap[httpProcessor[d]]
      BY <1>2, <1>3 DEF TypeOK
    <2> QED BY <2>1, <2>2 DEF WorkerInv, Destroying, Processing, TypeOK
  <1>7. ReceiverInv'
    BY <1>1, <1>3 DEF ReceiverInv, TypeOK, WorkerInv, Destroying
  <1> QED BY <1>4, <1>5, <1>6, <1>7

\* What is alive and whose it is does not depend on the members of processors.
LEMMA SameOwners ==
  ASSUME TypeOK, OwnInv, UNCHANGED <<httpProcessor, old>>,
         \A a \in Addr : heap'[a].kind = heap[a].kind /\ heap'[a].conn = heap[a].conn
  PROVE  OwnInv'
  <1>1. \A c \in Conns : \A a \in {httpProcessor[c], old[c]} :
          a # Null => heap'[a].kind # "free" /\ heap'[a].conn = c
    BY DEF OwnInv, TypeOK
  <1>2. \A a \in Addr : heap'[a].kind # "free" =>
          /\ heap'[a].conn \in Conns
          /\ a \in {httpProcessor[heap'[a].conn], old[heap'[a].conn]}
    BY DEF OwnInv
  <1> QED BY <1>1, <1>2 DEF OwnInv

\* Process answers and moves on; of a processor it changes skipCount only.
LEMMA ProcessKeeps ==
  ASSUME ServerInv, NEW c \in Conns, NEW where \in Processing \cup {"idle"},
         pc[c] \in Processing, Goto(c, where),
         where = "subscribe" => request[c].kind \in Streaming,
         heap' \in [Addr -> Processor],
         \A a \in Addr : heap'[a].kind = heap[a].kind /\ heap'[a].conn = heap[a].conn,
         UNCHANGED <<receivers, captureVars, httpProcessor, old, request, requests>>
  PROVE  ServerInv'
  <1> USE ServerAssumption DEF ServerInv, captureVars, Goto
  <1>1. TypeOK'
    BY DEF TypeOK, Where
  <1>2. OwnInv'
    BY SameOwners
  <1>3. WorkerInv'
    BY DEF WorkerInv, Destroying, Processing, TypeOK
  <1>4. ReceiverInv'
    BY DEF ReceiverInv, WorkerInv, Destroying, Processing, TypeOK
  <1> QED BY <1>1, <1>2, <1>3, <1>4

\* AddSubscriber adds the processor the connection holds, not the one it
\* destroys.
LEMMA SubscribeKeeps ==
  ASSUME ServerInv, NEW c \in Conns, Subscribe(c)
  PROVE  ServerInv'
  <1> USE ServerAssumption DEF ServerInv, Subscribe, captureVars, Goto
  <1>1. /\ httpProcessor[c] \in Addr /\ heap[httpProcessor[c]].kind \in Streaming
        /\ \A d \in Conns : old[d] # httpProcessor[c]
    BY DEF WorkerInv, OwnInv, Destroying, Processing, TypeOK
  <1>2. TypeOK'
    BY <1>1 DEF TypeOK, Where
  <1>3. OwnInv'
    BY DEF OwnInv
  <1>4. WorkerInv'
    BY DEF WorkerInv, Destroying, Processing, TypeOK
  <1>5. ReceiverInv'
    BY <1>1 DEF ReceiverInv, WorkerInv, Destroying, Processing, TypeOK
  <1> QED BY <1>2, <1>3, <1>4, <1>5

-----------------------------------------------------------------------------
(* The capturer.                                                           *)

\* A frame is handed to the subscribers of the moment; serving one changes
\* its "skipped" only.
LEMMA ServeKeeps ==
  ASSUME ServerInv, UNCHANGED <<receivers, routerVars, requests>>,
         notifying' \in BOOLEAN, frame' \in 0..MaxFrames, todo' \subseteq receivers,
         ~notifying' => todo' = {}, heap' \in [Addr -> Processor],
         \A a \in Addr : heap'[a].kind = heap[a].kind /\ heap'[a].conn = heap[a].conn
  PROVE  ServerInv'
  <1> USE ServerAssumption DEF ServerInv, routerVars
  <1>1. TypeOK'
    BY DEF TypeOK
  <1>2. OwnInv'
    BY SameOwners
  <1>3. WorkerInv'
    BY DEF WorkerInv, TypeOK
  <1>4. ReceiverInv'
    BY DEF ReceiverInv, TypeOK
  <1> QED BY <1>1, <1>2, <1>3, <1>4

\* Iterating over the receivers, the capturer only lets go of them.
LEMMA CapturerKeeps ==
  ASSUME ServerInv, Capturer
  PROVE  ServerInv'
  <1>1. CASE Capture
    <2>1. frame' \in 0..MaxFrames /\ heap' \in [Addr -> Processor] /\ heap' = heap /\ notifying'
      BY <1>1, ServerAssumption DEF Capture, ServerInv, TypeOK
    <2> QED BY <1>1, <2>1, ServeKeeps DEF Capture
  <1>2. CASE \E a \in todo : Notify(a)
    <2>1. PICK a \in todo : Notify(a)
      BY <1>2
    <2>2. a \in Addr /\ heap \in [Addr -> Processor]
      BY DEF ServerInv, TypeOK, ReceiverInv
    <2>3. PICK n \in Int : heap' = [heap EXCEPT ![a].skipped = n]
      BY <2>1, <2>2 DEF Notify, Processor
    <2>4. /\ heap' \in [Addr -> Processor]
          /\ \A b \in Addr : heap'[b].kind = heap[b].kind /\ heap'[b].conn = heap[b].conn
      BY <2>2, <2>3 DEF Processor
    <2>5. notifying' \in BOOLEAN /\ frame' \in 0..MaxFrames /\ todo' \subseteq receivers /\ notifying'
      BY <2>1 DEF Notify, ServerInv, TypeOK, ReceiverInv
    <2> QED BY <2>1, <2>4, <2>5, ServeKeeps DEF Notify
  <1>3. CASE CaptureEnd
    BY <1>3, ServeKeeps DEF CaptureEnd, ServerInv, TypeOK
  <1> QED BY <1>1, <1>2, <1>3 DEF Capturer

-----------------------------------------------------------------------------
\* Every step of a worker keeps the invariant.
LEMMA WorkerKeeps ==
  ASSUME ServerInv, NEW c \in Conns, Worker(c)
  PROVE  ServerInv'
  <1> USE ServerAssumption
  <1>1. CASE \E r \in Request : Receive(c, r)
    <2>1. PICK r \in Request : Receive(c, r)
      BY <1>1
    <2>2. r \in [kind : Kind \cup {"stream"}, skip : Int] /\ r.skip \in Int
      BY DEF Request
    <2> QED BY <2>1, <2>2, ReceiveKeeps
  <1>2. CASE \E a \in Addr : Create(c, a)
    BY <1>2, CreateKeeps
  <1>3. CASE Closing(c)
    BY <1>3, ClosingKeeps
  <1>4. CASE Unsubscribe(c)
    <2>1. "delete" \in Destroying /\ pc[c] \in Destroying /\ todo \subseteq receivers'
      BY <1>4 DEF Unsubscribe, Destroying, ServerInv, ReceiverInv
    <2> QED BY <1>4, <2>1, DestructorKeeps DEF Unsubscribe
  <1>5. CASE Delete(c)
    BY <1>5, DeleteKeeps
  <1>6. CASE ProcessMjpeg(c)
    <2>1. httpProcessor[c] \in Addr /\ request[c].skip \in Int /\ request[c].kind \in Streaming
      BY <1>6 DEF ProcessMjpeg, ServerInv, WorkerInv, TypeOK, Processing, Streaming
    <2>2. /\ heap' \in [Addr -> Processor]
          /\ \A b \in Addr : heap'[b].kind = heap[b].kind /\ heap'[b].conn = heap[b].conn
      BY <1>6, <2>1 DEF ProcessMjpeg, ServerInv, TypeOK, Processor
    <2> QED BY <1>6, <2>1, <2>2, ProcessKeeps DEF ProcessMjpeg, Processing
  <1>7. CASE Subscribe(c)
    BY <1>7, SubscribeKeeps
  <1>8. CASE ProcessPlain(c) \/ ProcessFile(c)
    <2>1. PICK where \in {"body", "idle"} : Goto(c, where)
      BY <1>8 DEF ProcessPlain, ProcessFile
    <2>2. heap' \in [Addr -> Processor] /\ heap' = heap
      BY <1>8 DEF ProcessPlain, ProcessFile, ServerInv, TypeOK
    <2>3. pc[c] \in Processing /\ where \in Processing \cup {"idle"} /\ where # "subscribe"
      BY <1>8 DEF ProcessPlain, ProcessFile, Processing
    <2> QED BY <1>8, <2>1, <2>2, <2>3, ProcessKeeps DEF ProcessPlain, ProcessFile
  <1>9. CASE DestroySender(c)
    <2> USE <1>9 DEF DestroySender, Goto, captureVars, ServerInv
    <2>1. TypeOK' /\ OwnInv'
      BY DEF TypeOK, OwnInv, Where
    <2>2. WorkerInv' /\ ReceiverInv'
      BY DEF WorkerInv, ReceiverInv, Destroying, Processing, TypeOK, Subscribed
    <2> QED BY <2>1, <2>2
  <1> QED BY <1>1, <1>2, <1>3, <1>4, <1>5, <1>6, <1>7, <1>8, <1>9 DEF Worker

\* Every step of the server keeps the invariant.
LEMMA ServerNext == ServerInv /\ [Next]_vars => ServerInv'
  <1> SUFFICES ASSUME ServerInv, [Next]_vars PROVE ServerInv'
    OBVIOUS
  <1>1. CASE UNCHANGED vars
    BY <1>1 DEF vars, captureVars, routerVars, ServerInv, TypeOK, OwnInv, WorkerInv, ReceiverInv
  <1> QED BY <1>1, CapturerKeeps, WorkerKeeps DEF Next, Exhausted

\* The invariant, for every behaviour.
THEOREM ServerInvariant == Spec => []ServerInv
  BY ServerInit, ServerNext, PTL DEF Spec

\* What the invariant says of the distributer: connections close and requests
\* replace each other while the capturer iterates over the receivers, and it
\* still only calls processors that live, are the ones that subscribed, and
\* whose connection has its sender.
LEMMA ReceiversLive == ServerInv => NoDanglingReceiver
  <1> SUFFICES ASSUME ServerInv, NEW a \in receivers \cup todo
               PROVE  /\ heap[a].kind \in Streaming
                      /\ a \in {httpProcessor[heap[a].conn], old[heap[a].conn]}
                      /\ pc[heap[a].conn] \notin {"closed", "gone"}
    BY DEF NoDanglingReceiver
  <1>1. a \in Addr /\ a # Null /\ heap[a].kind \in Streaming /\ heap[a].kind # "free"
    BY ServerAssumption DEF ServerInv, ReceiverInv, TypeOK, Streaming
  <1>2. heap[a].conn \in Conns /\ a \in {httpProcessor[heap[a].conn], old[heap[a].conn]}
    BY <1>1 DEF ServerInv, OwnInv
  <1> QED BY <1>1, <1>2 DEF ServerInv, WorkerInv, Destroying

\* However connections, requests and frames interleave, no receiver dangles.
THEOREM NoReceiverDangles == Spec => []NoDanglingReceiver
  BY ServerInvariant, ReceiversLive, PTL

-----------------------------------------------------------------------------
(* What the clients read: the form of the streams, and the frames they     *)
(* show.                                                                   *)

ItemType == {"notfound", "header", "part", "response", "filehead", "filebody", "gone"}
Items == [type : ItemType, n : Int]

\* StreamsWellFormed and SkipsExactly, of one sequence.
Formed(s) ==
  \A i \in DOMAIN s :
    LET before == Response(s, i) IN
      /\ s[i].type = "part" =>
           \E j \in before : s[j].type = "header" /\ \A k \in before : k <= j
      /\ s[i].type = "filebody" => i > 1 /\ s[i - 1].type = "filehead"
      /\ s[i].type = "filehead" /\ i < Len(s) => s[i + 1].type = "filebody"

Skipped(n) == IF n > 0 THEN n ELSE 0

Counted(s) ==
  \A i, j \in DOMAIN s :
    ( /\ i < j /\ s[i].type = "part" /\ s[j].type = "part"
      /\ \A k \in (i + 1)..(j - 1) : s[k].type = "notfound" )
    => \E h \in 1..(i - 1) : /\ s[h].type = "header"
                             /\ \A k \in (h + 1)..i : s[k].type # "header"
                             /\ s[j].n = s[i].n + Skipped(s[h].n) + 1

\* The last response is a stream that was asked to skip so many frames; if
\* it has shown one, the next one shown after "skipped" more were left out
\* follows that.
Shows(s, skip, skipped, next) ==
  \E h \in 1..Len(s) :
    /\ s[h].type = "header" /\ s[h].n = skip
    /\ \A k \in (h + 1)..Len(s) : s[k].type \in {"part", "notfound"}
    /\ \A p \in (h + 1)..Len(s) :
         s[p].type = "part" /\ (\A k \in (p + 1)..Len(s) : s[k].type = "notfound")
         => s[p].n + skipped + 1 = next

EndsIn(s, type) == s # <<>> /\ s[Len(s)].type = type

\* The frame the distributer hands to a receiver next.
NextFrame(a) == IF a \in todo THEN frame ELSE frame + 1

\* What a connection reads and where its worker is.
ConnForm(c) ==
  /\ Formed(sent[c]) /\ Counted(sent[c])
  /\ pc[c] = "body" <=> EndsIn(sent[c], "filehead")
  /\ pc[c] = "subscribe" => /\ EndsIn(sent[c], "header")
                            /\ sent[c][Len(sent[c])].n = heap[httpProcessor[c]].skip
  /\ pc[c] \in Destroying \cup Processing =>
       /\ httpProcessor[c] \notin receivers
       /\ httpProcessor[c] # Null => heap[httpProcessor[c]].skipped = 0

\* What a receiver has shown.
ReceiverForm(a) ==
  /\ heap[a].skipped \in 0..Skipped(heap[a].skip)
  /\ Shows(sent[heap[a].conn], heap[a].skip, heap[a].skipped, NextFrame(a))

FormInv ==
  /\ sent \in [Conns -> Seq(Items)]
  /\ \A c \in Conns : ConnForm(c)
  /\ \A a \in receivers : ReceiverForm(a)

-----------------------------------------------------------------------------
\* What Append adds, for the lemmas on sequences.
LEMMA Appended ==
  ASSUME NEW s \in Seq(Items), NEW x \in Items
  PROVE  LET t == Append(s, x) IN
           /\ t \in Seq(Items) /\ Len(s) \in Nat /\ Len(t) = Len(s) + 1 /\ t # <<>>
           /\ DOMAIN s = 1..Len(s) /\ DOMAIN t = 1..(Len(s) + 1)
           /\ t[Len(s) + 1] = x
           /\ \A i \in 1..Len(s) : t[i] = s[i] /\ s[i] \in Items
           /\ \A i \in 1..(Len(s) + 1) : i \in 1..Len(s) \/ i = Len(s) + 1
           /\ \A i \in 1..Len(s) : Response(t, i) = Response(s, i)
  <1> DEFINE t == Append(s, x)
  <1>1. /\ t \in Seq(Items) /\ Len(s) \in Nat /\ Len(t) = Len(s) + 1 /\ t # <<>>
        /\ DOMAIN s = 1..Len(s) /\ DOMAIN t = 1..(Len(s) + 1)
        /\ t[Len(s) + 1] = x
        /\ \A i \in 1..Len(s) : t[i] = s[i] /\ s[i] \in Items
    OBVIOUS
  <1>2. \A i \in 1..(Len(s) + 1) : i \in 1..Len(s) \/ i = Len(s) + 1
    BY <1>1
  <1> HIDE DEF t
  <1>3. ASSUME NEW i \in 1..Len(s) PROVE Response(t, i) = Response(s, i)
    <2>1. \A j \in 1..(i - 1) : t[j] = s[j]
      BY <1>1
    <2> QED BY <2>1 DEF Response
  <1> QED BY <1>1, <1>2, <1>3 DEF t


\* A response, a header or a "404" keeps the form, and a file's body if its
\* head is there.
LEMMA FormedNext ==
  ASSUME NEW s \in Seq(Items), NEW x \in Items, Formed(s),
         EndsIn(s, "filehead") <=> x.type = "filebody",
         x.type = "part" => \E h \in 1..Len(s) :
           /\ s[h].type = "header"
           /\ \A k \in (h + 1)..Len(s) : s[k].type \in {"part", "notfound"}
  PROVE  Formed(Append(s, x))
  <1> DEFINE t == Append(s, x)
             n == Len(s) + 1
  <1>1. /\ Len(s) \in Nat /\ Len(t) = n
        /\ DOMAIN s = 1..Len(s) /\ DOMAIN t = 1..n
        /\ t[n] = x
        /\ \A i \in 1..Len(s) : t[i] = s[i] /\ s[i] \in Items
        /\ \A i \in 1..n : i \in 1..Len(s) \/ i = n
        /\ \A i \in 1..Len(s) : Response(t, i) = Response(s, i)
        /\ s = <<>> <=> Len(s) = 0
    BY Appended
  <1> HIDE DEF t
  <1>2. ASSUME NEW i \in DOMAIN t, t[i].type = "part"
        PROVE  \E j \in Response(t, i) : t[j].type = "header" /\ \A k \in Response(t, i) : k <= j
    <2>1. CASE i \in 1..Len(s)
      <3>1. PICK j \in Response(s, i) : s[j].type = "header" /\ \A k \in Response(s, i) : k <= j
        BY <1>1, <1>2, <2>1 DEF Formed
      <3>2. j \in 1..Len(s)
        BY <1>1, <2>1, <3>1 DEF Response
      <3> QED BY <1>1, <2>1, <3>1, <3>2
    <2>2. CASE i = n
      <3>1. PICK h \in 1..Len(s) :
              /\ s[h].type = "header"
              /\ \A k \in (h + 1)..Len(s) : s[k].type \in {"part", "notfound"}
        BY <1>1, <1>2, <2>2
      <3>2. Response(t, n) = {k \in 1..Len(s) : t[k].type \notin {"part", "notfound"}}
        BY <1>1 DEF Response
      <3>3. h \in Response(t, n) /\ t[h].type = "header"
        BY <1>1, <3>1, <3>2
      <3>4. ASSUME NEW k \in Response(t, n) PROVE k <= h
        <4>1. k \in 1..Len(s) /\ s[k].type \notin {"part", "notfound"}
          BY <1>1, <3>2
        <4>2. k \notin (h + 1)..Len(s)
          BY <3>1, <4>1
        <4> QED BY <1>1, <4>1, <4>2
      <3> QED BY <2>2, <3>3, <3>4
    <2> QED BY <1>1, <2>1, <2>2
  <1>3. ASSUME NEW i \in DOMAIN t, t[i].type = "filebody"
        PROVE  i > 1 /\ t[i - 1].type = "filehead"
    <2>1. CASE i \in 1..Len(s)
      <3>1. i > 1 /\ s[i - 1].type = "filehead"
        BY <1>1, <1>3, <2>1 DEF Formed
      <3>2. i - 1 \in 1..Len(s)
        BY <1>1, <2>1, <3>1
      <3> QED BY <1>1, <3>1, <3>2
    <2>2. CASE i = n
      <3>1. EndsIn(s, "filehead")
        BY <1>1, <1>3, <2>2
      <3>2. Len(s) \in 1..Len(s) /\ s[Len(s)].type = "filehead"
        BY <1>1, <3>1 DEF EndsIn
      <3>3. i > 1 /\ i - 1 = Len(s)
        BY <1>1, <2>2, <3>2
      <3> QED BY <1>1, <3>2, <3>3
    <2> QED BY <1>1, <2>1, <2>2
  <1>4. ASSUME NEW i \in DOMAIN t, t[i].type = "filehead", i < Len(t)
        PROVE  t[i + 1].type = "filebody"
    <2>1. i \in 1..Len(s) /\ s[i].type = "filehead"
      BY <1>1, <1>4
    <2>2. CASE i < Len(s)
      <3>1. s[i + 1].type = "filebody" /\ i + 1 \in 1..Len(s)
        BY <1>1, <2>1, <2>2 DEF Formed
      <3> QED BY <1>1, <3>1
    <2>3. CASE i = Len(s)
      <3>1. EndsIn(s, "filehead")
        BY <1>1, <2>1, <2>3 DEF EndsIn
      <3> QED BY <1>1, <2>3, <3>1
    <2> QED BY <1>1, <2>1, <2>2, <2>3
  <1>5. Formed(t)
    BY <1>2, <1>3, <1>4 DEF Formed
  <1> QED BY <1>5 DEF t

\* Everything but a part keeps the count; a part does so that comes after
\* as many frames as the stream was asked to skip.
LEMMA CountedNext ==
  ASSUME NEW s \in Seq(Items), NEW x \in Items, Counted(s),
         x.type = "part" => \E skip \in Int : Shows(s, skip, Skipped(skip), x.n)
  PROVE  Counted(Append(s, x))
  <1> DEFINE t == Append(s, x)
             n == Len(s) + 1
  <1>1. /\ Len(s) \in Nat /\ Len(t) = n
        /\ DOMAIN s = 1..Len(s) /\ DOMAIN t = 1..n
        /\ t[n] = x
        /\ \A i \in 1..Len(s) : t[i] = s[i] /\ s[i] \in Items
        /\ \A i \in 1..n : i \in 1..Len(s) \/ i = n
    BY Appended
  <1> HIDE DEF t
  <1> SUFFICES ASSUME NEW i \in DOMAIN t, NEW j \in DOMAIN t,
                      i < j, t[i].type = "part", t[j].type = "part",
                      \A k \in (i + 1)..(j - 1) : t[k].type = "notfound"
               PROVE  \E h \in 1..(i - 1) : /\ t[h].type = "header"
                                            /\ \A k \in (h + 1)..i : t[k].type # "header"
                                            /\ t[j].n = t[i].n + Skipped(t[h].n) + 1
    BY DEF Counted, t
  <1>2. i \in 1..Len(s) /\ j \in 1..n
    BY <1>1
  <1>3. \A k \in 1..i : k \in 1..Len(s) /\ t[k] = s[k]
    BY <1>1, <1>2
  <1>4. \A k \in (i + 1)..(j - 1) : k \in 1..Len(s) /\ s[k].type = "notfound"
    BY <1>1, <1>2
  <1>5. PICK h \in 1..(i - 1) : /\ s[h].type = "header"
                                /\ \A k \in (h + 1)..i : s[k].type # "header"
                                /\ t[j].n = s[i].n + Skipped(s[h].n) + 1
    <2>1. CASE j \in 1..Len(s)
      <3>1. s[j] = t[j] /\ s[i] = t[i]
        BY <1>1, <1>2, <2>1
      <3> QED BY <1>1, <1>2, <1>4, <2>1, <3>1 DEF Counted
    <2>2. CASE j = n
      <3>1. PICK skip \in Int : Shows(s, skip, Skipped(skip), x.n)
        BY <1>1, <2>2
      <3>2. PICK h \in 1..Len(s) :
              /\ s[h].type = "header" /\ s[h].n = skip
              /\ \A k \in (h + 1)..Len(s) : s[k].type \in {"part", "notfound"}
              /\ \A p \in (h + 1)..Len(s) :
                   s[p].type = "part" /\ (\A k \in (p + 1)..Len(s) : s[k].type = "notfound")
                   => s[p].n + Skipped(skip) + 1 = x.n
        BY <3>1 DEF Shows
      <3>3. s[i].type = "part" /\ \A k \in (i + 1)..Len(s) : s[k].type = "notfound"
        BY <1>1, <1>2, <1>4, <2>2
      <3>4. h < i
        <4>1. h \notin (i + 1)..Len(s) /\ h # i
          BY <3>2, <3>3
        <4> QED BY <1>1, <1>2, <4>1
      <3>5. i \in (h + 1)..Len(s) /\ h \in 1..(i - 1)
        BY <1>1, <1>2, <3>4
      <3>6. s[i].n + Skipped(skip) + 1 = x.n
        BY <3>2, <3>3, <3>5
      <3>7. \A k \in (h + 1)..i : k \in (h + 1)..Len(s)
        BY <1>1, <1>2
      <3>8. \A k \in (h + 1)..i : s[k].type # "header"
        BY <3>2, <3>7
      <3> QED BY <1>1, <2>2, <3>2, <3>5, <3>6, <3>8
    <2> QED BY <1>1, <1>2, <2>1, <2>2
  <1>6. h \in 1..i /\ i \in 1..i /\ \A k \in (h + 1)..i : k \in 1..i
    BY <1>1, <1>2, <1>5
  <1>7. t[h] = s[h] /\ t[i] = s[i] /\ \A k \in (h + 1)..i : t[k] = s[k]
    BY <1>3, <1>6, Zenon
  <1> QED BY <1>5, <1>7

\* A "404" shows nothing,
LEMMA ShowsAfterNotFound ==
  ASSUME NEW s \in Seq(Items), NEW x \in Items, x.type = "notfound",
         NEW skip, NEW skipped, NEW next, Shows(s, skip, skipped, next)
  PROVE  Shows(Append(s, x), skip, skipped, next)
  <1> DEFINE t == Append(s, x)
             n == Len(s) + 1
  <1>1. /\ Len(s) \in Nat /\ Len(t) = n
        /\ t[n] = x
        /\ \A i \in 1..Len(s) : t[i] = s[i] /\ s[i] \in Items
        /\ \A i \in 1..n : i \in 1..Len(s) \/ i = n
    BY Appended
  <1> HIDE DEF t
  <1>2. PICK h \in 1..Len(s) :
          /\ s[h].type = "header" /\ s[h].n = skip
          /\ \A k \in (h + 1)..Len(s) : s[k].type \in {"part", "notfound"}
          /\ \A p \in (h + 1)..Len(s) :
               s[p].type = "part" /\ (\A k \in (p + 1)..Len(s) : s[k].type = "notfound")
               => s[p].n + skipped + 1 = next
    BY DEF Shows
  <1>3. h \in 1..n /\ t[h] = s[h]
    BY <1>1, <1>2
  <1>4. \A k \in (h + 1)..n : (k \in (h + 1)..Len(s) /\ t[k] = s[k]) \/ k = n
    BY <1>1, <1>2
  <1>5. \A k \in (h + 1)..n : t[k].type \in {"part", "notfound"}
    BY <1>1, <1>2, <1>4
  <1>6. ASSUME NEW p \in (h + 1)..n, t[p].type = "part",
               \A k \in (p + 1)..n : t[k].type = "notfound"
        PROVE  t[p].n + skipped + 1 = next
    <2>1. p \in (h + 1)..Len(s) /\ t[p] = s[p]
      BY <1>1, <1>4, <1>6
    <2>2. \A k \in (p + 1)..Len(s) : k \in (p + 1)..n /\ t[k] = s[k]
      BY <1>1, <2>1
    <2> QED BY <1>2, <1>6, <2>1, <2>2
  <1>7. Shows(t, skip, skipped, next)
    BY <1>1, <1>2, <1>3, <1>5, <1>6 DEF Shows
  <1> QED BY <1>7 DEF t

\* a part shows its frame,
LEMMA ShowsAfterPart ==
  ASSUME NEW s \in Seq(Items), NEW x \in Items, x.type = "part",
         NEW skip, NEW skipped, NEW next, Shows(s, skip, skipped, next)
  PROVE  Shows(Append(s, x), skip, 0, x.n + 1)
  <1> DEFINE t == Append(s, x)
             n == Len(s) + 1
  <1>1. /\ Len(s) \in Nat /\ Len(t) = n
        /\ t[n] = x /\ x.n \in Int
        /\ \A i \in 1..Len(s) : t[i] = s[i] /\ s[i] \in Items
        /\ \A i \in 1..n : i \in 1..Len(s) \/ i = n
    BY Appended DEF Items
  <1> HIDE DEF t
  <1>2. PICK h \in 1..Len(s) :
          /\ s[h].type = "header" /\ s[h].n = skip
          /\ \A k \in (h + 1)..Len(s) : s[k].type \in {"part", "notfound"}
    BY DEF Shows
  <1>3. h \in 1..n /\ t[h] = s[h]
    BY <1>1, <1>2
  <1>4. \A k \in (h + 1)..n : (k \in (h + 1)..Len(s) /\ t[k] = s[k]) \/ k = n
    BY <1>1, <1>2
  <1>5. \A k \in (h + 1)..n : t[k].type \in {"part", "notfound"}
    BY <1>1, <1>2, <1>4
  <1>6. ASSUME NEW p \in (h + 1)..n, t[p].type = "part",
               \A k \in (p + 1)..n : t[k].type = "notfound"
        PROVE  t[p].n + 0 + 1 = x.n + 1
    <2>1. p \in 1..n /\ (p # n => n \in (p + 1)..n)
      BY <1>1, <1>2
    <2>2. p = n
      BY <1>1, <1>6, <2>1
    <2> QED BY <1>1, <2>2
  <1>7. Shows(t, skip, 0, x.n + 1)
    BY <1>1, <1>2, <1>3, <1>5, <1>6 DEF Shows
  <1> QED BY <1>7 DEF t

\* a frame left out delays the next one,
LEMMA ShowsAfterSkip ==
  ASSUME NEW s \in Seq(Items), NEW skip \in Int, NEW skipped \in Int, NEW next \in Int,
         Shows(s, skip, skipped, next)
  PROVE  Shows(s, skip, skipped + 1, next + 1)
  <1>1. PICK h \in 1..Len(s) :
          /\ s[h].type = "header" /\ s[h].n = skip
          /\ \A k \in (h + 1)..Len(s) : s[k].type \in {"part", "notfound"}
          /\ \A p \in (h + 1)..Len(s) :
               s[p].type = "part" /\ (\A k \in (p + 1)..Len(s) : s[k].type = "notfound")
               => s[p].n + skipped + 1 = next
    BY DEF Shows
  <1>2. \A p \in (h + 1)..Len(s) : s[p] \in Items
    BY <1>1
  <1>3. ASSUME NEW p \in (h + 1)..Len(s), s[p].type = "part",
               \A k \in (p + 1)..Len(s) : s[k].type = "notfound"
        PROVE  s[p].n + (skipped + 1) + 1 = next + 1
    <2>1. s[p].n + skipped + 1 = next
      BY <1>1, <1>3
    <2>2. s[p].n \in Int
      BY <1>2 DEF Items
    <2> QED BY <2>1, <2>2
  <1> QED BY <1>1, <1>3 DEF Shows

\* and a header starts anew.
LEMMA ShowsHeader ==
  ASSUME NEW s \in Seq(Items), EndsIn(s, "header"), NEW next
  PROVE  Shows(s, s[Len(s)].n, 0, next)
  <1>1. Len(s) \in 1..Len(s) /\ s[Len(s)].type = "header" /\ \A k \in (Len(s) + 1)..Len(s) : FALSE
    BY DEF EndsIn
  <1> QED BY <1>1 DEF Shows

-----------------------------------------------------------------------------
(* The actions.                                                            *)

\* The receivers of a connection: none while a processor runs.
LEMMA ReceiverHolds ==
  ASSUME ServerInv, FormInv, NEW a \in receivers
  PROVE  /\ a \in Addr /\ heap[a].conn \in Conns /\ heap[a].kind \in Streaming
         /\ pc[heap[a].conn] \notin Processing \cup {"closed", "gone"}
         /\ \A b \in receivers : heap[b].conn = heap[a].conn => b = a
  <1>1. \A b \in receivers : /\ b \in Addr /\ b # Null /\ heap[b].conn \in Conns
                            /\ b \in {httpProcessor[heap[b].conn], old[heap[b].conn]}
                            /\ heap[b].kind \in Streaming
    BY ServerAssumption DEF ServerInv, ReceiverInv, OwnInv, TypeOK, Streaming
  <1>2. \A b \in receivers : pc[heap[b].conn] \notin {"closed", "gone"}
    BY <1>1 DEF ServerInv, WorkerInv, Destroying
  <1>3. \A b \in receivers : pc[heap[b].conn] \notin Processing
    BY <1>1 DEF ServerInv, WorkerInv, Destroying, Processing, FormInv, ConnForm
  <1>4. ASSUME NEW b \in receivers, heap[b].conn = heap[a].conn PROVE b = a
    <2> DEFINE c == heap[a].conn
    <2>1. CASE a = old[c] \/ b = old[c]
      <3>1. pc[c] \in Destroying
        BY <1>1, <2>1 DEF ServerInv, WorkerInv
      <3>2. httpProcessor[c] \notin receivers
        BY <1>1, <3>1 DEF FormInv, ConnForm
      <3> QED BY <1>1, <1>4, <3>2
    <2>2. CASE a # old[c] /\ b # old[c]
      BY <1>1, <1>4, <2>2
    <2> QED BY <2>1, <2>2
  <1> QED BY <1>1, <1>2, <1>3, <1>4

\* Nothing was sent before the first connection.
LEMMA FormInit == Init => FormInv
  <1> SUFFICES ASSUME Init PROVE FormInv
    OBVIOUS
  <1>1. /\ receivers = {} /\ \A c \in Conns : sent[c] = <<>> /\ pc[c] = "idle"
        /\ sent \in [Conns -> Seq(Items)]
    BY DEF Init
  <1>2. Formed(<<>>) /\ Counted(<<>>) /\ ~EndsIn(<<>>, "filehead") /\ <<>> \in Seq(Items)
    BY DEF Formed, Counted, EndsIn
  <1> QED BY <1>1, <1>2 DEF FormInv, ConnForm, Destroying, Processing

\* A worker's step that sends nothing, and leaves alone the receivers and the
\* processors of the others.
LEMMA QuietWorker ==
  ASSUME ServerInv, FormInv, NEW c \in Conns, ConnForm(c)',
         UNCHANGED <<captureVars, sent>>, receivers' \subseteq receivers,
         \A d \in Conns : d # c => pc'[d] = pc[d] /\ httpProcessor'[d] = httpProcessor[d],
         \A a \in receivers' : heap'[a] = heap[a],
         \A d \in Conns : d # c /\ httpProcessor[d] # Null => heap'[httpProcessor[d]] = heap[httpProcessor[d]]
  PROVE  FormInv'
  <1>1. ASSUME NEW d \in Conns PROVE ConnForm(d)'
    <2>1. CASE d = c
      BY <2>1
    <2>2. CASE d # c
      <3>1. pc'[d] = pc[d] /\ httpProcessor'[d] = httpProcessor[d] /\ sent'[d] = sent[d]
            /\ (httpProcessor[d] # Null => heap'[httpProcessor[d]] = heap[httpProcessor[d]])
        BY <2>2
      <3>2. ConnForm(d)
        BY DEF FormInv
      <3>3. pc[d] = "subscribe" => httpProcessor[d] # Null
        BY DEF ServerInv, WorkerInv, Processing
      <3> QED BY <3>1, <3>2, <3>3 DEF ConnForm
    <2> QED BY <2>1, <2>2
  <1>2. ASSUME NEW a \in receivers' PROVE ReceiverForm(a)'
    <2>1. ReceiverForm(a) /\ heap'[a] = heap[a] /\ todo' = todo /\ frame' = frame
      BY DEF FormInv, captureVars
    <2> QED BY <2>1 DEF ReceiverForm, NextFrame
  <1>3. sent' \in [Conns -> Seq(Items)]
    BY DEF FormInv
  <1> QED BY <1>1, <1>2, <1>3 DEF FormInv

\* A worker's step that sends anything but a part; a connection that has a
\* receiver is only sent a "404".
LEMMA SendingWorker ==
  ASSUME ServerInv, FormInv, NEW c \in Conns, NEW x \in Items, Send(c, x),
         x.type # "part", EndsIn(sent[c], "filehead") <=> x.type = "filebody",
         UNCHANGED <<captureVars, receivers, httpProcessor>>,
         \A d \in Conns : d # c => pc'[d] = pc[d],
         pc'[c] = "body" <=> x.type = "filehead",
         pc'[c] = "subscribe" => x.type = "header" /\ x.n = heap'[httpProcessor[c]].skip,
         pc'[c] \in Destroying \cup Processing =>
           /\ httpProcessor[c] \notin receivers
           /\ httpProcessor[c] # Null => heap'[httpProcessor[c]].skipped = 0,
         \A a \in receivers : /\ heap'[a] = heap[a]
                              /\ heap[a].conn = c => x.type = "notfound",
         \A d \in Conns : d # c /\ httpProcessor[d] # Null => heap'[httpProcessor[d]] = heap[httpProcessor[d]]
  PROVE  FormInv'
  <1>1. /\ sent \in [Conns -> Seq(Items)]
        /\ \A d \in Conns : ConnForm(d)
    BY DEF FormInv
  <1>2. /\ sent' = [sent EXCEPT ![c] = Append(@, x)] /\ sent'[c] = Append(sent[c], x)
        /\ \A d \in Conns : d # c => sent'[d] = sent[d]
    BY <1>1 DEF Send
  <1>3. sent[c] \in Seq(Items) /\ Append(sent[c], x) \in Seq(Items)
    BY <1>1, Appended
  <1>4. sent' \in [Conns -> Seq(Items)]
    BY <1>1, <1>2, <1>3
  <1>5. ASSUME NEW d \in Conns PROVE ConnForm(d)'
    <2>1. CASE d = c
      <3>1. Formed(sent[c]) /\ Counted(sent[c])
        BY <1>1 DEF ConnForm
      <3>2. Formed(Append(sent[c], x))
        BY <1>3, <3>1, FormedNext
      <3>3. Counted(Append(sent[c], x))
        BY <1>3, <3>1, CountedNext
      <3>4. \A type : EndsIn(Append(sent[c], x), type) <=> x.type = type
        BY <1>3, Appended DEF EndsIn
      <3>5. EndsIn(Append(sent[c], x), "header") =>
              Append(sent[c], x)[Len(Append(sent[c], x))].n = x.n
        BY <1>3, Appended
      <3> QED BY <1>2, <2>1, <3>2, <3>3, <3>4, <3>5 DEF ConnForm
    <2>2. CASE d # c
      <3>1. pc'[d] = pc[d] /\ httpProcessor'[d] = httpProcessor[d] /\ sent'[d] = sent[d]
            /\ (httpProcessor[d] # Null => heap'[httpProcessor[d]] = heap[httpProcessor[d]])
        BY <1>2, <2>2
      <3>2. ConnForm(d)
        BY <1>1
      <3>3. pc[d] = "subscribe" => httpProcessor[d] # Null
        BY DEF ServerInv, WorkerInv, Processing
      <3> QED BY <3>1, <3>2, <3>3 DEF ConnForm
    <2> QED BY <2>1, <2>2
  <1>6. ASSUME NEW a \in receivers' PROVE ReceiverForm(a)'
    <2>1. /\ ReceiverForm(a) /\ heap'[a] = heap[a] /\ todo' = todo /\ frame' = frame
          /\ a \in receivers
      BY DEF FormInv, captureVars
    <2>2. heap[a].conn \in Conns
      BY <2>1, FormInv, ReceiverHolds
    <2>3. Shows(sent[heap[a].conn], heap[a].skip, heap[a].skipped, NextFrame(a))
      BY <2>1 DEF ReceiverForm
    <2>4. Shows(sent'[heap[a].conn], heap[a].skip, heap[a].skipped, NextFrame(a))
      <3>1. CASE heap[a].conn = c
        <4>1. x.type = "notfound"
          BY <2>1, <3>1
        <4> QED BY <1>2, <1>3, <2>3, <3>1, <4>1, ShowsAfterNotFound
      <3>2. CASE heap[a].conn # c
        BY <1>2, <2>2, <2>3, <3>2
      <3> QED BY <3>1, <3>2
    <2> QED BY <2>1, <2>4 DEF ReceiverForm, NextFrame
  <1> QED BY <1>4, <1>5, <1>6 DEF FormInv

\* The processor of one connection is not that of another.
LEMMA OthersHold ==
  ASSUME ServerInv, NEW c \in Conns, NEW d \in Conns, d # c, httpProcessor[d] # Null
  PROVE  httpProcessor[d] \in Addr /\ httpProcessor[d] \notin {httpProcessor[c], old[c]}
  <1>1. httpProcessor[d] \in Addr /\ heap[httpProcessor[d]].conn = d
    BY DEF ServerInv, OwnInv, TypeOK
  <1> QED BY <1>1 DEF ServerInv, OwnInv

\* Every step of a worker keeps the form of the streams.
LEMMA WorkerForm ==
  ASSUME ServerInv, FormInv, NEW c \in Conns, Worker(c)
  PROVE  FormInv'
  <1> USE DEF Goto
  <1>1. /\ ConnForm(c) /\ sent \in [Conns -> Seq(Items)] /\ sent[c] \in Seq(Items)
        /\ pc \in [Conns -> Where] /\ httpProcessor \in [Conns -> Addr \cup {Null}]
        /\ old \in [Conns -> Addr \cup {Null}] /\ receivers \subseteq Addr
        /\ heap \in [Addr -> Processor]
    BY DEF FormInv, ServerInv, TypeOK
  <1>2. \A d \in Conns : d # c /\ httpProcessor[d] # Null =>
          httpProcessor[d] \in Addr /\ httpProcessor[d] \notin {httpProcessor[c], old[c]}
    BY OthersHold
  <1>3. \A a \in receivers : heap[a].conn = c => pc[c] \notin Processing \cup {"closed", "gone"}
    BY ReceiverHolds
  <1>4. CASE \E r \in Request : Receive(c, r)
    <2>1. PICK r \in Request : Receive(c, r)
      BY <1>4
    <2>2. CASE r.kind = "unknown"
      <3>1. Send(c, Item("notfound", 0)) /\ UNCHANGED pc /\ pc[c] = "idle"
        BY <2>1, <2>2 DEF Receive
      <3>2. Item("notfound", 0) \in Items /\ Item("notfound", 0).type = "notfound"
        BY DEF Item, Items, ItemType
      <3>3. ~EndsIn(sent[c], "filehead")
        BY <1>1, <3>1 DEF ConnForm
      <3>4. UNCHANGED <<captureVars, receivers, httpProcessor, heap>>
        BY <2>1 DEF Receive
      <3> QED BY <3>1, <3>2, <3>3, <3>4, SendingWorker DEF Destroying, Processing
    <2>3. CASE r.kind # "unknown"
      <3>1. /\ UNCHANGED <<captureVars, receivers, httpProcessor, heap, sent>>
            /\ pc' = [pc EXCEPT ![c] = "create"] /\ pc[c] = "idle"
        BY <2>1, <2>3 DEF Receive
      <3>2. ConnForm(c)'
        BY <1>1, <3>1 DEF ConnForm, Destroying, Processing
      <3> QED BY <1>1, <3>1, <3>2, QuietWorker
    <2> QED BY <2>2, <2>3
  <1>5. CASE \E a \in Addr : Create(c, a)
    <2>1. PICK a \in Addr : Create(c, a)
      BY <1>5
    <2>2. a \notin receivers /\ \A d \in Conns : httpProcessor[d] # a
      <3>1. heap[a].kind = "free" /\ a # Null
        BY <2>1, ServerAssumption DEF Create, Free
      <3> QED BY <3>1 DEF ServerInv, ReceiverInv, OwnInv, Streaming
    <2>3. /\ UNCHANGED <<captureVars, receivers, sent>> /\ pc[c] = "create"
          /\ pc' = [pc EXCEPT ![c] = "destroy"] /\ httpProcessor' = [httpProcessor EXCEPT ![c] = a]
          /\ heap' = [heap EXCEPT ![a] = NewProcessor(c, request[c].kind)]
      BY <2>1 DEF Create
    <2>4. heap'[a].skipped = 0 /\ httpProcessor'[c] = a /\ pc'[c] = "destroy"
      BY <1>1, <2>3 DEF NewProcessor
    <2>5. ConnForm(c)'
      BY <1>1, <2>2, <2>3, <2>4 DEF ConnForm, Destroying, Processing
    <2>6. /\ \A b \in receivers' : heap'[b] = heap[b]
          /\ \A d \in Conns : d # c => pc'[d] = pc[d] /\ httpProcessor'[d] = httpProcessor[d]
          /\ \A d \in Conns : d # c /\ httpProcessor[d] # Null =>
               heap'[httpProcessor[d]] = heap[httpProcessor[d]]
      BY <1>1, <1>2, <2>2, <2>3
    <2> QED BY <2>3, <2>5, <2>6, QuietWorker
  <1>6. CASE Closing(c)
    <2>1. /\ UNCHANGED <<captureVars, receivers, heap, sent>> /\ pc[c] = "idle"
          /\ pc' = [pc EXCEPT ![c] = "destroy"] /\ httpProcessor' = [httpProcessor EXCEPT ![c] = Null]
      BY <1>6 DEF Closing
    <2>2. ConnForm(c)'
      BY <1>1, <2>1, ServerAssumption DEF ConnForm, Destroying, Processing
    <2> QED BY <1>1, <2>1, <2>2, QuietWorker
  <1>7. CASE Unsubscribe(c)
    <2>1. /\ UNCHANGED <<captureVars, httpProcessor, heap, sent>> /\ pc[c] = "destroy"
          /\ pc' = [pc EXCEPT ![c] = "delete"] /\ receivers' = receivers \ {old[c]}
      BY <1>7 DEF Unsubscribe
    <2>2. ConnForm(c)'
      BY <1>1, <2>1 DEF ConnForm, Destroying, Processing
    <2> QED BY <1>1, <2>1, <2>2, QuietWorker
  <1>8. CASE Delete(c)
    <2>1. PICK where \in {"closed", "process"} : pc' = [pc EXCEPT ![c] = where]
      BY <1>8 DEF Delete
    <2>2. /\ UNCHANGED <<captureVars, receivers, httpProcessor, sent>>
          /\ pc[c] \in {"delete", "destroy"}
          /\ \A b \in Addr : b # old[c] => heap'[b] = heap[b]
      BY <1>1, <1>8 DEF Delete
    <2>3. old[c] \notin receivers /\ (httpProcessor[c] # Null => httpProcessor[c] # old[c])
      BY <1>1, <1>8, ServerAssumption
      DEF Delete, ServerInv, OwnInv, ReceiverInv, Subscribed, OldKind
    <2>4. httpProcessor[c] # Null => heap'[httpProcessor[c]] = heap[httpProcessor[c]]
      BY <1>1, <2>2, <2>3
    <2>5. ConnForm(c)'
      BY <1>1, <2>1, <2>2, <2>4 DEF ConnForm, Destroying, Processing
    <2>6. /\ \A b \in receivers' : heap'[b] = heap[b]
          /\ \A d \in Conns : d # c => pc'[d] = pc[d] /\ httpProcessor'[d] = httpProcessor[d]
          /\ \A d \in Conns : d # c /\ httpProcessor[d] # Null =>
               heap'[httpProcessor[d]] = heap[httpProcessor[d]]
      BY <1>1, <1>2, <2>1, <2>2, <2>3
    <2> QED BY <2>2, <2>5, <2>6, QuietWorker
  <1>9. CASE ProcessMjpeg(c)
    <2> DEFINE p == httpProcessor[c]
               x == Item("header", request[c].skip)
    <2>1. /\ UNCHANGED <<captureVars, receivers, httpProcessor>> /\ pc[c] = "process"
          /\ pc' = [pc EXCEPT ![c] = "subscribe"] /\ Send(c, x)
          /\ heap' = [heap EXCEPT ![p].skip = request[c].skip]
      BY <1>9 DEF ProcessMjpeg
    <2>2. p \in Addr /\ p # Null /\ p \notin receivers /\ heap[p].skipped = 0
      BY <1>1, <1>9, ServerAssumption
      DEF ProcessMjpeg, ConnForm, ServerInv, WorkerInv, Processing
    <2>3. /\ heap'[p].skip = request[c].skip /\ heap'[p].skipped = 0
          /\ \A b \in Addr : b # p => heap'[b] = heap[b]
      BY <1>1, <2>1, <2>2 DEF Processor
    <2>4. x \in Items /\ x.type = "header" /\ x.n = request[c].skip
      BY DEF Item, Items, ItemType, ServerInv, TypeOK
    <2>5. ~EndsIn(sent[c], "filehead") /\ pc'[c] = "subscribe"
      BY <1>1, <2>1 DEF ConnForm
    <2>6. /\ \A a \in receivers : heap'[a] = heap[a] /\ heap[a].conn # c
          /\ \A d \in Conns : d # c => pc'[d] = pc[d]
          /\ \A d \in Conns : d # c /\ httpProcessor[d] # Null =>
               heap'[httpProcessor[d]] = heap[httpProcessor[d]]
      BY <1>1, <1>2, <1>3, <2>1, <2>2, <2>3 DEF Processing
    <2> HIDE DEF x, p
    <2> QED BY <2>1, <2>2, <2>3, <2>4, <2>5, <2>6, SendingWorker DEF p
  <1>10. CASE Subscribe(c)
    <2> DEFINE p == httpProcessor[c]
    <2>1. /\ UNCHANGED <<captureVars, heap, httpProcessor, sent>> /\ pc[c] = "subscribe"
          /\ pc' = [pc EXCEPT ![c] = "idle"] /\ receivers' = receivers \cup {p} /\ ~notifying
      BY <1>10 DEF Subscribe
    <2>2. /\ EndsIn(sent[c], "header") /\ sent[c][Len(sent[c])].n = heap[p].skip
          /\ p \in Addr /\ heap[p].skipped = 0 /\ heap[p].conn = c
      BY <1>1, <2>1, ServerAssumption
      DEF ConnForm, ServerInv, WorkerInv, OwnInv, Processing
    <2>3. ReceiverForm(p)'
      <3>1. Shows(sent[c], heap[p].skip, 0, frame + 1)
        BY <1>1, <2>2, ShowsHeader
      <3>2. todo = {} /\ heap[p].skip \in Int
        BY <1>1, <2>1, <2>2 DEF ServerInv, ReceiverInv, Processor
      <3>3. 0 \in 0..Skipped(heap[p].skip)
        BY <3>2 DEF Skipped
      <3> QED BY <2>1, <2>2, <3>1, <3>2, <3>3 DEF ReceiverForm, NextFrame, captureVars
    <2>4. ASSUME NEW a \in receivers' PROVE ReceiverForm(a)'
      <3>1. CASE a = p
        BY <2>1, <2>3, <3>1 DEF ReceiverForm, NextFrame, captureVars
      <3>2. CASE a \in receivers
        BY <2>1, <3>2 DEF FormInv, ReceiverForm, NextFrame, captureVars
      <3> QED BY <2>1, <3>1, <3>2
    <2>5. ASSUME NEW d \in Conns PROVE ConnForm(d)'
      <3>1. CASE d = c
        <4>1. ~EndsIn(sent[c], "filehead")
          BY <1>1, <2>1 DEF ConnForm
        <4> QED BY <1>1, <2>1, <3>1, <4>1 DEF ConnForm, Destroying, Processing
      <3>2. CASE d # c
        <4>1. httpProcessor[d] # p
          BY <1>2, <2>2, <3>2, ServerAssumption
        <4>2. ConnForm(d) /\ pc'[d] = pc[d]
          BY <1>1, <2>1, <3>2 DEF FormInv
        <4> QED BY <2>1, <4>1, <4>2 DEF ConnForm
      <3> QED BY <3>1, <3>2
    <2> QED BY <1>1, <2>1, <2>4, <2>5 DEF FormInv
  <1>11. CASE ProcessPlain(c)
    <2> DEFINE x == Item("response", 0)
    <2>1. /\ UNCHANGED <<captureVars, receivers, httpProcessor, heap>> /\ pc[c] = "process"
          /\ pc' = [pc EXCEPT ![c] = "idle"] /\ Send(c, x)
      BY <1>11 DEF ProcessPlain
    <2>2. x \in Items /\ x.type = "response"
      BY DEF Item, Items, ItemType
    <2>3. ~EndsIn(sent[c], "filehead") /\ pc'[c] = "idle" /\ \A d \in Conns : d # c => pc'[d] = pc[d]
      BY <1>1, <2>1 DEF ConnForm
    <2>4. \A a \in receivers : heap[a].conn # c
      BY <1>3, <2>1 DEF Processing
    <2> HIDE DEF x
    <2> QED BY <2>1, <2>2, <2>3, <2>4, SendingWorker DEF Destroying, Processing
  <1>12. CASE ProcessFile(c)
    <2>1. PICK type \in {"filehead", "filebody"} :
            /\ Send(c, Item(type, 0))
            /\ pc[c] = IF type = "filehead" THEN "process" ELSE "body"
            /\ pc' = [pc EXCEPT ![c] = IF type = "filehead" THEN "body" ELSE "idle"]
            /\ UNCHANGED <<captureVars, receivers, httpProcessor, heap>>
      BY <1>12 DEF ProcessFile
    <2> DEFINE x == Item(type, 0)
    <2>2. x \in Items /\ x.type = type
      BY <2>1 DEF Item, Items, ItemType
    <2>3. /\ EndsIn(sent[c], "filehead") <=> type = "filebody"
          /\ pc'[c] = IF type = "filehead" THEN "body" ELSE "idle"
          /\ \A d \in Conns : d # c => pc'[d] = pc[d]
      BY <1>1, <2>1 DEF ConnForm
    <2>4. \A a \in receivers : heap[a].conn # c
      BY <1>3, <2>1 DEF Processing
    <2>5. /\ httpProcessor[c] \notin receivers
          /\ httpProcessor[c] # Null => heap[httpProcessor[c]].skipped = 0
      BY <1>1, <2>1 DEF ConnForm, Processing
    <2>6. Send(c, x)
      BY <2>1
    <2> HIDE DEF x
    <2> QED BY <2>1, <2>2, <2>3, <2>4, <2>5, <2>6, SendingWorker
  <1>13. CASE DestroySender(c)
    <2>1. /\ UNCHANGED <<captureVars, receivers, httpProcessor, heap>> /\ pc[c] = "closed"
          /\ pc' = [pc EXCEPT ![c] = "gone"] /\ sent' = [sent EXCEPT ![c] = Gone]
      BY <1>13 DEF DestroySender
    <2>2. Gone \in Seq(Items) /\ Len(Gone) = 1 /\ Gone[1].type = "gone"
      BY DEF Gone, Item, Items, ItemType
    <2>3. DOMAIN Gone = {1}
      BY <2>2
    <2>4. Formed(Gone) /\ Counted(Gone) /\ ~EndsIn(Gone, "filehead")
      BY <2>2, <2>3 DEF Formed, Counted, EndsIn
    <2>5. ASSUME NEW d \in Conns PROVE ConnForm(d)'
      <3>1. CASE d = c
        BY <1>1, <2>1, <2>4, <3>1 DEF ConnForm, Destroying, Processing
      <3>2. CASE d # c
        <4>1. ConnForm(d) /\ pc'[d] = pc[d] /\ sent'[d] = sent[d]
          BY <1>1, <2>1, <3>2 DEF FormInv
        <4> QED BY <2>1, <4>1 DEF ConnForm
      <3> QED BY <3>1, <3>2
    <2>6. ASSUME NEW a \in receivers' PROVE ReceiverForm(a)'
      <3>1. a \in receivers /\ heap[a].conn # c
        BY <1>3, <2>1
      <3>2. sent'[heap[a].conn] = sent[heap[a].conn]
        BY <1>1, <2>1, <3>1, ReceiverHolds
      <3> QED BY <2>1, <3>1, <3>2 DEF FormInv, ReceiverForm, NextFrame, captureVars
    <2>7. sent' \in [Conns -> Seq(Items)]
      BY <1>1, <2>1, <2>2
    <2> QED BY <2>5, <2>6, <2>7 DEF FormInv
  <1> QED BY <1>4, <1>5, <1>6, <1>7, <1>8, <1>9, <1>10, <1>11, <1>12, <1>13 DEF Worker

\* Notify leaves a frame out or sends it.
LEMMA NotifyForm ==
  ASSUME ServerInv, FormInv, NEW a \in todo, Notify(a)
  PROVE  FormInv'
  <1> DEFINE c == heap[a].conn
             s == sent[c]
             x == Item("part", frame)
  <1>1. /\ sent \in [Conns -> Seq(Items)] /\ heap \in [Addr -> Processor]
        /\ a \in receivers /\ receivers \subseteq Addr /\ frame \in Nat
        /\ \A d \in Conns : ConnForm(d)
        /\ \A b \in receivers : ReceiverForm(b)
    BY ServerAssumption DEF FormInv, ServerInv, TypeOK, ReceiverInv
  <1>2. /\ heap[a].skip \in Int /\ heap[a].skipped \in Int
        /\ heap[a].skipped \in 0..Skipped(heap[a].skip)
        /\ Shows(s, heap[a].skip, heap[a].skipped, frame)
    BY <1>1 DEF ReceiverForm, NextFrame, Processor
  <1>3. /\ c \in Conns /\ s \in Seq(Items)
        /\ pc[c] \notin Processing \cup {"closed", "gone"}
        /\ \A b \in receivers : heap[b].conn = c => b = a
    BY <1>1, ReceiverHolds
  <1>4. /\ UNCHANGED <<receivers, frame, pc, httpProcessor>>
        /\ todo' = todo \ {a}
    BY DEF Notify, routerVars
  <1>5. ASSUME NEW b \in receivers, b # a
        PROVE  ReceiverForm(b) /\ heap[b].conn \in Conns /\ heap[b].conn # c /\ NextFrame(b)' = NextFrame(b)
    BY <1>1, <1>3, <1>4, <1>5, ReceiverHolds DEF NextFrame
  <1>6. NextFrame(a)' = frame + 1
    BY <1>4 DEF NextFrame
  <1>7. \A d \in Conns : pc[d] \in Destroying \cup Processing => httpProcessor[d] # a
    BY <1>1 DEF ConnForm
  <1>8. CASE SkipsFrame(heap[a])
    <2>1. heap' = [heap EXCEPT ![a].skipped = @ + 1] /\ sent' = sent
      BY <1>8 DEF Notify
    <2>2. /\ heap'[a].skipped = heap[a].skipped + 1 /\ heap'[a].skip = heap[a].skip
          /\ heap'[a].conn = c
          /\ \A b \in Addr : b # a => heap'[b] = heap[b]
      BY <1>1, <2>1 DEF Processor
    <2>3. heap[a].skipped + 1 \in 0..Skipped(heap[a].skip)
      BY <1>2, <1>8 DEF SkipsFrame, Skipped
    <2>4. Shows(s, heap[a].skip, heap[a].skipped + 1, frame + 1)
      BY <1>1, <1>2, <1>3, ShowsAfterSkip
    <2>5. ReceiverForm(a)'
      BY <1>6, <2>1, <2>2, <2>3, <2>4 DEF ReceiverForm
    <2>6. ASSUME NEW b \in receivers, b # a PROVE ReceiverForm(b)'
      BY <1>1, <1>5, <2>1, <2>2, <2>6 DEF ReceiverForm
    <2>7. ASSUME NEW d \in Conns PROVE ConnForm(d)'
      <3>1. ConnForm(d) /\ (pc[d] \in Destroying \cup Processing /\ httpProcessor[d] # Null =>
              heap'[httpProcessor[d]] = heap[httpProcessor[d]])
        BY <1>1, <1>7, <2>2 DEF ServerInv, TypeOK
      <3>2. pc[d] = "subscribe" => pc[d] \in Processing /\ httpProcessor[d] # Null
        BY DEF ServerInv, WorkerInv, Processing
      <3> QED BY <1>4, <2>1, <3>1, <3>2 DEF ConnForm
    <2> QED BY <1>1, <1>4, <2>1, <2>5, <2>6, <2>7 DEF FormInv
  <1>9. CASE ~SkipsFrame(heap[a])
    <2>1. heap' = [heap EXCEPT ![a].skipped = 0] /\ Send(c, x)
      BY <1>9 DEF Notify
    <2>2. /\ heap'[a].skipped = 0 /\ heap'[a].skip = heap[a].skip
          /\ heap'[a].conn = c
          /\ \A b \in Addr : b # a => heap'[b] = heap[b]
      BY <1>1, <2>1 DEF Processor
    <2>3. /\ sent' = [sent EXCEPT ![c] = Append(s, x)] /\ sent'[c] = Append(s, x)
          /\ \A d \in Conns : d # c => sent'[d] = sent[d]
      BY <1>1, <1>3, <2>1 DEF Send
    <2>4. x \in Items /\ x.type = "part" /\ x.n = frame
      BY <1>1 DEF Item, Items, ItemType
    <2>5. heap[a].skipped = Skipped(heap[a].skip) /\ 0 \in 0..Skipped(heap[a].skip)
      BY <1>2, <1>9 DEF SkipsFrame, Skipped
    <2> HIDE DEF x
    <2>6. Shows(Append(s, x), heap[a].skip, 0, frame + 1)
      BY <1>2, <1>3, <2>4, ShowsAfterPart
    <2>7. ReceiverForm(a)'
      BY <1>6, <2>2, <2>3, <2>5, <2>6 DEF ReceiverForm
    <2>8. ASSUME NEW b \in receivers, b # a PROVE ReceiverForm(b)'
      BY <1>1, <1>5, <2>2, <2>3, <2>8 DEF ReceiverForm
    <2>9. /\ Formed(s) /\ Counted(s) /\ ~EndsIn(s, "filehead")
      BY <1>1, <1>3 DEF ConnForm, Processing
    <2>10. Formed(Append(s, x)) /\ Counted(Append(s, x)) /\ ~EndsIn(Append(s, x), "filehead")
      <3>1. \E h \in 1..Len(s) :
              /\ s[h].type = "header"
              /\ \A k \in (h + 1)..Len(s) : s[k].type \in {"part", "notfound"}
        BY <1>2 DEF Shows
      <3>2. Formed(Append(s, x))
        BY <1>3, <2>4, <2>9, <3>1, FormedNext
      <3>3. Counted(Append(s, x))
        BY <1>2, <1>3, <2>4, <2>5, <2>9, CountedNext
      <3>4. ~EndsIn(Append(s, x), "filehead")
        BY <1>3, <2>4, Appended DEF EndsIn
      <3> QED BY <3>2, <3>3, <3>4
    <2>11. ASSUME NEW d \in Conns PROVE ConnForm(d)'
      <3>1. ConnForm(d) /\ (pc[d] \in Destroying \cup Processing /\ httpProcessor[d] # Null =>
              heap'[httpProcessor[d]] = heap[httpProcessor[d]])
        BY <1>1, <1>7, <2>2 DEF ServerInv, TypeOK
      <3>2. pc[d] = "subscribe" => pc[d] \in Processing /\ httpProcessor[d] # Null
        BY DEF ServerInv, WorkerInv, Processing
      <3>3. CASE d = c
        BY <1>3, <1>4, <2>3, <2>10, <3>1, <3>3 DEF ConnForm, Processing
      <3>4. CASE d # c
        <4>1. sent'[d] = sent[d]
          BY <2>3, <3>4
        <4> QED BY <1>4, <3>1, <3>2, <4>1 DEF ConnForm
      <3> QED BY <3>3, <3>4
    <2>12. sent' \in [Conns -> Seq(Items)]
      BY <1>1, <1>3, <2>3, <2>4, Appended
    <2> QED BY <1>1, <1>4, <2>7, <2>8, <2>11, <2>12 DEF FormInv
  <1> QED BY <1>8, <1>9

\* A new frame is the next one of every receiver.
LEMMA CapturerForm ==
  ASSUME ServerInv, FormInv, Capturer
  PROVE  FormInv'
  <1>1. ASSUME UNCHANGED <<receivers, heap, routerVars, sent>>,
               \A a \in receivers : NextFrame(a)' = NextFrame(a)
        PROVE  FormInv'
    BY <1>1 DEF FormInv, ConnForm, ReceiverForm, routerVars
  <1>2. CASE Capture
    <2>1. todo = {} /\ todo' = receivers /\ frame' = frame + 1
      BY <1>2 DEF Capture, ServerInv, ReceiverInv
    <2>2. \A a \in receivers : NextFrame(a)' = NextFrame(a)
      BY <2>1 DEF NextFrame
    <2> QED BY <1>1, <1>2, <2>2 DEF Capture
  <1>3. CASE CaptureEnd
    BY <1>1, <1>3 DEF CaptureEnd, NextFrame
  <1> QED BY <1>2, <1>3, NotifyForm DEF Capturer

\* Every step of the server keeps the form of the streams.
LEMMA FormNext == ServerInv /\ FormInv /\ [Next]_vars => FormInv'
  <1> SUFFICES ASSUME ServerInv, FormInv, [Next]_vars PROVE FormInv'
    OBVIOUS
  <1>1. CASE UNCHANGED vars
    BY <1>1 DEF vars, captureVars, routerVars, FormInv, ConnForm, ReceiverForm, NextFrame
  <1> QED BY <1>1, CapturerForm, WorkerForm DEF Next, Exhausted

\* The form of the streams, for every behaviour.
THEOREM FormInvariant == Spec => []FormInv
  BY ServerInvariant, FormInit, FormNext, PTL DEF Spec

\* Whatever interleaves, a client reads a sequence of responses: parts
\* follow the header of their stream, and a file's body follows its head
\* although the distributer writes to the same sender.
THEOREM StreamsAreFormed == Spec => []StreamsWellFormed
  <1>1. FormInv => StreamsWellFormed
    <2> SUFFICES ASSUME FormInv, NEW c \in Conns, NEW i \in DOMAIN sent[c]
                 PROVE  LET s == sent[c]
                            before == Response(s, i)
                        IN /\ s[i].type = "part" =>
                                \E j \in before : s[j].type = "header" /\ \A k \in before : k <= j
                           /\ s[i].type = "filebody" => i > 1 /\ s[i - 1].type = "filehead"
                           /\ s[i].type = "filehead" /\ i < Len(s) => s[i + 1].type = "filebody"
      BY DEF StreamsWellFormed
    <2>1. Formed(sent[c])
      BY DEF FormInv, ConnForm
    <2> QED BY <2>1 DEF Formed
  <1> QED BY <1>1, FormInvariant, PTL

\* Within one stream the frames shown are as far apart as the client asked
\* for, whatever requests and frames come in between.
THEOREM SkipsAreExact == Spec => []SkipsExactly
  <1>1. FormInv => SkipsExactly
    <2> SUFFICES ASSUME FormInv, NEW c \in Conns PROVE Counted(sent[c])
      BY DEF SkipsExactly, Counted, Skipped
    <2> QED BY DEF FormInv, ConnForm
  <1> QED BY <1>1, FormInvariant, PTL

-----------------------------------------------------------------------------
(* Encoded streams: ServerInv for the processors and connections,          *)
(* and, for the streams, the parts below.                                  *)

Element == 1..MaxFrames \cup {Sentinel}

StreamTypeOK ==
  /\ streams \in Nat
  /\ gen \in [Addr -> Nat]
  /\ inside \in Nat
  /\ thread \in [Stream -> {"none", "run", "wait", "work", "done"}]
  /\ queue \in [Stream -> Seq(Element)]
  /\ pushed \in [Stream -> Seq(Element)]
  /\ popped \in [Stream -> Seq(Element)]

\* Every stream was asked for: the requests are enough for those created and
\* those that are about to be.
Creating == {c \in Conns : pc[c] = "create"}

CountInv == IsFiniteSet(Creating) /\ streams + Cardinality(Creating) <= requests

\* Streams are told apart by their number; one yet to be created has no
\* thread.
GenInv ==
  /\ \A a \in Addr : gen[a] \in 0..streams /\ (heap[a].kind = "stream" => gen[a] # 0)
  /\ \A a, b \in Addr : gen[a] # 0 /\ gen[a] = gen[b] => a = b
  /\ \A g \in Stream : g > streams => thread[g] = "none" /\ pushed[g] = <<>>

\* The capturer is inside a receiver it still serves.
InsideInv ==
  inside # 0 => \E a \in todo : heap[a].kind = "stream" /\ gen[a] = inside

\* A thread ends before its processor does.
Late == {"notify", "unsubscribe", "join", "flush"}

ThreadInv ==
  /\ \A g \in Stream : thread[g] \notin {"none", "done"} => Live(g)
  /\ \A c \in Conns : pc[c] \in Late =>
       old[c] # Null /\ heap[old[c]].kind = "stream"
  /\ \A c \in Conns :
       pc[c] \in {"flush", "delete"} /\ OldKind(c) = "stream" => thread[Old(c)] = "done"

\* A stream is pushed each frame once, and one sentinel.
Closed(a) == \E c \in Conns : old[c] = a /\ pc[c] \in Destroying \ {"destroy"}
Ended(a) == IF Closed(a) THEN 1 ELSE 0
Due(a) == IF a \in todo /\ inside # gen[a] THEN 1 ELSE 0

PushInv ==
  /\ notifying => frame \in 1..MaxFrames
  /\ \A a \in Addr : heap[a].kind = "stream" =>
       Len(pushed[gen[a]]) + Due(a)
         <= frame + Ended(a)

StreamInv ==
  /\ ServerInv /\ StreamTypeOK
  /\ CountInv /\ GenInv /\ InsideInv /\ ThreadInv /\ PushInv
-----------------------------------------------------------------------------
\* The invariant holds before the first request.
LEMMA StreamInitial == StreamInit => StreamInv
  <1> SUFFICES ASSUME StreamInit PROVE StreamInv
    OBVIOUS
  <1>1. ServerInv
    BY ServerInit DEF StreamInit
  <1>2. StreamTypeOK
    BY EmptySeq DEF StreamInit, StreamTypeOK
  <1>3. CountInv
    <2>1. Creating = {} /\ streams = 0 /\ requests = 0
      BY DEF Creating, StreamInit, Init
    <2> QED BY <2>1, FS_EmptySet DEF CountInv
  <1>4. GenInv /\ InsideInv
    BY DEF StreamInit, GenInv, InsideInv, Init, Free
  <1>5. ThreadInv
    BY DEF StreamInit, ThreadInv, Init, OldKind, Late
  <1>6. PushInv
    BY DEF StreamInit, PushInv, Init, Free
  <1> QED BY <1>1, <1>2, <1>3, <1>4, <1>5, <1>6 DEF StreamInv

\* The number of a live stream is one that a request stands for.
LEMMA StreamNumbers ==
  ASSUME StreamInv
  PROVE  /\ streams <= MaxRequests
         /\ \A a \in Addr : heap[a].kind = "stream" =>
              gen[a] \in Stream /\ gen[a] <= streams /\ gen[a] # 0
         /\ todo \subseteq Addr /\ receivers \subseteq Addr
  <1>1. Cardinality(Creating) \in Nat /\ requests \in 0..MaxRequests /\ streams \in Nat
    BY FS_CardinalityType DEF StreamInv, CountInv, ServerInv, TypeOK, StreamTypeOK
  <1>2. streams <= MaxRequests
    BY <1>1, ServerAssumption DEF StreamInv, CountInv
  <1>3. todo \subseteq Addr /\ receivers \subseteq Addr
    BY DEF StreamInv, ServerInv, TypeOK, ReceiverInv
  <1> QED BY <1>1, <1>2, <1>3, ServerAssumption DEF StreamInv, GenInv, Stream

-----------------------------------------------------------------------------
\* A thread that runs goes on running or ends; no other changes.
ThreadsAdvance ==
  /\ thread' \in [Stream -> {"none", "run", "wait", "work", "done"}]
  /\ \A g \in Stream : thread'[g] # thread[g] =>
       thread[g] \notin {"none", "done"} /\ thread'[g] # "none"

\* A worker moves on without entering or leaving the creation of a processor,
\* nor, if the old one is a stream, the part of the destructor that follows
\* the sentinel; it goes past the join only when the thread has ended.
MovesOn(c) ==
  /\ pc[c] # "create" /\ pc'[c] # "create"
  /\ pc'[c] \in Late => pc[c] \in Late
  /\ old[c] # Null /\ heap[old[c]].kind = "stream" =>
       /\ pc[c] \in Destroying \ {"destroy"} <=> pc'[c] \in Destroying \ {"destroy"}
       /\ pc'[c] \in {"flush", "delete"} => thread'[Old(c)] = "done"

SameKinds == \A a \in Addr : heap'[a].kind = heap[a].kind

\* The steps between two changes of what streams there are and what they were
\* pushed.
LEMMA QuietKeeps ==
  ASSUME StreamInv, ServerInv', UNCHANGED <<captureVars, old, requests>>,
         UNCHANGED <<streams, gen, inside, pushed>>,
         queue' \in [Stream -> Seq(Element)], popped' \in [Stream -> Seq(Element)],
         SameKinds, ThreadsAdvance,
         \A c \in Conns : pc'[c] = pc[c] \/ MovesOn(c)
  PROVE  StreamInv'
  <1> USE ServerAssumption DEF StreamInv, captureVars, SameKinds, ThreadsAdvance
  <1>1. StreamTypeOK'
    BY DEF StreamTypeOK
  <1>2. CountInv'
    <2>1. Creating' = Creating
      BY DEF Creating, MovesOn
    <2> QED BY <2>1 DEF CountInv
  <1>3. GenInv'
    BY DEF GenInv
  <1>4. InsideInv'
    BY StreamNumbers DEF InsideInv
  <1>5. ThreadInv'
    <2>1. ASSUME NEW g \in Stream, thread'[g] \notin {"none", "done"} PROVE Live(g)'
      <3>1. PICK a \in Addr : heap[a].kind = "stream" /\ gen[a] = g
        BY <2>1 DEF ThreadInv, Live
      <3> QED BY <3>1 DEF Live
    <2>2. ASSUME NEW c \in Conns, pc'[c] \in Late PROVE old[c] # Null /\ heap'[old[c]].kind = "stream"
      BY <2>2 DEF ThreadInv, MovesOn, ServerInv, TypeOK
    <2>3. ASSUME NEW c \in Conns, pc'[c] \in {"flush", "delete"}, OldKind(c)' = "stream"
          PROVE  thread'[Old(c)] = "done"
      <3>1. old[c] \in Addr /\ OldKind(c) = "stream" /\ heap[old[c]].kind = "stream" /\ old[c] # Null
        BY <2>3 DEF OldKind, ServerInv, TypeOK
      <3>2. Old(c) \in Stream
        BY <3>1, StreamNumbers DEF Old
      <3> QED BY <2>3, <3>1, <3>2 DEF MovesOn, ThreadInv
    <2> QED BY <2>1, <2>2, <2>3 DEF ThreadInv, Old
  <1>6. PushInv'
    <2>1. ASSUME NEW a \in Addr, heap[a].kind = "stream" PROVE Closed(a)' <=> Closed(a)
      BY <2>1 DEF Closed, MovesOn
    <2> QED BY <2>1 DEF PushInv, Due, Ended
  <1> QED BY <1>1, <1>2, <1>3, <1>4, <1>5, <1>6

\* A request is counted before its processor is.
LEMMA ReceiveKeepsStreams ==
  ASSUME StreamInv, ServerInv', NEW c \in Conns, NEW r, Receive(c, r), UNCHANGED streamVars
  PROVE  StreamInv'
  <1> USE DEF StreamInv, Receive, captureVars, streamVars, Goto
  <1>1. StreamTypeOK'
    BY DEF StreamTypeOK
  <1>2. CountInv'
    <2>1. Creating' = Creating \/ Creating' = Creating \cup {c}
      BY DEF Creating, ServerInv, TypeOK
    <2>2. /\ Cardinality(Creating) \in Nat /\ IsFiniteSet(Creating')
          /\ Cardinality(Creating') <= Cardinality(Creating) + 1
      <3>1. IsFiniteSet(Creating) /\ Cardinality(Creating) \in Nat
        BY FS_CardinalityType DEF CountInv
      <3>2. /\ IsFiniteSet(Creating \cup {c})
            /\ Cardinality(Creating \cup {c}) \in {Cardinality(Creating), Cardinality(Creating) + 1}
        BY <3>1, FS_AddElement
      <3> QED BY <2>1, <3>1, <3>2
    <2>3. requests \in Nat /\ streams \in Nat /\ Cardinality(Creating') \in Nat
      BY <2>2, FS_CardinalityType DEF ServerInv, TypeOK, StreamTypeOK
    <2> QED BY <2>2, <2>3 DEF CountInv
  <1>3. GenInv' /\ InsideInv'
    BY DEF GenInv, InsideInv
  <1>4. ThreadInv'
    BY DEF ThreadInv, Live, Late, ServerInv, WorkerInv, Destroying, TypeOK, OldKind, Old
  <1>5. PushInv'
    <2>1. ASSUME NEW a \in Addr PROVE Closed(a)' <=> Closed(a)
      BY DEF Closed, Destroying, ServerInv, TypeOK
    <2> QED BY <2>1 DEF PushInv, Due, Ended
  <1> QED BY <1>1, <1>2, <1>3, <1>4, <1>5

\* What a new processor replaces, or a closing connection gives up, is not
\* closed yet: its destructor comes next.
LEMMA ReplaceKeepsStreams ==
  ASSUME StreamInv, ServerInv', NEW c \in Conns,
         Closing(c) \/ \E a \in Addr : Create(c, a) /\ request[c].kind # "stream",
         UNCHANGED streamVars
  PROVE  StreamInv'
  <1> USE DEF StreamInv, captureVars, streamVars, Goto
  <1>1. /\ pc' = [pc EXCEPT ![c] = "destroy"] /\ old' = [old EXCEPT ![c] = httpProcessor[c]]
        /\ pc[c] \in {"idle", "create"} /\ old[c] = Null
        /\ UNCHANGED <<receivers, notifying, todo, frame, requests>>
    BY DEF Closing, Create, ServerInv, WorkerInv, Destroying
  <1>2. \A b \in Addr : heap'[b].kind = "stream" <=> heap[b].kind = "stream"
    BY DEF Closing, Create, Free, NewProcessor, ServerInv, TypeOK
  <1>3. \A b \in Addr : heap[b].kind # "free" => heap'[b] = heap[b]
    BY DEF Closing, Create, Free, ServerInv, TypeOK
  <1>4. StreamTypeOK'
    BY DEF StreamTypeOK
  <1>5. CountInv'
    <2>1. Creating' = Creating \ {c}
      BY <1>1 DEF Creating, ServerInv, TypeOK
    <2>2. /\ Cardinality(Creating) \in Nat /\ IsFiniteSet(Creating')
          /\ Cardinality(Creating') <= Cardinality(Creating) /\ Cardinality(Creating') \in Nat
      <3>1. IsFiniteSet(Creating) /\ Cardinality(Creating) \in Nat
        BY FS_CardinalityType DEF CountInv
      <3>2. /\ IsFiniteSet(Creating \ {c})
            /\ Cardinality(Creating \ {c}) \in {Cardinality(Creating), Cardinality(Creating) - 1}
        BY <3>1, FS_RemoveElement
      <3>3. Cardinality(Creating \ {c}) \in Nat
        BY <3>2, FS_CardinalityType
      <3> QED BY <2>1, <3>1, <3>2, <3>3
    <2>3. requests \in Nat /\ streams \in Nat
      BY DEF ServerInv, TypeOK, StreamTypeOK
    <2> QED BY <1>1, <2>2, <2>3 DEF CountInv
  <1>6. GenInv' /\ InsideInv'
    BY <1>1, <1>2, StreamNumbers DEF GenInv, InsideInv
  <1>7. ThreadInv'
    <2>1. ASSUME NEW g \in Stream, thread[g] \notin {"none", "done"} PROVE Live(g)'
      <3>1. PICK b \in Addr : heap[b].kind = "stream" /\ gen[b] = g
        BY <2>1 DEF ThreadInv, Live
      <3> QED BY <1>2, <3>1 DEF Live
    <2>2. ASSUME NEW d \in Conns, d # c
          PROVE  pc'[d] = pc[d] /\ old'[d] = old[d] /\ (old[d] # Null => heap'[old[d]] = heap[old[d]])
      BY <1>1, <1>3, <2>2 DEF ServerInv, OwnInv, TypeOK
    <2>3. pc'[c] = "destroy"
      BY <1>1 DEF ServerInv, TypeOK
    <2> QED BY <2>1, <2>2, <2>3 DEF ThreadInv, Late, OldKind, Old
  <1>8. PushInv'
    <2>1. ASSUME NEW b \in Addr PROVE Closed(b)' <=> Closed(b)
      BY <1>1, ServerAssumption DEF Closed, Destroying, ServerInv, TypeOK
    <2> QED BY <1>1, <1>2, <2>1 DEF PushInv, Due, Ended
  <1> QED BY <1>4, <1>5, <1>6, <1>7, <1>8

\* A new stream has the next number, which no other has and no thread ran
\* under, and its address is free.
LEMMA CreateStreamKeeps ==
  ASSUME StreamInv, ServerInv', NEW c \in Conns, NEW a \in Addr, CreateStream(c, a)
  PROVE  StreamInv'
  <1> USE DEF StreamInv
  <1>1. /\ pc' = [pc EXCEPT ![c] = "destroy"] /\ old' = [old EXCEPT ![c] = httpProcessor[c]]
        /\ pc[c] = "create" /\ old[c] = Null /\ heap[a].kind = "free"
        /\ UNCHANGED <<receivers, notifying, todo, frame, requests, inside, queue, pushed, popped>>
        /\ streams' = streams + 1 /\ gen' = [gen EXCEPT ![a] = streams']
        /\ thread' = [thread EXCEPT ![streams'] = "run"]
    BY DEF CreateStream, Create, ServerInv, WorkerInv, Destroying, Goto, captureVars, Free
  <1>2. heap'[a].kind = "stream" /\ \A b \in Addr : b # a => heap'[b] = heap[b]
    BY DEF CreateStream, Create, ServerInv, TypeOK, NewProcessor
  <1>3. CountInv' /\ streams' \in Stream /\ streams \in Nat
    <2>1. Creating' = Creating \ {c} /\ c \in Creating
      BY <1>1 DEF Creating, ServerInv, TypeOK
    <2>2. IsFiniteSet(Creating) /\ Cardinality(Creating) \in Nat
      BY FS_CardinalityType DEF CountInv
    <2>3. /\ IsFiniteSet(Creating \ {c})
          /\ Cardinality(Creating \ {c}) = Cardinality(Creating) - 1
      BY <2>1, <2>2, FS_RemoveElement
    <2>4. Cardinality(Creating \ {c}) \in Nat
      BY <2>3, FS_CardinalityType
    <2>5. requests \in 0..MaxRequests /\ streams \in Nat
      BY DEF ServerInv, TypeOK, StreamTypeOK
    <2> QED BY <1>1, <2>1, <2>2, <2>3, <2>4, <2>5, ServerAssumption DEF CountInv, Stream
  <1>4. StreamTypeOK'
    BY <1>1, <1>3 DEF StreamTypeOK
  <1>5. ASSUME NEW b \in Addr, b # a
        PROVE  heap'[b] = heap[b] /\ gen'[b] = gen[b] /\ gen[b] \in 0..streams
    BY <1>1, <1>2, <1>5 DEF GenInv, StreamTypeOK
  <1>6. gen'[a] = streams + 1 /\ thread[streams + 1] = "none" /\ pushed[streams + 1] = <<>>
    BY <1>1, <1>3 DEF GenInv, StreamTypeOK
  <1>7. \A g \in Stream : g # streams + 1 => thread'[g] = thread[g]
    BY <1>1 DEF StreamTypeOK
  <1>8. GenInv'
    <2>1. \A b \in Addr : gen'[b] \in 0..streams' /\ (heap'[b].kind = "stream" => gen'[b] # 0)
      BY <1>1, <1>3, <1>5, <1>6 DEF GenInv
    <2>2. ASSUME NEW b \in Addr, NEW d \in Addr, gen'[b] # 0, gen'[b] = gen'[d]
          PROVE  b = d
      <3>1. CASE b = a \/ d = a
        BY <1>3, <1>5, <1>6, <2>2, <3>1
      <3>2. CASE b # a /\ d # a
        BY <1>5, <2>2, <3>2 DEF GenInv
      <3> QED BY <3>1, <3>2
    <2>3. \A g \in Stream : g > streams' => thread'[g] = "none" /\ pushed'[g] = <<>>
      BY <1>1, <1>3, <1>7 DEF GenInv, Stream
    <2> QED BY <2>1, <2>2, <2>3 DEF GenInv
  <1>9. InsideInv'
    <2>1. SUFFICES ASSUME inside # 0 PROVE \E b \in todo : heap'[b].kind = "stream" /\ gen'[b] = inside
      BY <1>1 DEF InsideInv
    <2>2. PICK b \in todo : heap[b].kind = "stream" /\ gen[b] = inside
      BY <2>1 DEF InsideInv
    <2> QED BY <1>1, <1>2, <2>2, StreamNumbers DEF StreamTypeOK
  <1>10. ThreadInv'
    <2>1. ASSUME NEW g \in Stream, thread'[g] \notin {"none", "done"} PROVE Live(g)'
      <3>1. CASE g = streams + 1
        BY <1>2, <1>6, <3>1 DEF Live
      <3>2. CASE g # streams + 1
        <4>1. PICK b \in Addr : heap[b].kind = "stream" /\ gen[b] = g
          BY <1>7, <2>1, <3>2 DEF ThreadInv, Live
        <4> QED BY <1>1, <1>2, <4>1 DEF Live, StreamTypeOK
      <3> QED BY <3>1, <3>2
    <2>2. ASSUME NEW d \in Conns, d # c, old[d] # Null
          PROVE  /\ pc'[d] = pc[d] /\ old'[d] = old[d] /\ heap'[old[d]] = heap[old[d]]
                 /\ gen'[old[d]] = gen[old[d]] /\ old[d] \in Addr
      BY <1>1, <1>2, <2>2 DEF ServerInv, OwnInv, TypeOK, StreamTypeOK
    <2>3. pc'[c] = "destroy" /\ \A d \in Conns : d # c => pc'[d] = pc[d] /\ old'[d] = old[d]
      BY <1>1 DEF ServerInv, TypeOK
    <2>4. ASSUME NEW d \in Conns, pc'[d] \in Late PROVE old'[d] # Null /\ heap'[old'[d]].kind = "stream"
      BY <2>2, <2>3, <2>4 DEF ThreadInv, Late
    <2>5. ASSUME NEW d \in Conns, pc'[d] \in {"flush", "delete"}, OldKind(d)' = "stream"
          PROVE  thread'[Old(d)'] = "done"
      <3>1. d # c /\ old[d] # Null
        BY <2>3, <2>5 DEF OldKind
      <3>2. OldKind(d) = "stream" /\ Old(d)' = Old(d) /\ pc[d] \in {"flush", "delete"}
        BY <2>2, <2>3, <2>5, <3>1 DEF OldKind, Old
      <3>3. thread[Old(d)] = "done" /\ Old(d) \in Stream
        BY <2>2, <3>1, <3>2, StreamNumbers DEF ThreadInv, Old, OldKind
      <3> QED BY <1>6, <1>7, <3>2, <3>3
    <2> QED BY <2>1, <2>4, <2>5 DEF ThreadInv, Old
  <1>11. PushInv'
    <2>1. ASSUME NEW b \in Addr PROVE Closed(b)' <=> Closed(b)
      BY <1>1, ServerAssumption DEF Closed, Destroying, ServerInv, TypeOK
    <2>2. a \notin todo /\ Len(pushed[streams + 1]) = 0 /\ frame \in Nat
      <3>1. a \notin todo
        BY <1>1 DEF ServerInv, ReceiverInv, Streaming
      <3>2. frame \in Nat
        BY ServerAssumption DEF ServerInv, TypeOK
      <3> QED BY <1>6, <3>1, <3>2, EmptySeq
    <2>3. ASSUME NEW b \in Addr, heap'[b].kind = "stream", b # a
          PROVE  Len(pushed'[gen'[b]]) + Due(b)'
                   <= frame' + Ended(b)'
      BY <1>1, <1>5, <2>1, <2>3 DEF PushInv, Due, Ended
    <2>4. Len(pushed'[gen'[a]]) + Due(a)'
            <= frame' + Ended(a)'
      BY <1>1, <1>6, <2>2 DEF Due, Ended
    <2> QED BY <1>1, <2>3, <2>4 DEF PushInv
  <1> QED BY <1>3, <1>4, <1>8, <1>9, <1>10, <1>11

\* A stream is deleted after its thread was joined, anything else never was
\* in a queue.
LEMMA DeleteKeepsStreams ==
  ASSUME StreamInv, ServerInv', NEW c \in Conns, Delete(c), UNCHANGED streamVars
  PROVE  StreamInv'
  <1> USE DEF StreamInv, streamVars, captureVars
  <1>1. /\ pc' = [pc EXCEPT ![c] = IF request[c] = Close THEN "closed" ELSE "process"]
        /\ old' = [old EXCEPT ![c] = Null]
        /\ pc[c] \in {"delete", "destroy"}
        /\ pc[c] = "destroy" => OldKind(c) # "stream"
        /\ UNCHANGED <<receivers, notifying, todo, frame, requests>>
    BY DEF Delete, Goto, Streaming
  <1>2. /\ \A a \in Addr : a # old[c] => heap'[a] = heap[a]
        /\ \A a \in Addr : a = old[c] => heap'[a].kind = "free"
    BY ServerAssumption DEF Delete, ServerInv, TypeOK, Free
  <1>3. \A a \in Addr : heap'[a].kind = "stream" => a # old[c] /\ heap'[a] = heap[a]
    BY <1>2
  <1>4. old[c] \notin receivers
    BY <1>1 DEF Delete, ServerInv, ReceiverInv, Subscribed, Streaming, OldKind, TypeOK
  <1>5. StreamTypeOK' /\ CountInv'
    <2>1. Creating' = Creating
      BY <1>1 DEF Creating, ServerInv, TypeOK
    <2> QED BY <1>1, <2>1 DEF StreamTypeOK, CountInv
  <1>6. GenInv'
    BY <1>3 DEF GenInv
  <1>7. InsideInv'
    BY <1>1, <1>2, <1>4, StreamNumbers DEF InsideInv, ServerInv, ReceiverInv
  <1>8. ThreadInv'
    <2>1. ASSUME NEW g \in Stream, thread[g] \notin {"none", "done"} PROVE Live(g)'
      <3>1. PICK a \in Addr : heap[a].kind = "stream" /\ gen[a] = g
        BY <2>1 DEF ThreadInv, Live
      <3>2. a # old[c]
        <4>1. SUFFICES ASSUME a = old[c] PROVE FALSE
          OBVIOUS
        <4>2. OldKind(c) = "stream"
          BY <3>1, <4>1, ServerAssumption DEF OldKind
        <4> QED BY <1>1, <2>1, <3>1, <4>1, <4>2 DEF ThreadInv, Old
      <3> QED BY <1>2, <3>1, <3>2 DEF Live
    <2>2. ASSUME NEW d \in Conns, d # c
          PROVE  pc'[d] = pc[d] /\ old'[d] = old[d] /\ (old[d] # Null => heap'[old[d]] = heap[old[d]])
      BY <1>1, <1>2, <2>2 DEF ServerInv, OwnInv, TypeOK
    <2>3. pc'[c] \in {"closed", "process"}
      BY <1>1 DEF ServerInv, TypeOK
    <2> QED BY <2>1, <2>2, <2>3 DEF ThreadInv, Late, OldKind, Old
  <1>9. PushInv'
    <2>1. ASSUME NEW a \in Addr, a # old[c] PROVE Closed(a)' <=> Closed(a)
      BY <1>1, <2>1, ServerAssumption DEF Closed, ServerInv, TypeOK
    <2> QED BY <1>1, <1>3, <2>1 DEF PushInv, Due, Ended
  <1> QED BY <1>5, <1>6, <1>7, <1>8, <1>9

\* The destructor's sentinel: the queue was not closed before, and is from now
\* on.
LEMMA PushSentinelKeeps ==
  ASSUME StreamInv, ServerInv', NEW c \in Conns, PushSentinel(c)
  PROVE  StreamInv'
  <1> USE DEF StreamInv, captureVars
  <1>1. /\ pc' = [pc EXCEPT ![c] = "notify"] /\ pc[c] = "destroy"
        /\ UNCHANGED <<receivers, notifying, todo, frame, requests, heap, old>>
        /\ UNCHANGED <<streams, gen, inside, thread, popped>>
        /\ queue' = [queue EXCEPT ![Old(c)] = Append(@, Sentinel)]
        /\ pushed' = [pushed EXCEPT ![Old(c)] = Append(@, Sentinel)]
    BY DEF PushSentinel, Goto, Push
  <1>2. old[c] \in Addr /\ heap[old[c]].kind = "stream" /\ Old(c) \in Stream /\ old[c] # Null
    BY StreamNumbers DEF PushSentinel, OldKind, Old, ServerInv, TypeOK
  <1>3. /\ Append(queue[Old(c)], Sentinel) \in Seq(Element)
        /\ Append(pushed[Old(c)], Sentinel) \in Seq(Element)
        /\ Len(Append(pushed[Old(c)], Sentinel)) = Len(pushed[Old(c)]) + 1
        /\ Len(pushed[Old(c)]) \in Nat
    <2>1. Sentinel \in Element /\ queue[Old(c)] \in Seq(Element) /\ pushed[Old(c)] \in Seq(Element)
      BY <1>2 DEF StreamTypeOK, Element
    <2> QED BY <2>1, AppendProperties, LenProperties
  <1>4. StreamTypeOK' /\ CountInv'
    <2>1. Creating' = Creating
      BY <1>1 DEF Creating, ServerInv, TypeOK
    <2> QED BY <1>1, <1>2, <1>3, <2>1 DEF StreamTypeOK, CountInv
  <1>5. GenInv' /\ InsideInv'
    <2>1. Old(c) <= streams /\ streams \in Nat
      BY <1>2, StreamNumbers DEF Old, StreamTypeOK
    <2> QED BY <1>1, <1>2, <2>1 DEF GenInv, InsideInv, StreamTypeOK, Stream
  <1>6. ThreadInv'
    BY <1>1, <1>2 DEF ThreadInv, Live, Late, OldKind, Old, ServerInv, TypeOK
  <1>7. PushInv'
    <2>1. ASSUME NEW a \in Addr, a # old[c] PROVE Closed(a)' <=> Closed(a)
      BY <1>1, <2>1 DEF Closed, ServerInv, TypeOK
    <2>2. ASSUME NEW a \in Addr, a = old[c] PROVE ~Closed(a) /\ Closed(a)' /\ gen[a] = Old(c)
      <3>1. \A d \in Conns : old[d] = a => d = c
        BY <1>2, <2>2 DEF ServerInv, OwnInv
      <3>2. pc'[c] \in Destroying \ {"destroy"} /\ pc[c] \notin Destroying \ {"destroy"}
        BY <1>1 DEF ServerInv, TypeOK, Destroying
      <3> QED BY <1>1, <2>2, <3>1, <3>2 DEF Closed, Old
    <2>3. ASSUME NEW a \in Addr, heap[a].kind = "stream", a # old[c]
          PROVE  pushed'[gen[a]] = pushed[gen[a]]
      BY <1>1, <1>2, <2>3 DEF GenInv, Old, StreamTypeOK
    <2>4. pushed'[Old(c)] = Append(pushed[Old(c)], Sentinel) /\ frame \in Nat
      BY <1>1, <1>2, ServerAssumption DEF StreamTypeOK, ServerInv, TypeOK
    <2>5. ASSUME NEW a \in Addr, heap[a].kind = "stream"
          PROVE  Len(pushed'[gen[a]]) + Due(a)
                   <= frame + Ended(a)'
      <3>1. CASE a = old[c]
        <4>1. ~Closed(a) /\ Closed(a)' /\ gen[a] = Old(c)
          BY <2>2, <3>1
        <4>2. Len(pushed[gen[a]]) + Due(a) <= frame
          <5>1. Len(pushed[gen[a]]) + Due(a) <= frame + Ended(a)
            BY <2>5 DEF PushInv
          <5>2. Ended(a) = 0
            BY <4>1 DEF Ended
          <5> QED BY <5>1, <5>2, <2>4
        <4>3. Len(pushed'[gen[a]]) = Len(pushed[gen[a]]) + 1 /\ Len(pushed[gen[a]]) \in Nat
          BY <1>3, <2>4, <4>1
        <4>4. Ended(a)' = 1 /\ Due(a) \in Int
          BY <4>1 DEF Ended, Due
        <4> QED BY <2>4, <4>2, <4>3, <4>4
      <3>2. CASE a # old[c]
        BY <2>1, <2>3, <2>5, <3>2 DEF PushInv, Ended
      <3> QED BY <3>1, <3>2
    <2> QED BY <1>1, <2>5 DEF PushInv, Due, Ended
  <1> QED BY <1>4, <1>5, <1>6, <1>7

-----------------------------------------------------------------------------
\* The capturer outside any Push: a frame that is captured is due to all the
\* receivers there are.
LEMMA CapturerKeepsStreams ==
  ASSUME StreamInv, ServerInv', Capturer, inside = 0, UNCHANGED streamVars
  PROVE  StreamInv'
  <1> USE DEF StreamInv, streamVars
  <1>1. UNCHANGED <<receivers, old, pc, requests>> /\ SameKinds
    <2>1. \A a \in todo : heap[a].skipped \in Int /\ a \in Addr
      BY StreamNumbers DEF ServerInv, TypeOK, Processor
    <2> QED BY <2>1 DEF Capturer, Capture, Notify, CaptureEnd, routerVars, SameKinds, ServerInv,
                        TypeOK, Processor
  <1>2. StreamTypeOK' /\ CountInv' /\ GenInv' /\ InsideInv'
    <2>1. Creating' = Creating
      BY <1>1 DEF Creating
    <2> QED BY <1>1, <2>1 DEF StreamTypeOK, CountInv, GenInv, InsideInv, SameKinds
  <1>3. ThreadInv'
    <2>1. ASSUME NEW g \in Stream, Live(g) PROVE Live(g)'
      BY <1>1, <2>1 DEF Live, SameKinds
    <2>2. \A c \in Conns : old[c] # Null => OldKind(c)' = OldKind(c) /\ heap'[old[c]].kind = heap[old[c]].kind
      BY <1>1 DEF SameKinds, OldKind, ServerInv, TypeOK
    <2>3. \A c \in Conns : old[c] = Null => OldKind(c)' # "stream"
      BY <1>1 DEF OldKind
    <2> QED BY <1>1, <2>1, <2>2, <2>3 DEF ThreadInv, Old
  <1>4. PushInv'
    <2>1. \A a \in Addr : Ended(a)' = Ended(a) /\ Ended(a) \in {0, 1}
      BY <1>1 DEF Ended, Closed
    <2>2. \A a \in Addr : heap[a].kind = "stream" => Len(pushed[gen[a]]) \in Nat
      BY StreamNumbers, LenProperties DEF StreamTypeOK
    <2>3. frame \in 0..MaxFrames /\ MaxFrames \in Nat
      BY ServerAssumption DEF ServerInv, TypeOK
    <2>4. /\ notifying' => frame' \in 1..MaxFrames
          /\ \A a \in Addr : frame + Due(a)' <= frame' + Due(a) /\ Due(a) \in {0, 1} /\ Due(a)' \in {0, 1}
          /\ frame' \in Int
      <3>1. CASE Capture
        BY <2>3, <3>1 DEF Capture, Due
      <3>2. CASE \E a \in todo : Notify(a)
        BY <2>3, <3>2 DEF Notify, Due, PushInv
      <3>3. CASE CaptureEnd
        BY <2>3, <3>3 DEF CaptureEnd, Due
      <3> QED BY <3>1, <3>2, <3>3 DEF Capturer
    <2> QED BY <1>1, <2>1, <2>2, <2>3, <2>4 DEF PushInv, SameKinds
  <1> QED BY <1>2, <1>3, <1>4

\* Notify pushes the frame to a stream it is still due to,
LEMMA NotifyStreamKeeps ==
  ASSUME StreamInv, ServerInv', NEW a \in todo, NotifyStream(a)
  PROVE  StreamInv'
  <1> USE DEF StreamInv
  <1>1. /\ notifying /\ inside = 0 /\ heap[a].kind = "stream" /\ inside' = gen[a]
        /\ UNCHANGED <<receivers, notifying, todo, frame, requests, heap, old, pc>>
        /\ UNCHANGED <<streams, gen, thread, popped>>
        /\ queue' = [queue EXCEPT ![gen[a]] = Append(@, frame)]
        /\ pushed' = [pushed EXCEPT ![gen[a]] = Append(@, frame)]
    BY DEF NotifyStream, Push, vars, captureVars, routerVars
  <1>2. /\ a \in Addr /\ gen[a] \in Stream /\ gen[a] \in Nat /\ gen[a] # 0
        /\ gen[a] <= streams /\ streams \in Nat
    BY <1>1, StreamNumbers DEF StreamTypeOK
  <1>3. /\ Append(queue[gen[a]], frame) \in Seq(Element)
        /\ Append(pushed[gen[a]], frame) \in Seq(Element)
        /\ Len(Append(pushed[gen[a]], frame)) = Len(pushed[gen[a]]) + 1
        /\ Len(pushed[gen[a]]) \in Nat
    <2>1. frame \in Element /\ queue[gen[a]] \in Seq(Element) /\ pushed[gen[a]] \in Seq(Element)
      BY <1>1, <1>2 DEF StreamTypeOK, Element, PushInv
    <2> QED BY <2>1, AppendProperties, LenProperties
  <1>4. StreamTypeOK' /\ CountInv'
    <2>1. Creating' = Creating
      BY <1>1 DEF Creating
    <2> QED BY <1>1, <1>2, <1>3, <2>1 DEF StreamTypeOK, CountInv
  <1>5. GenInv'
    BY <1>1, <1>2 DEF GenInv, StreamTypeOK, Stream
  <1>6. InsideInv' /\ ThreadInv'
    BY <1>1 DEF InsideInv, ThreadInv, Live, OldKind, Old
  <1>7. PushInv'
    <2>1. \A b \in Addr : Ended(b)' = Ended(b) /\ Ended(b) \in {0, 1}
      BY <1>1 DEF Ended, Closed
    <2>2. Due(a) = 1 /\ Due(a)' = 0
      BY <1>1, <1>2 DEF Due
    <2>3. ASSUME NEW b \in Addr, heap[b].kind = "stream", b # a
          PROVE  Due(b)' = Due(b) /\ pushed'[gen[b]] = pushed[gen[b]]
      BY <1>1, <1>2, <2>3 DEF Due, GenInv, StreamTypeOK
    <2>4. pushed'[gen[a]] = Append(pushed[gen[a]], frame) /\ frame \in Nat
      BY <1>1, <1>2 DEF StreamTypeOK, PushInv
    <2>5. ASSUME NEW b \in Addr, heap[b].kind = "stream"
          PROVE  Len(pushed'[gen[b]]) + Due(b)' <= frame + Ended(b)
      <3>1. CASE b = a
        BY <1>1, <1>2, <1>3, <2>1, <2>2, <2>4, <3>1 DEF PushInv
      <3>2. CASE b # a
        BY <2>3, <2>5, <3>2 DEF PushInv
      <3> QED BY <3>1, <3>2
    <2> QED BY <1>1, <2>1, <2>5 DEF PushInv
  <1> QED BY <1>4, <1>5, <1>6, <1>7

\* and lets go of it when it returns.
LEMMA NotifyStreamEndKeeps ==
  ASSUME StreamInv, ServerInv', NEW a \in todo, NotifyStreamEnd(a)
  PROVE  StreamInv'
  <1> USE DEF StreamInv
  <1>1. /\ inside # 0 /\ inside = gen[a] /\ inside' = 0 /\ todo' = todo \ {a}
        /\ UNCHANGED <<receivers, notifying, frame, requests, heap, old, pc>>
        /\ UNCHANGED <<streams, gen, queue, pushed, popped>>
        /\ thread' = [thread EXCEPT ![inside] = IF @ = "wait" THEN "run" ELSE @]
    BY DEF NotifyStreamEnd, Woken, routerVars
  <1>2. heap[a].kind = "stream" /\ a \in Addr
    <2>1. PICK b \in todo : heap[b].kind = "stream" /\ gen[b] = inside
      BY <1>1 DEF InsideInv
    <2>2. a \in Addr /\ b \in Addr
      BY StreamNumbers
    <2> QED BY <1>1, <2>1, <2>2 DEF GenInv
  <1>3. StreamTypeOK' /\ CountInv'
    <2>1. Creating' = Creating
      BY <1>1 DEF Creating
    <2> QED BY <1>1, <2>1 DEF StreamTypeOK, CountInv
  <1>4. GenInv' /\ InsideInv'
    BY <1>1 DEF GenInv, InsideInv, StreamTypeOK, Stream
  <1>5. ThreadInv'
    BY <1>1 DEF ThreadInv, Live, OldKind, Old, StreamTypeOK
  <1>6. PushInv'
    <2>1. \A b \in Addr : Ended(b)' = Ended(b)
      BY <1>1 DEF Ended, Closed
    <2>2. \A b \in Addr : heap[b].kind = "stream" => Due(b)' = Due(b)
      BY <1>1, <1>2 DEF Due, GenInv
    <2> QED BY <1>1, <2>1, <2>2 DEF PushInv
  <1> QED BY <1>3, <1>4, <1>5, <1>6

-----------------------------------------------------------------------------
(* Every step.                                                             *)

\* The connections and processors are those of StreamServer.
LEMMA ServerKept == StreamInv /\ [StreamNext]_allVars => ServerInv'
  <1> SUFFICES ASSUME StreamInv, [StreamNext]_allVars PROVE ServerInv'
    OBVIOUS
  <1>1. ServerInv
    BY DEF StreamInv
  <1>2. ASSUME UNCHANGED vars PROVE ServerInv'
    BY <1>1, <1>2, ServerNext
  <1>3. ASSUME UNCHANGED <<receivers, captureVars, heap, routerVars, requests>> PROVE ServerInv'
    BY <1>1, <1>3 DEF captureVars, routerVars, ServerInv, TypeOK, OwnInv, WorkerInv, ReceiverInv
  <1>4. CASE StreamCapturer
    <2>1. CASE Capturer
      BY <1>1, <2>1, CapturerKeeps
    <2>2. CASE \E a \in todo : NotifyStream(a)
      BY <1>2, <2>2 DEF NotifyStream
    <2>3. CASE \E a \in todo : NotifyStreamEnd(a)
      <3>1. /\ UNCHANGED <<receivers, routerVars, requests, notifying, frame, heap>>
            /\ todo' \subseteq receivers /\ (todo = {} => todo' = {})
        BY <1>1, <2>3 DEF NotifyStreamEnd, ServerInv, ReceiverInv
      <3>2. notifying' \in BOOLEAN /\ frame' \in 0..MaxFrames /\ heap' \in [Addr -> Processor]
            /\ (~notifying' => todo' = {})
        BY <1>1, <3>1 DEF ServerInv, TypeOK, ReceiverInv
      <3> QED BY <1>1, <3>1, <3>2, ServeKeeps
    <2> QED BY <1>4, <2>1, <2>2, <2>3 DEF StreamCapturer
  <1>5. ASSUME NEW c \in Conns, StreamWorker(c) PROVE ServerInv'
    <2>1. CASE Worker(c)
      BY <1>1, <2>1, WorkerKeeps
    <2>2. CASE ReceiveStream(c)
      <3>1. StreamRequest \in [kind : Kind \cup {"stream"}, skip : Int] /\ StreamRequest.skip \in Int
        BY DEF StreamRequest
      <3> QED BY <1>1, <2>2, <3>1, ReceiveKeeps DEF ReceiveStream
    <2>3. CASE \E a \in Addr : CreateStream(c, a)
      BY <1>1, <2>3, CreateKeeps DEF CreateStream
    <2>4. CASE SendHeader(c)
      <3>1. heap' \in [Addr -> Processor] /\ heap' = heap /\ request[c].kind \in Streaming
        BY <1>1, <2>4 DEF SendHeader, ServerInv, TypeOK, Streaming
      <3> QED BY <1>1, <2>4, <3>1, ProcessKeeps DEF SendHeader, Processing
    <2>5. CASE SubscribeStream(c)
      BY <1>1, <2>5, SubscribeKeeps DEF SubscribeStream
    <2>6. CASE PushSentinel(c) \/ NotifySentinel(c) \/ UnsubscribeStream(c) \/ Join(c) \/ Flush(c)
      <3>1. PICK where \in Destroying : Goto(c, where) \/ (where = pc[c] /\ UNCHANGED pc)
        BY <2>6 DEF PushSentinel, NotifySentinel, UnsubscribeStream, Join, Flush, Destroying
      <3>2. /\ pc[c] \in Destroying
            /\ UNCHANGED <<captureVars, heap, httpProcessor, old, request, requests>>
            /\ receivers' \subseteq receivers
        BY <2>6
        DEF PushSentinel, NotifySentinel, UnsubscribeStream, Join, Flush, Destroying, WriteData
      <3>3. todo \subseteq receivers'
        BY <1>1, <2>6
        DEF PushSentinel, NotifySentinel, UnsubscribeStream, Join, Flush, ServerInv, ReceiverInv
      <3>4. where \in Subscribed \/ old[c] \notin receivers'
        BY <1>1, <2>6, <3>1
        DEF PushSentinel, NotifySentinel, UnsubscribeStream, Join, Flush, ServerInv, ReceiverInv,
            Subscribed, Goto, TypeOK
      <3>5. Goto(c, where)
        BY <1>1, <3>1 DEF Goto, ServerInv, TypeOK
      <3> QED BY <1>1, <3>2, <3>3, <3>4, <3>5, DestructorKeeps
    <2> QED BY <1>5, <2>1, <2>2, <2>3, <2>4, <2>5, <2>6 DEF StreamWorker, Worker
  <1>6. ASSUME NEW g \in Stream, Thread(g) \/ SpuriousWakeup(g) PROVE ServerInv'
    BY <1>3, <1>6
    DEF Thread, Pop, Wait, SpuriousWakeup, Transcode, vars, captureVars, routerVars
  <1> QED BY <1>2, <1>4, <1>5, <1>6 DEF StreamNext, Exhausted, allVars

\* Processing a request, and destroying what is no stream, is quiet.
LEMMA ProcessingIsQuiet ==
  ASSUME StreamInv, ServerInv', NEW c \in Conns,
         \/ Unsubscribe(c) \/ ProcessMjpeg(c) \/ ProcessPlain(c) \/ ProcessFile(c)
         \/ Subscribe(c) \/ SendHeader(c) \/ DestroySender(c),
         UNCHANGED <<streams, gen, queue, inside, thread, pushed, popped>>
  PROVE  StreamInv'
  <1> DEFINE Moved == {"delete", "subscribe", "idle", "body", "gone"}
  <1>1. PICK where \in Moved : Goto(c, where)
    BY DEF Unsubscribe, ProcessMjpeg, ProcessPlain, ProcessFile, Subscribe, SendHeader, DestroySender
  <1>2. pc' = [pc EXCEPT ![c] = where] /\ UNCHANGED <<captureVars, old, requests>>
    BY <1>1
    DEF Unsubscribe, ProcessMjpeg, ProcessPlain, ProcessFile, Subscribe, SendHeader,
        DestroySender, Goto
  <1>3. /\ pc[c] \in Processing \cup {"closed", "destroy"}
        /\ pc[c] = "destroy" => OldKind(c) = "mjpeg"
    BY DEF Unsubscribe, ProcessMjpeg, ProcessPlain, ProcessFile, Subscribe, SendHeader,
           DestroySender, Processing
  <1>4. old[c] # Null => heap[old[c]].kind # "stream"
    BY <1>3 DEF StreamInv, ServerInv, WorkerInv, Destroying, Processing, OldKind
  <1>5. SameKinds
    BY DEF Unsubscribe, ProcessMjpeg, ProcessPlain, ProcessFile, Subscribe, SendHeader,
           DestroySender, SameKinds, StreamInv, ServerInv, TypeOK, Processor
  <1>6. /\ ThreadsAdvance
        /\ queue' \in [Stream -> Seq(Element)] /\ popped' \in [Stream -> Seq(Element)]
    BY DEF ThreadsAdvance, StreamInv, StreamTypeOK
  <1>7. pc[c] # "create" /\ where # "create" /\ where \notin Late
    BY <1>3 DEF Processing, Late
  <1>8. \A d \in Conns : pc'[d] = pc[d] \/ MovesOn(d)
    BY <1>2, <1>4, <1>7 DEF MovesOn, StreamInv, ServerInv, TypeOK
  <1> QED BY <1>2, <1>5, <1>6, <1>8, QuietKeeps

\* So are the steps of a stream's destructor after the sentinel: the join
\* waits for the thread, and everything up to the delete follows it.
LEMMA DestructorIsQuiet ==
  ASSUME StreamInv, ServerInv', NEW c \in Conns,
         NotifySentinel(c) \/ UnsubscribeStream(c) \/ Join(c) \/ Flush(c)
  PROVE  StreamInv'
  <1>1. PICK where \in {"unsubscribe", "join", "flush", "delete"} : pc' = [pc EXCEPT ![c] = where]
    BY DEF NotifySentinel, UnsubscribeStream, Join, Flush, Goto, StreamInv, ServerInv, TypeOK
  <1>2. /\ UNCHANGED <<captureVars, old, requests, heap>>
        /\ UNCHANGED <<streams, gen, inside, pushed, popped, queue>> /\ pc[c] \in Late
    BY DEF NotifySentinel, UnsubscribeStream, Join, Flush, streamVars, Late
  <1>3. old[c] \in Addr /\ heap[old[c]].kind = "stream" /\ Old(c) \in Stream
    BY <1>2, StreamNumbers DEF StreamInv, ThreadInv, ServerInv, TypeOK, Old
  <1>4. ThreadsAdvance
    BY <1>3
    DEF NotifySentinel, UnsubscribeStream, Join, Flush, Woken, ThreadsAdvance, streamVars,
        StreamInv, StreamTypeOK
  <1>5. pc'[c] \in {"flush", "delete"} => thread[Old(c)] = "done" /\ thread' = thread
    <2>1. CASE NotifySentinel(c) \/ UnsubscribeStream(c)
      BY <2>1 DEF NotifySentinel, UnsubscribeStream, Goto, StreamInv, ServerInv, TypeOK
    <2>2. CASE Join(c)
      BY <2>2 DEF Join, streamVars
    <2>3. CASE Flush(c)
      <3>1. OldKind(c) = "stream"
        BY <1>3, ServerAssumption DEF OldKind
      <3> QED BY <2>3, <3>1 DEF Flush, StreamInv, ThreadInv
    <2> QED BY <2>1, <2>2, <2>3
  <1>6. MovesOn(c)
    BY <1>1, <1>2, <1>5 DEF MovesOn, Late, Destroying, StreamInv, ServerInv, TypeOK
  <1>7. \A d \in Conns : pc'[d] = pc[d] \/ MovesOn(d)
    BY <1>1, <1>6 DEF StreamInv, ServerInv, TypeOK
  <1>8. /\ SameKinds
        /\ queue' \in [Stream -> Seq(Element)] /\ popped' \in [Stream -> Seq(Element)]
    BY <1>2 DEF SameKinds, StreamInv, StreamTypeOK
  <1> QED BY <1>2, <1>4, <1>7, <1>8, QuietKeeps

\* And those of the threads.
LEMMA ThreadIsQuiet ==
  ASSUME StreamInv, ServerInv', NEW g \in Stream, Thread(g) \/ SpuriousWakeup(g)
  PROVE  StreamInv'
  <1>1. /\ UNCHANGED <<captureVars, old, requests, heap, pc>>
        /\ UNCHANGED <<streams, gen, inside, pushed>>
    BY DEF Thread, Pop, Wait, SpuriousWakeup, Transcode, vars, captureVars, routerVars
  <1>2. queue' \in [Stream -> Seq(Element)] /\ popped' \in [Stream -> Seq(Element)]
    <2>1. CASE Pop(g)
      <3>1. queue[g] \in Seq(Element) /\ queue[g] # <<>> /\ popped[g] \in Seq(Element)
        BY <2>1 DEF Pop, StreamInv, StreamTypeOK
      <3>2. Tail(queue[g]) \in Seq(Element) /\ Append(popped[g], Head(queue[g])) \in Seq(Element)
        BY <3>1, HeadTailProperties, AppendProperties
      <3> QED BY <2>1, <3>2 DEF Pop, StreamInv, StreamTypeOK
    <2>2. CASE UNCHANGED <<queue, popped>>
      BY <2>2 DEF StreamInv, StreamTypeOK
    <2> QED BY <2>1, <2>2 DEF Thread, Wait, SpuriousWakeup, Transcode
  <1>3. ThreadsAdvance
    BY DEF Thread, Pop, Wait, SpuriousWakeup, Transcode, Woken, ThreadsAdvance, StreamInv, StreamTypeOK
  <1>4. SameKinds
    BY <1>1 DEF SameKinds
  <1> QED BY <1>1, <1>2, <1>3, <1>4, QuietKeeps

\* Every step of the capturer, a worker or a thread keeps the invariant.
LEMMA StreamsKept == StreamInv /\ [StreamNext]_allVars => StreamInv'
  <1> SUFFICES ASSUME StreamInv, [StreamNext]_allVars PROVE StreamInv'
    OBVIOUS
  <1>1. ServerInv'
    BY ServerKept
  <1>2. CASE StreamCapturer
    BY <1>1, <1>2, CapturerKeepsStreams, NotifyStreamKeeps, NotifyStreamEndKeeps
    DEF StreamCapturer
  <1>3. ASSUME NEW c \in Conns, StreamWorker(c) PROVE StreamInv'
    <2>1. CASE /\ UNCHANGED streamVars
               /\ \/ Unsubscribe(c) \/ ProcessMjpeg(c) \/ ProcessPlain(c) \/ ProcessFile(c)
                  \/ Subscribe(c) \/ DestroySender(c)
      BY <1>1, <2>1, ProcessingIsQuiet DEF streamVars
    <2>2. CASE SubscribeStream(c) \/ SendHeader(c)
      BY <1>1, <2>2, ProcessingIsQuiet DEF SubscribeStream, SendHeader, streamVars
    <2>3. CASE NotifySentinel(c) \/ UnsubscribeStream(c) \/ Join(c) \/ Flush(c)
      BY <1>1, <2>3, DestructorIsQuiet
    <2>4. CASE UNCHANGED streamVars /\ \E r \in Request : Receive(c, r)
      BY <1>1, <2>4, ReceiveKeepsStreams
    <2>5. CASE ReceiveStream(c)
      BY <1>1, <2>5, ReceiveKeepsStreams DEF ReceiveStream
    <2>6. CASE /\ UNCHANGED streamVars
               /\ Closing(c) \/ \E a \in Addr : Create(c, a) /\ request[c].kind # "stream"
      BY <1>1, <2>6, ReplaceKeepsStreams
    <2>7. CASE \E a \in Addr : CreateStream(c, a)
      BY <1>1, <2>7, CreateStreamKeeps
    <2>8. CASE UNCHANGED streamVars /\ Delete(c)
      BY <1>1, <2>8, DeleteKeepsStreams
    <2>9. CASE PushSentinel(c)
      BY <1>1, <2>9, PushSentinelKeeps
    <2> QED BY <1>3, <2>1, <2>2, <2>3, <2>4, <2>5, <2>6, <2>7, <2>8, <2>9 DEF StreamWorker
  <1>4. ASSUME NEW g \in Stream, Thread(g) \/ SpuriousWakeup(g) PROVE StreamInv'
    BY <1>1, <1>4, ThreadIsQuiet
  <1>5. ASSUME UNCHANGED allVars PROVE StreamInv'
    <2>1. /\ SameKinds /\ ThreadsAdvance
          /\ queue' \in [Stream -> Seq(Element)] /\ popped' \in [Stream -> Seq(Element)]
      BY <1>5 DEF SameKinds, ThreadsAdvance, allVars, vars, streamVars, StreamInv, StreamTypeOK
    <2> QED BY <1>1, <1>5, <2>1, QuietKeeps DEF allVars, vars, streamVars, captureVars, routerVars
  <1> QED BY <1>2, <1>3, <1>4, <1>5 DEF StreamNext, Exhausted, allVars

\* The invariant, for every behaviour.
THEOREM StreamInvariant == StreamSpecification => []StreamInv
  BY StreamInitial, StreamsKept, PTL DEF StreamSpecification

-----------------------------------------------------------------------------
\* What the invariant says of lifetimes: the capturer inside Push holds a
\* subscriber, hence a processor whose destructor is not past
\* RemoveSubscriber, and one that flushes has joined its thread.
LEMMA StreamsLive == StreamInv => NoUseAfterDelete
  <1> SUFFICES ASSUME StreamInv PROVE NoUseAfterDelete
    OBVIOUS
  <1>1. NoDanglingReceiver
    BY ReceiversLive DEF StreamInv
  <1>2. inside # 0 => Live(inside)
    BY StreamNumbers DEF StreamInv, InsideInv, Live
  <1>3. \A g \in Stream : thread[g] \notin {"none", "done"} => Live(g)
    BY DEF StreamInv, ThreadInv
  <1>4. ASSUME NEW c \in Conns, pc[c] \in {"flush", "delete"}, OldKind(c) = "stream"
        PROVE  thread[Old(c)] = "done" /\ inside # Old(c)
    <2>1. thread[Old(c)] = "done"
      BY <1>4 DEF StreamInv, ThreadInv
    <2>2. old[c] \in Addr /\ heap[old[c]].kind = "stream"
      BY <1>4 DEF OldKind, StreamInv, ServerInv, TypeOK
    <2>3. SUFFICES ASSUME inside = Old(c) PROVE FALSE
      BY <2>1
    <2>4. inside # 0
      BY <2>2, <2>3 DEF Old, StreamInv, GenInv
    <2>5. PICK a \in todo : heap[a].kind = "stream" /\ gen[a] = inside
      BY <2>4 DEF StreamInv, InsideInv
    <2>6. a = old[c]
      BY <2>2, <2>3, <2>4, <2>5, StreamNumbers DEF Old, StreamInv, GenInv
    <2> QED BY <1>4, <2>5, <2>6 DEF StreamInv, ServerInv, ReceiverInv, Subscribed
  <1> QED BY <1>1, <1>2, <1>3, <1>4 DEF NoUseAfterDelete

\* Whatever the capturer, the workers and the transcoder threads do at the
\* same time, none of them uses a processor that is going or gone.
THEOREM NothingUsedAfterDelete == StreamSpecification => []NoUseAfterDelete
  BY StreamInvariant, StreamsLive, PTL

-----------------------------------------------------------------------------
(* Every transcoderQueue is a queue.                                       *)

\* A new stream's queue is a new queue.
LEMMA QueuesStart == StreamInit => \A g \in Stream : Queue(g)!QueueInit
  <1> SUFFICES ASSUME StreamInit, NEW g \in Stream PROVE Queue(g)!QueueInit
    OBVIOUS
  <1>1. /\ queue[g] = <<>> /\ pushed[g] = <<>> /\ popped[g] = <<>> /\ thread[g] = "none"
        /\ inside # g
    BY DEF StreamInit, Stream
  <1>2. \A d \in Conns : pc[d] # "notify"
    BY DEF StreamInit, Init
  <1> QED BY <1>1, <1>2 DEF Queue!QueueInit

\* The instance's notifying, in terms of EncodedStream.
Sentinels(g) == {"worker" : c \in {d \in Conns : pc[d] = "notify" /\ Old(d) = g}}
Notifiers(g) == (IF inside = g THEN {"capturer"} ELSE {}) \cup Sentinels(g)

\* What changes nothing a queue consists of is a stuttering step of it. (A
\* worker that is about to notify stays where it is, and so do the processor it
\* destroys and its number.)
LEMMA QueueUntouched ==
  ASSUME NEW g \in Stream,
         queue'[g] = queue[g], pushed'[g] = pushed[g], popped'[g] = popped[g],
         thread'[g] = "wait" <=> thread[g] = "wait", inside' = g <=> inside = g,
         \A d \in Conns : pc'[d] = "notify" /\ Old(d)' = g <=> pc[d] = "notify" /\ Old(d) = g
  PROVE  UNCHANGED Queue(g)!queueVars
  <1>1. Sentinels(g)' = Sentinels(g)
    BY DEF Sentinels
  <1> QED BY <1>1 DEF Queue!queueVars, Sentinels

\* Two workers never destroy the same stream.
LEMMA OneWorker ==
  ASSUME StreamInv, NEW c \in Conns, NEW d \in Conns, old[c] # Null,
         heap[old[c]].kind = "stream", pc[d] = "notify", Old(d) = Old(c)
  PROVE  d = c
  <1>1. old[c] \in Addr /\ old[d] \in Addr /\ old[d] # Null /\ gen[old[c]] # 0
    BY StreamNumbers DEF StreamInv, ThreadInv, Late, ServerInv, TypeOK
  <1>2. old[d] = old[c]
    BY <1>1 DEF StreamInv, GenInv, Old
  <1> QED BY <1>1, <1>2 DEF StreamInv, ServerInv, OwnInv

\* Push by the capturer and by the worker: each is its own producer, and the
\* queue has had fewer events than frames and a sentinel.
LEMMA CapturerPushes ==
  ASSUME StreamInv, NEW a \in todo, NotifyStream(a), NEW g \in Stream
  PROVE  [Queue(g)!QueueNext]_(Queue(g)!queueVars)
  <1>1. /\ notifying /\ inside = 0 /\ heap[a].kind = "stream" /\ inside' = gen[a]
        /\ UNCHANGED <<old, pc, gen, thread, popped>>
        /\ queue' = [queue EXCEPT ![gen[a]] = Append(@, frame)]
        /\ pushed' = [pushed EXCEPT ![gen[a]] = Append(@, frame)]
    BY DEF NotifyStream, Push, vars, captureVars, routerVars
  <1>2. a \in Addr /\ gen[a] \in Stream
    BY <1>1, StreamNumbers
  <1>3. \A d \in Conns : pc'[d] = "notify" /\ Old(d)' = g <=> pc[d] = "notify" /\ Old(d) = g
    BY <1>1 DEF Old
  <1>4. CASE g # gen[a]
    <2>1. queue'[g] = queue[g] /\ pushed'[g] = pushed[g]
      BY <1>1, <1>4 DEF StreamInv, StreamTypeOK
    <2>2. inside' # g /\ inside # g
      BY <1>1, <1>4 DEF Stream
    <2> QED BY <1>1, <1>3, <2>1, <2>2, QueueUntouched
  <1>5. CASE g = gen[a]
    <2>1. /\ queue'[g] = Append(queue[g], frame) /\ pushed'[g] = Append(pushed[g], frame)
          /\ inside # g /\ inside' = g
      BY <1>1, <1>2, <1>5 DEF StreamInv, StreamTypeOK, Stream
    <2>2. Len(pushed[g]) < MaxFrames + 1 /\ frame \in 1..MaxFrames
      <3>1. Len(pushed[g]) + Due(a) <= frame + Ended(a) /\ frame \in 1..MaxFrames
        BY <1>1, <1>2, <1>5 DEF StreamInv, PushInv
      <3>2. Due(a) = 1 /\ Ended(a) \in {0, 1} /\ Len(pushed[g]) \in Nat
        BY <1>1, <1>5, LenProperties DEF Due, Ended, Stream, StreamInv, StreamTypeOK
      <3> QED BY <3>1, <3>2, ServerAssumption
    <2>3. Sentinels(g)' = Sentinels(g) /\ "capturer" \notin Sentinels(g)
      BY <1>3 DEF Sentinels
    <2>4. PICK e \in 1..MaxFrames \cup {Sentinel} : e = frame
      BY <2>2
    <2>5. Queue(g)!Push("capturer", e)
      BY <1>1, <2>1, <2>2, <2>3, <2>4 DEF Queue!Push, Sentinels
    <2> QED BY <2>5 DEF Queue!QueueNext
  <1> QED BY <1>4, <1>5

\* ~AppEncodedStreamSender pushes the sentinel: on the stream's own queue that
\* is a Push by its worker, on every other queue a stuttering step.
LEMMA WorkerPushes ==
  ASSUME StreamInv, NEW c \in Conns, PushSentinel(c), NEW g \in Stream
  PROVE  [Queue(g)!QueueNext]_(Queue(g)!queueVars)
  <1>1. /\ pc' = [pc EXCEPT ![c] = "notify"] /\ pc[c] = "destroy"
        /\ UNCHANGED <<old, gen, inside, thread, popped>>
        /\ queue' = [queue EXCEPT ![Old(c)] = Append(@, Sentinel)]
        /\ pushed' = [pushed EXCEPT ![Old(c)] = Append(@, Sentinel)]
    BY DEF PushSentinel, Goto, Push
  <1>2. old[c] \in Addr /\ heap[old[c]].kind = "stream" /\ Old(c) \in Stream /\ old[c] # Null
    BY StreamNumbers DEF PushSentinel, OldKind, Old, StreamInv, ServerInv, TypeOK
  <1>3. \A d \in Conns : d # c => pc'[d] = pc[d]
    BY <1>1 DEF StreamInv, ServerInv, TypeOK
  <1>4. pc'[c] = "notify" /\ \A d \in Conns : Old(d)' = Old(d)
    BY <1>1 DEF StreamInv, ServerInv, TypeOK, Old
  <1>5. CASE g # Old(c)
    <2>1. queue'[g] = queue[g] /\ pushed'[g] = pushed[g]
      BY <1>1, <1>5 DEF StreamInv, StreamTypeOK
    <2>2. \A d \in Conns : pc'[d] = "notify" /\ Old(d)' = g <=> pc[d] = "notify" /\ Old(d) = g
      BY <1>3, <1>4, <1>5
    <2> QED BY <1>1, <2>1, <2>2, QueueUntouched
  <1>6. CASE g = Old(c)
    <2>1. queue'[g] = Append(queue[g], Sentinel) /\ pushed'[g] = Append(pushed[g], Sentinel)
      BY <1>1, <1>2, <1>6 DEF StreamInv, StreamTypeOK
    <2>2. Len(pushed[g]) < MaxFrames + 1
      <3>1. PICK a \in Addr : a = old[c] /\ gen[a] = g /\ heap[a].kind = "stream"
        BY <1>2, <1>6 DEF Old
      <3>2. Len(pushed[g]) + Due(a) <= frame + Ended(a)
        BY <3>1 DEF StreamInv, PushInv
      <3>3. \A d \in Conns : old[d] = a => d = c
        BY <1>2, <3>1 DEF StreamInv, ServerInv, OwnInv
      <3>4. Ended(a) = 0
        BY <1>1, <3>3 DEF Ended, Closed
      <3>5. Due(a) \in {0, 1} /\ Len(pushed[g]) \in Nat /\ frame \in 0..MaxFrames
        BY LenProperties DEF Due, StreamInv, StreamTypeOK, ServerInv, TypeOK
      <3> QED BY <3>2, <3>4, <3>5, ServerAssumption
    <2>3. Sentinels(g) = {} /\ Sentinels(g)' = {"worker"}
      <3>1. \A d \in Conns : ~(pc[d] = "notify" /\ Old(d) = g)
        BY <1>1, <1>2, <1>6, OneWorker
      <3>2. pc'[c] = "notify" /\ Old(c)' = g
        BY <1>4, <1>6
      <3> QED BY <3>1, <3>2 DEF Sentinels
    <2>4. Queue(g)!Push("worker", Sentinel)
      BY <1>1, <2>1, <2>2, <2>3 DEF Queue!Push, Sentinels
    <2> QED BY <2>4 DEF Queue!QueueNext
  <1> QED BY <1>5, <1>6

\* notify_one by the capturer and by the worker: the thread, if it waits, is
\* the one consumer there is.
LEMMA CapturerNotifies ==
  ASSUME StreamInv, NEW a \in todo, NotifyStreamEnd(a), NEW g \in Stream
  PROVE  [Queue(g)!QueueNext]_(Queue(g)!queueVars)
  <1>1. /\ inside # 0 /\ inside' = 0
        /\ UNCHANGED <<old, pc, gen, queue, pushed, popped>>
        /\ thread' = [thread EXCEPT ![inside] = IF @ = "wait" THEN "run" ELSE @]
    BY DEF NotifyStreamEnd, Woken, routerVars
  <1>2. Sentinels(g)' = Sentinels(g) /\ "capturer" \notin Sentinels(g)
    BY <1>1 DEF Old, Sentinels
  <1>3. CASE g # inside
    <2>1. thread'[g] = thread[g] /\ inside' # g
      BY <1>1, <1>3 DEF StreamInv, StreamTypeOK, Stream
    <2>2. \A d \in Conns : pc'[d] = "notify" /\ Old(d)' = g <=> pc[d] = "notify" /\ Old(d) = g
      BY <1>1 DEF Old
    <2> QED BY <1>1, <1>3, <2>1, <2>2, QueueUntouched
  <1>4. CASE g = inside
    <2>1. thread'[g] = (IF thread[g] = "wait" THEN "run" ELSE thread[g]) /\ inside' # g
      BY <1>1, <1>4 DEF StreamInv, StreamTypeOK
    <2>2. Queue(g)!NotifyOne("capturer")
      BY <1>1, <1>2, <1>4, <2>1 DEF Queue!NotifyOne, Sentinels
    <2> QED BY <2>2 DEF Queue!QueueNext
  <1> QED BY <1>3, <1>4

\* The notify_one of ~AppEncodedStreamSender, which ends that Push.
LEMMA WorkerNotifies ==
  ASSUME StreamInv, NEW c \in Conns, NotifySentinel(c), NEW g \in Stream
  PROVE  [Queue(g)!QueueNext]_(Queue(g)!queueVars)
  <1>1. /\ pc' = [pc EXCEPT ![c] = "unsubscribe"] /\ pc[c] = "notify"
        /\ UNCHANGED <<old, gen, inside, queue, pushed, popped>>
        /\ thread' = [thread EXCEPT ![Old(c)] = IF @ = "wait" THEN "run" ELSE @]
    BY DEF NotifySentinel, Woken, Goto
  <1>2. old[c] # Null /\ heap[old[c]].kind = "stream"
    BY <1>1 DEF StreamInv, ThreadInv, Late
  <1>3. \A d \in Conns : d # c => pc'[d] = pc[d]
    BY <1>1 DEF StreamInv, ServerInv, TypeOK
  <1>4. pc'[c] = "unsubscribe" /\ \A d \in Conns : Old(d)' = Old(d)
    BY <1>1 DEF StreamInv, ServerInv, TypeOK, Old
  <1>5. CASE g # Old(c)
    <2>1. thread'[g] = thread[g]
      BY <1>1, <1>5 DEF StreamInv, StreamTypeOK
    <2>2. \A d \in Conns : pc'[d] = "notify" /\ Old(d)' = g <=> pc[d] = "notify" /\ Old(d) = g
      BY <1>3, <1>4, <1>5
    <2> QED BY <1>1, <2>1, <2>2, QueueUntouched
  <1>6. CASE g = Old(c)
    <2>1. thread'[g] = (IF thread[g] = "wait" THEN "run" ELSE thread[g])
      BY <1>1, <1>6 DEF StreamInv, StreamTypeOK
    <2>2. Sentinels(g) = {"worker"} /\ Sentinels(g)' = {}
      <3>1. \A d \in Conns : pc[d] = "notify" /\ Old(d) = g => d = c
        BY <1>2, <1>6, OneWorker
      <3>2. \A d \in Conns : ~(pc'[d] = "notify" /\ Old(d)' = g)
        BY <1>3, <1>4, <3>1
      <3> QED BY <1>1, <1>6, <3>2 DEF Sentinels
    <2>3. Queue(g)!NotifyOne("worker")
      BY <1>1, <2>1, <2>2 DEF Queue!NotifyOne, Sentinels
    <2> QED BY <2>3 DEF Queue!QueueNext
  <1> QED BY <1>5, <1>6

\* The thread is the one consumer.
LEMMA ThreadConsumes ==
  ASSUME StreamInv, NEW h \in Stream, Thread(h) \/ SpuriousWakeup(h), NEW g \in Stream
  PROVE  [Queue(g)!QueueNext]_(Queue(g)!queueVars)
  <1>1. UNCHANGED <<old, pc, gen, inside, pushed>>
    BY DEF Thread, Pop, Wait, SpuriousWakeup, Transcode, vars, captureVars, routerVars
  <1>2. \A d \in Conns : pc'[d] = "notify" /\ Old(d)' = g <=> pc[d] = "notify" /\ Old(d) = g
    BY <1>1 DEF Old
  <1>3. Sentinels(g)' = Sentinels(g)
    BY <1>1 DEF Old, Sentinels
  <1>4. CASE g # h \/ \E a \in Addr : gen[a] = h /\ Transcode(a)
    <2>1. queue'[g] = queue[g] /\ popped'[g] = popped[g] /\ (thread'[g] = "wait" <=> thread[g] = "wait")
      BY <1>4 DEF Thread, Pop, Wait, SpuriousWakeup, Transcode, Woken, StreamInv, StreamTypeOK
    <2> QED BY <1>1, <1>2, <2>1, QueueUntouched
  <1>5. CASE g = h /\ Pop(g)
    <2>1. /\ queue[g] # <<>> /\ thread[g] = "run" /\ thread'[g] # "wait"
          /\ queue'[g] = Tail(queue[g]) /\ popped'[g] = Append(popped[g], Head(queue[g]))
      BY <1>5 DEF Pop, StreamInv, StreamTypeOK
    <2>2. Queue(g)!Pop("thread")
      BY <1>1, <1>3, <2>1 DEF Queue!Pop, Queue!Take, Sentinels
    <2> QED BY <2>2 DEF Queue!QueueNext
  <1>6. CASE g = h /\ Wait(g)
    <2>1. queue[g] = <<>> /\ thread[g] = "run" /\ thread'[g] = "wait" /\ UNCHANGED <<queue, popped>>
      BY <1>6 DEF Wait, StreamInv, StreamTypeOK
    <2>2. Queue(g)!Wait("thread")
      BY <1>1, <1>3, <2>1 DEF Queue!Wait, Sentinels
    <2> QED BY <2>2 DEF Queue!QueueNext
  <1>7. CASE g = h /\ SpuriousWakeup(g)
    <2>1. thread[g] = "wait" /\ thread'[g] = "run" /\ UNCHANGED <<queue, popped>>
      BY <1>7 DEF SpuriousWakeup, Woken, StreamInv, StreamTypeOK
    <2>2. Queue(g)!SpuriousWakeup("thread")
      BY <1>1, <1>3, <2>1 DEF Queue!SpuriousWakeup, Sentinels
    <2> QED BY <2>2 DEF Queue!QueueNext
  <1> QED BY <1>4, <1>5, <1>6, <1>7 DEF Thread

\* No other step of a worker touches a queue: who is about to notify stays
\* where it is, and the address it destroys is not reused meanwhile.
LEMMA OthersStutter ==
  ASSUME StreamInv, NEW c \in Conns, StreamWorker(c), ~PushSentinel(c), ~NotifySentinel(c),
         NEW g \in Stream
  PROVE  UNCHANGED Queue(g)!queueVars
  <1>1. /\ UNCHANGED <<inside, queue, pushed, popped>>
        /\ \A d \in Conns : d # c => pc'[d] = pc[d] /\ old'[d] = old[d]
        /\ pc[c] # "notify" /\ pc'[c] # "notify"
    <2>1. CASE Worker(c) /\ UNCHANGED streamVars
      BY <2>1
      DEF Worker, Receive, Create, Closing, Unsubscribe, Delete, ProcessMjpeg, Subscribe,
          ProcessPlain, ProcessFile, DestroySender, Goto, streamVars, StreamInv, ServerInv, TypeOK
    <2>2. CASE ReceiveStream(c)
      BY <2>2 DEF ReceiveStream, Receive, Goto, streamVars, StreamInv, ServerInv, TypeOK
    <2>3. CASE \E a \in Addr : CreateStream(c, a)
      BY <2>3 DEF CreateStream, Create, Goto, StreamInv, ServerInv, TypeOK
    <2>4. CASE SendHeader(c) \/ SubscribeStream(c)
      BY <2>4 DEF SendHeader, SubscribeStream, Subscribe, Goto, streamVars, StreamInv, ServerInv, TypeOK
    <2>5. CASE UnsubscribeStream(c) \/ Join(c) \/ Flush(c)
      BY <2>5 DEF UnsubscribeStream, Join, Flush, Goto, streamVars, StreamInv, ServerInv, TypeOK
    <2> QED BY <2>1, <2>2, <2>3, <2>4, <2>5 DEF StreamWorker, Worker
  <1>2. /\ thread'[g] = "wait" <=> thread[g] = "wait"
        /\ \A a \in Addr : heap[a].kind = "stream" => gen'[a] = gen[a]
    <2>1. CASE \E a \in Addr : CreateStream(c, a)
      <3>1. PICK a \in Addr : CreateStream(c, a)
        BY <2>1
      <3>2. heap[a].kind = "free" /\ thread' = [thread EXCEPT ![streams + 1] = "run"]
            /\ gen' = [gen EXCEPT ![a] = streams + 1]
        BY <3>1 DEF CreateStream, Create, Free
      <3>3. streams \in Nat /\ (streams + 1 = g => thread[g] = "none")
        BY DEF StreamInv, GenInv, StreamTypeOK
      <3> QED BY <3>2, <3>3 DEF StreamInv, StreamTypeOK
    <2>2. CASE UNCHANGED <<thread, gen>>
      BY <2>2
    <2> QED
      BY <2>1, <2>2
      DEF StreamWorker, streamVars, ReceiveStream, SendHeader, SubscribeStream, UnsubscribeStream,
          Join, Flush
  <1>3. ASSUME NEW d \in Conns
        PROVE  pc'[d] = "notify" /\ Old(d)' = g <=> pc[d] = "notify" /\ Old(d) = g
    <2>1. CASE pc[d] = "notify" \/ pc'[d] = "notify"
      <3>1. d # c /\ pc[d] = "notify" /\ old'[d] = old[d] /\ pc'[d] = pc[d]
        BY <1>1, <2>1
      <3>2. old[d] \in Addr /\ heap[old[d]].kind = "stream"
        BY <3>1 DEF StreamInv, ThreadInv, Late, ServerInv, TypeOK
      <3> QED BY <1>2, <3>1, <3>2 DEF Old
    <2>2. CASE pc[d] # "notify" /\ pc'[d] # "notify"
      BY <2>2
    <2> QED BY <2>1, <2>2
  <1> QED BY <1>1, <1>2, <1>3, QueueUntouched

\* Every step of the streams is, for each queue, one of its steps or none.
LEMMA QueuesStep ==
  StreamInv /\ [StreamNext]_allVars =>
    [\A g \in Stream : [Queue(g)!QueueNext]_(Queue(g)!queueVars)]_allVars
  <1> SUFFICES ASSUME StreamInv, StreamNext, NEW g \in Stream
               PROVE  [Queue(g)!QueueNext]_(Queue(g)!queueVars)
    OBVIOUS
  <1>1. CASE Capturer /\ UNCHANGED streamVars
    <2>1. UNCHANGED <<old, pc, gen, inside, queue, pushed, popped, thread>>
      BY <1>1 DEF Capturer, Capture, Notify, CaptureEnd, routerVars, streamVars
    <2>2. \A d \in Conns : pc'[d] = "notify" /\ Old(d)' = g <=> pc[d] = "notify" /\ Old(d) = g
      BY <2>1 DEF Old
    <2> QED BY <2>1, <2>2, QueueUntouched
  <1>2. CASE \E a \in todo : NotifyStream(a)
    BY <1>2, CapturerPushes
  <1>3. CASE \E a \in todo : NotifyStreamEnd(a)
    BY <1>3, CapturerNotifies
  <1>4. ASSUME NEW c \in Conns, StreamWorker(c) PROVE [Queue(g)!QueueNext]_(Queue(g)!queueVars)
    BY <1>4, WorkerPushes, WorkerNotifies, OthersStutter
  <1>5. ASSUME NEW h \in Stream, Thread(h) \/ SpuriousWakeup(h)
        PROVE  [Queue(g)!QueueNext]_(Queue(g)!queueVars)
    BY <1>5, ThreadConsumes
  <1>6. CASE Exhausted /\ UNCHANGED streamVars
    <2>1. UNCHANGED <<old, pc, gen, inside, queue, pushed, popped, thread>>
      BY <1>6 DEF Exhausted, vars, routerVars, streamVars
    <2>2. \A d \in Conns : pc'[d] = "notify" /\ Old(d)' = g <=> pc[d] = "notify" /\ Old(d) = g
      BY <2>1 DEF Old
    <2> QED BY <2>1, <2>2, QueueUntouched
  <1> QED BY <1>1, <1>2, <1>3, <1>4, <1>5, <1>6 DEF StreamNext, StreamCapturer

\* Each transcoderQueue implements EventQueue, with the capturer and the worker
\* for its producers, the transcoder thread for its consumer, and room in the
\* bound for every frame and a sentinel: so what is proved of EventQueue holds
\* of each.
THEOREM QueuesImplemented == StreamSpecification => QueueSpec
  <1>1. StreamInv /\ [StreamNext]_allVars =>
          [\A g \in Stream : [Queue(g)!QueueNext]_(Queue(g)!queueVars)]_allVars
    BY QueuesStep
  <1> QED BY <1>1, QueuesStart, StreamInvariant, PTL DEF StreamSpecification, QueueSpec

-----------------------------------------------------------------------------
(* What a stream takes: every frame from its subscription to its sentinel. *)

\* A processor is a receiver from its own Process until its destructor, and
\* at no other time.
SubscribedInv ==
  \A c \in Conns :
    /\ pc[c] \in Destroying \cup Processing => httpProcessor[c] \notin receivers
    /\ pc[c] \in {"idle", "create"} /\ httpProcessor[c] # Null
         /\ heap[httpProcessor[c]].kind = "stream" => httpProcessor[c] \in receivers
    /\ pc[c] = "destroy" /\ OldKind(c) = "stream" => old[c] \in receivers

\* Frames without a gap from the one after "before", up to a sentinel that
\* comes after the frame "last".
Run(s, before, last) ==
  \A i \in DOMAIN s :
    (\A j \in 1..(i - 1) : s[j] # Sentinel) =>
      IF s[i] = Sentinel THEN before + i - 1 = last ELSE s[i] = before + i

\* The queue holds what was pushed and not popped.
Remain(in, out, q) ==
  /\ Len(in) = Len(out) + Len(q)
  /\ \A i \in 1..Len(out) : out[i] = in[i]
  /\ \A i \in 1..Len(q) : q[i] = in[Len(out) + i]

\* A stream that still may get frames was pushed all since its subscription
\* but the one it is due; it is closed by its sentinel.
Fed(a) ==
  LET p == pushed[gen[a]] IN
    /\ Closed(a) <=> \E i \in DOMAIN p : p[i] = Sentinel
    /\ ~Closed(a) => IF a \in receivers THEN since[gen[a]] + Len(p) + Due(a) = frame
                                        ELSE p = <<>>

RunInv ==
  /\ since \in [Stream -> Nat] /\ until \in [Stream -> Int]
  /\ \A g \in Stream : Run(pushed[g], since[g], until[g])

FedInv == \A a \in Addr : heap[a].kind = "stream" => Fed(a)

\* What the thread took is the beginning of what was pushed, and a sentinel
\* is the last it took.
EndInv ==
  \A g \in Stream :
    /\ Remain(pushed[g], popped[g], queue[g])
    /\ \A i \in DOMAIN popped[g] :
         popped[g][i] = Sentinel => i = Len(popped[g]) /\ thread[g] = "done"

TakenInv == SubscribedInv /\ RunInv /\ FedInv /\ EndInv
-----------------------------------------------------------------------------
\* Nothing is pushed, taken or subscribed before the first request.
LEMMA TakenInitial == StreamInit => TakenInv
  <1> SUFFICES ASSUME StreamInit PROVE TakenInv
    OBVIOUS
  <1> USE DEF StreamInit, Init
  <1>1. SubscribedInv
    BY DEF SubscribedInv, Destroying, Processing
  <1>2. RunInv
    BY DEF RunInv, Run
  <1>3. FedInv
    BY DEF FedInv, Free
  <1>4. EndInv
    BY DEF EndInv, Remain
  <1> QED BY <1>1, <1>2, <1>3, <1>4 DEF TakenInv

\* What a worker's step leaves alone: the other workers and, unless it is
\* done, the destructor it is in.
LEMMA WorkerOwn ==
  ASSUME StreamInv, NEW c \in Conns, StreamWorker(c)
  PROVE  /\ \A d \in Conns : d # c => /\ pc'[d] = pc[d] /\ old'[d] = old[d]
                                      /\ httpProcessor'[d] = httpProcessor[d]
         /\ old[c] # Null => \/ Delete(c)
                             \/ /\ old'[c] = old[c] /\ httpProcessor'[c] = httpProcessor[c]
                                /\ pc[c] \in Destroying \ {"destroy"}
                                     => pc'[c] \in Destroying \ {"destroy"}
         /\ captureVars' = captureVars
  <1> USE DEF StreamInv, ServerInv, TypeOK, Goto, Destroying
  <1>1. CASE Worker(c) /\ UNCHANGED streamVars
    BY <1>1
    DEF Worker, Receive, Create, Closing, Unsubscribe, Delete, ProcessMjpeg, Subscribe,
        ProcessPlain, ProcessFile, DestroySender, WorkerInv
  <1>2. CASE ReceiveStream(c)
    BY <1>2 DEF ReceiveStream, Receive
  <1>3. CASE \E a \in Addr : CreateStream(c, a)
    BY <1>3 DEF CreateStream, Create, WorkerInv
  <1>4. CASE SendHeader(c) \/ SubscribeStream(c)
    BY <1>4 DEF SendHeader, SubscribeStream, Subscribe
  <1>5. CASE PushSentinel(c) \/ NotifySentinel(c)
    BY <1>5 DEF PushSentinel, NotifySentinel
  <1>6. CASE UnsubscribeStream(c) \/ Join(c) \/ Flush(c)
    BY <1>6 DEF UnsubscribeStream, Join, Flush
  <1> QED BY <1>1, <1>2, <1>3, <1>4, <1>5, <1>6 DEF StreamWorker, Worker

-----------------------------------------------------------------------------
\* The steps that neither subscribe or unsubscribe nor replace a processor.
LEMMA SubscribedStay ==
  ASSUME StreamInv, SubscribedInv, UNCHANGED <<receivers, httpProcessor, old>>, SameKinds,
         \A c \in Conns :
           /\ pc'[c] \in Destroying \cup Processing => pc[c] \in Destroying \cup Processing
           /\ pc'[c] = "destroy" => pc[c] = "destroy"
           /\ pc'[c] \in {"idle", "create"} /\ httpProcessor[c] # Null
                /\ heap[httpProcessor[c]].kind = "stream" => pc[c] \in {"idle", "create"}
  PROVE  SubscribedInv'
  <1> USE DEF StreamInv, ServerInv, TypeOK, SameKinds
  <1>1. \A c \in Conns : /\ httpProcessor[c] # Null =>
                             heap'[httpProcessor[c]].kind = heap[httpProcessor[c]].kind
                         /\ old[c] # Null => heap'[old[c]].kind = heap[old[c]].kind
    OBVIOUS
  <1> QED BY <1>1 DEF SubscribedInv, OldKind

\* A new processor is no receiver, the one it replaces, or a closing
\* connection gives up, still is.
LEMMA ReplaceSubscribed ==
  ASSUME StreamInv, SubscribedInv, NEW c \in Conns,
         Closing(c) \/ \E a \in Addr : Create(c, a)
  PROVE  SubscribedInv'
  <1> USE ServerAssumption DEF StreamInv, ServerInv, TypeOK, Goto, Destroying, Processing
  <1>1. CASE Closing(c)
    BY <1>1 DEF Closing, SubscribedInv, OldKind
  <1>2. CASE \E a \in Addr : Create(c, a)
    <2>1. PICK a \in Addr : Create(c, a)
      BY <1>2
    <2>2. /\ receivers' = receivers /\ a \notin receivers /\ pc[c] = "create"
          /\ pc' = [pc EXCEPT ![c] = "destroy"] /\ old' = [old EXCEPT ![c] = httpProcessor[c]]
          /\ httpProcessor' = [httpProcessor EXCEPT ![c] = a]
      BY <2>1 DEF Create, ReceiverInv, Free, Streaming
    <2>3. \A d \in Conns : /\ httpProcessor[d] # Null => heap'[httpProcessor[d]] = heap[httpProcessor[d]]
                           /\ old[d] # Null => heap'[old[d]] = heap[old[d]]
      BY <2>1 DEF Create, OwnInv, Free
    <2>4. ASSUME NEW d \in Conns, d # c
          PROVE  /\ pc'[d] \in Destroying \cup Processing => httpProcessor'[d] \notin receivers
                 /\ pc'[d] \in {"idle", "create"} /\ httpProcessor'[d] # Null
                      /\ heap'[httpProcessor'[d]].kind = "stream" => httpProcessor'[d] \in receivers
                 /\ pc'[d] = "destroy" /\ OldKind(d)' = "stream" => old'[d] \in receivers
      BY <2>2, <2>3, <2>4 DEF SubscribedInv, OldKind
    <2>5. /\ httpProcessor'[c] = a /\ pc'[c] = "destroy" /\ old'[c] = httpProcessor[c]
          /\ OldKind(c)' = "stream" => httpProcessor[c] \in receivers
      BY <2>2, <2>3 DEF SubscribedInv, OldKind
    <2> QED BY <2>2, <2>4, <2>5 DEF SubscribedInv
  <1> QED BY <1>1, <1>2

\* RemoveSubscriber and the end of a destructor concern the old processor,
\* AddSubscriber the one that replaced it.
LEMMA DestroySubscribed ==
  ASSUME StreamInv, SubscribedInv, NEW c \in Conns,
         Unsubscribe(c) \/ UnsubscribeStream(c) \/ Delete(c) \/ Subscribe(c)
  PROVE  SubscribedInv'
  <1> USE ServerAssumption DEF StreamInv, ServerInv, TypeOK, Goto, Destroying, Processing
  <1>1. CASE Unsubscribe(c) \/ UnsubscribeStream(c)
    <2>1. /\ receivers' = receivers \ {old[c]} /\ UNCHANGED <<heap, httpProcessor, old>>
          /\ pc[c] \in Destroying /\ pc'[c] \in Destroying \ {"destroy"} /\ old[c] # Null
          /\ \A d \in Conns : d # c => pc'[d] = pc[d]
      BY <1>1 DEF Unsubscribe, UnsubscribeStream, OldKind, ThreadInv, Late
    <2>2. \A d \in Conns : httpProcessor[d] # old[c] /\ (d # c => old[d] # old[c])
      BY <2>1 DEF OwnInv
    <2> QED BY <2>1, <2>2 DEF SubscribedInv, OldKind
  <1>2. CASE Delete(c)
    <2>1. /\ UNCHANGED <<receivers, httpProcessor>> /\ pc[c] \in Destroying
          /\ pc'[c] \in {"closed", "process"} /\ old'[c] = Null
          /\ \A d \in Conns : d # c => pc'[d] = pc[d] /\ old'[d] = old[d]
      BY <1>2 DEF Delete
    <2>2. \A d \in Conns : /\ httpProcessor[d] # Null => heap'[httpProcessor[d]] = heap[httpProcessor[d]]
                           /\ d # c /\ old[d] # Null => heap'[old[d]] = heap[old[d]]
      BY <1>2 DEF Delete, OwnInv
    <2> QED BY <2>1, <2>2 DEF SubscribedInv, OldKind
  <1>3. CASE Subscribe(c)
    <2>1. /\ receivers' = receivers \cup {httpProcessor[c]} /\ UNCHANGED <<heap, httpProcessor, old>>
          /\ pc[c] = "subscribe" /\ pc'[c] = "idle" /\ httpProcessor[c] # Null
          /\ \A d \in Conns : d # c => pc'[d] = pc[d]
      BY <1>3 DEF Subscribe, WorkerInv
    <2>2. \A d \in Conns : old[d] # httpProcessor[c] /\ (d # c => httpProcessor[d] # httpProcessor[c])
      BY <2>1 DEF OwnInv
    <2> QED BY <2>1, <2>2 DEF SubscribedInv, OldKind
  <1> QED BY <1>1, <1>2, <1>3

\* Every step keeps who is subscribed in line with where the workers are.
LEMMA SubscribedKept == StreamInv /\ SubscribedInv /\ [StreamNext]_allVars => SubscribedInv'
  <1> SUFFICES ASSUME StreamInv, SubscribedInv, [StreamNext]_allVars PROVE SubscribedInv'
    OBVIOUS
  <1> USE DEF StreamInv, ServerInv, TypeOK, Goto, Destroying, Processing
  <1>1. ASSUME UNCHANGED <<receivers, httpProcessor, old, pc>>, SameKinds PROVE SubscribedInv'
    BY <1>1, SubscribedStay
  <1>2. CASE Capturer
    <2>1. UNCHANGED <<receivers, httpProcessor, old, pc>> /\ SameKinds
      <3>1. \A a \in todo : a \in Addr /\ heap[a].skipped \in Int
        BY StreamNumbers DEF Processor
      <3> QED BY <1>2, <3>1 DEF Capturer, Capture, Notify, CaptureEnd, routerVars, SameKinds, Processor
    <2> QED BY <1>1, <2>1
  <1>3. CASE \E a \in todo : NotifyStream(a) \/ NotifyStreamEnd(a)
    BY <1>1, <1>3 DEF NotifyStream, NotifyStreamEnd, vars, routerVars, SameKinds
  <1>4. CASE \E g \in Stream : Thread(g) \/ SpuriousWakeup(g)
    BY <1>1, <1>4
    DEF Thread, Pop, Wait, SpuriousWakeup, Transcode, vars, routerVars, SameKinds
  <1>5. CASE UNCHANGED vars
    BY <1>1, <1>5 DEF vars, routerVars, SameKinds
  <1>6. ASSUME NEW c \in Conns, StreamWorker(c) PROVE SubscribedInv'
    <2>1. CASE Closing(c) \/ \E a \in Addr : Create(c, a)
      BY <2>1, ReplaceSubscribed
    <2>2. CASE Unsubscribe(c) \/ UnsubscribeStream(c) \/ Delete(c) \/ Subscribe(c)
      BY <2>2, DestroySubscribed
    <2>3. CASE \/ (\E r : Receive(c, r)) \/ DestroySender(c)
      BY <2>3, SubscribedStay DEF Receive, DestroySender, SameKinds
    <2>4. CASE ProcessMjpeg(c)
      <3>1. httpProcessor[c] \in Addr
        BY <2>4 DEF ProcessMjpeg, WorkerInv
      <3> QED BY <2>4, <3>1, SubscribedStay DEF ProcessMjpeg, SameKinds, Processor
    <2>5. CASE ProcessPlain(c) \/ ProcessFile(c)
      <3>1. /\ httpProcessor[c] # Null => heap[httpProcessor[c]].kind # "stream"
            /\ UNCHANGED <<receivers, httpProcessor, old, heap>>
            /\ pc[c] \in Processing /\ pc'[c] \in {"body", "idle"}
            /\ \A d \in Conns : d # c => pc'[d] = pc[d]
        BY <2>5 DEF ProcessPlain, ProcessFile, WorkerInv
      <3> QED BY <3>1, SubscribedStay DEF SameKinds
    <2>6. CASE SendHeader(c) \/ PushSentinel(c) \/ NotifySentinel(c) \/ Join(c) \/ Flush(c)
      BY <2>6, SubscribedStay
      DEF SendHeader, PushSentinel, NotifySentinel, Join, Flush, SameKinds, WriteData
    <2> QED BY <1>6, <2>1, <2>2, <2>3, <2>4, <2>5, <2>6
        DEF StreamWorker, ReceiveStream, CreateStream, SubscribeStream
  <1> QED BY <1>2, <1>3, <1>4, <1>5, <1>6 DEF StreamNext, StreamCapturer, Exhausted, allVars

-----------------------------------------------------------------------------
\* The histories and the threads' ends, when nothing is pushed or taken.
LEMMA HistoryStays ==
  ASSUME TakenInv, UNCHANGED <<queue, pushed, popped, since, until>>,
         \A g \in Stream : thread[g] = "done" => thread'[g] = "done"
  PROVE  RunInv' /\ EndInv'
  BY DEF TakenInv, RunInv, EndInv

\* An element goes to the end of what was pushed and of the queue,
LEMMA RemainPushed ==
  ASSUME NEW in \in Seq(Element), NEW out \in Seq(Element), NEW q \in Seq(Element),
         NEW e \in Element, Remain(in, out, q)
  PROVE  Remain(Append(in, e), out, Append(q, e))
  BY DEF Remain

\* and from the head of the queue to the end of what was taken.
LEMMA RemainTaken ==
  ASSUME NEW in \in Seq(Element), NEW out \in Seq(Element), NEW q \in Seq(Element),
         q # <<>>, Remain(in, out, q)
  PROVE  Remain(in, Append(out, Head(q)), Tail(q))
  <1>1. /\ Head(q) = q[1] /\ Len(q) \in Nat \ {0} /\ Len(Tail(q)) = Len(q) - 1
        /\ \A i \in 1..Len(Tail(q)) : Tail(q)[i] = q[i + 1]
    OBVIOUS
  <1>2. /\ Len(out) \in Nat /\ Len(Append(out, Head(q))) = Len(out) + 1
        /\ \A i \in 1..Len(out) : Append(out, Head(q))[i] = out[i]
        /\ Append(out, Head(q))[Len(out) + 1] = q[1]
    BY <1>1
  <1>3. Head(q) = in[Len(out) + 1]
    BY <1>1, <1>2 DEF Remain
  <1> QED BY <1>1, <1>2, <1>3 DEF Remain

\* An element that comes next keeps the run.
LEMMA RunPushed ==
  ASSUME NEW s \in Seq(Element), NEW e \in Element, NEW before \in Int, NEW last, Run(s, before, last),
         (\A i \in DOMAIN s : s[i] # Sentinel) =>
           IF e = Sentinel THEN before + Len(s) + 1 - 1 = last ELSE e = before + Len(s) + 1
  PROVE  Run(Append(s, e), before, last)
  <1> DEFINE t == Append(s, e)
  <1>1. /\ Len(s) \in Nat /\ DOMAIN s = 1..Len(s) /\ DOMAIN t = 1..(Len(s) + 1)
        /\ t[Len(s) + 1] = e /\ \A i \in 1..Len(s) : t[i] = s[i]
    OBVIOUS
  <1> HIDE DEF t
  <1> SUFFICES ASSUME NEW i \in DOMAIN t, \A j \in 1..(i - 1) : t[j] # Sentinel
               PROVE  IF t[i] = Sentinel THEN before + i - 1 = last ELSE t[i] = before + i
    BY DEF Run, t
  <1>2. CASE i \in 1..Len(s)
    <2>1. \A j \in 1..(i - 1) : s[j] # Sentinel
      BY <1>1, <1>2
    <2> QED BY <1>1, <1>2, <2>1 DEF Run
  <1>3. CASE i = Len(s) + 1
    <2>1. \A j \in 1..Len(s) : s[j] # Sentinel
      BY <1>1, <1>3
    <2> QED BY <1>1, <1>3, <2>1
  <1> QED BY <1>1, <1>2, <1>3

\* Where a stream stands before its destructor has pushed the sentinel.
LEMMA NotClosed ==
  ASSUME StreamInv, TakenInv, NEW c \in Conns, PushSentinel(c)
  PROVE  /\ old[c] \in Addr /\ heap[old[c]].kind = "stream" /\ Old(c) \in Stream /\ old[c] # Null
         /\ ~Closed(old[c]) /\ old[c] \in receivers
         /\ since[Old(c)] + Len(pushed[Old(c)]) + Due(old[c]) = frame
         /\ until'[Old(c)] = frame - Due(old[c])
  <1>1. /\ old[c] \in Addr /\ heap[old[c]].kind = "stream" /\ Old(c) \in Stream /\ old[c] # Null
        /\ pc[c] = "destroy"
    BY StreamNumbers DEF PushSentinel, OldKind, Old, StreamInv, ServerInv, TypeOK
  <1>2. ~Closed(old[c])
    BY <1>1 DEF Closed, StreamInv, ServerInv, OwnInv
  <1>3. old[c] \in receivers
    BY <1>1 DEF TakenInv, SubscribedInv, OldKind
  <1>4. since[Old(c)] + Len(pushed[Old(c)]) + Due(old[c]) = frame
    BY <1>1, <1>2, <1>3 DEF TakenInv, FedInv, Fed, Old
  <1>5. until'[Old(c)] = frame - Due(old[c])
    <2>1. frame \in Nat /\ until \in [Stream -> Int]
      BY ServerAssumption DEF StreamInv, ServerInv, TypeOK, TakenInv, RunInv
    <2> QED BY <1>1, <2>1 DEF PushSentinel, Due, Old
  <1> QED BY <1>1, <1>2, <1>3, <1>4, <1>5

\* The sentinel comes after the last frame that was pushed.
LEMMA PushSentinelTaken ==
  ASSUME StreamInv, TakenInv, NEW c \in Conns, PushSentinel(c)
  PROVE  RunInv' /\ EndInv'
  <1> DEFINE g == Old(c)
  <1> USE DEF StreamInv, StreamTypeOK
  <1>1. g \in Stream /\ pushed[g] \in Seq(Element) /\ queue[g] \in Seq(Element)
        /\ popped[g] \in Seq(Element) /\ Sentinel \in Element
    BY NotClosed DEF Element
  <1>2. /\ UNCHANGED <<thread, popped, since>>
        /\ queue' = [queue EXCEPT ![g] = Append(@, Sentinel)]
        /\ pushed' = [pushed EXCEPT ![g] = Append(@, Sentinel)]
        /\ \A h \in Stream : h # g => until'[h] = until[h]
    BY DEF PushSentinel, Push, TakenInv, RunInv
  <1>3. EndInv'
    BY <1>1, <1>2, RemainPushed DEF TakenInv, EndInv
  <1>4. RunInv'
    <2>1. since \in [Stream -> Nat] /\ until' \in [Stream -> Int] /\ frame \in Nat
      <3>1. frame \in Nat /\ until \in [Stream -> Int] /\ since \in [Stream -> Nat]
        BY ServerAssumption DEF ServerInv, TypeOK, TakenInv, RunInv
      <3>2. PICK n \in Int : until' = [until EXCEPT ![g] = n]
        <4>1. until' = [until EXCEPT ![g] = frame] \/ until' = [until EXCEPT ![g] = frame - 1]
          BY DEF PushSentinel
        <4>2. frame \in Int /\ frame - 1 \in Int
          BY <3>1
        <4> QED BY <4>1, <4>2
      <3>3. since' = since
        BY DEF PushSentinel
      <3> QED BY <3>1, <3>2, <3>3
    <2>2. Run(pushed'[g], since[g], until'[g])
      <3>1. \A i \in DOMAIN pushed[g] : pushed[g][i] # Sentinel
        BY NotClosed DEF TakenInv, FedInv, Fed, Old
      <3>2. Run(pushed[g], since[g], until'[g])
        BY <1>1, <3>1 DEF TakenInv, RunInv, Run
      <3>3. since[g] + Len(pushed[g]) + 1 - 1 = until'[g]
        <4>1. since[g] + Len(pushed[g]) + Due(old[c]) = frame /\ until'[g] = frame - Due(old[c])
          BY NotClosed
        <4>2. Due(old[c]) \in {0, 1} /\ since[g] \in Nat /\ Len(pushed[g]) \in Nat
          BY <1>1, <2>1, LenProperties DEF Due
        <4> QED BY <2>1, <4>1, <4>2
      <3>4. Run(Append(pushed[g], Sentinel), since[g], until'[g])
        BY <1>1, <2>1, <3>2, <3>3, RunPushed
      <3> QED BY <1>1, <1>2, <3>4
    <2>3. \A h \in Stream : h # g => Run(pushed'[h], since[h], until'[h])
      BY <1>1, <1>2 DEF TakenInv, RunInv
    <2> QED BY <1>2, <2>1, <2>2, <2>3 DEF RunInv
  <1> QED BY <1>3, <1>4

\* The capturer's next frame is the next of the run, or comes after the
\* sentinel.
LEMMA NotifyStreamTaken ==
  ASSUME StreamInv, TakenInv, NEW a \in todo, NotifyStream(a)
  PROVE  RunInv' /\ EndInv'
  <1> DEFINE g == gen[a]
  <1> USE DEF StreamInv, StreamTypeOK
  <1>1. /\ notifying /\ inside = 0 /\ heap[a].kind = "stream"
        /\ UNCHANGED <<thread, popped, since, until>>
        /\ queue' = [queue EXCEPT ![g] = Append(@, frame)]
        /\ pushed' = [pushed EXCEPT ![g] = Append(@, frame)]
    BY DEF NotifyStream, Push
  <1>2. /\ a \in Addr /\ g \in Stream /\ pushed[g] \in Seq(Element) /\ queue[g] \in Seq(Element)
        /\ popped[g] \in Seq(Element) /\ frame \in Element /\ frame # Sentinel /\ frame \in Nat
        /\ a \in receivers
    BY <1>1, StreamNumbers, StreamAssumption DEF Element, PushInv, ServerInv, ReceiverInv
  <1>3. EndInv'
    BY <1>1, <1>2, RemainPushed DEF TakenInv, EndInv
  <1>4. RunInv'
    <2>1. Run(Append(pushed[g], frame), since[g], until[g])
      <3>1. Run(pushed[g], since[g], until[g]) /\ since[g] \in Nat
        BY <1>2 DEF TakenInv, RunInv
      <3>2. ASSUME \A i \in DOMAIN pushed[g] : pushed[g][i] # Sentinel
            PROVE  frame = since[g] + Len(pushed[g]) + 1
        <4>1. since[g] + Len(pushed[g]) + Due(a) = frame
          BY <1>1, <1>2, <3>2 DEF TakenInv, FedInv, Fed
        <4>2. Due(a) = 1 /\ Len(pushed[g]) \in Nat
          BY <1>1, <1>2, LenProperties DEF Due, Stream
        <4> QED BY <1>2, <3>1, <4>1, <4>2
      <3> QED BY <1>2, <3>1, <3>2, RunPushed
    <2> QED BY <1>1, <1>2, <2>1 DEF TakenInv, RunInv
  <1> QED BY <1>3, <1>4

\* What the thread takes is the next of what was pushed; after the sentinel
\* it takes nothing.
LEMMA PopTaken ==
  ASSUME StreamInv, TakenInv, NEW g \in Stream, Pop(g)
  PROVE  RunInv' /\ EndInv'
  <1> USE DEF StreamInv, StreamTypeOK
  <1>1. /\ UNCHANGED <<pushed, since, until>> /\ queue[g] # <<>> /\ thread[g] = "run"
        /\ thread' = [thread EXCEPT ![g] = IF Head(queue[g]) = Sentinel THEN "done" ELSE "work"]
        /\ queue' = [queue EXCEPT ![g] = Tail(@)]
        /\ popped' = [popped EXCEPT ![g] = Append(@, Head(queue[g]))]
    BY DEF Pop
  <1>2. /\ pushed[g] \in Seq(Element) /\ queue[g] \in Seq(Element) /\ popped[g] \in Seq(Element)
        /\ Head(queue[g]) \in Element
    BY <1>1
  <1>3. RunInv'
    BY <1>1 DEF TakenInv, RunInv
  <1>4. Remain(pushed[g], popped'[g], queue'[g])
    BY <1>1, <1>2, RemainTaken DEF TakenInv, EndInv
  <1>5. ASSUME NEW i \in DOMAIN popped'[g], popped'[g][i] = Sentinel
        PROVE  i = Len(popped'[g]) /\ thread'[g] = "done"
    <2>1. /\ popped'[g] = Append(popped[g], Head(queue[g])) /\ Len(popped[g]) \in Nat
          /\ thread'[g] = IF Head(queue[g]) = Sentinel THEN "done" ELSE "work"
      BY <1>1, <1>2
    <2>2. \A j \in DOMAIN popped[g] : popped[g][j] # Sentinel
      BY <1>1 DEF TakenInv, EndInv
    <2> QED BY <1>2, <1>5, <2>1, <2>2
  <1> QED BY <1>1, <1>3, <1>4, <1>5 DEF TakenInv, EndInv

-----------------------------------------------------------------------------
\* The workers' other steps change nothing about the streams that go on.
LEMMA OtherWorkers ==
  ASSUME StreamInv, NEW c \in Conns, StreamWorker(c), ~PushSentinel(c), ~SubscribeStream(c),
         ~\E a \in Addr : CreateStream(c, a)
  PROVE  /\ UNCHANGED <<streams, gen, queue, inside, pushed, popped, since, until>>
         /\ \A g \in Stream : thread[g] = "done" => thread'[g] = "done"
         /\ \A a \in Addr : heap'[a].kind = "stream" => heap[a].kind = "stream"
         /\ \A a \in Addr : heap'[a].kind = "stream" /\ old'[c] = a
                              /\ pc'[c] \in Destroying \ {"destroy"}
                            => old[c] = a /\ pc[c] \in Destroying \ {"destroy"}
         /\ \A a \in Addr : heap'[a].kind = "stream" /\ ~Closed(a)
                            => (a \in receivers' <=> a \in receivers)
  <1> USE DEF StreamInv, ServerInv, TypeOK, Goto, Destroying
  <1>1. CASE (\E r \in Request : Receive(c, r)) /\ UNCHANGED streamVars
    BY <1>1 DEF Receive, streamVars
  <1>2. CASE (\E a \in Addr : Create(c, a) /\ request[c].kind # "stream") /\ UNCHANGED streamVars
    BY <1>2 DEF Create, NewProcessor, streamVars
  <1>3. CASE Closing(c) /\ UNCHANGED streamVars
    BY <1>3 DEF Closing, streamVars
  <1>4. CASE Unsubscribe(c) /\ UNCHANGED streamVars
    BY <1>4 DEF Unsubscribe, OldKind, streamVars
  <1>5. CASE Delete(c) /\ UNCHANGED streamVars
    BY <1>5, ServerAssumption DEF Delete, Free, streamVars
  <1>6. CASE ProcessMjpeg(c) /\ UNCHANGED streamVars
    <2>1. httpProcessor[c] \in Addr
      BY <1>6 DEF ProcessMjpeg, WorkerInv, Processing
    <2> QED BY <1>6, <2>1 DEF ProcessMjpeg, Processor, streamVars
  <1>7. CASE (ProcessPlain(c) \/ ProcessFile(c) \/ DestroySender(c)) /\ UNCHANGED streamVars
    BY <1>7 DEF ProcessPlain, ProcessFile, DestroySender, streamVars
  <1>8. CASE Subscribe(c) /\ request[c].kind # "stream" /\ UNCHANGED streamVars
    BY <1>8 DEF Subscribe, WorkerInv, Processing, streamVars
  <1>9. CASE ReceiveStream(c)
    BY <1>9 DEF ReceiveStream, Receive, streamVars
  <1>10. CASE SendHeader(c) \/ Join(c)
    BY <1>10 DEF SendHeader, Join, streamVars
  <1>11. CASE NotifySentinel(c)
    BY <1>11 DEF NotifySentinel, Woken, StreamTypeOK
  <1>12. CASE UnsubscribeStream(c)
    BY <1>12 DEF UnsubscribeStream, Closed, streamVars
  <1>13. CASE Flush(c)
    BY <1>13 DEF Flush, WriteData
  <1> QED BY <1>1, <1>2, <1>3, <1>4, <1>5, <1>6, <1>7, <1>8, <1>9, <1>10, <1>11, <1>12, <1>13
      DEF StreamWorker

\* A stream is closed before such a step if and only if it is afterwards.
LEMMA ClosedSame ==
  ASSUME StreamInv, NEW c \in Conns, StreamWorker(c), ~PushSentinel(c), ~SubscribeStream(c),
         ~\E b \in Addr : CreateStream(c, b), NEW a \in Addr, heap'[a].kind = "stream"
  PROVE  Closed(a)' <=> Closed(a)
  <1>1. ASSUME NEW d \in Conns, old[d] = a, pc[d] \in Destroying \ {"destroy"} PROVE Closed(a)'
    <2>1. CASE d # c
      BY <1>1, <2>1, WorkerOwn DEF Closed
    <2>2. CASE d = c
      <3>1. a # Null /\ ~Delete(c)
        BY <1>1, <2>2, ServerAssumption DEF Delete, Free, StreamInv, ServerInv, TypeOK
      <3> QED BY <1>1, <2>2, <3>1, WorkerOwn DEF Closed
    <2> QED BY <2>1, <2>2
  <1>2. ASSUME NEW d \in Conns, old'[d] = a, pc'[d] \in Destroying \ {"destroy"} PROVE Closed(a)
    <2>1. CASE d # c
      BY <1>2, <2>1, WorkerOwn DEF Closed
    <2>2. CASE d = c
      BY <1>2, <2>2, OtherWorkers DEF Closed
    <2> QED BY <2>1, <2>2
  <1> QED BY <1>1, <1>2 DEF Closed

\* So they keep what is pushed and taken in order.
LEMMA OtherWorkersTaken ==
  ASSUME StreamInv, TakenInv, NEW c \in Conns, StreamWorker(c), ~PushSentinel(c),
         ~SubscribeStream(c), ~\E a \in Addr : CreateStream(c, a)
  PROVE  RunInv' /\ FedInv' /\ EndInv'
  <1>1. RunInv' /\ EndInv'
    BY OtherWorkers, HistoryStays
  <1>2. ASSUME NEW a \in Addr, heap'[a].kind = "stream" PROVE Fed(a)'
    <2>1. /\ Fed(a) /\ (Closed(a)' <=> Closed(a)) /\ (~Closed(a) => (a \in receivers' <=> a \in receivers))
          /\ UNCHANGED <<gen, inside, pushed, since, todo, frame>>
      BY <1>2, OtherWorkers, ClosedSame, WorkerOwn DEF TakenInv, FedInv, captureVars
    <2> QED BY <2>1 DEF Fed, Due
  <1> QED BY <1>1, <1>2 DEF FedInv

\* A new stream has been pushed nothing.
LEMMA CreateStreamTaken ==
  ASSUME StreamInv, TakenInv, NEW c \in Conns, NEW a \in Addr, CreateStream(c, a)
  PROVE  RunInv' /\ FedInv' /\ EndInv'
  <1> USE DEF StreamInv, StreamTypeOK
  <1>1. /\ pc' = [pc EXCEPT ![c] = "destroy"] /\ old' = [old EXCEPT ![c] = httpProcessor[c]]
        /\ pc[c] = "create" /\ old[c] = Null /\ heap[a].kind = "free"
        /\ UNCHANGED <<receivers, captureVars, requests, inside, queue, pushed, popped, since, until>>
        /\ streams' = streams + 1 /\ gen' = [gen EXCEPT ![a] = streams']
        /\ thread' = [thread EXCEPT ![streams'] = "run"]
        /\ \A b \in Addr : b # a => heap'[b] = heap[b]
        /\ request[c].kind = "stream"
    BY DEF CreateStream, Create, ServerInv, TypeOK, WorkerInv, Destroying, Goto, Free
  <1>2. RunInv' /\ EndInv'
    <2>1. \A g \in Stream : thread[g] = "done" => g # streams'
      BY <1>1 DEF GenInv
    <2> QED BY <1>1, <2>1, HistoryStays
  <1>3. \A b \in Addr : Closed(b)' <=> Closed(b)
    BY <1>1 DEF Closed, Destroying, ServerInv, TypeOK, WorkerInv
  <1>4. ASSUME NEW b \in Addr, b # a, heap'[b].kind = "stream" PROVE Fed(b)'
    <2>1. Fed(b) /\ (Closed(b)' <=> Closed(b)) /\ gen'[b] = gen[b]
          /\ UNCHANGED <<receivers, inside, pushed, since, todo, frame>>
      BY <1>1, <1>3, <1>4 DEF TakenInv, FedInv, captureVars
    <2> QED BY <2>1 DEF Fed, Due
  <1>5. Fed(a)'
    <2>1. a \notin receivers /\ ~Closed(a) /\ a # Null
      <3>1. a \notin receivers /\ a # Null
        BY <1>1, ServerAssumption DEF ServerInv, ReceiverInv, Streaming
      <3>2. \A d \in Conns : old[d] # a
        BY <1>1, <3>1 DEF ServerInv, OwnInv
      <3> QED BY <3>1, <3>2 DEF Closed
    <2>2. gen'[a] = streams + 1 /\ streams + 1 \in Stream
      <3>1. c \in Creating
        BY <1>1 DEF Creating
      <3>2. Cardinality(Creating) \in Nat \ {0}
        BY <3>1, FS_CardinalityType, FS_EmptySet DEF CountInv
      <3> QED BY <1>1, <3>2, ServerAssumption DEF CountInv, ServerInv, TypeOK, Stream
    <2>3. pushed[streams + 1] = <<>>
      BY <2>2 DEF GenInv
    <2> QED BY <1>1, <1>3, <2>1, <2>2, <2>3 DEF Fed
  <1> QED BY <1>2, <1>4, <1>5 DEF FedInv

\* AddSubscriber waits for the capturer: the first frame the stream is owed is
\* the next.
LEMMA SubscribeStreamTaken ==
  ASSUME StreamInv, TakenInv, NEW c \in Conns, SubscribeStream(c)
  PROVE  RunInv' /\ FedInv' /\ EndInv'
  <1> USE DEF StreamInv, StreamTypeOK
  <1>0. PICK a \in Addr \cup {Null} : a = httpProcessor[c]
    BY DEF ServerInv, TypeOK
  <1> DEFINE g == gen[a]
  <1>1. /\ receivers' = receivers \cup {a} /\ pc[c] = "subscribe" /\ pc' = [pc EXCEPT ![c] = "idle"]
        /\ ~notifying /\ UNCHANGED <<todo, frame, inside, gen, heap, old, queue, pushed, popped>>
        /\ UNCHANGED <<until, thread>> /\ since' = [since EXCEPT ![g] = frame]
        /\ request[c].kind = "stream"
    BY <1>0 DEF SubscribeStream, Subscribe, captureVars, Goto, New
  <1>2. /\ a \in Addr /\ heap[a].kind = "stream" /\ g \in Stream /\ a \notin receivers /\ todo = {}
        /\ frame \in Nat
    <2>1. a # Null /\ heap[a].kind = "stream" /\ a \in Addr /\ todo = {} /\ frame \in Nat
      BY <1>0, <1>1, ServerAssumption DEF ServerInv, TypeOK, WorkerInv, ReceiverInv, Processing
    <2>2. a \notin receivers
      BY <1>0, <1>1 DEF TakenInv, SubscribedInv, Processing
    <2> QED BY <2>1, <2>2, StreamNumbers
  <1>3. \A b \in Addr : Closed(b)' <=> Closed(b)
    BY <1>1 DEF Closed, Destroying, ServerInv, TypeOK
  <1>4. ~Closed(a) /\ pushed[g] = <<>>
    <2>1. ~Closed(a)
      <3>1. a # Null /\ heap[a].conn = c
        BY <1>0, <1>2, ServerAssumption DEF ServerInv, OwnInv
      <3>2. \A d \in Conns : old[d] # a
        BY <1>0, <3>1 DEF ServerInv, OwnInv
      <3> QED BY <3>2 DEF Closed
    <2> QED BY <1>2, <2>1 DEF TakenInv, FedInv, Fed
  <1>5. RunInv'
    <2>1. since' \in [Stream -> Nat] /\ since'[g] = frame /\ \A h \in Stream : h # g => since'[h] = since[h]
      BY <1>1, <1>2 DEF TakenInv, RunInv
    <2>2. Run(pushed[g], since'[g], until[g])
      BY <1>4 DEF Run
    <2> QED BY <1>1, <2>1, <2>2 DEF TakenInv, RunInv
  <1>6. EndInv'
    BY <1>1 DEF TakenInv, EndInv
  <1>7. ASSUME NEW b \in Addr, b # a, heap'[b].kind = "stream" PROVE Fed(b)'
    <2>1. gen[b] # g
      BY <1>1, <1>2, <1>7, StreamNumbers DEF GenInv
    <2>2. Fed(b) /\ (Closed(b)' <=> Closed(b)) /\ since'[gen[b]] = since[gen[b]]
          /\ (b \in receivers' <=> b \in receivers)
      BY <1>1, <1>3, <1>7, <2>1, StreamNumbers DEF TakenInv, FedInv, RunInv
    <2> QED BY <1>1, <2>2 DEF Fed, Due
  <1>8. Fed(a)'
    <2>1. since'[g] = frame /\ Due(a)' = 0 /\ a \in receivers'
      BY <1>1, <1>2 DEF Due, TakenInv, RunInv
    <2>2. pushed[g] = <<>> /\ Len(pushed[g]) = 0 /\ frame' = frame /\ gen'[a] = g /\ pushed' = pushed
          /\ ~Closed(a)'
      BY <1>1, <1>2, <1>3, <1>4
    <2>3. since'[g] + Len(pushed[g]) + Due(a)' = frame
      BY <1>2, <2>1, <2>2
    <2> QED BY <2>1, <2>2, <2>3 DEF Fed
  <1> QED BY <1>5, <1>6, <1>7, <1>8 DEF FedInv

-----------------------------------------------------------------------------
\* The push of the sentinel closes its stream, and no other.
LEMMA PushSentinelFeeds ==
  ASSUME StreamInv, TakenInv, NEW c \in Conns, PushSentinel(c)
  PROVE  FedInv'
  <1> USE DEF StreamInv, StreamTypeOK
  <1>1. PICK a \in Addr : a = old[c] /\ gen[a] = Old(c)
    BY NotClosed DEF Old
  <1>2. /\ heap[a].kind = "stream" /\ gen[a] \in Stream /\ pushed[gen[a]] \in Seq(Element)
        /\ pc' = [pc EXCEPT ![c] = "notify"] /\ pc[c] = "destroy"
        /\ UNCHANGED <<receivers, todo, frame, heap, old, gen, inside, since>>
        /\ pushed' = [pushed EXCEPT ![gen[a]] = Append(@, Sentinel)]
    BY <1>1, NotClosed DEF PushSentinel, Goto, Push, captureVars
  <1>3. ASSUME NEW b \in Addr, b # a, heap[b].kind = "stream" PROVE Fed(b)'
    <2>1. Closed(b)' <=> Closed(b)
      BY <1>1, <1>2, <1>3 DEF Closed, ServerInv, TypeOK
    <2>2. pushed'[gen[b]] = pushed[gen[b]]
      BY <1>1, <1>2, <1>3, StreamNumbers DEF GenInv
    <2> QED BY <1>2, <1>3, <2>1, <2>2 DEF TakenInv, FedInv, Fed, Due
  <1>4. Fed(a)'
    <2>1. Closed(a)'
      BY <1>1, <1>2 DEF Closed, Destroying, ServerInv, TypeOK
    <2>2. LET p == pushed'[gen[a]] IN Len(pushed[gen[a]]) + 1 \in DOMAIN p /\ p[Len(pushed[gen[a]]) + 1] = Sentinel
      BY <1>2 DEF Element
    <2> QED BY <1>2, <2>1, <2>2 DEF Fed
  <1> QED BY <1>2, <1>3, <1>4 DEF FedInv

\* A frame that is pushed is no longer due.
LEMMA NotifyStreamFeeds ==
  ASSUME StreamInv, TakenInv, NEW a \in todo, NotifyStream(a)
  PROVE  FedInv'
  <1> USE DEF StreamInv, StreamTypeOK
  <1>1. /\ notifying /\ inside = 0 /\ heap[a].kind = "stream" /\ inside' = gen[a]
        /\ UNCHANGED <<receivers, todo, frame, heap, old, pc, gen, since>>
        /\ pushed' = [pushed EXCEPT ![gen[a]] = Append(@, frame)]
    BY DEF NotifyStream, Push, vars, captureVars, routerVars
  <1>2. /\ a \in Addr /\ gen[a] \in Stream /\ pushed[gen[a]] \in Seq(Element)
        /\ frame \in Element /\ frame # Sentinel /\ frame \in Nat /\ a \in receivers
    BY <1>1, StreamNumbers, StreamAssumption DEF Element, PushInv, ServerInv, ReceiverInv
  <1>3. \A b \in Addr : Closed(b)' <=> Closed(b)
    BY <1>1 DEF Closed
  <1>4. ASSUME NEW b \in Addr, b # a, heap[b].kind = "stream" PROVE Fed(b)'
    <2>1. gen[b] # gen[a] /\ gen[b] # 0
      BY <1>1, <1>2, <1>4, StreamNumbers DEF GenInv
    <2>2. pushed'[gen[b]] = pushed[gen[b]] /\ Due(b)' = Due(b)
      BY <1>1, <1>4, <2>1, StreamNumbers DEF Due
    <2> QED BY <1>1, <1>3, <1>4, <2>2 DEF TakenInv, FedInv, Fed
  <1>5. Fed(a)'
    <2> DEFINE p == pushed[gen[a]]
               q == pushed'[gen[a]]
    <2>1. /\ q = Append(p, frame) /\ Len(p) \in Nat /\ Len(q) = Len(p) + 1
          /\ DOMAIN p = 1..Len(p) /\ DOMAIN q = 1..(Len(p) + 1)
          /\ q[Len(p) + 1] = frame /\ \A i \in 1..Len(p) : q[i] = p[i]
      BY <1>1, <1>2
    <2>2. Due(a) = 1 /\ Due(a)' = 0
      BY <1>1, <1>2 DEF Due, Stream
    <2>3. since[gen[a]] \in Nat
      BY <1>2 DEF TakenInv, RunInv
    <2>4. Fed(a)
      BY <1>1, <1>2 DEF TakenInv, FedInv
    <2> HIDE DEF p, q
    <2>5. (\E i \in DOMAIN q : q[i] = Sentinel) <=> \E i \in DOMAIN p : p[i] = Sentinel
      BY <1>2, <2>1
    <2>6. ~Closed(a) => since[gen[a]] + Len(q) + 0 = frame
      BY <1>2, <2>1, <2>2, <2>3, <2>4 DEF Fed, p
    <2> QED BY <1>1, <1>2, <1>3, <2>2, <2>4, <2>5, <2>6 DEF Fed, p, q
  <1> QED BY <1>1, <1>4, <1>5 DEF FedInv

\* Once the stream has notified its thread the capturer is done with it.
LEMMA NotifyStreamEndTaken ==
  ASSUME StreamInv, TakenInv, NEW a \in todo, NotifyStreamEnd(a)
  PROVE  RunInv' /\ FedInv' /\ EndInv'
  <1> USE DEF StreamInv, StreamTypeOK
  <1>1. /\ inside # 0 /\ inside = gen[a] /\ inside' = 0 /\ todo' = todo \ {a}
        /\ UNCHANGED <<receivers, frame, heap, old, pc>>
        /\ UNCHANGED <<gen, queue, pushed, popped, since, until>>
        /\ thread' = [thread EXCEPT ![inside] = IF @ = "wait" THEN "run" ELSE @]
    BY DEF NotifyStreamEnd, Woken, routerVars
  <1>2. RunInv' /\ EndInv'
    BY <1>1, HistoryStays
  <1>3. ASSUME NEW b \in Addr, heap[b].kind = "stream" PROVE Fed(b)'
    <2>1. (Closed(b)' <=> Closed(b)) /\ Fed(b)
      BY <1>1, <1>3 DEF Closed, TakenInv, FedInv
    <2>2. Due(b)' = Due(b)
      BY <1>1, <1>3, StreamNumbers DEF Due, GenInv
    <2> QED BY <1>1, <2>1, <2>2 DEF Fed
  <1> QED BY <1>1, <1>2, <1>3 DEF FedInv

\* A captured frame is due to every subscribed stream.
LEMMA CapturerTaken ==
  ASSUME StreamInv, TakenInv, Capturer, inside = 0, UNCHANGED streamVars
  PROVE  RunInv' /\ FedInv' /\ EndInv'
  <1> USE DEF StreamInv, StreamTypeOK, streamVars
  <1>1. UNCHANGED <<receivers, old, pc>> /\ SameKinds
    <2>1. CASE Capture \/ CaptureEnd
      BY <2>1 DEF Capture, CaptureEnd, routerVars, SameKinds
    <2>2. CASE \E a \in todo : Notify(a)
      <3>1. PICK a \in todo : Notify(a)
        BY <2>2
      <3>2. a \in Addr
        BY StreamNumbers
      <3> QED BY <3>1, <3>2 DEF Notify, routerVars, SameKinds, ServerInv, TypeOK, Processor
    <2> QED BY <2>1, <2>2 DEF Capturer
  <1>2. RunInv' /\ EndInv'
    BY HistoryStays
  <1>3. ASSUME NEW a \in Addr, heap[a].kind = "stream" PROVE Fed(a)'
    <2>1. (Closed(a)' <=> Closed(a)) /\ Fed(a) /\ gen[a] \in Stream /\ gen[a] # 0
      BY <1>1, <1>3, StreamNumbers DEF Closed, TakenInv, FedInv
    <2>2. frame \in Nat /\ since[gen[a]] \in Nat /\ Len(pushed[gen[a]]) \in Nat
      BY <2>1, LenProperties, ServerAssumption DEF ServerInv, TypeOK, TakenInv, RunInv
    <2>3. a \in receivers => Due(a) - frame = Due(a)' - frame' /\ Due(a) \in Int /\ Due(a)' \in Int /\ frame' \in Int
      <3>1. CASE Capture
        BY <2>1, <2>2, <3>1 DEF Capture, Due, ServerInv, ReceiverInv
      <3>2. CASE \E b \in todo : Notify(b)
        BY <1>3, <2>1, <2>2, <3>2 DEF Notify, Due
      <3>3. CASE CaptureEnd
        BY <2>2, <3>3 DEF CaptureEnd, Due
      <3> QED BY <3>1, <3>2, <3>3 DEF Capturer
    <2>4. ~Closed(a) /\ a \in receivers => since[gen[a]] + Len(pushed[gen[a]]) + Due(a) = frame
      BY <2>1 DEF Fed
    <2>5. ASSUME ~Closed(a), a \in receivers
          PROVE  since[gen[a]] + Len(pushed[gen[a]]) + Due(a)' = frame'
      <3>1. /\ since[gen[a]] + Len(pushed[gen[a]]) + Due(a) = frame /\ Due(a) - frame = Due(a)' - frame'
            /\ Due(a) \in Int /\ Due(a)' \in Int /\ frame' \in Int
        BY <2>3, <2>4, <2>5
      <3> QED BY <2>2, <3>1
    <2> QED BY <1>1, <2>1, <2>5 DEF Fed
  <1> QED BY <1>1, <1>2, <1>3 DEF FedInv, SameKinds

\* The threads take, and push nothing.
LEMMA ThreadTaken ==
  ASSUME StreamInv, TakenInv, NEW g \in Stream, Thread(g) \/ SpuriousWakeup(g)
  PROVE  RunInv' /\ FedInv' /\ EndInv'
  <1>1. UNCHANGED <<receivers, todo, frame, heap, old, pc, gen, inside, pushed, since>>
    BY DEF Thread, Pop, Wait, SpuriousWakeup, Transcode, vars, captureVars, routerVars
  <1>2. FedInv'
    <2>1. \A a \in Addr : Closed(a)' <=> Closed(a)
      BY <1>1 DEF Closed
    <2> QED BY <1>1, <2>1 DEF TakenInv, FedInv, Fed, Due
  <1>3. CASE Pop(g)
    BY <1>2, <1>3, PopTaken
  <1>4. CASE ~Pop(g)
    <2>1. UNCHANGED <<queue, popped, until>> /\ \A h \in Stream : thread[h] = "done" => thread'[h] = "done"
      <3>1. CASE Wait(g) \/ SpuriousWakeup(g)
        BY <3>1 DEF Wait, SpuriousWakeup, Woken, StreamInv, StreamTypeOK
      <3>2. CASE \E a \in Addr : gen[a] = g /\ Transcode(a)
        BY <3>2 DEF Transcode, StreamInv, StreamTypeOK
      <3> QED BY <1>4, <3>1, <3>2 DEF Thread
    <2> QED BY <1>1, <1>2, <2>1, HistoryStays
  <1> QED BY <1>3, <1>4

\* Every step keeps what is pushed and taken in order.
LEMMA TakenKept == StreamInv /\ TakenInv /\ [StreamNext]_allVars => TakenInv'
  <1> SUFFICES ASSUME StreamInv, TakenInv, [StreamNext]_allVars PROVE TakenInv'
    OBVIOUS
  <1>1. SubscribedInv'
    BY SubscribedKept DEF TakenInv
  <1>2. CASE StreamCapturer
    <2>1. CASE \E a \in todo : NotifyStream(a)
      BY <1>1, <2>1, NotifyStreamTaken, NotifyStreamFeeds DEF TakenInv
    <2> QED BY <1>1, <1>2, <2>1, CapturerTaken, NotifyStreamEndTaken DEF StreamCapturer, TakenInv
  <1>3. ASSUME NEW c \in Conns, StreamWorker(c) PROVE TakenInv'
    <2>1. CASE PushSentinel(c)
      BY <1>1, <2>1, PushSentinelTaken, PushSentinelFeeds DEF TakenInv
    <2>2. CASE SubscribeStream(c) \/ \E a \in Addr : CreateStream(c, a)
      BY <1>1, <2>2, SubscribeStreamTaken, CreateStreamTaken DEF TakenInv
    <2> QED BY <1>1, <1>3, <2>1, <2>2, OtherWorkersTaken DEF TakenInv
  <1>4. CASE \E g \in Stream : Thread(g) \/ SpuriousWakeup(g)
    BY <1>1, <1>4, ThreadTaken DEF TakenInv
  <1>5. CASE UNCHANGED <<vars, streamVars>>
    <2>1. RunInv' /\ EndInv'
      BY <1>5, HistoryStays DEF streamVars
    <2>2. FedInv'
      BY <1>5 DEF TakenInv, FedInv, Fed, Closed, Due, vars, captureVars, routerVars, streamVars
    <2> QED BY <1>1, <2>1, <2>2 DEF TakenInv
  <1> QED BY <1>2, <1>3, <1>4, <1>5 DEF StreamNext, Exhausted, allVars

\* So it is in every behaviour.
THEOREM TakenInvariant == StreamSpecification => []TakenInv
  <1>1. StreamInv /\ TakenInv /\ [StreamNext]_allVars => TakenInv'
    BY TakenKept
  <1> QED BY <1>1, TakenInitial, StreamInvariant, PTL DEF StreamSpecification

\* A stream shows the camera without a gap from its subscription to the end
\* of its connection's interest, and nothing the capturer still pushed behind
\* the sentinel.
THEOREM OwedAreTaken == StreamSpecification => []OwedTaken
  <1>1. StreamInv /\ TakenInv => OwedTaken
    <2> SUFFICES ASSUME StreamInv, TakenInv, NEW g \in Stream, NEW i \in DOMAIN popped[g]
                 PROVE  IF popped[g][i] = Sentinel
                          THEN i = Len(popped[g]) /\ since[g] + i - 1 = until[g]
                          ELSE popped[g][i] = since[g] + i
      BY DEF OwedTaken
    <2>1. /\ popped[g] \in Seq(Element) /\ pushed[g] \in Seq(Element) /\ queue[g] \in Seq(Element)
          /\ Remain(pushed[g], popped[g], queue[g]) /\ Run(pushed[g], since[g], until[g])
      BY DEF StreamInv, StreamTypeOK, TakenInv, EndInv, RunInv
    <2>2. \A j \in DOMAIN popped[g] : popped[g][j] = Sentinel => j = Len(popped[g])
      BY DEF TakenInv, EndInv
    <2>3. /\ DOMAIN popped[g] = 1..Len(popped[g]) /\ DOMAIN pushed[g] = 1..Len(pushed[g])
          /\ Len(popped[g]) \in Nat /\ Len(queue[g]) \in Nat
          /\ Len(pushed[g]) = Len(popped[g]) + Len(queue[g])
          /\ \A j \in 1..Len(popped[g]) : pushed[g][j] = popped[g][j]
      <3>1. /\ DOMAIN popped[g] = 1..Len(popped[g]) /\ DOMAIN pushed[g] = 1..Len(pushed[g])
            /\ Len(popped[g]) \in Nat /\ Len(queue[g]) \in Nat
        BY <2>1
      <3> QED BY <2>1, <3>1 DEF Remain
    <2>4. \A j \in 1..(i - 1) : pushed[g][j] # Sentinel
      <3>1. i \in 1..Len(popped[g]) /\ \A j \in 1..(i - 1) : j \in 1..Len(popped[g]) /\ j # Len(popped[g])
        BY <2>3
      <3> QED BY <2>2, <2>3, <3>1
    <2>5. i \in DOMAIN pushed[g] /\ pushed[g][i] = popped[g][i]
      <3> DEFINE n == Len(popped[g])
                 m == Len(queue[g])
      <3>1. i \in 1..n /\ n \in Nat /\ m \in Nat /\ Len(pushed[g]) = n + m
        BY <2>3
      <3> HIDE DEF n, m
      <3>2. i \in 1..Len(pushed[g])
        BY <3>1
      <3> QED BY <2>3, <3>1, <3>2 DEF n
    <2>6. IF pushed[g][i] = Sentinel THEN since[g] + i - 1 = until[g] ELSE pushed[g][i] = since[g] + i
      BY <2>1, <2>4, <2>5 DEF Run
    <2> QED BY <2>2, <2>5, <2>6
  <1> QED BY <1>1, StreamInvariant, TakenInvariant, PTL

-----------------------------------------------------------------------------
(* What a client gets of a stream: one response, whole.                    *)

At(s, g) == {i \in DOMAIN s : IsOf(s[i], g)}
Shown(s, g) == {s[i].n : i \in {j \in At(s, g) : s[j].type = "chunk"}}
Whole(s, g) == \E i \in At(s, g) : s[i] = Trailer(g)
Popped(g) == ToSet(popped[g]) \ {Sentinel}
Frames(g) == Popped(g) \ lost[g]

\* StreamComplete, of one sequence: "taken" is what the thread has popped and
\* no error has lost, "inner" what the codecs hold.
HeaderFirst(s, g) == \A i \in At(s, g) : s[i] = ChunkHead(g) <=> \A j \in At(s, g) : i <= j
EachOnce(s, g) == \A i, j \in At(s, g) : s[i] = s[j] => i = j
Together(s, g) == \A i, j \in At(s, g) : \A k \in i..j : k \in At(s, g) \/ s[k].type = "notfound"
Conveys(s, g, taken, inner) == taken = Shown(s, g) \cup inner /\ Shown(s, g) \cap inner = {}
TrailerLast(s, g, inner) ==
  \A i \in At(s, g) : s[i] = Trailer(g) => inner = {} /\ \A j \in At(s, g) : j <= i

Complete(s, g, taken, inner) ==
  /\ HeaderFirst(s, g) /\ EachOnce(s, g) /\ Together(s, g)
  /\ Conveys(s, g, taken, inner) /\ TrailerLast(s, g, inner)

\* Nothing but a "404" has been sent since the stream began.
Open(s, g) ==
  /\ At(s, g) # {}
  /\ \A i \in At(s, g) : \A k \in i..Len(s) : k \in At(s, g) \/ s[k].type = "notfound"
-----------------------------------------------------------------------------
\* What an item adds to a stream.
LEMMA AtAppended ==
  ASSUME NEW S, NEW s \in Seq(S), NEW x \in S, NEW g
  PROVE  LET t == Append(s, x) IN
           /\ Len(s) \in Nat /\ Len(t) = Len(s) + 1 /\ t[Len(s) + 1] = x
           /\ \A i \in 1..Len(s) : t[i] = s[i]
           /\ At(s, g) \subseteq 1..Len(s)
           /\ IsOf(x, g) => At(t, g) = At(s, g) \cup {Len(s) + 1}
           /\ ~IsOf(x, g) => At(t, g) = At(s, g)
  <1> DEFINE t == Append(s, x)
  <1>1. /\ Len(s) \in Nat /\ Len(t) = Len(s) + 1 /\ t[Len(s) + 1] = x
        /\ \A i \in 1..Len(s) : t[i] = s[i]
        /\ DOMAIN s = 1..Len(s) /\ DOMAIN t = 1..(Len(s) + 1)
    OBVIOUS
  <1> HIDE DEF t
  <1>2. At(s, g) \subseteq 1..Len(s)
    BY <1>1 DEF At
  <1>3. /\ IsOf(x, g) => At(t, g) = At(s, g) \cup {Len(s) + 1}
        /\ ~IsOf(x, g) => At(t, g) = At(s, g)
    BY <1>1 DEF At
  <1> QED BY <1>1, <1>2, <1>3 DEF t

\* The chunks among the items.
LEMMA ShownIs ==
  ASSUME NEW s, NEW g, NEW n
  PROVE  n \in Shown(s, g) <=> \E i \in At(s, g) : s[i].type = "chunk" /\ s[i].n = n
  BY DEF Shown

\* An item of another response changes nothing, and may come in between if it
\* is a "404".
LEMMA OtherAppended ==
  ASSUME NEW S, NEW s \in Seq(S), NEW x \in S, NEW g, ~IsOf(x, g)
  PROVE  LET t == Append(s, x) IN
           /\ At(t, g) = At(s, g) /\ (Whole(t, g) <=> Whole(s, g))
           /\ \A taken, inner : Complete(s, g, taken, inner) => Complete(t, g, taken, inner)
           /\ Open(s, g) /\ x.type = "notfound" => Open(t, g)
  <1> DEFINE t == Append(s, x)
  <1>1. /\ Len(s) \in Nat /\ Len(t) = Len(s) + 1 /\ t[Len(s) + 1] = x
        /\ \A i \in 1..Len(s) : t[i] = s[i]
        /\ At(s, g) \subseteq 1..Len(s) /\ At(t, g) = At(s, g)
    BY AtAppended
  <1> HIDE DEF t
  <1>2. \A i \in At(s, g) : t[i] = s[i]
    BY <1>1
  <1>3. Whole(t, g) <=> Whole(s, g)
    BY <1>1, <1>2 DEF Whole
  <1>4. Shown(t, g) = Shown(s, g)
    <2>1. \A n : n \in Shown(t, g) <=> n \in Shown(s, g)
      BY <1>1, <1>2, ShownIs
    <2> QED BY <2>1
  <1>5. ASSUME NEW taken, NEW inner, Complete(s, g, taken, inner) PROVE Complete(t, g, taken, inner)
    <2>1. HeaderFirst(t, g) /\ EachOnce(t, g)
      BY <1>1, <1>2, <1>5 DEF Complete, HeaderFirst, EachOnce
    <2>2. Together(t, g)
      <3>1. \A i, j \in At(s, g) : \A k \in i..j : k \in 1..Len(s)
        BY <1>1
      <3> QED BY <1>1, <1>5, <3>1 DEF Complete, Together
    <2>3. Conveys(t, g, taken, inner) /\ TrailerLast(t, g, inner)
      BY <1>1, <1>2, <1>4, <1>5 DEF Complete, Conveys, TrailerLast
    <2> QED BY <2>1, <2>2, <2>3 DEF Complete
  <1>6. Open(s, g) /\ x.type = "notfound" => Open(t, g)
    <2>1. \A i \in At(s, g) : \A k \in i..Len(t) : k \in i..Len(s) \/ k = Len(s) + 1
      BY <1>1
    <2>2. \A i \in At(s, g) : \A k \in i..Len(s) : t[k] = s[k]
      BY <1>1
    <2> QED BY <1>1, <2>1, <2>2 DEF Open
  <1> QED BY <1>1, <1>3, <1>5, <1>6 DEF t

\* The header begins a stream.
LEMMA HeaderAppended ==
  ASSUME NEW S, NEW s \in Seq(S), NEW g, ChunkHead(g) \in S, At(s, g) = {}
  PROVE  LET t == Append(s, ChunkHead(g)) IN
           Complete(t, g, {}, {}) /\ Open(t, g) /\ ~Whole(t, g)
  <1> DEFINE x == ChunkHead(g)
             t == Append(s, x)
             i == Len(s) + 1
  <1>1. IsOf(x, g) /\ x.type = "chunkhead" /\ x # Trailer(g)
    BY DEF IsOf, ChunkHead, Trailer
  <1>2. Len(s) \in Nat /\ Len(t) = i /\ t[i] = x /\ At(t, g) = {i} /\ i \in Nat
    BY <1>1, AtAppended
  <1> HIDE DEF t, i
  <1>3. HeaderFirst(t, g) /\ EachOnce(t, g) /\ Together(t, g)
    BY <1>2 DEF HeaderFirst, EachOnce, Together
  <1>4. Conveys(t, g, {}, {}) /\ TrailerLast(t, g, {}) /\ ~Whole(t, g)
    BY <1>1, <1>2, ShownIs DEF Conveys, TrailerLast, Whole
  <1>5. Open(t, g)
    BY <1>2 DEF Open
  <1> QED BY <1>3, <1>4, <1>5 DEF Complete, t

\* A chunk takes a frame from the codecs to the client; the trailer is the
\* last item, when the codecs hold no more.
LEMMA NextAppended ==
  ASSUME NEW S, NEW s \in Seq(S), NEW g, NEW x \in S, NEW taken, NEW inner, NEW rest,
         Complete(s, g, taken, inner), Open(s, g), ~Whole(s, g),
         \/ \E n \in inner : x = Chunk(g, n) /\ rest = inner \ {n}
         \/ x = Trailer(g) /\ inner = {} /\ rest = {}
  PROVE  LET t == Append(s, x) IN
           /\ Complete(t, g, taken, rest) /\ Open(t, g)
           /\ Whole(t, g) <=> x = Trailer(g)
  <1> DEFINE t == Append(s, x)
             e == Len(s) + 1
  <1>1. /\ IsOf(x, g) /\ x # ChunkHead(g)
        /\ x.type \in {"chunk", "trailer"} /\ (x.type = "trailer" <=> x = Trailer(g))
        /\ x.type = "chunk" => x = Chunk(g, x.n) /\ x.n \in inner /\ rest = inner \ {x.n}
        /\ x.type = "trailer" => inner = {} /\ rest = {}
    BY DEF IsOf, ChunkHead, Trailer, Chunk
  <1>2. /\ Len(s) \in Nat /\ Len(t) = e /\ t[e] = x /\ At(t, g) = At(s, g) \cup {e}
        /\ \A i \in At(s, g) : i \in 1..Len(s) /\ t[i] = s[i] /\ i < e
        /\ \A i \in 1..Len(s) : t[i] = s[i]
        /\ At(s, g) # {}
    BY <1>1, AtAppended DEF Open
  <1> HIDE DEF t, e
  <1>3. HeaderFirst(t, g)
    BY <1>1, <1>2 DEF HeaderFirst, Complete
  <1>4. \A i \in At(s, g) : s[i] # x
    <2>1. \A n \in inner : \A i \in At(s, g) : s[i] # Chunk(g, n)
      BY ShownIs DEF Complete, Conveys, Chunk
    <2> QED BY <2>1 DEF Whole
  <1>5. EachOnce(t, g)
    BY <1>2, <1>4 DEF EachOnce, Complete
  <1>6. Open(t, g)
    <2>1. \A i \in At(s, g) : \A k \in i..Len(t) : k = e \/ (k \in i..Len(s) /\ k \in 1..Len(s))
      BY <1>2 DEF e
    <2> QED BY <1>2, <2>1 DEF Open, e
  <1>7. Together(t, g)
    <2>1. \A i, j \in At(t, g) : \A k \in i..j : k \in i..Len(t)
      BY <1>2 DEF e
    <2> QED BY <1>6, <2>1 DEF Together, Open
  <1>8. Conveys(t, g, taken, rest)
    <2>1. CASE x = Trailer(g)
      <3>1. Shown(t, g) = Shown(s, g)
        <4>1. \A n : n \in Shown(t, g) <=> n \in Shown(s, g)
          BY <1>1, <1>2, <2>1, ShownIs
        <4> QED BY <4>1
      <3> QED BY <1>1, <2>1, <3>1 DEF Complete, Conveys, Trailer, Chunk
    <2>2. CASE x # Trailer(g)
      <3>1. Shown(t, g) = Shown(s, g) \cup {x.n}
        BY <1>1, <1>2, <2>2, ShownIs
      <3> QED BY <1>1, <2>2, <3>1 DEF Complete, Conveys
    <2> QED BY <2>1, <2>2
  <1>9. TrailerLast(t, g, rest) /\ (Whole(t, g) <=> x = Trailer(g))
    <2>1. \A i \in At(s, g) : t[i] # Trailer(g)
      BY <1>2 DEF Whole
    <2>2. \A j \in At(t, g) : j <= e
      BY <1>2 DEF e
    <2>3. x = Trailer(g) => rest = {}
      BY <1>1
    <2> QED BY <1>2, <2>1, <2>2, <2>3 DEF TrailerLast, Whole
  <1> QED BY <1>3, <1>5, <1>6, <1>7, <1>8, <1>9 DEF Complete, t

\* A frame that is lost leaves the codecs.
LEMMA FramesLost ==
  ASSUME NEW s, NEW g, NEW taken, NEW inner, NEW X, Complete(s, g, taken, inner), ~Whole(s, g),
         X \subseteq inner
  PROVE  Complete(s, g, taken \ X, inner \ X)
  <1>1. Conveys(s, g, taken \ X, inner \ X)
    BY DEF Complete, Conveys
  <1>2. TrailerLast(s, g, inner \ X)
    BY DEF TrailerLast, Whole
  <1> QED BY <1>1, <1>2 DEF Complete

\* A frame that is taken goes to the codecs.
LEMMA FrameTaken ==
  ASSUME NEW s, NEW g, NEW taken, NEW inner, NEW e, Complete(s, g, taken, inner), ~Whole(s, g),
         e \notin taken
  PROVE  Complete(s, g, taken \cup {e}, inner \cup {e})
  <1>1. Conveys(s, g, taken \cup {e}, inner \cup {e})
    BY DEF Complete, Conveys
  <1>2. TrailerLast(s, g, inner \cup {e})
    BY DEF TrailerLast, Whole
  <1> QED BY <1>1, <1>2 DEF Complete

-----------------------------------------------------------------------------
\* What the connections' senders were given, with what the streams added.
StreamItems == Items \cup [type : {"chunkhead", "chunk", "trailer"}, n : Int, stream : Stream]

\* A stream that has sent nothing yet, and one whose trailer was sent.
Fresh(a) == \E c \in Conns : httpProcessor[c] = a /\ pc[c] \in Destroying \cup {"process"}
Flushed(a) == \E c \in Conns : old[c] = a /\ pc[c] = "delete"

Told(c, g) ==
  At(sent[c], g) # {} =>
    /\ g <= streams /\ Complete(sent[c], g, Frames(g), held[g])
    /\ ~Live(g) => Whole(sent[c], g)

\* A stream talks to its own connection, where until it is flushed nothing but
\* a "404" comes in between.
Kept(a) ==
  LET g == gen[a]
      s == sent[heap[a].conn]
  IN /\ \A c \in Conns : c # heap[a].conn => At(sent[c], g) = {}
     /\ IF Fresh(a) THEN At(s, g) = {} /\ held[g] = {} ELSE Open(s, g)
     /\ Whole(s, g) <=> Flushed(a)

\* Only a frame the thread has taken can be lost.
LostInv ==
  /\ lost \in [Stream -> SUBSET (1..MaxFrames)]
  /\ \A g \in Stream : lost[g] \subseteq Popped(g)

SentInv ==
  /\ LostInv
  /\ sent \in [Conns -> Seq(StreamItems)] /\ held \in [Stream -> SUBSET (1..MaxFrames)]
  /\ \A g \in Stream : g > streams => held[g] = {}
  /\ \A c \in Conns, g \in Stream : Told(c, g)
  /\ \A a \in Addr : heap[a].kind = "stream" => Kept(a)
-----------------------------------------------------------------------------
\* Nothing is sent before the first request.
LEMMA SentInitial == StreamInit => SentInv
  <1> SUFFICES ASSUME StreamInit PROVE SentInv
    OBVIOUS
  <1>1. \A c \in Conns, g \in Stream : At(sent[c], g) = {}
    BY DEF StreamInit, Init, At
  <1>2. sent \in [Conns -> Seq(StreamItems)] /\ held \in [Stream -> SUBSET (1..MaxFrames)]
    BY EmptySeq DEF StreamInit, Init
  <1>3. LostInv
    BY DEF StreamInit, LostInv
  <1> QED BY <1>1, <1>2, <1>3 DEF StreamInit, Init, SentInv, Told, Free

\* Streams go on as they were, or end after their trailer.
SameStreams ==
  /\ UNCHANGED <<streams, gen, held, lost, popped>>
  /\ \A a \in Addr : heap'[a].kind = "stream" =>
       /\ heap[a].kind = "stream" /\ heap'[a].conn = heap[a].conn
       /\ (Fresh(a)' <=> Fresh(a)) /\ (Flushed(a)' <=> Flushed(a))
  /\ \A a \in Addr : heap[a].kind = "stream" /\ heap'[a].kind # "stream" => Flushed(a)

\* The steps that send nothing of a stream.
LEMMA SentStays ==
  ASSUME StreamInv, SentInv, SameStreams, sent' \in [Conns -> Seq(StreamItems)],
         \A c \in Conns, g \in Stream :
           \/ /\ At(sent'[c], g) = {}
              /\ \A a \in Addr : heap[a].kind = "stream" => heap[a].conn # c
           \/ /\ At(sent'[c], g) = At(sent[c], g) /\ (Whole(sent'[c], g) <=> Whole(sent[c], g))
              /\ Complete(sent[c], g, Frames(g), held[g]) => Complete(sent'[c], g, Frames(g), held[g])
              /\ \A a \in Addr : /\ heap[a].kind = "stream" /\ heap[a].conn = c /\ gen[a] = g
                                  /\ ~Fresh(a) /\ Open(sent[c], g)
                                => Open(sent'[c], g)
  PROVE  SentInv'
  <1>1. ASSUME NEW c \in Conns, NEW g \in Stream PROVE Told(c, g)'
    <2> SUFFICES ASSUME At(sent'[c], g) # {}
                 PROVE  /\ g <= streams /\ Complete(sent'[c], g, Frames(g), held[g])
                        /\ ~Live(g)' => Whole(sent'[c], g)
      BY DEF Told, SameStreams, Frames, Popped
    <2>1. /\ At(sent[c], g) # {} /\ (Whole(sent'[c], g) <=> Whole(sent[c], g))
          /\ Complete(sent[c], g, Frames(g), held[g]) => Complete(sent'[c], g, Frames(g), held[g])
      OBVIOUS
    <2>2. g <= streams /\ Complete(sent[c], g, Frames(g), held[g]) /\ (~Live(g) => Whole(sent[c], g))
      BY <2>1 DEF SentInv, Told
    <2>3. ASSUME ~Live(g)', Live(g) PROVE Whole(sent[c], g)
      <3>1. PICK a \in Addr : heap[a].kind = "stream" /\ gen[a] = g
        BY <2>3 DEF Live
      <3>2. Flushed(a)
        BY <2>3, <3>1 DEF Live, SameStreams
      <3> QED BY <2>1, <3>1, <3>2 DEF SentInv, Kept
    <2> QED BY <2>1, <2>2, <2>3
  <1>2. ASSUME NEW a \in Addr, heap'[a].kind = "stream" PROVE Kept(a)'
    <2> DEFINE g == gen[a]
               c == heap[a].conn
    <2>1. /\ heap[a].kind = "stream" /\ heap'[a].conn = c /\ gen'[a] = g /\ held' = held
          /\ (Fresh(a)' <=> Fresh(a)) /\ (Flushed(a)' <=> Flushed(a))
      BY <1>2 DEF SameStreams
    <2>2. c \in Conns /\ g \in Stream
      BY <2>1, StreamNumbers DEF StreamInv, ServerInv, OwnInv
    <2>3. Kept(a)
      BY <2>1 DEF SentInv
    <2>4. \A d \in Conns : d # c => At(sent'[d], g) = {}
      BY <2>2, <2>3 DEF Kept
    <2>5. /\ At(sent'[c], g) = At(sent[c], g) /\ (Whole(sent'[c], g) <=> Whole(sent[c], g))
          /\ ~Fresh(a) /\ Open(sent[c], g) => Open(sent'[c], g)
      BY <2>1, <2>2
    <2> HIDE DEF g, c
    <2> QED BY <2>1, <2>3, <2>4, <2>5 DEF Kept, g, c
  <1>3. /\ held' \in [Stream -> SUBSET (1..MaxFrames)]
        /\ \A g \in Stream : g > streams' => held'[g] = {}
    BY DEF SentInv, SameStreams
  <1>4. LostInv'
    BY DEF SentInv, SameStreams, LostInv, Popped
  <1> QED BY <1>1, <1>2, <1>3, <1>4 DEF SentInv

\* A step that sends nothing at all.
LEMMA NothingSent ==
  ASSUME StreamInv, SentInv, SameStreams, sent' = sent
  PROVE  SentInv'
  BY SentStays DEF SentInv

\* An item of another response: a "404", or one on a connection whose stream,
\* if it has one, has yet to begin.
LEMMA OtherSent ==
  ASSUME StreamInv, SentInv, SameStreams, NEW c \in Conns, NEW x \in Items,
         sent' = [sent EXCEPT ![c] = Append(@, x)],
         \/ x.type = "notfound"
         \/ \A a \in Addr : heap[a].kind = "stream" /\ heap[a].conn = c => Fresh(a)
  PROVE  SentInv'
  <1>1. sent \in [Conns -> Seq(StreamItems)] /\ x \in StreamItems /\ sent[c] \in Seq(StreamItems)
    BY DEF SentInv, StreamItems
  <1>2. sent' \in [Conns -> Seq(StreamItems)] /\ sent'[c] = Append(sent[c], x)
    BY <1>1
  <1>3. \A g \in Stream : ~IsOf(x, g)
    BY DEF IsOf, Items, ItemType
  <1>4. ASSUME NEW g \in Stream
        PROVE  /\ At(sent'[c], g) = At(sent[c], g) /\ (Whole(sent'[c], g) <=> Whole(sent[c], g))
               /\ Complete(sent[c], g, Frames(g), held[g]) => Complete(sent'[c], g, Frames(g), held[g])
               /\ Open(sent[c], g) /\ x.type = "notfound" => Open(sent'[c], g)
    <2> DEFINE t == Append(sent[c], x)
    <2>1. /\ At(t, g) = At(sent[c], g) /\ (Whole(t, g) <=> Whole(sent[c], g))
          /\ \A taken, inner : Complete(sent[c], g, taken, inner) => Complete(t, g, taken, inner)
          /\ Open(sent[c], g) /\ x.type = "notfound" => Open(t, g)
      BY <1>1, <1>3, OtherAppended
    <2> HIDE DEF t
    <2>2. sent'[c] = t
      BY <1>2 DEF t
    <2> QED BY <2>1, <2>2
  <1>5. \A d \in Conns : d # c => sent'[d] = sent[d]
    BY <1>1
  <1> QED BY <1>2, <1>4, <1>5, SentStays

-----------------------------------------------------------------------------
\* Where a worker's step leaves a stream, in terms of that worker.
PlaceKept(c, a) ==
  /\ httpProcessor'[c] = a /\ pc'[c] \in Destroying \cup {"process"}
       <=> httpProcessor[c] = a /\ pc[c] \in Destroying \cup {"process"}
  /\ old'[c] = a /\ pc'[c] = "delete" <=> old[c] = a /\ pc[c] = "delete"

\* The other workers' streams stay where they are.
LEMMA PlacesSame ==
  ASSUME NEW c \in Conns, NEW a \in Addr,
         \A d \in Conns : d # c => /\ pc'[d] = pc[d] /\ old'[d] = old[d]
                                   /\ httpProcessor'[d] = httpProcessor[d],
         PlaceKept(c, a)
  PROVE  (Fresh(a)' <=> Fresh(a)) /\ (Flushed(a)' <=> Flushed(a))
  <1>1. Fresh(a)' <=> Fresh(a)
    <2>1. ASSUME NEW d \in Conns
          PROVE  httpProcessor'[d] = a /\ pc'[d] \in Destroying \cup {"process"}
                   <=> httpProcessor[d] = a /\ pc[d] \in Destroying \cup {"process"}
      BY DEF Destroying, PlaceKept
    <2> QED BY <2>1 DEF Fresh
  <1>2. Flushed(a)' <=> Flushed(a)
    <2>1. ASSUME NEW d \in Conns
          PROVE  old'[d] = a /\ pc'[d] = "delete" <=> old[d] = a /\ pc[d] = "delete"
      BY DEF PlaceKept
    <2> QED BY <2>1 DEF Flushed
  <1> QED BY <1>1, <1>2

\* No worker's step but the creation of a stream, its header and the end of
\* its destructor moves it on.
LEMMA WorkersSame ==
  ASSUME StreamInv, NEW c \in Conns, StreamWorker(c), ~SendHeader(c), ~Flush(c),
         ~\E a \in Addr : CreateStream(c, a)
  PROVE  SameStreams
  <1> USE ServerAssumption DEF StreamInv, ServerInv, TypeOK, Goto, Destroying
  <1> SUFFICES /\ UNCHANGED <<streams, gen, held, lost, popped>>
               /\ \A a \in Addr : heap'[a].kind = "stream" =>
                    /\ heap[a].kind = "stream" /\ heap'[a].conn = heap[a].conn /\ PlaceKept(c, a)
               /\ \A a \in Addr : heap[a].kind = "stream" /\ heap'[a].kind # "stream" => Flushed(a)
    BY WorkerOwn, PlacesSame DEF SameStreams
  <1>1. CASE (\E r \in Request : Receive(c, r)) /\ UNCHANGED streamVars
    BY <1>1 DEF Receive, streamVars, PlaceKept
  <1>2. CASE (\E a \in Addr : Create(c, a) /\ request[c].kind # "stream") /\ UNCHANGED streamVars
    <2>1. PICK a \in Addr : Create(c, a) /\ request[c].kind # "stream"
      BY <1>2
    <2>2. /\ heap[a].kind = "free" /\ heap'[a].kind # "stream" /\ \A b \in Addr : b # a => heap'[b] = heap[b]
          /\ pc[c] = "create" /\ pc'[c] = "destroy" /\ httpProcessor'[c] = a
      BY <2>1 DEF Create, NewProcessor, Free
    <2>3. UNCHANGED <<streams, gen, held, lost, popped>>
      BY <1>2 DEF streamVars
    <2> QED BY <2>2, <2>3 DEF PlaceKept
  <1>3. CASE Closing(c) /\ UNCHANGED streamVars
    BY <1>3 DEF Closing, streamVars, PlaceKept
  <1>4. CASE Unsubscribe(c) /\ UNCHANGED streamVars
    BY <1>4 DEF Unsubscribe, OldKind, streamVars, PlaceKept
  <1>5. CASE Delete(c) /\ UNCHANGED streamVars
    <2>1. /\ pc[c] \in {"delete", "destroy"} /\ (pc[c] = "destroy" => OldKind(c) # "stream")
          /\ pc'[c] = (IF request[c] = Close THEN "closed" ELSE "process")
          /\ old'[c] = Null /\ UNCHANGED <<httpProcessor, streams, gen, held, lost, popped>>
      BY <1>5 DEF Delete, Streaming, streamVars
    <2>2. /\ \A a \in Addr : a # old[c] => heap'[a] = heap[a]
          /\ \A a \in Addr : a = old[c] => heap'[a].kind = "free"
      BY <1>5 DEF Delete, Free
    <2>3. \A a \in Addr : heap'[a].kind = "stream" => PlaceKept(c, a)
      <3>1. request[c] = Close => httpProcessor[c] = Null
        BY <2>1 DEF WorkerInv, Close
      <3>2. \A a \in Addr : heap'[a].kind = "stream" => a # old[c] /\ a # Null
        BY <2>2
      <3> QED BY <2>1, <3>1, <3>2 DEF PlaceKept
    <2>4. heap[old[c]].kind = "stream" /\ old[c] # Null => Flushed(old[c])
      BY <2>1 DEF Flushed, OldKind
    <2> QED BY <2>1, <2>2, <2>3, <2>4
  <1>6. CASE ProcessMjpeg(c) /\ UNCHANGED streamVars
    <2>1. httpProcessor[c] \in Addr /\ heap[httpProcessor[c]].kind = "mjpeg"
      BY <1>6 DEF ProcessMjpeg, WorkerInv, Processing
    <2> QED BY <1>6, <2>1 DEF ProcessMjpeg, Processor, streamVars, PlaceKept
  <1>7. CASE (ProcessPlain(c) \/ ProcessFile(c)) /\ UNCHANGED streamVars
    <2>1. heap[httpProcessor[c]].kind # "stream"
      BY <1>7 DEF ProcessPlain, ProcessFile, WorkerInv, Processing
    <2> QED BY <1>7, <2>1 DEF ProcessPlain, ProcessFile, streamVars, PlaceKept
  <1>8. CASE DestroySender(c) /\ UNCHANGED streamVars
    BY <1>8 DEF DestroySender, streamVars, PlaceKept
  <1>9. CASE Subscribe(c) /\ request[c].kind # "stream" /\ UNCHANGED streamVars
    BY <1>9 DEF Subscribe, streamVars, PlaceKept
  <1>10. CASE ReceiveStream(c)
    BY <1>10 DEF ReceiveStream, Receive, streamVars, PlaceKept
  <1>11. CASE SubscribeStream(c)
    BY <1>11 DEF SubscribeStream, Subscribe, PlaceKept
  <1>12. CASE PushSentinel(c) \/ NotifySentinel(c)
    BY <1>12 DEF PushSentinel, NotifySentinel, PlaceKept
  <1>13. CASE UnsubscribeStream(c) \/ Join(c)
    BY <1>13 DEF UnsubscribeStream, Join, streamVars, PlaceKept
  <1> QED BY <1>1, <1>2, <1>3, <1>4, <1>5, <1>6, <1>7, <1>8, <1>9, <1>10, <1>11, <1>12, <1>13
      DEF StreamWorker

\* While its worker runs a processor that is no stream, a connection has none.
LEMMA NoStream ==
  ASSUME StreamInv, NEW c \in Conns,
         \/ pc[c] \in Processing /\ request[c].kind # "stream"
         \/ pc[c] \in {"closed", "gone"},
         NEW a \in Addr, heap[a].kind = "stream"
  PROVE  heap[a].conn # c
  BY ServerAssumption DEF StreamInv, ServerInv, OwnInv, WorkerInv, Processing, Destroying, TypeOK

\* They send nothing of a stream.
LEMMA WorkersSent ==
  ASSUME StreamInv, SentInv, NEW c \in Conns, StreamWorker(c), ~SendHeader(c), ~Flush(c),
         ~\E a \in Addr : CreateStream(c, a)
  PROVE  SentInv'
  <1>1. SameStreams
    BY WorkersSame
  <1>2. CASE sent' = sent
    BY <1>1, <1>2, NothingSent
  <1>3. CASE \E r : Receive(c, r) /\ sent' # sent
    <2>1. sent' = [sent EXCEPT ![c] = Append(@, Item("notfound", 0))]
      BY <1>3 DEF Receive, Send
    <2>2. Item("notfound", 0) \in Items /\ Item("notfound", 0).type = "notfound"
      BY DEF Items, ItemType, Item
    <2> QED BY <1>1, <2>1, <2>2, OtherSent
  <1>4. CASE ProcessMjpeg(c) \/ ProcessPlain(c) \/ ProcessFile(c)
    <2>1. PICK type \in ItemType, n \in Int : sent' = [sent EXCEPT ![c] = Append(@, Item(type, n))]
      <3>1. request[c].skip \in Int
        BY DEF StreamInv, ServerInv, TypeOK
      <3> QED BY <1>4, <3>1 DEF ProcessMjpeg, ProcessPlain, ProcessFile, Send, ItemType
    <2>2. Item(type, n) \in Items
      BY DEF Item, Items
    <2>3. pc[c] \in Processing /\ request[c].kind # "stream"
      BY <1>4 DEF ProcessMjpeg, ProcessPlain, ProcessFile, Processing
    <2> QED BY <1>1, <2>1, <2>2, <2>3, OtherSent, NoStream
  <1>5. CASE DestroySender(c)
    <2>1. sent' = [sent EXCEPT ![c] = Gone] /\ pc[c] = "closed" /\ sent \in [Conns -> Seq(StreamItems)]
      BY <1>5 DEF DestroySender, SentInv
    <2>2. Gone \in Seq(StreamItems)
      <3>1. Item("gone", 0) \in StreamItems
        BY DEF Item, Items, ItemType, StreamItems
      <3> QED BY <3>1 DEF Gone
    <2>3. \A g \in Stream : At(Gone, g) = {}
      BY DEF At, Gone, IsOf, Item
    <2>4. \A a \in Addr : heap[a].kind = "stream" => heap[a].conn # c
      BY <2>1, NoStream
    <2>5. sent' \in [Conns -> Seq(StreamItems)] /\ sent'[c] = Gone /\ \A d \in Conns : d # c => sent'[d] = sent[d]
      BY <2>1, <2>2
    <2> QED BY <1>1, <2>3, <2>4, <2>5, SentStays
  <1>6. sent' = sent \/ (\E r : Receive(c, r)) \/ ProcessMjpeg(c) \/ ProcessPlain(c)
        \/ ProcessFile(c) \/ DestroySender(c)
    BY DEF StreamWorker, Create, Closing, Unsubscribe, Delete, Subscribe, ReceiveStream,
           SubscribeStream, PushSentinel, NotifySentinel, UnsubscribeStream, Join
  <1> QED BY <1>2, <1>3, <1>4, <1>5, <1>6

-----------------------------------------------------------------------------
\* Of two streams on a connection the older is the one that has begun.
LEMMA OneBegun ==
  ASSUME StreamInv, NEW a \in Addr, NEW b \in Addr, a # b, heap[a].kind = "stream", ~Fresh(a),
         heap[b].kind # "free", heap[b].conn = heap[a].conn
  PROVE  /\ httpProcessor[heap[a].conn] = b /\ pc[heap[a].conn] \in Destroying
         /\ heap[b].kind = "stream" => Fresh(b)
  <1> DEFINE c == heap[a].conn
  <1>1. c \in Conns /\ a \in {httpProcessor[c], old[c]} /\ b \in {httpProcessor[c], old[c]}
    BY DEF StreamInv, ServerInv, OwnInv
  <1>2. old[c] # Null => pc[c] \in Destroying
    BY <1>1 DEF StreamInv, ServerInv, WorkerInv
  <1>3. a # Null /\ b # Null
    BY ServerAssumption
  <1> QED BY <1>1, <1>2, <1>3 DEF Fresh

\* The capturer sends the parts of MJPEG streams: never on a connection where
\* an encoded stream has begun and not ended.
LEMMA NotifySent ==
  ASSUME StreamInv, TakenInv, SentInv, NEW a \in todo, Notify(a), UNCHANGED streamVars
  PROVE  SentInv'
  <1>1. /\ a \in Addr /\ a \in receivers /\ heap[a].kind = "mjpeg" /\ frame \in Int
        /\ UNCHANGED <<httpProcessor, old, pc>>
    BY StreamNumbers DEF Notify, StreamInv, ServerInv, ReceiverInv, TypeOK, routerVars
  <1>2. SameStreams
    <2>1. \A b \in Addr : heap'[b].kind = heap[b].kind /\ heap'[b].conn = heap[b].conn
      <3>1. PICK n : heap' = [heap EXCEPT ![a].skipped = n]
        BY <1>1 DEF Notify
      <3> QED BY <1>1, <3>1 DEF StreamInv, ServerInv, TypeOK, Processor
    <2>2. \A b \in Addr : (Fresh(b)' <=> Fresh(b)) /\ (Flushed(b)' <=> Flushed(b))
      BY <1>1 DEF Fresh, Flushed
    <2> QED BY <2>1, <2>2 DEF SameStreams, streamVars
  <1>3. CASE sent' = sent
    BY <1>2, <1>3, NothingSent
  <1>4. CASE sent' # sent
    <2>1. sent' = [sent EXCEPT ![heap[a].conn] = Append(@, Item("part", frame))]
      BY <1>4 DEF Notify, Send
    <2>2. Item("part", frame) \in Items
      BY <1>1 DEF Item, Items, ItemType
    <2>3. heap[a].conn \in Conns
      BY <1>1 DEF StreamInv, ServerInv, OwnInv
    <2>4. ASSUME NEW b \in Addr, heap[b].kind = "stream", heap[b].conn = heap[a].conn PROVE Fresh(b)
      BY <1>1, <2>3, <2>4, OneBegun DEF TakenInv, SubscribedInv
    <2> QED BY <1>2, <2>1, <2>2, <2>3, <2>4, OtherSent
  <1> QED BY <1>3, <1>4

\* What leaves streams and senders alone.
LEMMA RestSent ==
  ASSUME StreamInv, SentInv, UNCHANGED <<heap, httpProcessor, old, pc, sent>>,
         UNCHANGED <<streams, gen, held, lost, popped>>
  PROVE  SentInv'
  <1>1. SameStreams
    BY DEF SameStreams, Fresh, Flushed
  <1> QED BY <1>1, NothingSent

\* A new stream has sent nothing: nobody ever had its number.
LEMMA CreateStreamSent ==
  ASSUME StreamInv, SentInv, NEW c \in Conns, NEW a \in Addr, CreateStream(c, a)
  PROVE  SentInv'
  <1> USE DEF StreamInv, StreamTypeOK
  <1>1. /\ pc' = [pc EXCEPT ![c] = "destroy"] /\ old' = [old EXCEPT ![c] = httpProcessor[c]]
        /\ httpProcessor' = [httpProcessor EXCEPT ![c] = a]
        /\ pc[c] = "create" /\ old[c] = Null /\ heap[a].kind = "free"
        /\ UNCHANGED <<sent, held, lost, popped>>
        /\ streams' = streams + 1 /\ gen' = [gen EXCEPT ![a] = streams']
        /\ heap'[a].conn = c /\ \A b \in Addr : b # a => heap'[b] = heap[b]
    BY DEF CreateStream, Create, ServerInv, TypeOK, WorkerInv, Destroying, Goto, Free, NewProcessor
  <1>2. PICK g \in Nat : g = streams + 1 /\ g = streams' /\ gen'[a] = g /\ g > streams
    BY <1>1
  <1>3. \A d \in Conns : g \in Stream => At(sent[d], g) = {}
    <2>1. ~(g <= streams)
      BY <1>2
    <2> QED BY <2>1 DEF SentInv, Told
  <1>4. /\ \A h \in Stream : h > g => held'[h] = {}
        /\ g \in Stream => held[g] = {}
    <2>1. streams \in Nat /\ (\A h \in Stream : h > g => h > streams) /\ (g \in Stream => g > streams)
      BY <1>2 DEF Stream
    <2> QED BY <1>1, <2>1 DEF SentInv
  <1>5. ASSUME NEW d \in Conns, NEW h \in Stream PROVE Told(d, h)'
    <2>1. Live(h) => Live(h)'
      BY <1>1 DEF Live
    <2>2. Told(d, h) /\ (h <= streams => h <= g) /\ streams' = g
      BY <1>1, <1>2 DEF SentInv, Stream
    <2> QED BY <1>1, <2>1, <2>2 DEF Told, Frames, Popped
  <1>6. ASSUME NEW b \in Addr, heap'[b].kind = "stream", b # a PROVE Kept(b)'
    <2>1. heap[b].kind = "stream" /\ heap'[b] = heap[b] /\ gen'[b] = gen[b]
      BY <1>1, <1>6
    <2>2. (Fresh(b)' <=> Fresh(b)) /\ (Flushed(b)' <=> Flushed(b))
      <3>1. PlaceKept(c, b)
        BY <1>1, <1>6 DEF PlaceKept, Destroying, ServerInv, TypeOK
      <3>2. \A d \in Conns : d # c => /\ pc'[d] = pc[d] /\ old'[d] = old[d]
                                     /\ httpProcessor'[d] = httpProcessor[d]
        BY <1>1 DEF ServerInv, TypeOK
      <3> QED BY <3>1, <3>2, PlacesSame
    <2> QED BY <1>1, <2>1, <2>2 DEF SentInv, Kept
  <1>7. ASSUME heap'[a].kind = "stream" PROVE Kept(a)'
    <2>1. g \in Stream
      <3>1. c \in Creating
        BY <1>1 DEF Creating
      <3>2. Cardinality(Creating) \in Nat \ {0}
        BY <3>1, FS_CardinalityType, FS_EmptySet DEF CountInv
      <3> QED BY <1>2, <3>2, ServerAssumption DEF CountInv, ServerInv, TypeOK, Stream
    <2>2. Fresh(a)'
      BY <1>1 DEF Fresh, Destroying, ServerInv, TypeOK
    <2>3. ~Flushed(a)'
      <3>1. \A d \in Conns : pc'[d] = "delete" => d # c /\ old'[d] = old[d]
        BY <1>1 DEF ServerInv, TypeOK
      <3>2. a # Null
        BY ServerAssumption
      <3> QED BY <1>1, <3>1, <3>2 DEF Flushed, ServerInv, OwnInv
    <2>4. \A d \in Conns : At(sent'[d], g) = {} /\ ~Whole(sent'[d], g)
      BY <1>1, <1>3, <2>1 DEF Whole
    <2>5. held'[g] = {} /\ gen'[a] = g /\ heap'[a].conn = c
      BY <1>1, <1>2, <1>4, <2>1
    <2> QED BY <2>2, <2>3, <2>4, <2>5 DEF Kept
  <1>8. /\ sent' \in [Conns -> Seq(StreamItems)] /\ held' \in [Stream -> SUBSET (1..MaxFrames)]
        /\ LostInv'
    BY <1>1 DEF SentInv, LostInv, Popped
  <1> QED BY <1>2, <1>4, <1>5, <1>6, <1>7, <1>8 DEF SentInv

-----------------------------------------------------------------------------
\* A stream that has yet to begin was pushed nothing.
LEMMA FreshEmpty ==
  ASSUME StreamInv, TakenInv, NEW a \in Addr, heap[a].kind = "stream", Fresh(a)
  PROVE  popped[gen[a]] = <<>> /\ queue[gen[a]] = <<>>
  <1>1. PICK c \in Conns : httpProcessor[c] = a /\ pc[c] \in Destroying \cup {"process"}
    BY DEF Fresh
  <1>2. a \notin receivers
    BY <1>1 DEF TakenInv, SubscribedInv, Processing
  <1>3. ~Closed(a)
    <2>1. \A d \in Conns : old[d] # a
      BY <1>1, ServerAssumption DEF StreamInv, ServerInv, OwnInv
    <2> QED BY <2>1 DEF Closed
  <1>4. pushed[gen[a]] = <<>> /\ gen[a] \in Stream
    BY <1>2, <1>3, StreamNumbers DEF TakenInv, FedInv, Fed
  <1>5. /\ popped[gen[a]] \in Seq(Element) /\ queue[gen[a]] \in Seq(Element)
        /\ Len(pushed[gen[a]]) = Len(popped[gen[a]]) + Len(queue[gen[a]])
    BY <1>4 DEF TakenInv, EndInv, Remain, StreamInv, StreamTypeOK
  <1>6. Len(popped[gen[a]]) \in Nat /\ Len(queue[gen[a]]) \in Nat /\ Len(pushed[gen[a]]) = 0
    BY <1>4, <1>5
  <1>7. Len(popped[gen[a]]) = 0 /\ Len(queue[gen[a]]) = 0
    <2> DEFINE m == Len(popped[gen[a]])
               n == Len(queue[gen[a]])
    <2>1. m \in Nat /\ n \in Nat /\ m + n = 0
      BY <1>5, <1>6
    <2> HIDE DEF m, n
    <2>2. m = 0 /\ n = 0
      BY <2>1
    <2> QED BY <2>2 DEF m, n
  <1> QED BY <1>5, <1>7, EmptySeq

\* An item that a stream sends: what it makes of the stream is enough.
LEMMA OwnSent ==
  ASSUME StreamInv, SentInv, NEW a \in Addr, heap[a].kind = "stream", NEW x \in StreamItems,
         IsOf(x, gen[a]), NEW inner \in SUBSET (1..MaxFrames),
         UNCHANGED <<heap, gen, streams, lost, popped>>,
         sent' = [sent EXCEPT ![heap[a].conn] = Append(@, x)], held' = [held EXCEPT ![gen[a]] = inner],
         Complete(Append(sent[heap[a].conn], x), gen[a], Frames(gen[a]), inner),
         Open(Append(sent[heap[a].conn], x), gen[a]), ~Fresh(a)',
         Whole(Append(sent[heap[a].conn], x), gen[a]) <=> Flushed(a)',
         \A b \in Addr : heap[b].kind = "stream" /\ b # a =>
           /\ (Fresh(b)' <=> Fresh(b)) /\ (Flushed(b)' <=> Flushed(b))
           /\ heap[b].conn = heap[a].conn => Fresh(b)
  PROVE  SentInv'
  <1>1. PICK c \in Conns, g \in Stream : c = heap[a].conn /\ g = gen[a] /\ g <= streams
    BY StreamNumbers DEF StreamInv, ServerInv, OwnInv
  <1>2. PICK t \in Seq(StreamItems) : t = Append(sent[c], x)
    <2>1. sent[c] \in Seq(StreamItems)
      BY <1>1 DEF SentInv
    <2> QED BY <2>1, AppendProperties
  <1>3. /\ sent' \in [Conns -> Seq(StreamItems)] /\ sent'[c] = t /\ \A d \in Conns : d # c => sent'[d] = sent[d]
        /\ held' \in [Stream -> SUBSET (1..MaxFrames)] /\ held'[g] = inner
        /\ \A h \in Stream : h # g => held'[h] = held[h]
    BY <1>1, <1>2 DEF SentInv
  <1>4. /\ Complete(t, g, Frames(g), inner) /\ Open(t, g) /\ (Whole(t, g) <=> Flushed(a)')
        /\ \A d \in Conns : d # c => At(sent[d], g) = {}
    BY <1>1, <1>2 DEF SentInv, Kept
  <1>5. ASSUME NEW h \in Stream, h # g
        PROVE  /\ At(t, h) = At(sent[c], h) /\ (Whole(t, h) <=> Whole(sent[c], h))
               /\ Complete(sent[c], h, Frames(h), held[h]) => Complete(t, h, Frames(h), held[h])
    <2>1. ~IsOf(x, h) /\ sent[c] \in Seq(StreamItems)
      BY <1>1, <1>5 DEF IsOf, SentInv
    <2> DEFINE u == Append(sent[c], x)
    <2>2. /\ At(u, h) = At(sent[c], h) /\ (Whole(u, h) <=> Whole(sent[c], h))
          /\ \A taken, in : Complete(sent[c], h, taken, in) => Complete(u, h, taken, in)
      BY <2>1, OtherAppended
    <2> HIDE DEF u
    <2>3. t = u
      BY <1>2 DEF u
    <2> QED BY <2>2, <2>3
  <1>6. LostInv' /\ \A h \in Stream : (Live(h)' <=> Live(h)) /\ Frames(h)' = Frames(h)
    BY DEF Live, Frames, Popped, SentInv, LostInv
  <1>7. ASSUME NEW d \in Conns, NEW h \in Stream PROVE Told(d, h)'
    <2>1. Told(d, h)
      BY DEF SentInv
    <2>2. CASE h = g
      <3>1. Live(g)
        BY <1>1 DEF Live
      <3> QED BY <1>1, <1>3, <1>4, <1>6, <2>2, <3>1 DEF Told
    <2>3. CASE h # g
      BY <1>3, <1>5, <1>6, <2>1, <2>3 DEF Told
    <2> QED BY <2>2, <2>3
  <1>8. ASSUME NEW b \in Addr, heap[b].kind = "stream", b # a PROVE Kept(b)'
    <2>1. gen[b] # g /\ gen[b] \in Stream /\ Kept(b) /\ heap[b].conn \in Conns
      BY <1>1, <1>8, StreamNumbers DEF StreamInv, GenInv, ServerInv, OwnInv, SentInv
    <2>2. \A d \in Conns : /\ At(sent'[d], gen[b]) = At(sent[d], gen[b])
                           /\ Whole(sent'[d], gen[b]) <=> Whole(sent[d], gen[b])
      BY <1>3, <1>5, <2>1
    <2>3. heap[b].conn # c => sent'[heap[b].conn] = sent[heap[b].conn]
      BY <1>3, <2>1
    <2>4. (Fresh(b)' <=> Fresh(b)) /\ (Flushed(b)' <=> Flushed(b)) /\ (heap[b].conn = c => Fresh(b))
      BY <1>1, <1>8
    <2>5. gen'[b] = gen[b] /\ heap'[b] = heap[b] /\ held'[gen[b]] = held[gen[b]]
      BY <1>3, <2>1
    <2> QED BY <2>1, <2>2, <2>3, <2>4, <2>5 DEF Kept
  <1>9. Kept(a)'
    <2>1. gen'[a] = g /\ heap'[a].conn = c
      BY <1>1
    <2> QED BY <1>3, <1>4, <2>1 DEF Kept
  <1>10. \A h \in Stream : h > streams' => held'[h] = {}
    <2>1. \A h \in Stream : h > streams => h # g
      BY <1>1 DEF Stream, StreamInv, StreamTypeOK
    <2> QED BY <1>3, <2>1 DEF SentInv
  <1> QED BY <1>3, <1>6, <1>7, <1>8, <1>9, <1>10 DEF SentInv

\* The places of streams do not depend on what was sent.
LEMMA OthersPlaced ==
  ASSUME StreamInv, NEW a \in Addr, heap[a].kind = "stream", UNCHANGED <<httpProcessor, old>>,
         \A c \in Conns : c # heap[a].conn => pc'[c] = pc[c],
         pc'[heap[a].conn] \in Destroying <=> pc[heap[a].conn] \in Destroying,
         ~Fresh(a) \/ old[heap[a].conn] = Null
  PROVE  \A b \in Addr : heap[b].kind = "stream" /\ b # a =>
           /\ (Fresh(b)' <=> Fresh(b)) /\ (Flushed(b)' <=> Flushed(b))
           /\ heap[b].conn = heap[a].conn => Fresh(b)
  <1> SUFFICES ASSUME NEW b \in Addr, heap[b].kind = "stream", b # a
               PROVE  /\ (Fresh(b)' <=> Fresh(b)) /\ (Flushed(b)' <=> Flushed(b))
                      /\ heap[b].conn = heap[a].conn => Fresh(b)
    OBVIOUS
  <1>1. PICK c \in Conns : c = heap[a].conn /\ a \in {httpProcessor[c], old[c]}
    BY DEF StreamInv, ServerInv, OwnInv
  <1>2. CASE heap[b].conn = c
    <2>1. b \in {httpProcessor[c], old[c]} /\ b # Null /\ a # Null
      BY <1>2, ServerAssumption DEF StreamInv, ServerInv, OwnInv
    <2>2. ~Fresh(a)
      BY <1>1, <2>1
    <2>3. httpProcessor[c] = b /\ pc[c] \in Destroying /\ Fresh(b)
      BY <1>1, <1>2, <2>2, OneBegun
    <2>4. old[c] # b
      BY <1>1, <2>1, <2>3
    <2>5. PlaceKept(c, b)
      BY <1>1, <2>3, <2>4 DEF PlaceKept
    <2> QED BY <1>1, <2>3, <2>5, PlacesSame
  <1>3. CASE heap[b].conn # c
    <2>1. httpProcessor[c] # b /\ old[c] # b
      BY <1>3, ServerAssumption DEF StreamInv, ServerInv, OwnInv
    <2>2. PlaceKept(c, b)
      BY <2>1 DEF PlaceKept
    <2> QED BY <1>1, <1>3, <2>2, PlacesSame
  <1> QED BY <1>2, <1>3

\* The header of a stream.
LEMMA HeaderSent ==
  ASSUME StreamInv, TakenInv, SentInv, NEW c \in Conns, SendHeader(c)
  PROVE  SentInv'
  <1> USE DEF StreamInv, ServerInv, TypeOK
  <1>1. PICK a \in Addr : a = httpProcessor[c] /\ heap[a].kind = "stream"
    BY ServerAssumption DEF SendHeader, WorkerInv, Processing
  <1>2. /\ pc[c] = "process" /\ pc' = [pc EXCEPT ![c] = "subscribe"] /\ old[c] = Null /\ heap[a].conn = c
        /\ UNCHANGED <<heap, httpProcessor, old, streams, gen, held, lost, popped>>
        /\ sent' = [sent EXCEPT ![c] = Append(@, ChunkHead(gen[a]))]
    BY <1>1, ServerAssumption DEF SendHeader, Send, Goto, New, streamVars, WorkerInv, Destroying, OwnInv
  <1>3. PICK g \in Stream : g = gen[a]
    BY <1>1, StreamNumbers
  <1>4. ChunkHead(g) \in StreamItems /\ IsOf(ChunkHead(g), g) /\ ChunkHead(g) # Trailer(g)
    BY DEF ChunkHead, StreamItems, IsOf, Trailer
  <1>5. Fresh(a)
    BY <1>1, <1>2 DEF Fresh
  <1>6. At(sent[c], g) = {} /\ held[g] = {} /\ Frames(g) = {} /\ sent[c] \in Seq(StreamItems)
    <2>1. popped[g] = <<>>
      BY <1>1, <1>3, <1>5, FreshEmpty
    <2>2. Frames(g) = {}
      BY <2>1 DEF Frames, Popped, ToSet
    <2> QED BY <1>1, <1>2, <1>3, <1>5, <2>2 DEF SentInv, Kept
  <1> DEFINE t == Append(sent[c], ChunkHead(g))
  <1>7. Complete(t, g, {}, {}) /\ Open(t, g) /\ ~Whole(t, g)
    BY <1>4, <1>6, HeaderAppended
  <1> HIDE DEF t
  <1>8. ~Fresh(a)' /\ ~Flushed(a)'
    <2>1. \A d \in Conns : httpProcessor[d] = a => d = c
      BY <1>1, <1>2, ServerAssumption DEF OwnInv
    <2>2. pc'[c] = "subscribe" /\ \A d \in Conns : d # c => pc'[d] = pc[d]
      BY <1>2
    <2>3. \A d \in Conns : old[d] # a
      BY <1>1, <1>2, ServerAssumption DEF OwnInv
    <2> QED BY <1>2, <2>1, <2>2, <2>3 DEF Fresh, Flushed, Destroying
  <1>9. \A b \in Addr : heap[b].kind = "stream" /\ b # a =>
           /\ (Fresh(b)' <=> Fresh(b)) /\ (Flushed(b)' <=> Flushed(b))
           /\ heap[b].conn = heap[a].conn => Fresh(b)
    <2>1. /\ \A d \in Conns : d # heap[a].conn => pc'[d] = pc[d]
          /\ pc'[heap[a].conn] \in Destroying <=> pc[heap[a].conn] \in Destroying
          /\ old[heap[a].conn] = Null
      BY <1>2 DEF Destroying
    <2> QED BY <1>1, <1>2, <2>1, OthersPlaced
  <1>10. {} \in SUBSET (1..MaxFrames) /\ held' = [held EXCEPT ![gen[a]] = {}]
    BY <1>2, <1>3, <1>6 DEF SentInv
  <1>11. /\ Complete(Append(sent[heap[a].conn], ChunkHead(g)), gen[a], Frames(gen[a]), {})
         /\ Open(Append(sent[heap[a].conn], ChunkHead(g)), gen[a])
         /\ ~Whole(Append(sent[heap[a].conn], ChunkHead(g)), gen[a])
    BY <1>2, <1>3, <1>6, <1>7 DEF t
  <1> QED BY <1>1, <1>2, <1>3, <1>4, <1>8, <1>9, <1>10, <1>11, OwnSent

\* A chunk, from the thread or from the flush in the destructor: the stream
\* has begun, for otherwise nothing would be in its codecs.
LEMMA ChunkSent ==
  ASSUME StreamInv, SentInv, NEW a \in Addr, heap[a].kind = "stream", ~Flushed(a),
         WriteData(heap[a].conn, gen[a]),
         UNCHANGED <<heap, httpProcessor, old, pc, gen, streams, lost, popped>>
  PROVE  SentInv'
  <1>1. PICK c \in Conns, g \in Stream : c = heap[a].conn /\ g = gen[a]
    BY StreamNumbers DEF StreamInv, ServerInv, OwnInv
  <1>2. PICK n \in held[g] : sent' = [sent EXCEPT ![c] = Append(@, Chunk(g, n))]
                            /\ held' = [held EXCEPT ![g] = @ \ {n}]
    BY <1>1 DEF WriteData, Send
  <1>3. ~Fresh(a) /\ Open(sent[c], g) /\ ~Whole(sent[c], g) /\ sent[c] \in Seq(StreamItems)
    BY <1>1, <1>2 DEF SentInv, Kept
  <1>4. Complete(sent[c], g, Frames(g), held[g])
    BY <1>3 DEF SentInv, Told, Open
  <1>5. PICK x \in StreamItems : x = Chunk(g, n) /\ IsOf(x, g) /\ x # Trailer(g)
    <2>1. n \in Int
      BY <1>2 DEF SentInv
    <2>2. Chunk(g, n) \in StreamItems /\ IsOf(Chunk(g, n), g)
      BY <2>1 DEF Chunk, StreamItems, IsOf
    <2>3. Chunk(g, n) # Trailer(g)
      BY DEF Chunk, Trailer
    <2> QED BY <2>2, <2>3
  <1> DEFINE t == Append(sent[c], x)
             inner == held[g] \ {n}
  <1>6. Complete(t, g, Frames(g), inner) /\ Open(t, g) /\ (Whole(t, g) <=> x = Trailer(g))
    <2>1. \E m \in held[g] : x = Chunk(g, m) /\ inner = held[g] \ {m}
      BY <1>2, <1>5
    <2> HIDE DEF inner
    <2> QED BY <1>3, <1>4, <1>5, <2>1, NextAppended
  <1>7. (Fresh(a)' <=> Fresh(a)) /\ (Flushed(a)' <=> Flushed(a))
    BY DEF Fresh, Flushed
  <1>8. \A b \in Addr : heap[b].kind = "stream" /\ b # a =>
           /\ (Fresh(b)' <=> Fresh(b)) /\ (Flushed(b)' <=> Flushed(b))
           /\ heap[b].conn = heap[a].conn => Fresh(b)
    <2>1. ~Fresh(a) \/ old[heap[a].conn] = Null
      BY <1>3
    <2> QED BY <2>1, OthersPlaced
  <1>9. inner \in SUBSET (1..MaxFrames) /\ held' = [held EXCEPT ![gen[a]] = inner]
        /\ sent' = [sent EXCEPT ![heap[a].conn] = Append(@, x)] /\ IsOf(x, gen[a])
    BY <1>1, <1>2, <1>5 DEF SentInv
  <1>10. /\ Complete(Append(sent[heap[a].conn], x), gen[a], Frames(gen[a]), inner)
         /\ Open(Append(sent[heap[a].conn], x), gen[a])
         /\ ~Whole(Append(sent[heap[a].conn], x), gen[a])
    BY <1>1, <1>5, <1>6
  <1> HIDE DEF inner, t
  <1>11. ~Fresh(a)' /\ ~Flushed(a)'
    BY <1>3, <1>7
  <1> QED BY <1>5, <1>8, <1>9, <1>10, <1>11, OwnSent

\* The destructor's last item.
EndsStream(c) ==
  /\ held[Old(c)] = {}
  /\ Send(c, Trailer(Old(c))) /\ Goto(c, "delete")
  /\ UNCHANGED <<held, lost>>

\* It ends the stream.
LEMMA TrailerSent ==
  ASSUME StreamInv, SentInv, NEW c \in Conns, Flush(c), EndsStream(c)
  PROVE  SentInv'
  <1> USE DEF StreamInv, ServerInv, TypeOK
  <1>1. /\ pc[c] = "flush" /\ old[c] # Null /\ heap[old[c]].kind = "stream"
    BY DEF Flush, ThreadInv, Late
  <1>2. PICK a \in Addr : a = old[c] /\ heap[a].kind = "stream" /\ heap[a].conn = c
    BY <1>1 DEF OwnInv
  <1>3. /\ pc' = [pc EXCEPT ![c] = "delete"] /\ UNCHANGED <<heap, httpProcessor, old, streams, gen, held, lost, popped>>
        /\ sent' = [sent EXCEPT ![c] = Append(@, Trailer(gen[a]))]
    BY <1>2 DEF Flush, EndsStream, Send, Goto, Old
  <1>4. PICK g \in Stream : g = gen[a] /\ held[g] = {}
    BY <1>2, StreamNumbers DEF Old, EndsStream
  <1>5. ~Fresh(a) /\ ~Flushed(a)
    <2>1. \A d \in Conns : httpProcessor[d] # a /\ (old[d] = a => d = c)
      BY <1>2, ServerAssumption DEF OwnInv
    <2> QED BY <1>1, <2>1 DEF Fresh, Flushed
  <1>6. Open(sent[c], g) /\ ~Whole(sent[c], g) /\ sent[c] \in Seq(StreamItems)
    BY <1>2, <1>4, <1>5 DEF SentInv, Kept
  <1>7. Complete(sent[c], g, Frames(g), {})
    BY <1>4, <1>6 DEF SentInv, Told, Open
  <1>8. Trailer(g) \in StreamItems /\ IsOf(Trailer(g), g)
    BY DEF Trailer, StreamItems, IsOf
  <1> DEFINE t == Append(sent[c], Trailer(g))
  <1>9. Complete(t, g, Frames(g), {}) /\ Open(t, g) /\ Whole(t, g)
    BY <1>6, <1>7, <1>8, NextAppended
  <1>10. ~Fresh(a)' /\ Flushed(a)'
    <2>1. \A d \in Conns : httpProcessor[d] # a
      BY <1>2, ServerAssumption DEF OwnInv
    <2> QED BY <1>2, <1>3, <2>1 DEF Fresh, Flushed
  <1>11. \A b \in Addr : heap[b].kind = "stream" /\ b # a =>
           /\ (Fresh(b)' <=> Fresh(b)) /\ (Flushed(b)' <=> Flushed(b))
           /\ heap[b].conn = heap[a].conn => Fresh(b)
    <2>1. /\ \A d \in Conns : d # heap[a].conn => pc'[d] = pc[d]
          /\ pc'[heap[a].conn] \in Destroying <=> pc[heap[a].conn] \in Destroying
          /\ ~Fresh(a) \/ old[heap[a].conn] = Null
      BY <1>1, <1>2, <1>3, <1>5 DEF Destroying
    <2> QED BY <1>2, <1>3, <2>1, OthersPlaced
  <1> HIDE DEF t
  <1>12. {} \in SUBSET (1..MaxFrames) /\ held' = [held EXCEPT ![gen[a]] = {}]
    BY <1>3, <1>4 DEF SentInv
  <1>13. /\ Complete(Append(sent[heap[a].conn], Trailer(g)), gen[a], Frames(gen[a]), {})
         /\ Open(Append(sent[heap[a].conn], Trailer(g)), gen[a])
         /\ Whole(Append(sent[heap[a].conn], Trailer(g)), gen[a])
    BY <1>2, <1>4, <1>9 DEF t
  <1> QED BY <1>2, <1>3, <1>4, <1>8, <1>10, <1>11, <1>12, <1>13, OwnSent

\* The elements of a sequence with one more at its end.
LEMMA AppendedSet ==
  ASSUME NEW S, NEW s \in Seq(S), NEW x \in S
  PROVE  ToSet(Append(s, x)) = ToSet(s) \cup {x}
  <1> DEFINE q == Append(s, x)
  <1>1. /\ Len(s) \in Nat /\ DOMAIN s = 1..Len(s) /\ DOMAIN q = 1..(Len(s) + 1)
        /\ q[Len(s) + 1] = x /\ \A i \in 1..Len(s) : q[i] = s[i]
    OBVIOUS
  <1> HIDE DEF q
  <1>2. ToSet(s) = {s[i] : i \in 1..Len(s)} /\ ToSet(q) = {q[i] : i \in 1..(Len(s) + 1)}
    BY <1>1 DEF ToSet
  <1>3. ASSUME NEW i \in 1..(Len(s) + 1) PROVE q[i] \in {s[j] : j \in 1..Len(s)} \cup {x}
    <2>1. CASE i = Len(s) + 1
      BY <1>1, <2>1
    <2>2. CASE i # Len(s) + 1
      <3>1. i \in 1..Len(s)
        BY <1>1, <2>2
      <3> QED BY <1>1, <3>1
    <2> QED BY <2>1, <2>2
  <1>4. ASSUME NEW i \in 1..Len(s) PROVE s[i] \in {q[j] : j \in 1..(Len(s) + 1)}
    <2>1. i \in 1..(Len(s) + 1) /\ s[i] = q[i]
      BY <1>1
    <2> QED BY <2>1
  <1>5. x \in {q[j] : j \in 1..(Len(s) + 1)}
    <2>1. Len(s) + 1 \in 1..(Len(s) + 1)
      BY <1>1
    <2> QED BY <1>1, <2>1
  <1>6. ToSet(q) = ToSet(s) \cup {x}
    BY <1>2, <1>3, <1>4, <1>5
  <1> QED BY <1>6 DEF q

\* What the thread takes goes to the codecs, and is no frame they had before.
LEMMA PopSent ==
  ASSUME StreamInv, TakenInv, SentInv, NEW g \in Stream, Pop(g)
  PROVE  SentInv'
  <1> USE DEF StreamInv, StreamTypeOK
  <1> DEFINE e == Head(queue[g])
  <1>1. /\ queue[g] # <<>> /\ thread[g] = "run"
        /\ held' = [held EXCEPT ![g] = IF e = Sentinel THEN @ ELSE @ \cup {e}]
        /\ popped' = [popped EXCEPT ![g] = Append(@, e)]
        /\ UNCHANGED <<heap, httpProcessor, old, pc, sent, gen, streams, lost>>
    BY DEF Pop, vars, routerVars
  <1>2. PICK a \in Addr : heap[a].kind = "stream" /\ gen[a] = g
    BY <1>1 DEF ThreadInv, Live
  <1>3. PICK c \in Conns : c = heap[a].conn
    BY <1>2 DEF ServerInv, OwnInv
  <1>4. ~Fresh(a)
    BY <1>1, <1>2, FreshEmpty
  <1>5. ~Flushed(a)
    <2>1. SUFFICES ASSUME NEW d \in Conns, old[d] = a, pc[d] = "delete" PROVE FALSE
      BY DEF Flushed
    <2>2. OldKind(d) = "stream" /\ Old(d) = g
      BY <1>2, <2>1, ServerAssumption DEF OldKind, Old
    <2> QED BY <1>1, <2>1, <2>2 DEF ThreadInv
  <1>6. /\ Open(sent[c], g) /\ ~Whole(sent[c], g) /\ \A d \in Conns : d # c => At(sent[d], g) = {}
    BY <1>2, <1>3, <1>4, <1>5 DEF SentInv, Kept
  <1>7. g <= streams /\ Complete(sent[c], g, Frames(g), held[g])
    BY <1>6 DEF SentInv, Told, Open
  <1>8. e \in Element /\ e \notin Popped(g)
    <2>1. /\ popped[g] \in Seq(Element) /\ pushed[g] \in Seq(Element) /\ queue[g] \in Seq(Element)
          /\ Remain(pushed[g], popped[g], queue[g]) /\ Run(pushed[g], since[g], until[g])
          /\ since[g] \in Nat
      BY DEF TakenInv, EndInv, RunInv
    <2>2. \A j \in DOMAIN popped[g] : popped[g][j] # Sentinel
      BY <1>1 DEF TakenInv, EndInv
    <2> DEFINE n == Len(popped[g])
    <2>3. /\ n \in Nat /\ DOMAIN popped[g] = 1..n /\ Len(queue[g]) \in Nat \ {0} /\ e = queue[g][1]
          /\ DOMAIN pushed[g] = 1..Len(pushed[g]) /\ e \in Element
      BY <1>1, <2>1
    <2>4. Len(pushed[g]) = n + Len(queue[g]) /\ pushed[g][n + 1] = e
          /\ \A j \in 1..n : pushed[g][j] = popped[g][j]
      BY <2>1, <2>3 DEF Remain
    <2> HIDE DEF n, e
    <2>5. \A j \in 1..(n + 1) : j \in DOMAIN pushed[g] /\ \A k \in 1..(j - 1) : k \in 1..n
      BY <2>3, <2>4
    <2>6. \A j \in 1..(n + 1) : pushed[g][j] # Sentinel => pushed[g][j] = since[g] + j
      BY <2>1, <2>2, <2>3, <2>4, <2>5 DEF Run
    <2>7. ASSUME e # Sentinel, NEW j \in 1..n PROVE popped[g][j] # e
      <3>1. j \in 1..(n + 1) /\ n + 1 \in 1..(n + 1) /\ j # n + 1
        BY <2>3
      <3>2. popped[g][j] = since[g] + j /\ e = since[g] + (n + 1)
        BY <2>2, <2>3, <2>4, <2>6, <2>7, <3>1
      <3> QED BY <2>1, <2>3, <3>1, <3>2
    <2> QED BY <2>3, <2>7 DEF Popped, ToSet
  <1>9. /\ Popped(g)' = IF e = Sentinel THEN Popped(g) ELSE Popped(g) \cup {e}
        /\ Frames(g)' = IF e = Sentinel THEN Frames(g) ELSE Frames(g) \cup {e}
        /\ e \notin Frames(g)
    <2>1. popped[g] \in Seq(Element) /\ popped'[g] = Append(popped[g], e)
      BY <1>1
    <2> HIDE DEF e
    <2>2. ToSet(popped'[g]) = ToSet(popped[g]) \cup {e}
      BY <1>8, <2>1, AppendedSet
    <2>3. Popped(g)' = IF e = Sentinel THEN Popped(g) ELSE Popped(g) \cup {e}
      BY <2>2 DEF Popped
    <2>4. e \notin lost[g] /\ lost' = lost
      BY <1>1, <1>8 DEF SentInv, LostInv
    <2> QED BY <1>8, <2>3, <2>4 DEF Frames
  <1>10. held'[g] = IF e = Sentinel THEN held[g] ELSE held[g] \cup {e}
    BY <1>1 DEF SentInv
  <1>11. /\ \A h \in Stream : h # g => held'[h] = held[h] /\ Frames(h)' = Frames(h)
         /\ \A h \in Stream : Live(h)' <=> Live(h)
        /\ \A h \in Stream : h # g => Popped(h)' = Popped(h)
    BY <1>1 DEF SentInv, Frames, Popped, Live
  <1>12. Complete(sent[c], g, Frames(g)', held'[g])
    <2> HIDE DEF e
    <2>1. Complete(sent[c], g, Frames(g) \cup {e}, held[g] \cup {e})
      BY <1>6, <1>7, <1>9, FrameTaken
    <2> QED BY <1>7, <1>9, <1>10, <2>1
  <1>13. ASSUME NEW d \in Conns, NEW h \in Stream PROVE Told(d, h)'
    <2>1. CASE h = g /\ d = c
      <3>1. Live(g)
        BY <1>2 DEF Live
      <3> QED BY <1>1, <1>7, <1>11, <1>12, <2>1, <3>1 DEF Told
    <2>2. CASE h = g /\ d # c
      BY <1>1, <1>6, <2>2 DEF Told
    <2>3. CASE h # g
      BY <1>1, <1>11, <2>3 DEF Told, SentInv
    <2> QED BY <2>1, <2>2, <2>3
  <1>14. ASSUME NEW b \in Addr, heap[b].kind = "stream" PROVE Kept(b)'
    <2>1. Kept(b) /\ gen[b] \in Stream /\ (Fresh(b)' <=> Fresh(b)) /\ (Flushed(b)' <=> Flushed(b))
      BY <1>1, <1>14, StreamNumbers DEF SentInv, Fresh, Flushed
    <2>2. Fresh(b) => gen[b] # g
      BY <1>2, <1>4, <1>14, StreamNumbers DEF GenInv
    <2> QED BY <1>1, <1>11, <2>1, <2>2 DEF Kept
  <1>15. held' \in [Stream -> SUBSET (1..MaxFrames)] /\ \A h \in Stream : h > streams => held'[h] = {}
    <2>1. held'[g] \in SUBSET (1..MaxFrames)
      BY <1>8, <1>10 DEF SentInv, Element
    <2>2. \A h \in Stream : h > streams => h # g
      BY <1>7 DEF Stream
    <2> HIDE DEF e
    <2>3. held' = [held EXCEPT ![g] = held'[g]]
      BY <1>1, <1>10 DEF SentInv
    <2> QED BY <1>11, <2>1, <2>2, <2>3 DEF SentInv
  <1>16. LostInv'
    <2> HIDE DEF e
    <2>1. lost' = lost /\ LostInv
      BY <1>1 DEF SentInv
    <2>2. \A h \in Stream : lost[h] \subseteq Popped(h)
      BY <2>1 DEF LostInv
    <2>3. ASSUME NEW h \in Stream PROVE lost[h] \subseteq Popped(h)'
      <3>1. CASE h = g
        BY <1>9, <2>2, <3>1
      <3>2. CASE h # g
        BY <1>11, <2>2, <3>2
      <3> QED BY <3>1, <3>2
    <2> QED BY <2>1, <2>3 DEF LostInv
  <1> QED BY <1>1, <1>13, <1>14, <1>15, <1>16 DEF SentInv

\* What a failing call loses is neither in the codecs nor in the stream.
LEMMA LoseSent ==
  ASSUME StreamInv, SentInv, NEW a \in Addr, heap[a].kind = "stream", ~Flushed(a), NEW X,
         Lose(gen[a], X), UNCHANGED <<heap, httpProcessor, old, pc, sent, gen, streams, popped>>
  PROVE  SentInv'
  <1>1. PICK c \in Conns, g \in Stream : c = heap[a].conn /\ g = gen[a]
    BY StreamNumbers DEF StreamInv, ServerInv, OwnInv
  <1>2. /\ X # {} /\ X \subseteq held[g] /\ held[g] \in SUBSET (1..MaxFrames)
        /\ held'[g] = held[g] \ X /\ lost'[g] = lost[g] \cup X
        /\ \A h \in Stream : h # g => held'[h] = held[h] /\ lost'[h] = lost[h]
        /\ held' \in [Stream -> SUBSET (1..MaxFrames)] /\ lost' \in [Stream -> SUBSET (1..MaxFrames)]
    BY <1>1 DEF Lose, SentInv, LostInv
  <1>3. /\ ~Fresh(a) /\ Open(sent[c], g) /\ ~Whole(sent[c], g)
        /\ \A d \in Conns : d # c => At(sent[d], g) = {}
    BY <1>1, <1>2 DEF SentInv, Kept
  <1>4. g <= streams /\ Complete(sent[c], g, Frames(g), held[g])
    BY <1>3 DEF SentInv, Told, Open
  <1>5. Frames(g)' = Frames(g) \ X /\ \A h \in Stream : h # g => Frames(h)' = Frames(h)
    BY <1>2 DEF Frames, Popped
  <1>6. Complete(sent[c], g, Frames(g)', held'[g])
    <2>1. Complete(sent[c], g, Frames(g) \ X, held[g] \ X)
      BY <1>2, <1>3, <1>4, FramesLost
    <2> QED BY <1>2, <1>5, <2>1
  <1>7. ASSUME NEW d \in Conns, NEW h \in Stream PROVE Told(d, h)'
    <2>1. Live(h)' <=> Live(h)
      BY DEF Live
    <2>2. CASE h = g /\ d = c
      <3>1. Live(g)
        BY <1>1 DEF Live
      <3> QED BY <1>4, <1>6, <2>1, <2>2, <3>1 DEF Told
    <2>3. CASE h = g /\ d # c
      BY <1>3, <2>3 DEF Told
    <2>4. CASE h # g
      BY <1>2, <1>5, <2>1, <2>4 DEF Told, SentInv
    <2> QED BY <2>2, <2>3, <2>4
  <1>8. ASSUME NEW b \in Addr, heap[b].kind = "stream" PROVE Kept(b)'
    <2>1. Kept(b) /\ gen[b] \in Stream /\ (Fresh(b)' <=> Fresh(b)) /\ (Flushed(b)' <=> Flushed(b))
      BY <1>8, StreamNumbers DEF SentInv, Fresh, Flushed
    <2>2. Fresh(b) => gen[b] # g
      BY <1>1, <1>3, <1>8, StreamNumbers DEF StreamInv, GenInv
    <2> QED BY <1>2, <2>1, <2>2 DEF Kept
  <1>9. LostInv'
    <2>1. held[g] \subseteq Frames(g)
      BY <1>4 DEF Complete, Conveys
    <2>2. X \subseteq Popped(g)
      BY <1>2, <2>1 DEF Frames
    <2>3. \A h \in Stream : Popped(h)' = Popped(h)
      BY DEF Popped
    <2> QED BY <1>2, <2>2, <2>3 DEF SentInv, LostInv
  <1>10. \A h \in Stream : h > streams' => held'[h] = {}
    <2>1. \A h \in Stream : h > streams => h # g
      BY <1>4 DEF Stream, StreamInv, StreamTypeOK
    <2> QED BY <1>2, <2>1 DEF SentInv
  <1> QED BY <1>2, <1>7, <1>8, <1>9, <1>10 DEF SentInv

\* The transcoder thread's steps.
LEMMA ThreadSent ==
  ASSUME StreamInv, TakenInv, SentInv, NEW g \in Stream, Thread(g) \/ SpuriousWakeup(g)
  PROVE  SentInv'
  <1>1. CASE Pop(g)
    BY <1>1, PopSent
  <1>2. CASE Wait(g) \/ SpuriousWakeup(g)
    BY <1>2, RestSent DEF Wait, SpuriousWakeup, vars, routerVars
  <1>3. CASE \E a \in Addr : gen[a] = g /\ Transcode(a)
    <2>1. PICK a \in Addr : gen[a] = g /\ Transcode(a)
      BY <1>3
    <2>2. /\ heap[a].kind = "stream" /\ thread[g] = "work"
          /\ UNCHANGED <<heap, httpProcessor, old, pc, gen, streams, popped>>
      BY <2>1 DEF Transcode, routerVars
    <2>5. ~Flushed(a)
      <3>1. SUFFICES ASSUME NEW d \in Conns, old[d] = a, pc[d] = "delete" PROVE FALSE
        BY DEF Flushed
      <3>2. OldKind(d) = "stream" /\ Old(d) = g
        BY <2>1, <2>2, <3>1, ServerAssumption DEF OldKind, Old
      <3> QED BY <2>2, <3>1, <3>2 DEF StreamInv, ThreadInv
    <2>3. CASE WriteData(heap[a].conn, gen[a]) /\ UNCHANGED lost
      BY <2>2, <2>3, <2>5, ChunkSent
    <2>4. CASE UNCHANGED <<sent, held, lost>>
      BY <2>2, <2>4, RestSent
    <2>6. CASE (\E x \in held[gen[a]] : Lose(gen[a], {x})) /\ UNCHANGED sent
      BY <2>2, <2>5, <2>6, LoseSent
    <2> QED BY <2>1, <2>3, <2>4, <2>6 DEF Transcode
  <1> QED BY <1>1, <1>2, <1>3 DEF Thread

\* The end of a stream in its destructor.
LEMMA FlushSent ==
  ASSUME StreamInv, SentInv, NEW c \in Conns, Flush(c)
  PROVE  SentInv'
  <1>1. PICK a \in Addr : a = old[c] /\ heap[a].kind = "stream" /\ heap[a].conn = c
    BY DEF Flush, StreamInv, ThreadInv, Late, ServerInv, TypeOK, OwnInv
  <1>2. pc[c] = "flush" /\ UNCHANGED <<heap, httpProcessor, old, gen, streams, popped>>
    BY DEF Flush
  <1>3. ~Flushed(a)
    <2>1. \A d \in Conns : old[d] = a => d = c
      BY <1>1, ServerAssumption DEF StreamInv, ServerInv, OwnInv
    <2> QED BY <1>2, <2>1 DEF Flushed
  <1>4. CASE WriteData(c, Old(c)) /\ UNCHANGED <<pc, lost>>
    BY <1>1, <1>2, <1>3, <1>4, ChunkSent DEF Old
  <1>5. CASE (\E X \in SUBSET held[Old(c)] : Lose(Old(c), X)) /\ UNCHANGED <<pc, sent>>
    BY <1>1, <1>2, <1>3, <1>5, LoseSent DEF Old
  <1>6. CASE EndsStream(c)
    BY <1>6, TrailerSent
  <1> QED BY <1>4, <1>5, <1>6 DEF Flush, EndsStream

\* Every step keeps what the clients got in line with the streams.
LEMMA SentKept == StreamInv /\ TakenInv /\ SentInv /\ [StreamNext]_allVars => SentInv'
  <1> SUFFICES ASSUME StreamInv, TakenInv, SentInv, [StreamNext]_allVars PROVE SentInv'
    OBVIOUS
  <1>1. CASE Capturer /\ UNCHANGED streamVars
    <2>1. CASE \E a \in todo : Notify(a)
      BY <1>1, <2>1, NotifySent
    <2>2. CASE Capture \/ CaptureEnd
      BY <1>1, <2>2, RestSent DEF Capture, CaptureEnd, routerVars, streamVars
    <2> QED BY <1>1, <2>1, <2>2 DEF Capturer
  <1>2. CASE \E a \in todo : NotifyStream(a) \/ NotifyStreamEnd(a)
    BY <1>2, RestSent DEF NotifyStream, NotifyStreamEnd, vars, routerVars
  <1>3. ASSUME NEW c \in Conns, StreamWorker(c) PROVE SentInv'
    BY <1>3, WorkersSent, HeaderSent, FlushSent, CreateStreamSent
  <1>4. CASE \E g \in Stream : Thread(g) \/ SpuriousWakeup(g)
    BY <1>4, ThreadSent
  <1>5. CASE UNCHANGED <<vars, streamVars>>
    BY <1>5, RestSent DEF vars, routerVars, streamVars
  <1> QED BY <1>1, <1>2, <1>3, <1>4, <1>5 DEF StreamNext, StreamCapturer, Exhausted, allVars

\* So they are in every behaviour.
THEOREM SentInvariant == StreamSpecification => []SentInv
  <1>1. StreamInv /\ TakenInv /\ SentInv /\ [StreamNext]_allVars => SentInv'
    BY SentKept
  <1> QED BY <1>1, SentInitial, StreamInvariant, TakenInvariant, PTL DEF StreamSpecification

\* A client gets every stream as one response: its header, the frames the
\* thread took and no error lost, each once, with nothing but a "404" in
\* between, and, before the processor is gone, the trailer.
THEOREM StreamsAreComplete == StreamSpecification => []StreamComplete
  <1>1. SentInv => StreamComplete
    <2> SUFFICES ASSUME SentInv, NEW c \in Conns, NEW g \in Stream, At(sent[c], g) # {}
                 PROVE  /\ HeaderFirst(sent[c], g) /\ EachOnce(sent[c], g) /\ Together(sent[c], g)
                        /\ Popped(g) = Shown(sent[c], g) \cup held[g] \cup lost[g]
                        /\ Shown(sent[c], g) \cap held[g] = {}
                        /\ (Shown(sent[c], g) \cup held[g]) \cap lost[g] = {}
                        /\ TrailerLast(sent[c], g, held[g])
                        /\ ~Live(g) => Whole(sent[c], g)
      BY DEF StreamComplete, HeaderFirst, EachOnce, Together, TrailerLast, Whole, Popped, Shown, At
    <2>1. Complete(sent[c], g, Frames(g), held[g]) /\ (~Live(g) => Whole(sent[c], g))
      BY DEF SentInv, Told
    <2>2. lost[g] \subseteq Popped(g)
      BY DEF SentInv, LostInv
    <2>3. Frames(g) = Shown(sent[c], g) \cup held[g] /\ Shown(sent[c], g) \cap held[g] = {}
      BY <2>1 DEF Complete, Conveys
    <2>4. /\ Popped(g) = Shown(sent[c], g) \cup held[g] \cup lost[g]
          /\ (Shown(sent[c], g) \cup held[g]) \cap lost[g] = {}
      BY <2>2, <2>3 DEF Frames
    <2> QED BY <2>1, <2>3, <2>4 DEF Complete
  <1> QED BY <1>1, SentInvariant, PTL
=============================================================================
