------------------------------ MODULE TcpSender ------------------------------
(***************************************************************************)
(* One accepted connection of a TcpLayer (src/src/core/tcp.cpp): its       *)
(* ConcreteTcpSender with the deque of pending operations and senderMut,   *)
(* the EPOLLOUT interest the sender arms and disarms, the epoll loop of    *)
(* the worker thread that owns the connection, and the kernel socket.      *)
(*                                                                         *)
(* Two kinds of threads use the sender. The worker replies to requests,    *)
(* drains the deque and closes the connection. The producers push stream   *)
(* data while the connection's processor is subscribed to them (the        *)
(* capturer thread, a transcoder thread).                                  *)
(***************************************************************************)
EXTENDS Integers, Sequences, SequencesExt

CONSTANTS
  Worker,     \* the thread running TcpLayer::StartLoop
  Producers,  \* the threads that call Send from outside the loop
  None,       \* nobody holds senderMut
  Fd,         \* the connection's descriptor
  Byte,       \* the bytes of the streams
  Payloads,   \* what a caller hands to Send(std::string_view)
  Files,      \* contents of the files handed to Send(os::File)
  Capacity,   \* free bytes of an empty socket buffer
  MaxInbox,   \* bound: received segments not yet read
  MaxCalls    \* bound: Send calls in one behaviour

ASSUME ThreadsAssumption ==
  /\ Worker \notin Producers
  /\ None \notin Producers \cup {Worker}
ASSUME DataAssumption ==
  /\ Fd \in Nat
  /\ Payloads \subseteq Seq(Byte)
  /\ Files \subseteq Seq(Byte)
ASSUME BoundsAssumption ==
  /\ Capacity \in Nat
  /\ MaxInbox \in Nat
  /\ MaxCalls \in Nat

VARIABLES
  mutex,     \* the holder of senderMut
  acc,       \* "accumulated" of the Send call that holds senderMut
  buffered,  \* the deque of TcpSendOperation
  pending,   \* the sender's flag of that name
  peer,      \* the sender's descriptor, -1 once Close ran
  armed,     \* the epoll registration of Fd includes EPOLLOUT
  loop,      \* where the worker is, for this connection
  event,     \* the events epoll_wait reported for Fd
  attached,  \* the connection's processor is subscribed to the producers
  calling,   \* the producers that are inside the processor's Notify
  sock,      \* the kernel socket
  room,      \* bytes the socket buffer can take now
  inbox,     \* segments received and not yet read
  calls,     \* Send calls begun so far
  accepted,  \* history: the bytes handed to Send
  wire,      \* history: the bytes taken by the socket
  killed     \* the process was terminated by SIGPIPE

senderVars    == <<mutex, acc, buffered, pending, peer, armed>>
loopVars      == <<loop, event>>
processorVars == <<attached, calling>>
kernelVars    == <<sock, room, inbox>>
historyVars   == <<calls, accepted, wire, killed>>
vars == <<senderVars, loopVars, processorVars, kernelVars, historyVars>>

-----------------------------------------------------------------------------
(* A deque element: the descriptor it captured, the bytes still to write,  *)
(* and, for a TcpSendFile, whether the file was cut short after its size   *)
(* was read (sendfile then returns 0 although bytes are still owed).       *)

Op == [kind : {"buffer", "file"}, fd : {Fd, -1}, data : Seq(Byte), eof : BOOLEAN]

BufferOp(d) == [kind |-> "buffer", fd |-> peer, data |-> d, eof |-> FALSE]
FileOp(d)   == [kind |-> "file",   fd |-> peer, data |-> d, eof |-> FALSE]

Done(op) == op.data = <<>>

(* The kernel socket. "open" and "fin" take data; after "fin" the client   *)
(* has closed its side. "reset": a RST arrived and its error is not yet    *)
(* reported. "pipe": the RST came after a FIN, so its error is EPIPE.      *)
(* "dead": the error of a reset was reported. "shut": this process shut    *)
(* the socket down. A write to "pipe", "dead" or "shut" raises SIGPIPE.    *)

SockState == {"open", "fin", "reset", "pipe", "dead", "shut"}
Writable(s) == s \in {"open", "fin"}
Broken(s)   == s \in {"pipe", "dead", "shut"}

Reported(e) ==
  CASE e = "ERR" -> sock \in {"reset", "pipe"}
    [] e = "IN"  -> inbox > 0 \/ sock # "open"
    [] e = "OUT" -> armed /\ (room > 0 \/ ~Writable(sock))

Mask == {e \in {"ERR", "IN", "OUT"} : Reported(e)}

ShutDown(s) == IF Writable(s) THEN "shut" ELSE s

Init ==
  /\ mutex = None /\ acc = <<>> /\ buffered = <<>>
  /\ pending = FALSE /\ peer = Fd /\ armed = FALSE
  /\ loop = "wait" /\ event = {}
  /\ attached = FALSE /\ calling = {}
  /\ sock = "open" /\ room = Capacity /\ inbox = 0
  /\ calls = 0 /\ accepted = <<>> /\ wire = <<>> /\ killed = FALSE

-----------------------------------------------------------------------------
(* ConcreteTcpSender. senderMut is held from the first step of a call to   *)
(* its last.                                                               *)

\* TcpLayer::MarkSenderPending fails on the descriptor -1.
MarkPending ==
  /\ pending' = TRUE
  /\ armed' = (armed \/ (~pending /\ peer # -1))

\* Mutant: the flag is not cleared.
UnmarkPendingKeepsFlag ==
  /\ pending' = pending
  /\ armed' = (armed /\ ~(pending /\ peer # -1))

UnmarkPending ==
  /\ pending' = FALSE
  /\ armed' = (armed /\ ~(pending /\ peer # -1))

\* The threads that may call the sender now; the worker also while it
\* destroys the processor (~AppEncodedStreamSender flushes its transcoder).
Caller(t) ==
  \/ t = Worker /\ loop \in {"process", "flush"}
  \/ t \in calling

\* Send(std::string_view): lock and copy the bytes.
SendBegin(t, d) ==
  /\ mutex = None
  /\ Caller(t)
  /\ calls < MaxCalls
  /\ mutex' = t
  /\ acc' = d
  /\ accepted' = accepted \o d
  /\ calls' = calls + 1
  /\ UNCHANGED <<buffered, pending, peer, armed, loopVars, processorVars,
                 kernelVars, wire, killed>>

InSend == mutex # None /\ loop # "drain"

EndsInBuffer(q) == q # <<>> /\ Last(q).kind = "buffer"

\* Mutant: the concatenation is swapped.
CoalesceSwapped ==
  /\ InSend
  /\ EndsInBuffer(buffered)
  /\ acc' = acc \o Last(buffered).data
  /\ buffered' = Front(buffered)
  /\ UNCHANGED <<mutex, pending, peer, armed, loopVars, processorVars,
                 kernelVars, historyVars>>

\* One turn of the loop that takes unsent buffers back from the tail.
Coalesce ==
  /\ InSend
  /\ EndsInBuffer(buffered)
  /\ acc' = Last(buffered).data \o acc
  /\ buffered' = Front(buffered)
  /\ UNCHANGED <<mutex, pending, peer, armed, loopVars, processorVars,
                 kernelVars, historyVars>>

\* The loop is over: one operation goes to the tail.
SendEnd ==
  /\ InSend
  /\ ~EndsInBuffer(buffered)
  /\ buffered' = Append(buffered, BufferOp(acc))
  /\ MarkPending
  /\ mutex' = None
  /\ acc' = <<>>
  /\ UNCHANGED <<peer, loopVars, processorVars, kernelVars, historyVars>>

\* Send(os::File); its callers are HTTP responses, made by the worker.
SendFile(f) ==
  /\ mutex = None
  /\ loop = "process"
  /\ calls < MaxCalls
  /\ buffered' = Append(buffered, FileOp(f))
  /\ MarkPending
  /\ accepted' = accepted \o f
  /\ calls' = calls + 1
  /\ UNCHANGED <<mutex, acc, peer, loopVars, processorVars, kernelVars, wire, killed>>

\* Close(), called by the processor while it handles input.
Close ==
  /\ mutex = None
  /\ loop = "process"
  /\ peer # -1
  /\ peer' = -1
  /\ sock' = ShutDown(sock)
  /\ UNCHANGED <<mutex, acc, buffered, pending, armed, loopVars, processorVars,
                 room, inbox, historyVars>>

\* SendBuffered() begins: SendToPeer found the connection.
DrainBegin ==
  /\ loop = "send"
  /\ mutex = None
  /\ mutex' = Worker
  /\ loop' = "drain"
  /\ UNCHANGED <<acc, buffered, pending, peer, armed, event, processorVars,
                 kernelVars, historyVars>>

\* send or sendfile takes n bytes of the first operation.
DrainWrite(n) ==
  /\ loop = "drain"
  /\ buffered # <<>>
  /\ LET op == Head(buffered) IN
       /\ op.fd # -1 /\ ~op.eof /\ Writable(sock)
       /\ n <= room /\ n <= Len(op.data)
       /\ wire' = wire \o SubSeq(op.data, 1, n)
       /\ buffered' = [buffered EXCEPT ![1].data = SubSeq(op.data, n + 1, Len(op.data))]
  /\ room' = room - n
  /\ UNCHANGED <<mutex, acc, pending, peer, armed, loopVars, processorVars,
                 sock, inbox, calls, accepted, killed>>

DrainPop ==
  /\ loop = "drain"
  /\ buffered # <<>> /\ Done(Head(buffered))
  /\ buffered' = Tail(buffered)
  /\ UNCHANGED <<mutex, acc, pending, peer, armed, loopVars, processorVars,
                 kernelVars, historyVars>>

\* The first operation cannot finish now: EAGAIN, an error, or the end of a
\* file that was cut short. SendBuffered returns and keeps the operation.
DrainStall ==
  /\ loop = "drain"
  /\ buffered # <<>>
  /\ LET op == Head(buffered) IN
       /\ ~Done(op)
       /\ op.fd = -1 \/ op.eof \/ ~Writable(sock) \/ room = 0
       /\ sock' = IF op.fd # -1 /\ sock = "reset" THEN "dead" ELSE sock
       /\ killed' = (op.fd # -1 /\ Broken(sock))
  /\ mutex' = None
  /\ loop' = "wait"
  /\ UNCHANGED <<acc, buffered, pending, peer, armed, event, processorVars,
                 room, inbox, calls, accepted, wire>>

DrainEmpty ==
  /\ loop = "drain"
  /\ buffered = <<>>
  /\ UnmarkPending
  /\ mutex' = None
  /\ loop' = "wait"
  /\ UNCHANGED <<acc, buffered, peer, event, processorVars, kernelVars, historyVars>>

-----------------------------------------------------------------------------
(* TcpLayer: the worker.                                                   *)

\* epoll_wait returns.
Poll ==
  /\ loop = "wait"
  /\ Mask # {}
  /\ event' = Mask
  /\ loop' = "dispatch"
  /\ UNCHANGED <<senderVars, processorVars, kernelVars, historyVars>>

\* Mutant: output before errors and input.
HandlerOutputFirst(e) ==
  IF "OUT" \in e THEN "send" ELSE IF "ERR" \in e THEN "close" ELSE "read"

\* The chain of ifs in StartLoop: one handler per round, errors first.
Handler(e) ==
  IF "ERR" \in e THEN "close" ELSE IF "IN" \in e THEN "read" ELSE "send"

Dispatch ==
  /\ loop = "dispatch"
  /\ loop' = Handler(event)
  /\ event' = {}
  /\ UNCHANGED <<senderVars, processorVars, kernelVars, historyVars>>

\* ReadFromPeer with data: the processor handles it ("process").
ReadData ==
  /\ loop = "read"
  /\ inbox > 0
  /\ inbox' = inbox - 1
  /\ loop' = "process"
  /\ UNCHANGED <<senderVars, event, processorVars, sock, room, historyVars>>

\* Mutant: the end of the stream is taken for EAGAIN.
ReadNothingIgnoresEnd ==
  /\ loop = "read"
  /\ inbox = 0
  /\ loop' = "wait"
  /\ UNCHANGED <<senderVars, event, processorVars, kernelVars, historyVars>>

\* ReadFromPeer at the end of the stream, on an error, or without data.
ReadNothing ==
  /\ loop = "read"
  /\ inbox = 0
  /\ loop' = IF sock = "open" THEN "wait" ELSE "close"
  /\ UNCHANGED <<senderVars, event, processorVars, kernelVars, historyVars>>

\* While it handles input the processor may subscribe to the producers,
Attach ==
  /\ loop = "process" /\ mutex # Worker
  /\ calling = {}
  /\ attached' = TRUE
  /\ UNCHANGED <<senderVars, loopVars, calling, kernelVars, historyVars>>

\* unsubscribe (another processor takes its place),
Detach ==
  /\ loop = "process" /\ mutex # Worker
  /\ calling = {}
  /\ attached' = FALSE
  /\ UNCHANGED <<senderVars, loopVars, calling, kernelVars, historyVars>>

\* and at last return to the loop.
ProcessEnd ==
  /\ loop = "process" /\ mutex # Worker
  /\ loop' = "wait"
  /\ UNCHANGED <<senderVars, event, processorVars, kernelVars, historyVars>>

\* Mutant: the processor unsubscribes without taking receiversMut.
DestroyProcessorUnlocked ==
  /\ loop = "close"
  /\ attached' = FALSE
  /\ loop' = "flush"
  /\ UNCHANGED <<senderVars, event, calling, kernelVars, historyVars>>

\* ClosePeer, ~TcpConnectionContext: processor.reset(). The processor's
\* destructor unsubscribes, which waits for a notification in progress,
DestroyProcessor ==
  /\ loop = "close"
  /\ calling = {}
  /\ attached' = FALSE
  /\ loop' = "flush"
  /\ UNCHANGED <<senderVars, event, calling, kernelVars, historyVars>>

\* sends what a transcoder still holds, and returns.
FlushEnd ==
  /\ loop = "flush" /\ mutex # Worker
  /\ loop' = "destroy"
  /\ UNCHANGED <<senderVars, event, processorVars, kernelVars, historyVars>>

\* sender.reset() (its destructor calls Close), EPOLL_CTL_DEL and close.
DestroySender ==
  /\ loop = "destroy"
  /\ mutex = None
  /\ peer' = -1
  /\ sock' = ShutDown(sock)
  /\ armed' = FALSE
  /\ buffered' = <<>>
  /\ loop' = "gone"
  /\ UNCHANGED <<mutex, acc, pending, event, processorVars, room, inbox, historyVars>>

-----------------------------------------------------------------------------
(* The producers: a notification reaches the processor while it is         *)
(* subscribed, may call Send any number of times (a skipped frame: never)  *)
(* and returns.                                                            *)

NotifyBegin(p) ==
  /\ attached
  /\ p \notin calling
  /\ calling' = calling \cup {p}
  /\ UNCHANGED <<senderVars, loopVars, attached, kernelVars, historyVars>>

NotifyEnd(p) ==
  /\ p \in calling
  /\ mutex # p
  /\ calling' = calling \ {p}
  /\ UNCHANGED <<senderVars, loopVars, attached, kernelVars, historyVars>>

(* The client and the file system.                                         *)

ClientSend ==
  /\ sock = "open" /\ inbox < MaxInbox
  /\ inbox' = inbox + 1
  /\ UNCHANGED <<senderVars, loopVars, processorVars, sock, room, historyVars>>

ClientRead ==
  /\ room < Capacity
  /\ room' = room + 1
  /\ UNCHANGED <<senderVars, loopVars, processorVars, sock, inbox, historyVars>>

ClientFin ==
  /\ sock = "open"
  /\ sock' = "fin"
  /\ UNCHANGED <<senderVars, loopVars, processorVars, room, inbox, historyVars>>

ClientReset ==
  /\ sock \in {"open", "shut", "fin"}
  /\ sock' = IF sock = "fin" THEN "pipe" ELSE "reset"
  /\ UNCHANGED <<senderVars, loopVars, processorVars, room, inbox, historyVars>>

\* Somebody truncates a file that is waiting in the deque.
Truncate(i) ==
  /\ buffered[i].kind = "file"
  /\ buffered' = [buffered EXCEPT ![i].eof = TRUE]
  /\ UNCHANGED <<mutex, acc, pending, peer, armed, loopVars, processorVars,
                 kernelVars, historyVars>>

-----------------------------------------------------------------------------
Sending == (\E t \in Producers \cup {Worker}, d \in Payloads : SendBegin(t, d))
           \/ Coalesce \/ SendEnd

Draining == DrainBegin \/ (\E n \in 1..Capacity : DrainWrite(n)) \/ DrainPop
            \/ DrainStall \/ DrainEmpty

Processing == (\E f \in Files : SendFile(f)) \/ Close \/ Attach \/ Detach \/ ProcessEnd

Looping == Poll \/ Dispatch \/ ReadData \/ ReadNothing
           \/ DestroyProcessor \/ FlushEnd \/ DestroySender

Notifying == \E p \in Producers : NotifyBegin(p) \/ NotifyEnd(p)

Client == ClientSend \/ ClientRead \/ ClientFin \/ ClientReset
          \/ \E i \in DOMAIN buffered : Truncate(i)

\* The connection is closed, or the process is gone.
Ended == (loop = "gone" \/ killed) /\ UNCHANGED vars

Next ==
  \/ /\ ~killed
     /\ loop # "gone"
     /\ Sending \/ Draining \/ Processing \/ Looping \/ Notifying \/ Client
  \/ Ended

Spec == Init /\ [][Next]_vars
-----------------------------------------------------------------------------
(* Fairness. Threads run, the client reads what is sent to it, and the     *)
(* capturer, which sleeps in epoll_wait between two frames without holding *)
(* receiversMut, lets a worker that waits for that lock have it in the end *)
(* (strong fairness of DestroyProcessor). Nothing is assumed of the        *)
(* client's other steps or of when a producer or a processor sends.        *)

Running(A) == ~killed /\ loop # "gone" /\ A

Fairness ==
  /\ WF_vars(Running(Coalesce \/ SendEnd))
  /\ SF_vars(Running(Draining))
  /\ WF_vars(Running(ProcessEnd \/ FlushEnd))
  /\ WF_vars(Running(Poll \/ Dispatch \/ ReadData \/ ReadNothing \/ DestroySender))
  /\ SF_vars(Running(DestroyProcessor))
  /\ WF_vars(Running(\E p \in Producers : NotifyEnd(p)))
  /\ WF_vars(Running(ClientRead))

FairSpec == Spec /\ Fairness

-----------------------------------------------------------------------------
\* The type invariant.
TypeOK ==
  /\ mutex \in Producers \cup {Worker, None}
  /\ acc \in Seq(Byte)
  /\ buffered \in Seq(Op)
  /\ pending \in BOOLEAN /\ armed \in BOOLEAN
  /\ peer \in {Fd, -1}
  /\ loop \in {"wait", "dispatch", "read", "process", "send", "drain",
               "close", "flush", "destroy", "gone"}
  /\ event \subseteq {"ERR", "IN", "OUT"}
  /\ attached \in BOOLEAN /\ calling \subseteq Producers
  /\ sock \in SockState
  /\ room \in 0..Capacity /\ inbox \in 0..MaxInbox /\ calls \in 0..MaxCalls
  /\ accepted \in Seq(Byte) /\ wire \in Seq(Byte)
  /\ killed \in BOOLEAN

\* While the connection is usable and nobody is inside the sender, epoll
\* watches for EPOLLOUT exactly when something is queued: neither a queue
\* that no event will ever drain nor a loop that spins on an empty queue,
\* whatever the order of Send calls and of SendBuffered (MarkPending,
\* UnmarkPending).
InterestFollowsQueue ==
  mutex = None /\ peer # -1 =>
    /\ pending = (buffered # <<>>)
    /\ armed = pending

\* No byte is lost, repeated or out of place while Send takes unsent buffers
\* back from the tail, SendBuffered erases what was written from the head,
\* and the socket accepts only parts of an operation.
Conservation ==
  loop # "gone" =>
    accepted = wire \o FlattenSeq([i \in DOMAIN buffered |-> buffered[i].data]) \o acc

\* Send and sendfile are called without MSG_NOSIGNAL. SIGPIPE can terminate
\* the process only when a FIN and then a RST arrive between epoll_wait and
\* the write: never through a write after this process's own Close, nor
\* through a second write after a reported error, because StartLoop reads
\* or closes before it writes.
SigpipeNeedsFinAndReset == killed => sock = "pipe"

\* ~TcpConnectionContext destroys the processor first: when the sender is
\* destroyed no producer is inside a notification or holds senderMut.
SenderOutlivesCallers ==
  loop \in {"destroy", "gone"} => calling = {} /\ mutex = None

\* The sender implements the abstract byte stream.
Stream == INSTANCE ByteStream WITH open <- Writable(sock) /\ ~killed
StreamSpec == Stream!Spec

\* Once the client stops sending requests, every accepted byte reaches the
\* socket, unless the connection ends or a queued file was cut short.
\* (StartLoop leaves EPOLLOUT for a later round whenever there is input, so
\* a client that never stops may starve its own responses.)
Lost == sock # "open" \/ \E i \in DOMAIN buffered : buffered[i].eof
Quiet == <>[](inbox = 0)
Delivered ==
  Quiet => \A n \in 1..(2 * MaxCalls) :
             Len(accepted) >= n ~> (Len(wire) >= n \/ Lost)

\* A connection that the client or this process has ended is closed and its
\* sender destroyed, even while notifications keep arriving.
Reclaimed == sock # "open" ~> (loop = "gone" \/ killed)
=============================================================================
