------------------------------ MODULE TcpLayer ------------------------------
(***************************************************************************)
(* The workers of the server (src/src/core/tcp.cpp, TcpLayer): each has a  *)
(* listening socket (SO_REUSEPORT: the kernel gives a new connection to    *)
(* any of them), an epoll instance and a map of connections, and all share *)
(* the descriptor table of the process, in which a number that one worker  *)
(* closes is the next one that another worker gets from accept.            *)
(* TcpSender.tla looks into one connection; here a connection is what its  *)
(* client makes of it, and its sender is known by the descriptor it holds. *)
(***************************************************************************)
EXTENDS Integers, FiniteSets, FiniteSetsExt

CONSTANTS
  Workers,   \* the threads of main.cpp, one TcpLayer each
  Conns,     \* connections that clients open
  Fds,       \* the descriptor numbers left for connections
  None,      \* no connection, no descriptor
  Listen,    \* the listening socket's entry in a batch of events
  Backlog    \* the second parameter of listen()

ASSUME LayerAssumption ==
  /\ Fds \subseteq Nat /\ Fds # {} /\ None \notin Conns /\ None \notin Fds
  /\ Listen \notin Fds
  /\ Backlog \in Nat \ {0}

VARIABLES
  table,        \* the process's descriptors: the connection behind each
  client,       \* what the client did with each connection
  backlog,      \* connections each listening socket waits to hand out
  registered,   \* each epoll instance: pairs <<descriptor, connection>>
  armed,        \* the registrations that include EPOLLOUT
  connections,  \* TcpLayer::connections of each worker, by descriptor
  batch,        \* events of the last epoll_wait not yet handled
  step,         \* where each worker is
  hand,         \* the descriptor its handler works on
  unheard,      \* history: connections whose EPOLL_CTL_ADD failed
  foreign       \* history: shutdown() hit another connection

kernelVars == <<table, client, backlog>>
epollVars  == <<registered, armed>>
workerVars == <<connections, batch, step, hand>>
history    == <<unheard, foreign>>
vars == <<kernelVars, epollVars, workerVars, history>>

-----------------------------------------------------------------------------
(* A connection is "absent", "queued", "open" or "closed"; or, open, "data": *)
(* a segment waits; "eof": the client shut it down; "shut": this process   *)
(* did (the sender's Close); "reset": an error is pending.                 *)
Ended == {"eof", "shut", "reset"}

Free == {fd \in Fds : table[fd] = None}

\* Mutant: MarkSenderPending asks for EPOLLOUT only.
EventsOutOnly(r) ==
  LET c == client[r[2]] IN
    (IF c = "reset" THEN {"ERR"} ELSE {})
    \cup (IF r \in armed THEN {"OUT"} ELSE IF c \in {"data"} \cup Ended THEN {"IN"} ELSE {})

Events(r) ==
  LET c == client[r[2]] IN
    (IF c = "reset" THEN {"ERR"} ELSE {})
    \cup (IF c \in {"data"} \cup Ended THEN {"IN"} ELSE {})
    \cup (IF r \in armed THEN {"OUT"} ELSE {})

Event(fd, c, e) == [fd |-> fd, conn |-> c, events |-> e]

Ready(w) ==
  {Event(r[1], r[2], Events(r)) : r \in {s \in registered[w] : Events(s) # {}}}
  \cup (IF backlog[w] # {} THEN {Event(Listen, None, {"IN"})} ELSE {})

Goto(w, s, fd) == step' = [step EXCEPT ![w] = s] /\ hand' = [hand EXCEPT ![w] = fd]

Init ==
  /\ table = [fd \in Fds |-> None]
  /\ client = [c \in Conns |-> "absent"]
  /\ backlog = [w \in Workers |-> {}]
  /\ registered = [w \in Workers |-> {}] /\ armed = {}
  /\ connections = [w \in Workers |-> [fd \in Fds |-> None]]
  /\ batch = [w \in Workers |-> {}]
  /\ step = [w \in Workers |-> "wait"] /\ hand = [w \in Workers |-> None]
  /\ unheard = {} /\ foreign = FALSE

-----------------------------------------------------------------------------
(* Clients.                                                                *)

Connect(c, w) ==
  /\ client[c] = "absent"
  /\ Cardinality(backlog[w]) < Backlog
  /\ client' = [client EXCEPT ![c] = "queued"]
  /\ backlog' = [backlog EXCEPT ![w] = @ \cup {c}]
  /\ UNCHANGED <<table, epollVars, workerVars, history>>

ClientStep(c) ==
  /\ \/ client[c] = "open" /\ client' \in {[client EXCEPT ![c] = s] : s \in {"data", "eof", "reset"}}
     \/ client[c] = "data" /\ client' = [client EXCEPT ![c] = "reset"]
     \/ client[c] = "eof" /\ client' = [client EXCEPT ![c] = "reset"]
  /\ UNCHANGED <<table, backlog, epollVars, workerVars, history>>

-----------------------------------------------------------------------------
(* A worker: StartLoop.                                                    *)

Wait(w) ==
  /\ step[w] = "wait"
  /\ batch[w] = {}
  /\ Ready(w) # {}
  /\ batch' = [batch EXCEPT ![w] = Ready(w)]
  /\ UNCHANGED <<kernelVars, epollVars, connections, step, hand, history>>

Taken(w, e) ==
  /\ step[w] = "wait"
  /\ e \in batch[w]

\* SetupPeer: accept, which gives the lowest free number, or EMFILE.
Accept(w, e) ==
  /\ Taken(w, e)
  /\ e.fd = Listen
  /\ batch' = [batch EXCEPT ![w] = @ \ {e}]
  /\ IF Free = {}
       THEN UNCHANGED <<kernelVars, step, hand>>
       ELSE \E c \in backlog[w] :
              /\ table' = [table EXCEPT ![Min(Free)] = c]
              /\ backlog' = [backlog EXCEPT ![w] = @ \ {c}]
              /\ client' = [client EXCEPT ![c] = "open"]
              /\ Goto(w, "setup", Min(Free))
  /\ UNCHANGED <<epollVars, connections, history>>

\* SetupPeer: MarkReceiverPending, whose EPOLL_CTL_ADD may fail and which
\* then only logs, and the new entry of the map.
Setup(w) ==
  /\ step[w] = "setup"
  /\ LET fd == hand[w] IN
       /\ \/ /\ registered' = [registered EXCEPT ![w] = @ \cup {<<fd, table[fd]>>}]
             /\ UNCHANGED unheard
          \/ unheard' = unheard \cup {table[fd]} /\ UNCHANGED registered
       /\ connections' = [connections EXCEPT ![w][fd] = IF @ = None THEN table[fd] ELSE @]
  /\ Goto(w, "wait", None)
  /\ UNCHANGED <<kernelVars, armed, batch, foreign>>

\* Mutant: after an error the other events are handled as well.
HandledKeeps(w, e) ==
  batch' = [batch EXCEPT ![w] =
              (@ \ {e}) \cup (IF "ERR" \in e.events
                                THEN {[e EXCEPT !.events = @ \ {"ERR"}]} ELSE {})]

\* "continue": the event is done with.
Handled(w, e) == batch' = [batch EXCEPT ![w] = @ \ {e}]

\* ClosePeer begins: EPOLLERR, or recv finds the end or an error.
Closing(w, e) ==
  /\ Taken(w, e)
  /\ e.fd # Listen
  /\ \/ "ERR" \in e.events
     \/ /\ "IN" \in e.events
        /\ connections[w][e.fd] # None
        /\ table[e.fd] = None \/ client[table[e.fd]] \in Ended
  /\ Handled(w, e)
  /\ Goto(w, "erase", e.fd)
  /\ UNCHANGED <<kernelVars, epollVars, connections, history>>

\* ReadFromPeer: data for the processor, which may call sender.Close() (the
\* close frame of a websocket), EAGAIN, or an unexpected peer.
Read(w, e) ==
  /\ Taken(w, e)
  /\ e.fd # Listen
  /\ "ERR" \notin e.events /\ "IN" \in e.events
  /\ LET c == IF connections[w][e.fd] = None THEN None ELSE table[e.fd] IN
       IF c # None
         THEN /\ client[c] \in {"open", "data"}
              /\ client' \in {[client EXCEPT ![c] = s] :
                                s \in IF client[c] = "data" THEN {"open", "shut"} ELSE {"open"}}
         ELSE UNCHANGED client
  /\ Handled(w, e)
  /\ UNCHANGED <<table, backlog, epollVars, connections, step, hand, history>>

\* epoll_ctl(EPOLL_CTL_MOD): the kernel looks the number up in the table.
Modify(w, fd, on) ==
  LET r == <<fd, table[fd]>> IN
    armed' = IF r \notin registered[w] THEN armed
             ELSE IF on THEN armed \cup {r} ELSE armed \ {r}

\* SendToPeer: SendBuffered empties the queue, or not.
Write(w, e) ==
  /\ Taken(w, e)
  /\ e.events = {"OUT"}
  /\ IF connections[w][e.fd] # None
       THEN Modify(w, e.fd, FALSE) \/ UNCHANGED armed
       ELSE UNCHANGED armed
  /\ Handled(w, e)
  /\ UNCHANGED <<kernelVars, registered, connections, step, hand, history>>

\* MarkSenderPending, by whatever thread sends on a living connection.
MarkSenderPending(w, fd) ==
  /\ connections[w][fd] # None
  /\ client[connections[w][fd]] # "shut"
  /\ Modify(w, fd, TRUE)
  /\ UNCHANGED <<kernelVars, registered, workerVars, history>>

\* ClosePeer: connections.erase. ~ConcreteTcpSender shuts its descriptor
\* down, whatever that is now.
Erase(w) ==
  /\ step[w] = "erase"
  /\ LET fd == hand[w] IN
       /\ foreign' = (foreign \/ (connections[w][fd] # None /\ table[fd] \notin {None, connections[w][fd]}))
       /\ connections' = [connections EXCEPT ![w][fd] = None]
  /\ Goto(w, "close", hand[w])
  /\ UNCHANGED <<kernelVars, epollVars, batch, unheard>>

\* Mutant: the descriptor is not closed.
CloseForgets(w) ==
  /\ step[w] = "close"
  /\ registered' = [registered EXCEPT ![w] = @ \ {<<hand[w], table[hand[w]]>>}]
  /\ armed' = armed \ {<<hand[w], table[hand[w]]>>}
  /\ Goto(w, "wait", None)
  /\ UNCHANGED <<kernelVars, connections, batch, history>>

\* ClosePeer: EPOLL_CTL_DEL and close.
Close(w) ==
  /\ step[w] = "close"
  /\ LET fd == hand[w]
         r == <<fd, table[fd]>>
     IN /\ registered' = [registered EXCEPT ![w] = @ \ {r}]
        /\ armed' = armed \ {r}
        /\ client' = IF table[fd] = None THEN client ELSE [client EXCEPT ![table[fd]] = "closed"]
        /\ table' = [table EXCEPT ![fd] = None]
  /\ Goto(w, "wait", None)
  /\ UNCHANGED <<backlog, connections, batch, history>>

-----------------------------------------------------------------------------
Worker(w) ==
  \/ Wait(w) \/ Setup(w) \/ Erase(w) \/ Close(w)
  \/ \E e \in batch[w] : Accept(w, e) \/ Closing(w, e) \/ Read(w, e) \/ Write(w, e)

Clients ==
  \E c \in Conns : ClientStep(c) \/ \E w \in Workers : Connect(c, w)

\* Every client has come, and has gone if it was heard.
Exhausted == (\A c \in Conns : client[c] = "closed" \/ c \in unheard) /\ UNCHANGED vars

Next ==
  \/ \E w \in Workers : Worker(w) \/ \E fd \in Fds : MarkSenderPending(w, fd)
  \/ Clients
  \/ Exhausted

Spec == Init /\ [][Next]_vars

\* The workers run.
FairSpec == Spec /\ \A w \in Workers : WF_vars(Worker(w))

-----------------------------------------------------------------------------
\* The number in a worker's map is the descriptor of that very connection:
\* what a sender does with its number (MarkSenderPending, shutdown) never
\* touches a connection that got the number later, here or in another worker.
\* It is registered with that worker's epoll instance and with no other,
\* unless the call of MarkReceiverPending failed. And each descriptor belongs
\* to a worker's connection, or to one that is being set up or closed: none
\* leaks but those of the connections whose registration failed, which keep
\* theirs for good.
OwnDescriptor ==
  /\ ~foreign
  /\ \A w \in Workers, fd \in Fds :
       LET c == connections[w][fd] IN
         c # None => /\ table[fd] = c
                     /\ <<fd, c>> \in registered[w] <=> c \notin unheard
                     /\ \A v \in Workers \ {w} :
                          connections[v][fd] = None /\ <<fd, c>> \notin registered[v]
  /\ \A fd \in Fds : table[fd] # None =>
       \E w \in Workers : connections[w][fd] = table[fd] \/ hand[w] = fd
  /\ \A c \in unheard : \E w \in Workers, fd \in Fds : connections[w][fd] = c

\* Handlers of a batch run in any order, close and accept: still every event
\* not yet handled is about the connection that now has its number, so
\* "read from unexpected peer" and "send to unexpected peer" never happen and
\* no connection is closed for an error of its predecessor.
EventsCurrent ==
  \A w \in Workers : \A e \in batch[w] :
    e.fd # Listen => connections[w][e.fd] = e.conn

\* A connection waiting for accept gets it, unless all descriptors are in
\* use at some time; and one that its client has left gives its number back,
\* unless its registration failed.
AcceptedAndClosed(c) ==
  /\ client[c] = "queued" ~> (client[c] # "queued" \/ Free = {})
  /\ client[c] \in Ended ~> (client[c] = "closed" \/ c \in unheard)
=============================================================================
