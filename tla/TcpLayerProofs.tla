--------------------------- MODULE TcpLayerProofs ---------------------------
(***************************************************************************)
(* Proofs about TcpLayer: for any number of workers, connections and       *)
(* descriptors, the number that a worker keeps for a connection is the     *)
(* descriptor of that connection, and every event that it has not handled  *)
(* yet is about the connection that has the number now.                    *)
(***************************************************************************)
EXTENDS TcpLayer, WellFoundedInduction, TLAPS

Where == {"wait", "setup", "erase", "close"}

\* The values of the variables (the clients' play no part).
TypeOK ==
  /\ table \in [Fds -> Conns \cup {None}]
  /\ client \in [Conns -> {"absent", "queued", "open", "data", "eof", "shut", "reset", "closed"}]
  /\ backlog \in [Workers -> SUBSET Conns]
  /\ registered \in [Workers -> SUBSET (Fds \X Conns)]
  /\ connections \in [Workers -> [Fds -> Conns \cup {None}]]
  /\ batch \in [Workers -> SUBSET [fd : Fds \cup {Listen}, conn : Conns \cup {None},
                                   events : SUBSET {"ERR", "IN", "OUT"}]]
  /\ step \in [Workers -> Where]
  /\ hand \in [Workers -> Fds \cup {None}]

\* A worker answers for a number: it has a connection under it, or its
\* handler is setting it up or closing it.
Owns(w, fd) == connections[w][fd] # None \/ hand[w] = fd

\* A number has one owner while it is open and none when it is free, and what
\* a worker keeps under it is what is behind it.
OwnerInv ==
  /\ \A v, w \in Workers, fd \in Fds : Owns(v, fd) /\ Owns(w, fd) => v = w
  /\ \A w \in Workers, fd \in Fds : Owns(w, fd) => table[fd] # None
  /\ \A fd \in Fds : table[fd] # None => \E w \in Workers : Owns(w, fd)
  /\ \A w \in Workers, fd \in Fds : connections[w][fd] \in {None, table[fd]}

\* SetupPeer and ClosePeer between two of their steps: the entry of the map
\* is made after accept, and erased before close.
HandInv ==
  \A w \in Workers :
    /\ step[w] = "wait" <=> hand[w] = None
    /\ step[w] \in {"setup", "close"} => connections[w][hand[w]] = None
    /\ step[w] = "erase" => connections[w][hand[w]] # None

\* An epoll instance knows descriptors of its worker's connections only, and
\* the one that is being closed.
RegisteredInv ==
  \A w \in Workers : \A r \in registered[w] :
    /\ r[2] = table[r[1]]
    /\ Owns(w, r[1])
    /\ hand[w] = r[1] => step[w] # "setup"

\* The events not yet handled: each is the only one of its descriptor and
\* about the connection that has it, which is not the one being closed.
BatchInv ==
  \A w \in Workers :
    /\ \A e \in batch[w] : e.fd # Listen =>
         /\ connections[w][e.fd] = e.conn
         /\ e.conn # None
         /\ hand[w] # e.fd
    /\ \A d, e \in batch[w] : d.fd = e.fd => d = e

DescriptorInv ==
  /\ TypeOK
  /\ OwnerInv
  /\ HandInv
  /\ RegisteredInv
  /\ BatchInv
  /\ ~foreign

-----------------------------------------------------------------------------
\* Lemma: a set of numbers has a least one.
LEMMA LeastNumber ==
  ASSUME NEW S, S \subseteq Nat, S # {}
  PROVE  Min(S) \in S /\ \A n \in S : Min(S) =< n
<1> DEFINE R == OpToRel(<, Nat)
<1>1. IsWellFoundedOn(R, Nat)
  BY NatLessThanWellFounded
<1>2. \E m \in S : \A n \in S : ~ (<<n, m>> \in R)
  <2> HIDE DEF R
  <2> QED
    BY <1>1, WFMin
<1>3. PICK m \in S : \A n \in S : ~ (<<n, m>> \in R)
  BY <1>2
<1>4. \A n \in S : m =< n
  <2> SUFFICES ASSUME NEW n \in S
               PROVE  m =< n
    OBVIOUS
  <2>1. m \in Nat /\ n \in Nat
    OBVIOUS
  <2>2. ~ (n < m)
    BY <1>3, <2>1, Zenon DEF OpToRel
  <2> QED
    BY <2>1, <2>2
<1> QED
  BY <1>4 DEF Min

\* Lemma: accept gives a number that is free.
LEMMA LowestFree ==
  ASSUME Free # {}
  PROVE  Min(Free) \in Fds /\ table[Min(Free)] = None
<1>1. Free \subseteq Nat
  BY LayerAssumption DEF Free
<1>2. Min(Free) \in Free
  BY <1>1, LeastNumber
<1> QED
  BY <1>2 DEF Free

\* Lemma: the initial states.
LEMMA DescriptorInit == Init => DescriptorInv
<1> SUFFICES ASSUME Init
             PROVE  DescriptorInv
  OBVIOUS
<1> USE DEF Init
<1>1. TypeOK
  BY DEF TypeOK, Where
<1>2. OwnerInv
  BY LayerAssumption DEF OwnerInv, Owns
<1>3. HandInv
  BY DEF HandInv
<1>4. RegisteredInv
  BY DEF RegisteredInv
<1>5. BatchInv
  BY DEF BatchInv
<1> QED
  BY <1>1, <1>2, <1>3, <1>4, <1>5 DEF DescriptorInv

\* Lemma: who owns what is settled by the table, the maps and the handlers.
LEMMA OwnersSame ==
  ASSUME DescriptorInv, UNCHANGED <<table, registered, connections, step, hand, foreign>>,
         TypeOK', BatchInv'
  PROVE  DescriptorInv'
<1>1. OwnerInv'
  BY DEF DescriptorInv, OwnerInv, Owns
<1>2. HandInv'
  BY DEF DescriptorInv, HandInv
<1>3. RegisteredInv'
  BY DEF DescriptorInv, RegisteredInv, Owns
<1> QED
  BY <1>1, <1>2, <1>3 DEF DescriptorInv

\* Lemma: an event less.
LEMMA OneHandled ==
  ASSUME DescriptorInv, NEW w \in Workers, NEW e, Handled(w, e),
         UNCHANGED <<connections, hand>>
  PROVE  BatchInv' /\ batch' \in [Workers -> SUBSET [fd : Fds \cup {Listen},
             conn : Conns \cup {None}, events : SUBSET {"ERR", "IN", "OUT"}]]
<1>1. \A v \in Workers : batch'[v] \subseteq batch[v]
  BY DEF DescriptorInv, TypeOK, Handled
<1>2. BatchInv'
  BY <1>1 DEF DescriptorInv, BatchInv
<1> QED
  BY <1>2 DEF DescriptorInv, TypeOK, Handled

\* Lemma: what the clients do.
LEMMA ClientsKeep == DescriptorInv /\ Clients => DescriptorInv'
<1> SUFFICES ASSUME DescriptorInv, NEW c \in Conns,
                    ClientStep(c) \/ \E w \in Workers : Connect(c, w)
             PROVE  DescriptorInv'
  BY DEF Clients
<1>1. UNCHANGED <<table, registered, connections, batch, step, hand, foreign>>
  BY DEF ClientStep, Connect, epollVars, workerVars, history
<1>2. TypeOK'
  <2>1. CASE ClientStep(c)
    BY <1>1, <2>1 DEF DescriptorInv, TypeOK, ClientStep
  <2>2. CASE \E w \in Workers : Connect(c, w)
    BY <1>1, <2>2 DEF DescriptorInv, TypeOK, Connect
  <2> QED
    BY <2>1, <2>2
<1>3. BatchInv'
  BY <1>1 DEF DescriptorInv, BatchInv
<1> QED
  BY <1>1, <1>2, <1>3, OwnersSame

\* Lemma: epoll_wait reports the descriptors of the worker's connections,
\* once each.
LEMMA WaitKeeps ==
  ASSUME DescriptorInv, NEW w \in Workers, Wait(w)
  PROVE  DescriptorInv'
<1>1. UNCHANGED <<table, client, backlog, registered, connections, step, hand, foreign>>
  BY DEF Wait, kernelVars, epollVars, history
<1>2. \A r \in registered[w] :
        /\ r[1] \in Fds /\ r[2] \in Conns
        /\ Events(r) \in SUBSET {"ERR", "IN", "OUT"}
  BY DEF DescriptorInv, TypeOK, Events, Ended
<1>3. \A e \in Ready(w) :
        \/ e = Event(Listen, None, {"IN"})
        \/ \E r \in registered[w] : e = Event(r[1], r[2], Events(r))
  BY DEF Ready
<1>4. Ready(w) \subseteq [fd : Fds \cup {Listen}, conn : Conns \cup {None},
                          events : SUBSET {"ERR", "IN", "OUT"}]
  BY <1>2, <1>3 DEF Event
<1>5. TypeOK'
  BY <1>1, <1>4 DEF DescriptorInv, TypeOK, Wait
<1>6. \A v \in Workers : batch'[v] = IF v = w THEN Ready(w) ELSE batch[v]
  BY DEF DescriptorInv, TypeOK, Wait
<1>7. \A e \in Ready(w) : e.fd # Listen =>
        /\ connections[w][e.fd] = e.conn
        /\ e.conn # None
        /\ hand[w] # e.fd
  <2> SUFFICES ASSUME NEW e \in Ready(w), e.fd # Listen
               PROVE  /\ connections[w][e.fd] = e.conn
                      /\ e.conn # None
                      /\ hand[w] # e.fd
    OBVIOUS
  <2>1. PICK r \in registered[w] : e = Event(r[1], r[2], Events(r))
    BY <1>3 DEF Event
  <2>2. e.fd = r[1] /\ e.conn = r[2]
    BY <2>1 DEF Event
  <2>3. hand[w] = None
    BY DEF DescriptorInv, HandInv, Wait
  <2>4. r[1] \in Fds /\ r[2] \in Conns
    BY <1>2
  <2>5. connections[w][r[1]] # None
    BY <2>3, <2>4, LayerAssumption DEF DescriptorInv, RegisteredInv, Owns
  <2>6. connections[w][r[1]] = table[r[1]] /\ r[2] = table[r[1]]
    BY <2>4, <2>5 DEF DescriptorInv, RegisteredInv, OwnerInv
  <2> QED
    BY <2>2, <2>3, <2>4, <2>5, <2>6, LayerAssumption
<1>8. \A d, e \in Ready(w) : d.fd = e.fd => d = e
  <2> SUFFICES ASSUME NEW d \in Ready(w), NEW e \in Ready(w), d.fd = e.fd
               PROVE  d = e
    OBVIOUS
  <2>1. CASE e.fd = Listen
    BY <1>2, <1>3, <2>1, LayerAssumption DEF Event
  <2>2. CASE e.fd # Listen
    <3>1. PICK q \in registered[w] : d = Event(q[1], q[2], Events(q))
      BY <1>3, <2>2 DEF Event
    <3>2. PICK r \in registered[w] : e = Event(r[1], r[2], Events(r))
      BY <1>3, <2>2 DEF Event
    <3>3. q[1] = r[1]
      BY <3>1, <3>2 DEF Event
    <3>4. q[2] = table[q[1]] /\ r[2] = table[r[1]]
      BY DEF DescriptorInv, RegisteredInv
    <3>5. q = <<q[1], q[2]>> /\ r = <<r[1], r[2]>>
      BY DEF DescriptorInv, TypeOK
    <3>6. q = r
      BY <3>3, <3>4, <3>5
    <3> QED
      BY <3>1, <3>2, <3>6
  <2> QED
    BY <2>1, <2>2
<1>9. BatchInv'
  BY <1>1, <1>6, <1>7, <1>8 DEF DescriptorInv, BatchInv
<1> QED
  BY <1>1, <1>5, <1>9, OwnersSame

\* Lemma: SetupPeer's accept, which finds a free number, or none.
LEMMA AcceptKeeps ==
  ASSUME DescriptorInv, NEW w \in Workers, NEW e \in batch[w], Accept(w, e)
  PROVE  DescriptorInv'
<1>1. UNCHANGED <<registered, armed, connections, foreign>>
  BY DEF Accept, epollVars, history
<1>2. Handled(w, e)
  BY DEF Accept, Handled
<1>4. CASE Free = {}
  <2>1. UNCHANGED <<table, client, backlog, step, hand>>
    BY <1>4 DEF Accept, kernelVars
  <2>2. BatchInv' /\ TypeOK'
    BY <1>1, <1>2, <2>1, OneHandled DEF DescriptorInv, TypeOK
  <2> QED
    BY <1>1, <2>1, <2>2, OwnersSame
<1>5. CASE Free # {}
  <2> DEFINE fd == Min(Free)
  <2>1. fd \in Fds /\ table[fd] = None
    BY <1>5, LowestFree
  <2> HIDE DEF fd
  <2>2. PICK c \in backlog[w] :
          /\ table' = [table EXCEPT ![fd] = c]
          /\ backlog' = [backlog EXCEPT ![w] = @ \ {c}]
          /\ client' = [client EXCEPT ![c] = "open"]
          /\ Goto(w, "setup", fd)
    BY <1>5 DEF Accept, fd
  <2>3. c \in Conns /\ c # None
    BY LayerAssumption DEF DescriptorInv, TypeOK
  <2>4. step[w] = "wait" /\ hand[w] = None
    BY DEF DescriptorInv, HandInv, Accept, Taken
  <2>5. \A v \in Workers : ~ Owns(v, fd)
    BY <2>1 DEF DescriptorInv, OwnerInv
  <2>6. \A v \in Workers, f \in Fds :
          Owns(v, f)' <=> Owns(v, f) \/ (v = w /\ f = fd)
    BY <1>1, <2>1, <2>2, <2>4, LayerAssumption DEF DescriptorInv, TypeOK, Owns, Goto
  <2>7. \A f \in Fds : table'[f] = IF f = fd THEN c ELSE table[f]
    BY <2>1, <2>2 DEF DescriptorInv, TypeOK
  <2>8. \A v \in Workers :
          /\ step'[v] = IF v = w THEN "setup" ELSE step[v]
          /\ hand'[v] = IF v = w THEN fd ELSE hand[v]
    BY <2>2 DEF DescriptorInv, TypeOK, Goto
  <2>9. TypeOK'
    <3>1. batch' \in [Workers -> SUBSET [fd : Fds \cup {Listen},
             conn : Conns \cup {None}, events : SUBSET {"ERR", "IN", "OUT"}]]
      BY <1>2 DEF DescriptorInv, TypeOK, Handled
    <3>2. table' \in [Fds -> Conns \cup {None}] /\ backlog' \in [Workers -> SUBSET Conns]
      BY <2>1, <2>2, <2>3 DEF DescriptorInv, TypeOK
    <3>3. client' \in [Conns -> {"absent", "queued", "open", "data", "eof", "shut", "reset", "closed"}]
      BY <2>2, <2>3 DEF DescriptorInv, TypeOK
    <3>4. step' \in [Workers -> Where] /\ hand' \in [Workers -> Fds \cup {None}]
      BY <2>1, <2>2 DEF DescriptorInv, TypeOK, Goto, Where
    <3> QED
      BY <1>1, <3>1, <3>2, <3>3, <3>4 DEF DescriptorInv, TypeOK
  <2>10. OwnerInv'
    <3>1. \A v, u \in Workers, f \in Fds : Owns(v, f)' /\ Owns(u, f)' => v = u
      BY <2>5, <2>6 DEF DescriptorInv, OwnerInv
    <3>2. \A v \in Workers, f \in Fds : Owns(v, f)' => table'[f] # None
      BY <2>3, <2>6, <2>7 DEF DescriptorInv, OwnerInv
    <3>3. \A f \in Fds : table'[f] # None => \E v \in Workers : Owns(v, f)'
      BY <2>6, <2>7 DEF DescriptorInv, OwnerInv
    <3>4. \A v \in Workers, f \in Fds : connections'[v][f] \in {None, table'[f]}
      BY <1>1, <2>1, <2>7 DEF DescriptorInv, OwnerInv
    <3> QED
      BY <3>1, <3>2, <3>3, <3>4 DEF OwnerInv
  <2>11. HandInv'
    BY <1>1, <2>1, <2>5, <2>8, LayerAssumption DEF DescriptorInv, HandInv, Owns
  <2>12. RegisteredInv'
    <3>1. \A v \in Workers : \A r \in registered[v] : r[1] \in Fds /\ r[1] # fd
      BY <2>5 DEF DescriptorInv, TypeOK, RegisteredInv
    <3>2. \A v \in Workers : \A r \in registered[v] :
            /\ r[2] = table'[r[1]]
            /\ Owns(v, r[1])'
            /\ hand'[v] = r[1] => step'[v] # "setup"
      BY <2>6, <2>7, <2>8, <3>1 DEF DescriptorInv, RegisteredInv
    <3> QED
      BY <1>1, <3>2 DEF RegisteredInv
  <2>13. BatchInv'
    <3>1. \A v \in Workers : batch'[v] \subseteq batch[v]
      BY <1>2 DEF DescriptorInv, TypeOK, Handled
    <3>2. \A v \in Workers : \A d \in batch[v] : d.fd # Listen =>
            d.fd \in Fds /\ Owns(v, d.fd)
      BY DEF DescriptorInv, TypeOK, BatchInv, Owns
    <3> QED
      BY <1>1, <2>5, <2>8, <3>1, <3>2 DEF DescriptorInv, BatchInv
  <2> QED
    BY <1>1, <2>9, <2>10, <2>11, <2>12, <2>13 DEF DescriptorInv
<1> QED
  BY <1>4, <1>5

\* Lemma: SetupPeer registers the number and makes the entry of the map.
LEMMA SetupKeeps ==
  ASSUME DescriptorInv, NEW w \in Workers, Setup(w)
  PROVE  DescriptorInv'
<1> DEFINE fd == hand[w]
<1>1. fd \in Fds /\ connections[w][fd] = None /\ step[w] = "setup"
  BY DEF Setup, DescriptorInv, HandInv, TypeOK
<1>2. table[fd] \in Conns /\ table[fd] # None
  BY <1>1 DEF DescriptorInv, OwnerInv, TypeOK, Owns
<1>3. UNCHANGED <<table, client, backlog, armed, batch, foreign>>
  BY DEF Setup, kernelVars
<1>4. /\ connections' = [connections EXCEPT ![w][fd] = table[fd]]
      /\ step' = [step EXCEPT ![w] = "wait"]
      /\ hand' = [hand EXCEPT ![w] = None]
  BY <1>1 DEF Setup, Goto, DescriptorInv, TypeOK
<1>4a. \/ registered' = [registered EXCEPT ![w] = @ \cup {<<fd, table[fd]>>}]
        \/ registered' = registered
  BY DEF Setup
<1> HIDE DEF fd
<1>5. /\ \A v \in Workers : registered'[v] \subseteq
              registered[v] \cup (IF v = w THEN {<<fd, table[fd]>>} ELSE {})
      /\ \A v \in Workers, f \in Fds : connections'[v][f] =
              IF v = w /\ f = fd THEN table[fd] ELSE connections[v][f]
      /\ \A v \in Workers : step'[v] = IF v = w THEN "wait" ELSE step[v]
      /\ \A v \in Workers : hand'[v] = IF v = w THEN None ELSE hand[v]
  BY <1>1, <1>4, <1>4a DEF DescriptorInv, TypeOK
<1>6. \A v \in Workers, f \in Fds : Owns(v, f)' <=> Owns(v, f)
  BY <1>1, <1>2, <1>5, LayerAssumption DEF Owns, fd
<1>7. TypeOK'
  <2>1. registered' \in [Workers -> SUBSET (Fds \X Conns)]
    BY <1>1, <1>2, <1>4a DEF DescriptorInv, TypeOK
  <2>2. connections' \in [Workers -> [Fds -> Conns \cup {None}]]
    BY <1>1, <1>2, <1>4 DEF DescriptorInv, TypeOK
  <2>3. step' \in [Workers -> Where] /\ hand' \in [Workers -> Fds \cup {None}]
    BY <1>4 DEF DescriptorInv, TypeOK, Where
  <2> QED
    BY <1>3, <2>1, <2>2, <2>3 DEF DescriptorInv, TypeOK
<1>8. OwnerInv'
  <2>1. /\ \A v, u \in Workers, f \in Fds : Owns(v, f)' /\ Owns(u, f)' => v = u
        /\ \A v \in Workers, f \in Fds : Owns(v, f)' => table[f] # None
        /\ \A f \in Fds : table[f] # None => \E v \in Workers : Owns(v, f)'
    BY <1>6 DEF DescriptorInv, OwnerInv
  <2>2. \A v \in Workers, f \in Fds : connections'[v][f] \in {None, table[f]}
    BY <1>5 DEF DescriptorInv, OwnerInv
  <2> QED
    BY <1>3, <2>1, <2>2 DEF OwnerInv
<1>9. HandInv'
  <2> SUFFICES ASSUME NEW v \in Workers
               PROVE  /\ step'[v] = "wait" <=> hand'[v] = None
                      /\ step'[v] \in {"setup", "close"} => connections'[v][hand'[v]] = None
                      /\ step'[v] = "erase" => connections'[v][hand'[v]] # None
    BY DEF HandInv
  <2>1. CASE v = w
    BY <1>5, <2>1
  <2>2. CASE v # w /\ hand[v] \in Fds
    BY <1>5, <2>2 DEF DescriptorInv, HandInv
  <2>3. CASE v # w /\ hand[v] = None
    BY <1>5, <2>3 DEF DescriptorInv, HandInv, TypeOK, Where
  <2> QED
    BY <2>1, <2>2, <2>3 DEF DescriptorInv, TypeOK
<1>10. RegisteredInv'
  <2>1. \A v \in Workers : \A r \in registered'[v] :
          /\ r[2] = table[r[1]]
          /\ Owns(v, r[1])'
          /\ hand'[v] = r[1] => step'[v] # "setup"
    <3> SUFFICES ASSUME NEW v \in Workers, NEW r \in registered'[v]
                 PROVE  /\ r[2] = table[r[1]]
                        /\ Owns(v, r[1])'
                        /\ hand'[v] = r[1] => step'[v] # "setup"
      OBVIOUS
    <3>1. CASE r \in registered[v]
      <4>1. r[1] \in Fds
        BY <3>1 DEF DescriptorInv, TypeOK
      <4> QED
        BY <1>5, <1>6, <3>1, <4>1 DEF DescriptorInv, RegisteredInv
    <3>2. CASE v = w /\ r = <<fd, table[fd]>>
      BY <1>1, <1>2, <1>5, <3>2 DEF Owns
    <3> QED
      BY <1>5, <3>1, <3>2
  <2> QED
    BY <1>3, <2>1 DEF RegisteredInv
<1>11. BatchInv'
  <2>1. \A v \in Workers : \A d \in batch[v] : d.fd # Listen =>
          d.fd \in Fds /\ ~ (v = w /\ d.fd = fd)
    BY DEF DescriptorInv, TypeOK, BatchInv, fd
  <2>2. None \notin Fds
    BY LayerAssumption
  <2> QED
    BY <1>3, <1>5, <2>1, <2>2 DEF DescriptorInv, BatchInv
<1> QED
  BY <1>3, <1>7, <1>8, <1>9, <1>10, <1>11 DEF DescriptorInv

\* Lemma: ClosePeer is entered for a descriptor of the worker's own, and no
\* other event of the batch is about it.
LEMMA ClosingKeeps ==
  ASSUME DescriptorInv, NEW w \in Workers, NEW e \in batch[w], Closing(w, e)
  PROVE  DescriptorInv'
<1> DEFINE fd == e.fd
<1>1. /\ UNCHANGED <<table, client, backlog, registered, armed, connections, foreign>>
      /\ Handled(w, e)
      /\ step[w] = "wait"
  BY DEF Closing, Taken, kernelVars, epollVars, history
<1>2. fd \in Fds /\ connections[w][fd] # None /\ hand[w] = None
  BY <1>1 DEF DescriptorInv, TypeOK, BatchInv, HandInv, Closing
<1>3. /\ step' = [step EXCEPT ![w] = "erase"]
      /\ hand' = [hand EXCEPT ![w] = fd]
      /\ batch' = [batch EXCEPT ![w] = @ \ {e}]
  BY <1>1 DEF Closing, Goto, Handled
<1>4. \A d \in batch[w] : d # e => d.fd # fd
  BY DEF DescriptorInv, BatchInv
<1> HIDE DEF fd
<1>5. \A v \in Workers :
        /\ step'[v] = IF v = w THEN "erase" ELSE step[v]
        /\ hand'[v] = IF v = w THEN fd ELSE hand[v]
        /\ batch'[v] = IF v = w THEN batch[v] \ {e} ELSE batch[v]
  BY <1>3 DEF DescriptorInv, TypeOK
<1>6. \A v \in Workers, f \in Fds : Owns(v, f)' <=> Owns(v, f)
  BY <1>1, <1>2, <1>5, LayerAssumption DEF Owns
<1>7. TypeOK'
  <2>1. step' \in [Workers -> Where] /\ hand' \in [Workers -> Fds \cup {None}]
    BY <1>2, <1>3 DEF DescriptorInv, TypeOK, Where
  <2>2. batch' \in [Workers -> SUBSET [fd : Fds \cup {Listen},
           conn : Conns \cup {None}, events : SUBSET {"ERR", "IN", "OUT"}]]
    BY <1>3 DEF DescriptorInv, TypeOK
  <2> QED
    BY <1>1, <2>1, <2>2 DEF DescriptorInv, TypeOK
<1>8. OwnerInv'
  BY <1>1, <1>6 DEF DescriptorInv, OwnerInv
<1>9. HandInv'
  BY <1>1, <1>2, <1>5, LayerAssumption DEF DescriptorInv, HandInv
<1>10. RegisteredInv'
  <2>1. \A v \in Workers : \A r \in registered[v] : r[1] \in Fds
    BY DEF DescriptorInv, TypeOK
  <2>2. \A v \in Workers : \A r \in registered[v] :
          /\ r[2] = table[r[1]]
          /\ Owns(v, r[1])'
          /\ hand'[v] = r[1] => step'[v] # "setup"
    BY <1>5, <1>6, <2>1 DEF DescriptorInv, RegisteredInv
  <2> QED
    BY <1>1, <2>2 DEF RegisteredInv
<1>11. BatchInv'
  <2>1. \A v \in Workers : \A d \in batch'[v] : d.fd # Listen =>
          /\ connections[v][d.fd] = d.conn
          /\ d.conn # None
          /\ hand'[v] # d.fd
    BY <1>4, <1>5 DEF DescriptorInv, BatchInv
  <2>2. \A v \in Workers : \A c, d \in batch'[v] : c.fd = d.fd => c = d
    BY <1>5 DEF DescriptorInv, BatchInv
  <2> QED
    BY <1>1, <2>1, <2>2 DEF BatchInv
<1> QED
  BY <1>1, <1>7, <1>8, <1>9, <1>10, <1>11 DEF DescriptorInv

\* Lemma: ReadFromPeer changes what the client waits for, and no descriptor.
LEMMA ReadKeeps ==
  ASSUME DescriptorInv, NEW w \in Workers, NEW e \in batch[w], Read(w, e)
  PROVE  DescriptorInv'
<1>1. UNCHANGED <<table, backlog, registered, connections, step, hand, foreign>>
  BY DEF Read, epollVars, history
<1>2. BatchInv' /\ batch' \in [Workers -> SUBSET [fd : Fds \cup {Listen},
         conn : Conns \cup {None}, events : SUBSET {"ERR", "IN", "OUT"}]]
  BY <1>1, OneHandled DEF Read
<1>3. client' \in [Conns -> {"absent", "queued", "open", "data", "eof", "shut", "reset", "closed"}]
  BY DEF Read, DescriptorInv, TypeOK
<1>4. TypeOK'
  BY <1>1, <1>2, <1>3 DEF DescriptorInv, TypeOK
<1> QED
  BY <1>1, <1>2, <1>4, OwnersSame

\* Lemma: SendToPeer only arms and disarms.
LEMMA WriteKeeps ==
  ASSUME DescriptorInv, NEW w \in Workers, NEW e \in batch[w], Write(w, e)
  PROVE  DescriptorInv'
<1>1. UNCHANGED <<table, client, backlog, registered, connections, step, hand, foreign>>
  BY DEF Write, kernelVars, history
<1>2. BatchInv' /\ batch' \in [Workers -> SUBSET [fd : Fds \cup {Listen},
         conn : Conns \cup {None}, events : SUBSET {"ERR", "IN", "OUT"}]]
  BY <1>1, OneHandled DEF Write
<1>3. TypeOK'
  BY <1>1, <1>2 DEF DescriptorInv, TypeOK
<1> QED
  BY <1>1, <1>2, <1>3, OwnersSame

\* Lemma: so does MarkSenderPending.
LEMMA MarkKeeps ==
  ASSUME DescriptorInv, NEW w \in Workers, NEW fd \in Fds, MarkSenderPending(w, fd)
  PROVE  DescriptorInv'
<1>1. UNCHANGED <<table, client, backlog, registered, connections, batch, step, hand, foreign>>
  BY DEF MarkSenderPending, kernelVars, workerVars, history
<1>2. TypeOK'
  BY <1>1 DEF DescriptorInv, TypeOK
<1>3. BatchInv'
  BY <1>1 DEF DescriptorInv, BatchInv
<1> QED
  BY <1>1, <1>2, <1>3, OwnersSame

\* Lemma: ClosePeer erases the connection, whose sender shuts down its own
\* descriptor.
LEMMA EraseKeeps ==
  ASSUME DescriptorInv, NEW w \in Workers, Erase(w)
  PROVE  DescriptorInv'
<1> DEFINE fd == hand[w]
<1>1. fd \in Fds /\ connections[w][fd] # None /\ step[w] = "erase"
  BY DEF Erase, DescriptorInv, HandInv, TypeOK
<1>2. table[fd] = connections[w][fd]
  BY <1>1 DEF DescriptorInv, OwnerInv
<1>3. UNCHANGED <<table, client, backlog, registered, armed, batch>>
  BY DEF Erase, kernelVars, epollVars
<1>4. ~ foreign'
  BY <1>2 DEF Erase, DescriptorInv
<1>5. /\ connections' = [connections EXCEPT ![w][fd] = None]
      /\ step' = [step EXCEPT ![w] = "close"]
      /\ hand' = hand
  BY DEF Erase, Goto, DescriptorInv, TypeOK
<1>6. \A v \in Workers : hand[v] \in Fds \cup {None}
  BY DEF DescriptorInv, TypeOK
<1> HIDE DEF fd
<1>7. /\ \A v \in Workers, f \in Fds : connections'[v][f] =
              IF v = w /\ f = fd THEN None ELSE connections[v][f]
      /\ \A v \in Workers : step'[v] = IF v = w THEN "close" ELSE step[v]
  BY <1>1, <1>5 DEF DescriptorInv, TypeOK
<1>8. \A v \in Workers, f \in Fds : Owns(v, f)' <=> Owns(v, f)
  BY <1>5, <1>7 DEF Owns, fd
<1>9. TypeOK'
  <2>1. connections' \in [Workers -> [Fds -> Conns \cup {None}]]
    BY <1>1, <1>5 DEF DescriptorInv, TypeOK
  <2>2. step' \in [Workers -> Where]
    BY <1>5 DEF DescriptorInv, TypeOK, Where
  <2> QED
    BY <1>3, <1>5, <2>1, <2>2 DEF DescriptorInv, TypeOK
<1>10. OwnerInv'
  <2>1. /\ \A v, u \in Workers, f \in Fds : Owns(v, f)' /\ Owns(u, f)' => v = u
        /\ \A v \in Workers, f \in Fds : Owns(v, f)' => table[f] # None
        /\ \A f \in Fds : table[f] # None => \E v \in Workers : Owns(v, f)'
    BY <1>8 DEF DescriptorInv, OwnerInv
  <2>2. \A v \in Workers, f \in Fds : connections'[v][f] \in {None, table[f]}
    BY <1>7 DEF DescriptorInv, OwnerInv
  <2> QED
    BY <1>3, <2>1, <2>2 DEF OwnerInv
<1>11. HandInv'
  <2> SUFFICES ASSUME NEW v \in Workers
               PROVE  /\ step'[v] = "wait" <=> hand[v] = None
                      /\ step'[v] \in {"setup", "close"} => connections'[v][hand[v]] = None
                      /\ step'[v] = "erase" => connections'[v][hand[v]] # None
    BY <1>5 DEF HandInv
  <2>1. CASE v = w
    BY <1>1, <1>7, <2>1, LayerAssumption DEF fd
  <2>2. CASE v # w /\ hand[v] \in Fds
    BY <1>7, <2>2 DEF DescriptorInv, HandInv
  <2>3. CASE v # w /\ hand[v] = None
    BY <1>7, <2>3 DEF DescriptorInv, HandInv, TypeOK, Where
  <2> QED
    BY <1>6, <2>1, <2>2, <2>3
<1>12. RegisteredInv'
  <2>1. \A v \in Workers : \A r \in registered[v] : r[1] \in Fds
    BY DEF DescriptorInv, TypeOK
  <2>2. \A v \in Workers : \A r \in registered[v] :
          /\ r[2] = table[r[1]]
          /\ Owns(v, r[1])'
          /\ hand[v] = r[1] => step'[v] # "setup"
    BY <1>7, <1>8, <2>1 DEF DescriptorInv, RegisteredInv
  <2> QED
    BY <1>3, <1>5, <2>2 DEF RegisteredInv
<1>13. BatchInv'
  <2>1. \A v \in Workers : \A d \in batch[v] : d.fd # Listen =>
          d.fd \in Fds /\ ~ (v = w /\ d.fd = fd)
    BY DEF DescriptorInv, TypeOK, BatchInv, fd
  <2> QED
    BY <1>3, <1>5, <1>7, <2>1 DEF DescriptorInv, BatchInv
<1> QED
  BY <1>4, <1>9, <1>10, <1>11, <1>12, <1>13 DEF DescriptorInv

\* Lemma: ClosePeer removes the registration and gives the number back, which
\* nobody else answers for.
LEMMA CloseKeeps ==
  ASSUME DescriptorInv, NEW w \in Workers, Close(w)
  PROVE  DescriptorInv'
<1> DEFINE fd == hand[w]
<1>1. fd \in Fds /\ connections[w][fd] = None /\ step[w] = "close"
  BY DEF Close, DescriptorInv, HandInv, TypeOK
<1>2. table[fd] \in Conns /\ table[fd] # None
  BY <1>1 DEF DescriptorInv, OwnerInv, TypeOK, Owns
<1>3. UNCHANGED <<backlog, connections, batch, foreign>>
  BY DEF Close, history
<1>4. /\ registered' = [registered EXCEPT ![w] = @ \ {<<fd, table[fd]>>}]
      /\ client' = [client EXCEPT ![table[fd]] = "closed"]
      /\ table' = [table EXCEPT ![fd] = None]
      /\ step' = [step EXCEPT ![w] = "wait"]
      /\ hand' = [hand EXCEPT ![w] = None]
  BY <1>2 DEF Close, Goto
<1>5. \A v \in Workers : Owns(v, fd) => v = w
  BY <1>1 DEF DescriptorInv, OwnerInv, Owns
<1>6. \A v \in Workers : hand[v] \in Fds \cup {None}
  BY DEF DescriptorInv, TypeOK
<1>7. \A v \in Workers : \A r \in registered[v] : r[1] \in Fds /\ r[2] \in Conns /\ r = <<r[1], r[2]>>
  BY DEF DescriptorInv, TypeOK
<1>8. \A v \in Workers, f \in Fds : v = w /\ f # fd => (Owns(v, f) <=> connections[v][f] # None)
  BY DEF Owns
<1> HIDE DEF fd
<1>9. /\ \A v \in Workers : registered'[v] =
              registered[v] \ (IF v = w THEN {<<fd, table[fd]>>} ELSE {})
      /\ \A f \in Fds : table'[f] = IF f = fd THEN None ELSE table[f]
      /\ \A v \in Workers : step'[v] = IF v = w THEN "wait" ELSE step[v]
      /\ \A v \in Workers : hand'[v] = IF v = w THEN None ELSE hand[v]
  BY <1>1, <1>4 DEF DescriptorInv, TypeOK
<1>10. \A v \in Workers, f \in Fds : Owns(v, f)' <=> Owns(v, f) /\ f # fd
  <2> SUFFICES ASSUME NEW v \in Workers, NEW f \in Fds
               PROVE  connections[v][f] # None \/ hand'[v] = f <=> Owns(v, f) /\ f # fd
    BY <1>3 DEF Owns
  <2>1. CASE v = w
    BY <1>1, <1>8, <1>9, <2>1, LayerAssumption
  <2>2. CASE v # w
    BY <1>5, <1>9, <2>2 DEF Owns
  <2> QED
    BY <2>1, <2>2
<1>11. TypeOK'
  <2>1. registered' \in [Workers -> SUBSET (Fds \X Conns)]
    BY <1>4 DEF DescriptorInv, TypeOK
  <2>2. table' \in [Fds -> Conns \cup {None}]
    BY <1>4 DEF DescriptorInv, TypeOK
  <2>3. client' \in [Conns -> {"absent", "queued", "open", "data", "eof", "shut", "reset", "closed"}]
    BY <1>4 DEF DescriptorInv, TypeOK
  <2>4. step' \in [Workers -> Where] /\ hand' \in [Workers -> Fds \cup {None}]
    BY <1>4 DEF DescriptorInv, TypeOK, Where
  <2> QED
    BY <1>3, <2>1, <2>2, <2>3, <2>4 DEF DescriptorInv, TypeOK
<1>12. OwnerInv'
  <2>1. \A v, u \in Workers, f \in Fds : Owns(v, f)' /\ Owns(u, f)' => v = u
    BY <1>10 DEF DescriptorInv, OwnerInv
  <2>2. \A v \in Workers, f \in Fds : Owns(v, f)' => table'[f] # None
    BY <1>9, <1>10 DEF DescriptorInv, OwnerInv
  <2>3. \A f \in Fds : table'[f] # None => \E v \in Workers : Owns(v, f)'
    BY <1>9, <1>10 DEF DescriptorInv, OwnerInv
  <2>4. \A v \in Workers, f \in Fds : connections[v][f] \in {None, table'[f]}
    BY <1>1, <1>5, <1>9 DEF DescriptorInv, OwnerInv, Owns
  <2> QED
    BY <1>3, <2>1, <2>2, <2>3, <2>4 DEF OwnerInv
<1>13. HandInv'
  <2> SUFFICES ASSUME NEW v \in Workers
               PROVE  /\ step'[v] = "wait" <=> hand'[v] = None
                      /\ step'[v] \in {"setup", "close"} => connections[v][hand'[v]] = None
                      /\ step'[v] = "erase" => connections[v][hand'[v]] # None
    BY <1>3 DEF HandInv
  <2>1. CASE v = w
    BY <1>9, <2>1
  <2>2. CASE v # w
    BY <1>9, <2>2 DEF DescriptorInv, HandInv
  <2> QED
    BY <2>1, <2>2
<1>14. RegisteredInv'
  <2>1. \A v \in Workers : \A r \in registered'[v] : r \in registered[v] /\ r[1] # fd
    <3> SUFFICES ASSUME NEW v \in Workers, NEW r \in registered'[v], r[1] = fd
                 PROVE  FALSE
      BY <1>9
    <3>1. r \in registered[v]
      BY <1>9
    <3>2. r[2] = table[fd] /\ Owns(v, fd)
      BY <3>1 DEF DescriptorInv, RegisteredInv
    <3>3. v = w /\ r = <<fd, table[fd]>>
      BY <1>5, <1>7, <3>1, <3>2
    <3> QED
      BY <1>9, <3>3
  <2>2. \A v \in Workers : \A r \in registered'[v] :
          /\ r[2] = table'[r[1]]
          /\ Owns(v, r[1])'
          /\ hand'[v] = r[1] => step'[v] # "setup"
    BY <1>7, <1>9, <1>10, <2>1 DEF DescriptorInv, RegisteredInv
  <2> QED
    BY <1>3, <2>2 DEF RegisteredInv
<1>15. BatchInv'
  <2>1. \A v \in Workers : \A d \in batch[v] : d.fd # Listen => d.fd \in Fds
    BY DEF DescriptorInv, TypeOK
  <2> QED
    BY <1>3, <1>9, <2>1, LayerAssumption DEF DescriptorInv, BatchInv
<1> QED
  BY <1>3, <1>11, <1>12, <1>13, <1>14, <1>15 DEF DescriptorInv

\* Lemma: every step keeps the invariant.
LEMMA DescriptorNext == DescriptorInv /\ [Next]_vars => DescriptorInv'
<1> SUFFICES ASSUME DescriptorInv, [Next]_vars
             PROVE  DescriptorInv'
  OBVIOUS
<1>1. CASE \E w \in Workers : Worker(w)
  BY <1>1, WaitKeeps, SetupKeeps, EraseKeeps, CloseKeeps, AcceptKeeps,
     ClosingKeeps, ReadKeeps, WriteKeeps DEF Worker
<1>2. CASE \E w \in Workers : \E fd \in Fds : MarkSenderPending(w, fd)
  BY <1>2, MarkKeeps
<1>3. CASE Clients
  BY <1>3, ClientsKeep
<1>4. CASE UNCHANGED vars
  <2>1. UNCHANGED <<table, client, backlog, registered, armed, connections, batch, step, hand, foreign>>
    BY <1>4 DEF vars, kernelVars, epollVars, workerVars, history
  <2>2. TypeOK' /\ BatchInv'
    BY <2>1 DEF DescriptorInv, TypeOK, BatchInv
  <2> QED
    BY <2>1, <2>2, OwnersSame
<1> QED
  BY <1>1, <1>2, <1>3, <1>4 DEF Next, Exhausted

-----------------------------------------------------------------------------
\* A connection is behind one number at most, and behind none before accept;
\* it waits at one listening socket.
ClientInv ==
  /\ \A f, g \in Fds : table[f] # None /\ table[f] = table[g] => f = g
  /\ \A f \in Fds : table[f] # None => client[table[f]] \notin {"absent", "queued"}
  /\ \A w \in Workers : \A c \in backlog[w] : client[c] = "queued"
  /\ \A v, w \in Workers : \A c \in backlog[v] : c \in backlog[w] => v = w

\* The connections whose registration failed are those in a map that are not
\* registered with its worker's epoll instance: no event is about one of
\* them, so none is closed.
UnheardInv ==
  /\ unheard \in SUBSET Conns
  /\ \A c \in unheard : \E w \in Workers, fd \in Fds : connections[w][fd] = c
  /\ \A w \in Workers : \A e \in batch[w] : e.fd # Listen => e.conn \notin unheard
  /\ \A w \in Workers : step[w] = "erase" => connections[w][hand[w]] \notin unheard
  /\ \A w \in Workers, fd \in Fds : connections[w][fd] # None =>
       (<<fd, connections[w][fd]>> \in registered[w] <=> connections[w][fd] \notin unheard)

LayerInv == DescriptorInv /\ ClientInv /\ UnheardInv

\* Lemma: what the clients do, accept and close keep the numbers apart.
LEMMA ClientNext ==
  ASSUME DescriptorInv, ClientInv, [Next]_vars
  PROVE  ClientInv'
<1> USE DEF DescriptorInv, TypeOK
<1>1. CASE UNCHANGED <<table, client, backlog>>
  BY <1>1 DEF ClientInv
<1>2. CASE Clients
  <2>1. PICK c \in Conns : ClientStep(c) \/ \E w \in Workers : Connect(c, w)
    BY <1>2 DEF Clients
  <2>2. CASE ClientStep(c)
    <3>1. table' = table /\ backlog' = backlog
      BY <2>2 DEF ClientStep
    <3>2. /\ client[c] \notin {"absent", "queued"} /\ client'[c] \notin {"absent", "queued"}
          /\ \A d \in Conns : d # c => client'[d] = client[d]
      BY <2>2 DEF ClientStep
    <3> QED
      BY <3>1, <3>2 DEF ClientInv
  <2>3. ASSUME NEW w \in Workers, Connect(c, w)
        PROVE  ClientInv'
    <3>1. /\ client[c] = "absent"
          /\ table' = table
          /\ \A d \in Conns : client'[d] = IF d = c THEN "queued" ELSE client[d]
          /\ \A v \in Workers : backlog'[v] = IF v = w THEN backlog[v] \cup {c} ELSE backlog[v]
      BY <2>3 DEF Connect
    <3>2. \A v \in Workers : c \notin backlog[v] /\ backlog[v] \subseteq Conns
      BY <3>1 DEF ClientInv
    <3>3. \A f \in Fds : table'[f] # None => client'[table'[f]] \notin {"absent", "queued"}
      BY <3>1 DEF ClientInv
    <3>4. ASSUME NEW v \in Workers, NEW d \in backlog'[v]
          PROVE  client'[d] = "queued"
      <4>1. d = c \/ (d \in backlog[v] /\ d # c)
        BY <3>1, <3>2
      <4> QED
        BY <3>1, <3>2, <4>1 DEF ClientInv
    <3>5. ASSUME NEW u \in Workers, NEW v \in Workers, NEW d \in backlog'[u], d \in backlog'[v]
          PROVE  u = v
      <4>1. CASE d = c
        BY <3>1, <3>2, <3>5, <4>1
      <4>2. CASE d # c
        <5>1. d \in backlog[u] /\ d \in backlog[v]
          BY <3>1, <3>5, <4>2
        <5> QED
          BY <5>1 DEF ClientInv
      <4> QED
        BY <4>1, <4>2
    <3> QED
      BY <3>1, <3>3, <3>4, <3>5 DEF ClientInv
  <2> QED
    BY <2>1, <2>2, <2>3
<1>3. ASSUME NEW w \in Workers, NEW e \in batch[w], Accept(w, e)
      PROVE  ClientInv'
  <2>1. CASE Free = {}
    BY <1>1, <1>3, <2>1 DEF Accept, kernelVars
  <2>2. CASE Free # {}
    <3> DEFINE fd == Min(Free)
    <3>1. fd \in Fds /\ table[fd] = None
      BY <2>2, LowestFree
    <3>2. PICK c \in backlog[w] :
            /\ table' = [table EXCEPT ![fd] = c]
            /\ backlog' = [backlog EXCEPT ![w] = @ \ {c}]
            /\ client' = [client EXCEPT ![c] = "open"]
      BY <1>3, <2>2 DEF Accept
    <3> HIDE DEF fd
    <3>3. /\ c \in Conns /\ client[c] = "queued"
          /\ \A f \in Fds : table[f] # c
          /\ \A v \in Workers : v # w => c \notin backlog[v]
      BY LayerAssumption DEF ClientInv
    <3>4. /\ \A f \in Fds : table'[f] = IF f = fd THEN c ELSE table[f]
          /\ \A v \in Workers : backlog'[v] = IF v = w THEN backlog[v] \ {c} ELSE backlog[v]
          /\ \A d \in Conns : client'[d] = IF d = c THEN "open" ELSE client[d]
      BY <3>1, <3>2, <3>3
    <3>5. \A v \in Workers : backlog'[v] \subseteq backlog[v] /\ c \notin backlog'[v]
      BY <3>3, <3>4
    <3>6. \A f \in Fds : table[f] \in Conns \cup {None}
      OBVIOUS
    <3>7. \A f, g \in Fds : table'[f] # None /\ table'[f] = table'[g] => f = g
      BY <3>3, <3>4 DEF ClientInv
    <3>8. \A f \in Fds : table'[f] # None => client'[table'[f]] \notin {"absent", "queued"}
      BY <3>3, <3>4, <3>6 DEF ClientInv
    <3>9. \A v \in Workers : \A d \in backlog'[v] : client'[d] = "queued"
      BY <3>4, <3>5 DEF ClientInv
    <3>10. \A u, v \in Workers : \A d \in backlog'[u] : d \in backlog'[v] => u = v
      BY <3>5 DEF ClientInv
    <3> QED
      BY <3>7, <3>8, <3>9, <3>10 DEF ClientInv
  <2> QED
    BY <2>1, <2>2
<1>4. ASSUME NEW w \in Workers, NEW e \in batch[w], Read(w, e)
      PROVE  ClientInv'
  <2>1. table' = table /\ backlog' = backlog
    BY <1>4 DEF Read
  <2>2. \A c \in Conns : client[c] \in {"absent", "queued"} \/ client'[c] \in {"absent", "queued"}
                         => client'[c] = client[c]
    BY <1>4 DEF Read
  <2> QED
    BY <2>1, <2>2 DEF ClientInv
<1>5. ASSUME NEW w \in Workers, Close(w)
      PROVE  ClientInv'
  <2> DEFINE fd == hand[w]
  <2>1. fd \in Fds /\ table[fd] \in Conns /\ table[fd] # None
    BY <1>5 DEF Close, HandInv, OwnerInv, Owns
  <2>2. /\ backlog' = backlog
        /\ client' = [client EXCEPT ![table[fd]] = "closed"]
        /\ table' = [table EXCEPT ![fd] = None]
    BY <1>5, <2>1 DEF Close
  <2> HIDE DEF fd
  <2>3. /\ \A f \in Fds : table'[f] = IF f = fd THEN None ELSE table[f]
        /\ \A c \in Conns : client'[c] = IF c = table[fd] THEN "closed" ELSE client[c]
        /\ client[table[fd]] \notin {"absent", "queued"}
    BY <2>1, <2>2 DEF ClientInv
  <2> QED
    BY <2>1, <2>2, <2>3 DEF ClientInv
<1>6. CASE \E w \in Workers : \/ Wait(w) \/ Setup(w) \/ Erase(w)
                              \/ \E e \in batch[w] : Closing(w, e) \/ Write(w, e)
                              \/ \E fd \in Fds : MarkSenderPending(w, fd)
  BY <1>1, <1>6 DEF Wait, Setup, Erase, Closing, Write, MarkSenderPending, kernelVars
<1>7. CASE UNCHANGED vars
  BY <1>1, <1>7 DEF vars, kernelVars
<1> QED
  BY <1>2, <1>3, <1>4, <1>5, <1>6, <1>7 DEF Next, Worker, Exhausted

\* Lemma: steps that neither register nor close.
LEMMA UnheardSame ==
  ASSUME UnheardInv, UNCHANGED <<registered, connections, unheard>>,
         \A w \in Workers : batch'[w] \subseteq batch[w],
         \A w \in Workers : step'[w] = "erase" => step[w] = "erase" /\ hand'[w] = hand[w]
  PROVE  UnheardInv'
BY DEF UnheardInv

\* Lemma: SetupPeer's connection is in no map and registered nowhere, and
\* afterwards it is registered or unheard.
LEMMA SetupUnheard ==
  ASSUME DescriptorInv, ClientInv, UnheardInv, NEW w \in Workers, Setup(w)
  PROVE  UnheardInv'
<1> USE DEF DescriptorInv, TypeOK
<1> DEFINE fd == hand[w]
           c  == table[fd]
<1>1. /\ fd \in Fds /\ connections[w][fd] = None /\ step[w] = "setup"
      /\ c \in Conns /\ c # None
  BY DEF Setup, HandInv, OwnerInv, Owns
<1>2. /\ connections' = [connections EXCEPT ![w][fd] = c]
      /\ step' = [step EXCEPT ![w] = "wait"]
      /\ hand' = [hand EXCEPT ![w] = None]
      /\ batch' = batch
      /\ \/ registered' = [registered EXCEPT ![w] = @ \cup {<<fd, c>>}] /\ unheard' = unheard
         \/ registered' = registered /\ unheard' = unheard \cup {c}
  BY <1>1 DEF Setup, Goto
<1>3. \A v \in Workers, f \in Fds : connections[v][f] # c
  BY <1>1 DEF OwnerInv, ClientInv, Owns
<1>4. <<fd, c>> \notin registered[w]
  BY <1>1 DEF RegisteredInv
<1>5. c \notin unheard
  BY <1>3 DEF UnheardInv
<1> HIDE DEF fd, c
<1>6. /\ \A v \in Workers, f \in Fds :
           connections'[v][f] = IF v = w /\ f = fd THEN c ELSE connections[v][f]
      /\ \A v \in Workers : v # w => step'[v] = step[v] /\ hand'[v] = hand[v]
      /\ step'[w] = "wait"
  BY <1>1, <1>2
<1>7. unheard' \in SUBSET Conns
  BY <1>1, <1>2 DEF UnheardInv
<1>8. \A d \in unheard' : \E v \in Workers, f \in Fds : connections'[v][f] = d
  BY <1>1, <1>2, <1>6, LayerAssumption DEF UnheardInv
<1>9. \A v \in Workers : \A e \in batch[v] : e.fd # Listen => e.conn \notin unheard'
  BY <1>2, <1>3 DEF UnheardInv, BatchInv
<1>10. \A v \in Workers : step'[v] = "erase" => connections'[v][hand'[v]] \notin unheard'
  <2> SUFFICES ASSUME NEW v \in Workers, step'[v] = "erase"
               PROVE  connections'[v][hand'[v]] \notin unheard'
    OBVIOUS
  <2>1. v # w /\ step[v] = "erase" /\ hand'[v] = hand[v]
    BY <1>6
  <2>2. hand[v] \in Fds
    BY <2>1 DEF HandInv
  <2>3. connections'[v][hand'[v]] = connections[v][hand[v]] /\ connections[v][hand[v]] \notin unheard
    BY <1>6, <2>1, <2>2 DEF UnheardInv
  <2> QED
    BY <1>2, <1>3, <2>2, <2>3
<1>11. \A v \in Workers, f \in Fds : connections'[v][f] # None =>
         (<<f, connections'[v][f]>> \in registered'[v] <=> connections'[v][f] \notin unheard')
  <2> SUFFICES ASSUME NEW v \in Workers, NEW f \in Fds, connections'[v][f] # None
               PROVE  <<f, connections'[v][f]>> \in registered'[v] <=> connections'[v][f] \notin unheard'
    OBVIOUS
  <2>1. CASE v = w /\ f = fd
    <3>1. connections'[v][f] = c
      BY <1>6, <2>1
    <3>2. CASE registered' = [registered EXCEPT ![w] = @ \cup {<<fd, c>>}] /\ unheard' = unheard
      BY <1>5, <2>1, <3>1, <3>2
    <3>3. CASE registered' = registered /\ unheard' = unheard \cup {c}
      BY <1>4, <2>1, <3>1, <3>3
    <3> QED
      BY <1>2, <3>2, <3>3
  <2>2. CASE ~ (v = w /\ f = fd)
    <3>1. connections'[v][f] = connections[v][f] /\ connections[v][f] # c
      BY <1>3, <1>6, <2>2
    <3>2. <<f, connections[v][f]>> \in registered'[v] <=> <<f, connections[v][f]>> \in registered[v]
      BY <1>1, <1>2, <3>1
    <3>3. connections[v][f] \in unheard' <=> connections[v][f] \in unheard
      BY <1>2, <3>1
    <3> QED
      BY <3>1, <3>2, <3>3 DEF UnheardInv
  <2> QED
    BY <2>1, <2>2
<1> QED
  BY <1>2, <1>7, <1>8, <1>9, <1>10, <1>11 DEF UnheardInv

\* Lemma: every step keeps apart the connections that are heard and those
\* that are not.
LEMMA UnheardNext ==
  ASSUME DescriptorInv, ClientInv, UnheardInv, [Next]_vars, DescriptorInv'
  PROVE  UnheardInv'
<1> USE DEF DescriptorInv, TypeOK
<1>1. CASE Clients
  BY <1>1, UnheardSame DEF Clients, ClientStep, Connect, epollVars, workerVars, history
<1>2. ASSUME NEW w \in Workers, Wait(w)
      PROVE  UnheardInv'
  <2>1. /\ UNCHANGED <<registered, connections, step, hand, unheard>>
        /\ \A v \in Workers : batch'[v] = IF v = w THEN Ready(w) ELSE batch[v]
    BY <1>2 DEF Wait, kernelVars, epollVars, history
  <2>2. \A e \in Ready(w) : e.fd # Listen => <<e.fd, e.conn>> \in registered[w]
    <3> SUFFICES ASSUME NEW e \in Ready(w), e.fd # Listen
                 PROVE  <<e.fd, e.conn>> \in registered[w]
      OBVIOUS
    <3>1. PICK r \in registered[w] : e = Event(r[1], r[2], Events(r))
      BY DEF Ready, Event
    <3>2. r = <<r[1], r[2]>>
      OBVIOUS
    <3> QED
      BY <3>1, <3>2 DEF Event
  <2>3. \A e \in Ready(w) : e.fd # Listen => e.conn \notin unheard
    <3> SUFFICES ASSUME NEW e \in Ready(w), e.fd # Listen
                 PROVE  e.conn \notin unheard
      OBVIOUS
    <3>1. e \in batch'[w] /\ e.fd \in Fds
      BY <2>1, <2>2
    <3>2. connections[w][e.fd] = e.conn /\ e.conn # None
      BY <2>1, <3>1 DEF BatchInv
    <3> QED
      BY <2>2, <3>1, <3>2 DEF UnheardInv
  <2> QED
    BY <2>1, <2>3 DEF UnheardInv
<1>3. ASSUME NEW w \in Workers, Setup(w)
      PROVE  UnheardInv'
  BY <1>3, SetupUnheard
<1>4. ASSUME NEW w \in Workers, NEW e \in batch[w], Accept(w, e)
      PROVE  UnheardInv'
  <2>1. /\ UNCHANGED <<registered, connections, unheard>>
        /\ \A v \in Workers : batch'[v] \subseteq batch[v]
    BY <1>4 DEF Accept, epollVars, history
  <2>2. \A v \in Workers : step'[v] = "erase" => step[v] = "erase" /\ hand'[v] = hand[v]
    BY <1>4 DEF Accept, Goto
  <2> QED
    BY <2>1, <2>2, UnheardSame
<1>5. ASSUME NEW w \in Workers, NEW e \in batch[w], Closing(w, e)
      PROVE  UnheardInv'
  <2>1. /\ UNCHANGED <<registered, connections, unheard>>
        /\ \A v \in Workers : batch'[v] \subseteq batch[v]
        /\ \A v \in Workers : v # w => step'[v] = step[v] /\ hand'[v] = hand[v]
        /\ hand'[w] = e.fd /\ e.fd # Listen
    BY <1>5 DEF Closing, Goto, Handled, epollVars, history
  <2>2. connections[w][e.fd] \notin unheard
    BY <2>1 DEF BatchInv, UnheardInv
  <2> QED
    BY <2>1, <2>2 DEF UnheardInv
<1>6. ASSUME NEW w \in Workers, NEW e \in batch[w], Read(w, e) \/ Write(w, e)
      PROVE  UnheardInv'
  <2>1. /\ UNCHANGED <<registered, connections, step, hand, unheard>>
        /\ \A v \in Workers : batch'[v] \subseteq batch[v]
    <3>1. CASE Read(w, e)
      BY <3>1 DEF Read, Handled, epollVars, history
    <3>2. CASE Write(w, e)
      BY <3>2 DEF Write, Handled, history
    <3> QED
      BY <1>6, <3>1, <3>2
  <2> QED
    BY <2>1, UnheardSame
<1>7. ASSUME NEW w \in Workers, Erase(w)
      PROVE  UnheardInv'
  <2> DEFINE fd == hand[w]
  <2>1. /\ fd \in Fds /\ connections[w][fd] \notin unheard
        /\ UNCHANGED <<registered, batch, hand, unheard>>
    BY <1>7 DEF Erase, Goto, HandInv, UnheardInv, epollVars
  <2>2. /\ connections' = [connections EXCEPT ![w][fd] = None]
        /\ step' = [step EXCEPT ![w] = "close"]
    BY <1>7 DEF Erase, Goto
  <2> HIDE DEF fd
  <2>3. /\ \A v \in Workers, f \in Fds :
             connections'[v][f] = IF v = w /\ f = fd THEN None ELSE connections[v][f]
        /\ \A v \in Workers : step'[v] = IF v = w THEN "close" ELSE step[v]
    BY <2>1, <2>2
  <2>4. ASSUME NEW c \in unheard
        PROVE  \E v \in Workers, f \in Fds : connections'[v][f] = c
    <3>1. PICK v \in Workers, f \in Fds : connections[v][f] = c
      BY DEF UnheardInv
    <3>2. ~ (v = w /\ f = fd)
      BY <2>1, <3>1
    <3> QED
      BY <2>3, <3>1, <3>2
  <2>5. \A v \in Workers : step'[v] = "erase" => connections'[v][hand[v]] \notin unheard
    <3> SUFFICES ASSUME NEW v \in Workers, step'[v] = "erase"
                 PROVE  connections'[v][hand[v]] \notin unheard
      OBVIOUS
    <3>1. v # w /\ step[v] = "erase"
      BY <2>3
    <3>2. hand[v] \in Fds /\ connections[v][hand[v]] \notin unheard
      BY <3>1 DEF HandInv, UnheardInv
    <3> QED
      BY <2>3, <3>1, <3>2
  <2>6. \A v \in Workers, f \in Fds : connections'[v][f] # None =>
          (<<f, connections'[v][f]>> \in registered[v] <=> connections'[v][f] \notin unheard)
    BY <2>3 DEF UnheardInv
  <2> QED
    BY <2>1, <2>4, <2>5, <2>6 DEF UnheardInv
<1>8. ASSUME NEW w \in Workers, Close(w)
      PROVE  UnheardInv'
  <2> DEFINE fd == hand[w]
  <2>1. fd \in Fds /\ connections[w][fd] = None
    BY <1>8 DEF Close, HandInv
  <2>2. /\ UNCHANGED <<connections, batch, unheard>>
        /\ registered' = [registered EXCEPT ![w] = @ \ {<<fd, table[fd]>>}]
        /\ step' = [step EXCEPT ![w] = "wait"]
        /\ hand' = [hand EXCEPT ![w] = None]
    BY <1>8 DEF Close, Goto, history
  <2> HIDE DEF fd
  <2>3. \A v \in Workers, f \in Fds : connections[v][f] # None =>
          (<<f, connections[v][f]>> \in registered'[v] <=> <<f, connections[v][f]>> \in registered[v])
    BY <2>1, <2>2
  <2>4. \A v \in Workers : step'[v] = "erase" => step[v] = "erase" /\ hand'[v] = hand[v]
    BY <2>2
  <2> QED
    BY <2>2, <2>3, <2>4 DEF UnheardInv
<1>9. ASSUME NEW w \in Workers, NEW fd \in Fds, MarkSenderPending(w, fd)
      PROVE  UnheardInv'
  BY <1>9, UnheardSame DEF MarkSenderPending, workerVars, history
<1>10. CASE UNCHANGED vars
  BY <1>10, UnheardSame DEF vars, epollVars, workerVars, history
<1> QED
  BY <1>1, <1>2, <1>3, <1>4, <1>5, <1>6, <1>7, <1>8, <1>9, <1>10 DEF Next, Worker, Exhausted

-----------------------------------------------------------------------------
\* Theorem: every number that is open has one owner, its worker's map and
\* events agree on the connection behind it, its epoll instance does unless
\* the registration failed, and no sender ever shuts another connection's
\* descriptor down.
THEOREM LayerInvariant == Spec => []LayerInv
<1>1. Init => LayerInv
  <2> SUFFICES ASSUME Init
               PROVE  LayerInv
    OBVIOUS
  <2>1. ClientInv /\ UnheardInv
    BY LayerAssumption DEF Init, ClientInv, UnheardInv
  <2> QED
    BY <2>1, DescriptorInit DEF LayerInv
<1>2. LayerInv /\ [Next]_vars => LayerInv'
  BY DescriptorNext, ClientNext, UnheardNext DEF LayerInv
<1> QED
  BY <1>1, <1>2, PTL DEF Spec

\* Theorem: what a sender does with its number never touches a connection
\* that got the number later, in this worker or another (StartLoop, ClosePeer,
\* ~ConcreteTcpSender), and no descriptor leaks but those of connections
\* whose EPOLL_CTL_ADD failed (MarkReceiverPending).
THEOREM DescriptorsAreOwned == Spec => []OwnDescriptor
<1>1. LayerInv => OwnDescriptor
  <2> SUFFICES ASSUME LayerInv
               PROVE  OwnDescriptor
    OBVIOUS
  <2> USE DEF LayerInv, DescriptorInv
  <2>1. ASSUME NEW w \in Workers, NEW fd \in Fds, connections[w][fd] # None
        PROVE  /\ table[fd] = connections[w][fd]
               /\ <<fd, connections[w][fd]>> \in registered[w] <=> connections[w][fd] \notin unheard
               /\ \A v \in Workers \ {w} : connections[v][fd] = None
                                           /\ <<fd, connections[w][fd]>> \notin registered[v]
    <3>1. table[fd] = connections[w][fd]
      BY <2>1 DEF OwnerInv
    <3>2. \A v \in Workers : Owns(v, fd) => v = w
      BY <2>1 DEF OwnerInv, Owns
    <3>3. \A v \in Workers \ {w} : connections[v][fd] = None
      BY <3>2 DEF Owns
    <3>4. \A v \in Workers \ {w} : <<fd, connections[w][fd]>> \notin registered[v]
      BY <3>2 DEF RegisteredInv
    <3>5. <<fd, connections[w][fd]>> \in registered[w] <=> connections[w][fd] \notin unheard
      BY <2>1 DEF UnheardInv
    <3> QED
      BY <3>1, <3>3, <3>4, <3>5
  <2>2. \A fd \in Fds : table[fd] # None =>
          \E w \in Workers : connections[w][fd] = table[fd] \/ hand[w] = fd
    BY DEF OwnerInv, Owns
  <2>3. \A c \in unheard : \E w \in Workers, fd \in Fds : connections[w][fd] = c
    BY DEF UnheardInv
  <2> QED
    BY <2>1, <2>2, <2>3 DEF OwnDescriptor
<1> QED
  BY <1>1, LayerInvariant, PTL

\* Theorem: in whatever order a worker handles a batch of events, with the
\* other workers opening and closing meanwhile, an event is about the
\* connection that has its number (ReadFromPeer, SendToPeer, ClosePeer).
THEOREM EventsAreCurrent == Spec => []EventsCurrent
<1>1. LayerInv => EventsCurrent
  BY DEF LayerInv, DescriptorInv, BatchInv, EventsCurrent
<1> QED
  BY <1>1, LayerInvariant, PTL
=============================================================================
