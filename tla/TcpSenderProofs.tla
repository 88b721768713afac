--------------------------- MODULE TcpSenderProofs ---------------------------
(***************************************************************************)
(* Proofs about TcpSender, for every set of producers, every payload, file *)
(* and buffer size: its type invariant, and the agreement of the sender's  *)
(* deque, its pending flag and the EPOLLOUT interest.                      *)
(***************************************************************************)
EXTENDS TcpSender, SequenceTheorems, WellFoundedInduction, TLAPS

-----------------------------------------------------------------------------
(* Facts about the sequences the sender handles.                           *)

\* Taking the last element off a non-empty sequence leaves a sequence of the
\* same elements (the pop_back of Send).
LEMMA LastFront ==
  ASSUME NEW S, NEW q \in Seq(S), q # <<>>
  PROVE  Last(q) \in S /\ Front(q) \in Seq(S)
  <1>1. Len(q) \in 1..Len(q)
    BY EmptySeq, LenProperties
  <1>2. q[Len(q)] \in S
    BY <1>1, ElementOfSeq
  <1>3. SubSeq(q, 1, Len(q) - 1) \in Seq(S)
    BY <1>1, SubSeqProperties
  <1> QED BY <1>2, <1>3 DEF Last, Front

\* What send or sendfile takes from the front of some bytes and what it
\* leaves are bytes.
LEMMA Split ==
  ASSUME NEW S, NEW q \in Seq(S), NEW n \in 1..Len(q)
  PROVE  SubSeq(q, 1, n) \in Seq(S) /\ SubSeq(q, n + 1, Len(q)) \in Seq(S)
  BY SubSeqProperties, LenProperties

-----------------------------------------------------------------------------
(* Facts about FlattenSeq. Its definition is recursive; what holds of all  *)
(* its values is shown by a least counterexample.                          *)

\* A set of numbers has a least one.
LEMMA LeastNumber ==
  ASSUME NEW T, T \subseteq Nat, T # {}
  PROVE  \E m \in T : \A n \in T : m <= n
  <1> DEFINE R == OpToRel(<, Nat)
  <1>1. IsWellFoundedOn(R, Nat)
    BY NatLessThanWellFounded
  <1>2. \E m \in T : \A n \in T : ~ (<<n, m>> \in R)
    <2> HIDE DEF R
    <2> QED BY <1>1, WFMin
  <1>3. PICK m \in T : \A n \in T : ~ (<<n, m>> \in R)
    BY <1>2
  <1>4. ASSUME NEW n \in T PROVE m <= n
    <2>1. m \in Nat /\ n \in Nat
      OBVIOUS
    <2>2. ~ (n < m)
      BY <1>3, <2>1, Zenon DEF OpToRel
    <2> QED BY <2>1, <2>2
  <1> QED BY <1>4

\* What FlattenSeq computes: the concatenation of the first i sequences.
Flattens(s, n, f) ==
  f = [i \in 1..n |-> IF i = 1 THEN s[i] ELSE f[i - 1] \o s[i]]

\* It is defined,
LEMMA FlattenExists ==
  ASSUME NEW s, NEW n \in Nat
  PROVE  \E f : Flattens(s, n, f)
  <1> DEFINE Bad == {m \in Nat : ~ \E f : Flattens(s, m, f)}
  <1> SUFFICES ASSUME n \in Bad PROVE FALSE
    OBVIOUS
  <1>1. PICK m \in Bad : \A k \in Bad : m <= k
    BY LeastNumber
  <1>2. CASE m = 0
    <2> DEFINE f == [i \in 1..0 |-> 0]
    <2>1. Flattens(s, 0, f)
      BY DEF Flattens
    <2> QED BY <1>2, <2>1
  <1>3. CASE m # 0
    <2>1. m - 1 \in Nat /\ m - 1 \notin Bad
      BY <1>1, <1>3
    <2>2. PICK g : Flattens(s, m - 1, g)
      BY <2>1
    <2> DEFINE f == [i \in 1..m |-> IF i < m THEN g[i] ELSE IF m = 1 THEN s[m] ELSE g[m - 1] \o s[m]]
    <2>3. \A i \in 1..m : f[i] = IF i = 1 THEN s[i] ELSE f[i - 1] \o s[i]
      <3> TAKE i \in 1..m
      <3>1. CASE i < m
        <4>1. i \in 1..(m - 1)
          BY <3>1
        <4>2. g[i] = IF i = 1 THEN s[i] ELSE g[i - 1] \o s[i]
          BY <2>2, <4>1 DEF Flattens
        <4>3. f[i] = g[i] /\ (i # 1 => f[i - 1] = g[i - 1])
          BY <3>1, <2>1
        <4> QED BY <4>2, <4>3
      <3>2. CASE i = m
        <4>1. f[i] = IF m = 1 THEN s[m] ELSE g[m - 1] \o s[m]
          BY <3>2
        <4>2. m # 1 => f[m - 1] = g[m - 1]
          BY <2>1
        <4> QED BY <3>2, <4>1, <4>2
      <3> QED BY <3>1, <3>2
    <2>4. Flattens(s, m, f)
      <3> DEFINE h == [i \in 1..m |-> IF i = 1 THEN s[i] ELSE f[i - 1] \o s[i]]
      <3>1. \A i \in 1..m : f[i] = h[i]
        BY <2>3
      <3>2. f = h
        <4> HIDE DEF h
        <4>1. DOMAIN h = 1..m /\ h = [i \in DOMAIN h |-> h[i]]
          BY DEF h
        <4>2. DOMAIN f = 1..m /\ f = [i \in DOMAIN f |-> f[i]]
          OBVIOUS
        <4> HIDE DEF f
        <4> QED BY <3>1, <4>1, <4>2
      <3> QED BY <3>2 DEF Flattens
    <2> QED BY <2>4
  <1> QED BY <1>2, <1>3

\* FlattenSeq is the last value of such a function,
LEMMA FlattenIs ==
  ASSUME NEW s, Len(s) \in Nat, Len(s) # 0
  PROVE  \E f : Flattens(s, Len(s), f) /\ FlattenSeq(s) = f[Len(s)]
  <1> DEFINE f == CHOOSE f : Flattens(s, Len(s), f)
  <1>1. Flattens(s, Len(s), f)
    BY FlattenExists
  <1>2. FlattenSeq(s) = f[Len(s)]
    BY DEF FlattenSeq, Flattens
  <1> QED BY <1>1, <1>2

\* whose values are sequences, and do not depend on the sequences to come.
LEMMA FlattenValues ==
  ASSUME NEW S, NEW s \in Seq(Seq(S)), NEW n \in 0..Len(s), NEW f, Flattens(s, n, f),
         NEW i \in 1..n
  PROVE  f[i] \in Seq(S)
  <1> DEFINE Bad == {m \in 1..n : f[m] \notin Seq(S)}
  <1> SUFFICES ASSUME i \in Bad PROVE FALSE
    OBVIOUS
  <1>1. Bad \subseteq Nat
    BY LenProperties
  <1>2. PICK m \in Bad : \A k \in Bad : m <= k
    BY <1>1, LeastNumber
  <1>3. f[m] = IF m = 1 THEN s[m] ELSE f[m - 1] \o s[m]
    BY DEF Flattens
  <1>4. m \in 1..Len(s) /\ s[m] \in Seq(S)
    BY ElementOfSeq, LenProperties
  <1>5. m # 1 => f[m - 1] \in Seq(S)
    <2>1. m # 1 => m - 1 \in 1..n /\ m - 1 \notin Bad
      BY <1>2, LenProperties
    <2> QED BY <2>1
  <1> QED BY <1>3, <1>4, <1>5, ConcatProperties

\* Two such functions agree where their sequences do.
LEMMA FlattenSame ==
  ASSUME NEW S, NEW s \in Seq(Seq(S)), NEW x \in Seq(S),
         NEW f, Flattens(s, Len(s), f), NEW g, Flattens(Append(s, x), Len(s) + 1, g),
         NEW i \in 1..Len(s)
  PROVE  f[i] = g[i]
  <1> DEFINE n == Len(s)
             t == Append(s, x)
             Bad == {k \in 1..n : f[k] # g[k]}
  <1> SUFFICES ASSUME i \in Bad PROVE FALSE
    OBVIOUS
  <1>1. n \in Nat /\ \A k \in 1..n : s[k] = t[k]
    BY AppendProperties, LenProperties
  <1>2. Bad \subseteq Nat
    OBVIOUS
  <1>3. PICK k \in Bad : \A j \in Bad : k <= j
    BY <1>2, LeastNumber
  <1>4. /\ f[k] = IF k = 1 THEN s[k] ELSE f[k - 1] \o s[k]
        /\ g[k] = IF k = 1 THEN t[k] ELSE g[k - 1] \o t[k]
    <2>1. k \in 1..n /\ k \in 1..(n + 1)
      BY <1>1
    <2> HIDE DEF n, t
    <2>2. Flattens(s, n, f) /\ Flattens(t, n + 1, g)
      BY DEF n, t
    <2> QED BY <2>1, <2>2 DEF Flattens
  <1>5. k # 1 => f[k - 1] = g[k - 1]
    <2>1. n \in Nat /\ k \in 1..n
      BY <1>1
    <2> SUFFICES ASSUME k # 1 PROVE f[k - 1] = g[k - 1]
      OBVIOUS
    <2>2. k - 1 \in 1..n /\ ~ (k <= k - 1)
      BY <2>1
    <2>3. k - 1 \notin Bad
      BY <1>3, <2>2
    <2> QED BY <2>2, <2>3
  <1>6. s[k] = t[k]
    BY <1>1
  <1> QED BY <1>4, <1>5, <1>6

\* Flattening nothing gives nothing.
LEMMA FlattenEmpty == FlattenSeq(<<>>) = <<>>
  BY DEF FlattenSeq

\* Flattening gives a sequence of the same elements,
LEMMA FlattenType ==
  ASSUME NEW S, NEW s \in Seq(Seq(S))
  PROVE  FlattenSeq(s) \in Seq(S)
  <1>1. CASE Len(s) = 0
    <2>1. s = <<>>
      BY <1>1, EmptySeq
    <2> QED BY <2>1, FlattenEmpty, EmptySeq
  <1>2. CASE Len(s) # 0
    <2>1. Len(s) \in Nat /\ Len(s) \in 1..Len(s) /\ Len(s) \in 0..Len(s)
      BY <1>2, LenProperties
    <2>2. PICK f : Flattens(s, Len(s), f) /\ FlattenSeq(s) = f[Len(s)]
      BY <1>2, <2>1, FlattenIs
    <2> QED BY <2>1, <2>2, FlattenValues
  <1> QED BY <1>1, <1>2

\* grows at its end with the sequence of sequences,
LEMMA FlattenAppend ==
  ASSUME NEW S, NEW s \in Seq(Seq(S)), NEW x \in Seq(S)
  PROVE  FlattenSeq(Append(s, x)) = FlattenSeq(s) \o x
  <1> DEFINE t == Append(s, x)
             n == Len(s)
  <1>1. /\ t \in Seq(Seq(S)) /\ Len(t) = n + 1 /\ n \in Nat
        /\ \A i \in 1..n : s[i] = t[i]
        /\ t[n + 1] = x
    BY AppendProperties, LenProperties
  <1> HIDE DEF t
  <1>2. PICK g : Flattens(t, n + 1, g) /\ FlattenSeq(t) = g[n + 1]
    BY <1>1, FlattenIs
  <1>3. g[n + 1] = IF n = 0 THEN x ELSE g[n] \o x
    <2>1. n + 1 \in 1..(n + 1) /\ (n + 1) - 1 = n /\ (n + 1 = 1 <=> n = 0)
      BY <1>1
    <2>2. g[n + 1] = IF n + 1 = 1 THEN t[n + 1] ELSE g[(n + 1) - 1] \o t[n + 1]
      BY <1>2, <2>1 DEF Flattens
    <2> QED BY <1>1, <2>1, <2>2
  <1>4. CASE n = 0
    <2>1. s = <<>>
      BY <1>4, EmptySeq
    <2>2. FlattenSeq(s) = <<>>
      BY <2>1, FlattenEmpty
    <2> QED BY <1>2, <1>3, <1>4, <2>2, ConcatEmptySeq DEF t
  <1>5. CASE n # 0
    <2>1. PICK f : Flattens(s, n, f) /\ FlattenSeq(s) = f[n]
      BY <1>1, <1>5, FlattenIs
    <2>2. f[n] = g[n]
      <3>1. n \in 1..n
        BY <1>1, <1>5
      <3>2. Flattens(Append(s, x), n + 1, g)
        BY <1>2 DEF t
      <3> QED BY <2>1, <3>1, <3>2, FlattenSame
    <2> QED BY <1>2, <1>3, <1>5, <2>1, <2>2 DEF t
  <1> QED BY <1>4, <1>5

\* and keeps its head when it grows,
LEMMA FlattenHeadStep ==
  ASSUME NEW S, NEW p \in Seq(Seq(S)), NEW x \in Seq(S)
  PROVE  p # <<>> /\ FlattenSeq(p) = Head(p) \o FlattenSeq(Tail(p)) =>
           FlattenSeq(Append(p, x)) = Head(p) \o FlattenSeq(Append(Tail(p), x))
  <1>1. ASSUME NEW h \in Seq(S), NEW r \in Seq(S)
        PROVE  (h \o r) \o x = h \o (r \o x)
    BY ConcatAssociative
  <1>2. FlattenSeq(Append(p, x)) = FlattenSeq(p) \o x
    BY FlattenAppend
  <1> SUFFICES ASSUME p # <<>>, FlattenSeq(p) = Head(p) \o FlattenSeq(Tail(p))
               PROVE  FlattenSeq(Append(p, x)) = Head(p) \o FlattenSeq(Append(Tail(p), x))
    OBVIOUS
  <1>3. Head(p) \in Seq(S) /\ Tail(p) \in Seq(Seq(S))
    BY HeadTailProperties
  <1>4. FlattenSeq(Append(Tail(p), x)) = FlattenSeq(Tail(p)) \o x
    BY <1>3, FlattenAppend
  <1>5. FlattenSeq(Tail(p)) \in Seq(S)
    BY <1>3, FlattenType
  <1> QED BY <1>1, <1>2, <1>3, <1>4, <1>5

\* and begins with its first element.
LEMMA FlattenHead ==
  ASSUME NEW S, NEW s \in Seq(Seq(S)), s # <<>>
  PROVE  FlattenSeq(s) = Head(s) \o FlattenSeq(Tail(s))
  <1> DEFINE Q == Seq(Seq(S))
             Right(q) == FlattenSeq(q) = Head(q) \o FlattenSeq(Tail(q))
             Bad == {n \in Nat : \E q \in Q : q # <<>> /\ Len(q) = n /\ ~ Right(q)}
  <1> SUFFICES ASSUME ~ Right(s) PROVE FALSE
    OBVIOUS
  <1>1. Len(s) \in Bad
    BY LenProperties
  <1>2. PICK n \in Bad : \A k \in Bad : n <= k
    BY <1>1, LeastNumber
  <1>3. PICK q \in Q : q # <<>> /\ Len(q) = n /\ ~ Right(q)
    BY <1>2
  <1>4. PICK p \in Q, x \in Seq(S) : q = Append(p, x)
    BY <1>3, SequenceEmptyOrAppend
  <1>5. FlattenSeq(q) = FlattenSeq(p) \o x
    BY <1>4, FlattenAppend
  <1>6. CASE p = <<>>
    <2>1. Head(q) = x /\ Tail(q) = <<>>
      BY <1>4, <1>6, HeadTailAppend
    <2>2. FlattenSeq(q) = x /\ FlattenSeq(Tail(q)) = <<>>
      BY <1>5, <1>6, <2>1, FlattenEmpty, ConcatEmptySeq
    <2> QED BY <1>3, <2>1, <2>2, ConcatEmptySeq
  <1>7. CASE p # <<>>
    <2>1. Head(q) = Head(p) /\ Tail(q) = Append(Tail(p), x)
      BY <1>4, <1>7, HeadTailAppend
    <2>2. Head(p) \in Seq(S) /\ Tail(p) \in Q
      BY <1>7, HeadTailProperties
    <2>3. Len(p) \in Nat /\ Len(p) < n
      BY <1>3, <1>4, AppendProperties, LenProperties
    <2>4. Right(p)
      <3>1. Len(p) \notin Bad
        BY <1>2, <1>3, <2>3
      <3> QED BY <1>7, <2>3, <3>1
    <2>5. FlattenSeq(q) = Head(p) \o FlattenSeq(Append(Tail(p), x))
      BY <1>4, <1>7, <2>4, FlattenHeadStep
    <2> QED BY <1>3, <2>1, <2>5
  <1> QED BY <1>6, <1>7

-----------------------------------------------------------------------------
(* The bytes of the deque, and how each operation on it changes them.      *)

Bytes(q) == FlattenSeq([i \in DOMAIN q |-> q[i].data])

\* The data of the operations are sequences of bytes.
LEMMA DataSeq ==
  ASSUME NEW q \in Seq(Op)
  PROVE  /\ [i \in DOMAIN q |-> q[i].data] \in Seq(Seq(Byte))
         /\ Len([i \in DOMAIN q |-> q[i].data]) = Len(q)
  <1>1. Len(q) \in Nat /\ DOMAIN q = 1..Len(q)
    BY LenProperties
  <1>2. \A i \in 1..Len(q) : q[i] \in Op
    BY ElementOfSeq
  <1>3. \A i \in 1..Len(q) : q[i].data \in Seq(Byte)
    BY <1>2 DEF Op
  <1> QED BY <1>1, <1>3

\* The deque holds bytes.
LEMMA BytesType ==
  ASSUME NEW q \in Seq(Op)
  PROVE  Bytes(q) \in Seq(Byte)
  BY DataSeq, FlattenType DEF Bytes

\* push_back: the bytes of the operation come last.
LEMMA BytesAppend ==
  ASSUME NEW q \in Seq(Op), NEW op \in Op
  PROVE  Bytes(Append(q, op)) = Bytes(q) \o op.data
  <1> DEFINE d(s) == [i \in DOMAIN s |-> s[i].data]
             r == Append(q, op)
  <1>1. /\ r \in Seq(Op) /\ Len(r) = Len(q) + 1 /\ Len(q) \in Nat
        /\ \A i \in 1..Len(q) : r[i] = q[i]
        /\ r[Len(q) + 1] = op
    BY AppendProperties, LenProperties
  <1>2. op.data \in Seq(Byte)
    BY DEF Op
  <1>3. /\ d(q) \in Seq(Seq(Byte)) /\ Len(d(q)) = Len(q)
        /\ d(r) \in Seq(Seq(Byte)) /\ Len(d(r)) = Len(q) + 1
    BY <1>1, DataSeq
  <1>4. /\ \A i \in 1..Len(q) : d(q)[i] = q[i].data
        /\ \A i \in 1..(Len(q) + 1) : d(r)[i] = r[i].data
    BY <1>1, LenProperties
  <1> HIDE DEF r, d
  <1>5. d(r) = Append(d(q), op.data)
    <2> DEFINE a == Append(d(q), op.data)
    <2>1. /\ a \in Seq(Seq(Byte)) /\ Len(a) = Len(q) + 1
          /\ \A i \in 1..Len(q) : a[i] = d(q)[i]
          /\ a[Len(q) + 1] = op.data
      BY <1>2, <1>3, AppendProperties
    <2> HIDE DEF a
    <2>2. \A i \in 1..(Len(q) + 1) : d(r)[i] = a[i]
      <3> TAKE i \in 1..(Len(q) + 1)
      <3>1. CASE i \in 1..Len(q)
        <4>1. d(r)[i] = r[i].data /\ r[i] = q[i] /\ a[i] = q[i].data
          BY <1>1, <1>4, <2>1, <3>1
        <4> QED BY <4>1
      <3>2. CASE i = Len(q) + 1
        BY <1>1, <1>4, <2>1, <3>2
      <3> QED BY <1>1, <3>1, <3>2
    <2>3. d(r) = a
      BY <1>3, <2>1, <2>2, SeqEqual
    <2> QED BY <2>3 DEF a
  <1>6. FlattenSeq(d(r)) = FlattenSeq(d(q)) \o op.data
    BY <1>2, <1>3, <1>5, FlattenAppend
  <1> QED BY <1>6 DEF Bytes, d, r

\* A deque begins with the bytes of its first operation.
LEMMA BytesHead ==
  ASSUME NEW q \in Seq(Op), q # <<>>
  PROVE  Bytes(q) = Head(q).data \o Bytes(Tail(q))
  <1> DEFINE d(s) == [i \in DOMAIN s |-> s[i].data]
             r == Tail(q)
  <1>1. /\ r \in Seq(Op) /\ Len(q) \in Nat /\ Len(q) # 0 /\ Len(r) = Len(q) - 1
        /\ \A i \in 1..Len(r) : r[i] = q[i + 1]
        /\ Head(q) = q[1]
    BY HeadTailProperties, LenProperties, EmptySeq
  <1>2. /\ d(q) \in Seq(Seq(Byte)) /\ Len(d(q)) = Len(q)
        /\ d(r) \in Seq(Seq(Byte)) /\ Len(d(r)) = Len(r)
    BY <1>1, DataSeq
  <1>3. /\ \A i \in 1..Len(q) : d(q)[i] = q[i].data
        /\ \A i \in 1..Len(r) : d(r)[i] = r[i].data
    BY <1>1, LenProperties
  <1> HIDE DEF r, d
  <1>4. d(q) # <<>> /\ Head(d(q)) = Head(q).data
    BY <1>1, <1>2, <1>3, EmptySeq
  <1>5. d(r) = Tail(d(q))
    <2> DEFINE a == Tail(d(q))
    <2>1. /\ a \in Seq(Seq(Byte)) /\ Len(a) = Len(r)
          /\ \A i \in 1..Len(r) : a[i] = d(q)[i + 1]
      BY <1>1, <1>2, <1>4, HeadTailProperties
    <2> HIDE DEF a
    <2>2. \A i \in 1..Len(r) : d(r)[i] = a[i]
      <3> TAKE i \in 1..Len(r)
      <3>1. i \in 1..Len(r) /\ i + 1 \in 1..Len(q)
        BY <1>1
      <3>2. d(r)[i] = r[i].data /\ r[i] = q[i + 1]
        BY <1>1, <1>3, <3>1
      <3>3. a[i] = d(q)[i + 1] /\ d(q)[i + 1] = q[i + 1].data
        BY <1>3, <2>1, <3>1
      <3> QED BY <3>2, <3>3
    <2>3. d(r) = a
      BY <1>2, <2>1, <2>2, SeqEqual
    <2> QED BY <2>3 DEF a
  <1>6. FlattenSeq(d(q)) = Head(q).data \o FlattenSeq(d(r))
    BY <1>2, <1>4, <1>5, FlattenHead
  <1> QED BY <1>6 DEF Bytes, d, r

\* It ends with the bytes of its last one.
LEMMA BytesLast ==
  ASSUME NEW q \in Seq(Op), q # <<>>
  PROVE  Bytes(q) = Bytes(Front(q)) \o Last(q).data
  <1>1. Last(q) \in Op /\ Front(q) \in Seq(Op)
    BY LastFront
  <1>2. Append(Front(q), Last(q)) = q
    <2> DEFINE r == Append(Front(q), Last(q))
    <2>1. Len(q) \in Nat /\ Len(q) # 0
      BY EmptySeq, LenProperties
    <2>2. /\ Len(Front(q)) = Len(q) - 1
          /\ \A i \in 1..(Len(q) - 1) : Front(q)[i] = q[i]
      <3> DEFINE m == Len(q) - 1
      <3>1. m \in Nat /\ \A i \in 1..m : q[i] \in Op
        BY <2>1, ElementOfSeq
      <3>2. Front(q) = SubSeq(q, 1, m)
        BY DEF Front
      <3> HIDE DEF m
      <3>3. /\ Len(SubSeq(q, 1, m)) = IF 1 <= m THEN m - 1 + 1 ELSE 0
            /\ \A i \in 1..(m - 1 + 1) : SubSeq(q, 1, m)[i] = q[1 + i - 1]
        BY <3>1, SubSeqProperties
      <3>4. /\ Len(SubSeq(q, 1, m)) = m
            /\ \A i \in 1..m : SubSeq(q, 1, m)[i] = q[i]
        BY <3>1, <3>3
      <3> QED BY <3>2, <3>4 DEF m
    <2>3. /\ r \in Seq(Op) /\ Len(r) = Len(q)
          /\ \A i \in 1..(Len(q) - 1) : r[i] = q[i]
          /\ r[Len(q)] = Last(q)
      BY <1>1, <2>1, <2>2, AppendProperties
    <2>4. \A i \in 1..Len(q) : r[i] = q[i]
      BY <2>1, <2>3 DEF Last
    <2> HIDE DEF r
    <2>5. r = q
      BY <2>3, <2>4, SeqEqual
    <2> QED BY <2>5 DEF r
  <1> QED BY <1>1, <1>2, BytesAppend

\* The bytes are those of the data, whatever else the operations have.
LEMMA BytesSame ==
  ASSUME NEW q \in Seq(Op), NEW r \in Seq(Op), Len(q) = Len(r),
         \A i \in 1..Len(q) : q[i].data = r[i].data
  PROVE  Bytes(q) = Bytes(r)
  <1>1. DOMAIN q = 1..Len(q) /\ DOMAIN r = 1..Len(q)
    BY LenProperties
  <1>2. [i \in DOMAIN q |-> q[i].data] = [i \in DOMAIN r |-> r[i].data]
    BY <1>1
  <1> QED BY <1>2 DEF Bytes

-----------------------------------------------------------------------------
\* The type invariant holds initially.
LEMMA TypeInit == Init => TypeOK
  <1> SUFFICES ASSUME Init PROVE TypeOK
    OBVIOUS
  <1>1. acc \in Seq(Byte) /\ buffered \in Seq(Op) /\ accepted \in Seq(Byte) /\ wire \in Seq(Byte)
    BY DEF Init
  <1>2. room \in 0..Capacity /\ inbox \in 0..MaxInbox /\ calls \in 0..MaxCalls
    BY BoundsAssumption DEF Init
  <1> QED BY <1>1, <1>2 DEF Init, TypeOK, SockState

\* Every step keeps the type invariant.
LEMMA TypeNext == TypeOK /\ [Next]_vars => TypeOK'
  <1> SUFFICES ASSUME TypeOK, [Next]_vars PROVE TypeOK'
    OBVIOUS
  <1> USE DataAssumption, BoundsAssumption DEF TypeOK
  <1>1. ASSUME NEW t \in Producers \cup {Worker}, NEW d \in Payloads, SendBegin(t, d)
        PROVE  TypeOK'
    BY <1>1 DEF SendBegin, loopVars, processorVars, kernelVars
  <1>2. CASE Coalesce
    <2>1. Last(buffered) \in Op /\ Front(buffered) \in Seq(Op)
      BY <1>2, LastFront DEF Coalesce, EndsInBuffer
    <2>2. Last(buffered).data \in Seq(Byte)
      BY <2>1 DEF Op
    <2> QED BY <1>2, <2>1, <2>2
            DEF Coalesce, loopVars, processorVars, kernelVars, historyVars
  <1>3. CASE SendEnd
    <2>1. BufferOp(acc) \in Op
      BY DEF BufferOp, Op
    <2>2. Append(buffered, BufferOp(acc)) \in Seq(Op)
      BY <2>1
    <2> QED BY <1>3, <2>2
            DEF SendEnd, MarkPending, loopVars, processorVars, kernelVars, historyVars
  <1>4. ASSUME NEW f \in Files, SendFile(f) PROVE TypeOK'
    <2>1. FileOp(f) \in Op
      BY DEF FileOp, Op
    <2>2. Append(buffered, FileOp(f)) \in Seq(Op)
      BY <2>1
    <2> QED BY <1>4, <2>2
            DEF SendFile, MarkPending, loopVars, processorVars, kernelVars
  <1>5. CASE Close
    BY <1>5 DEF Close, ShutDown, SockState, loopVars, processorVars, historyVars
  <1>6. CASE DrainBegin
    BY <1>6 DEF DrainBegin, processorVars, kernelVars, historyVars
  <1>7. ASSUME NEW n \in 1..Capacity, DrainWrite(n) PROVE TypeOK'
    <2> DEFINE op == Head(buffered)
               rest == SubSeq(op.data, n + 1, Len(op.data))
    <2>1. buffered # <<>> /\ n <= room /\ n <= Len(op.data)
      BY <1>7 DEF DrainWrite
    <2>2. 1 \in DOMAIN buffered /\ op = buffered[1] /\ op \in Op
      BY <2>1, EmptySeq, LenProperties, HeadTailProperties
    <2>3. op.data \in Seq(Byte)
      BY <2>2 DEF Op
    <2>4. n \in 1..Len(op.data)
      BY <2>1, <2>3
    <2>5. SubSeq(op.data, 1, n) \in Seq(Byte) /\ rest \in Seq(Byte)
      BY <2>3, <2>4, Split
    <2>6. [buffered[1] EXCEPT !.data = rest] \in Op
      BY <2>2, <2>5 DEF Op
    <2>7. [buffered EXCEPT ![1] = [buffered[1] EXCEPT !.data = rest]] \in Seq(Op)
      BY <2>2, <2>6, ExceptSeq
    <2>8. buffered' = [buffered EXCEPT ![1].data = rest]
      BY <1>7 DEF DrainWrite
    <2>9. buffered' \in Seq(Op)
      BY <2>7, <2>8
    <2>10. wire' \in Seq(Byte)
      <3>1. wire' = wire \o SubSeq(op.data, 1, n)
        BY <1>7 DEF DrainWrite
      <3> QED BY <2>5, <3>1, ConcatProperties
    <2>11. room' \in 0..Capacity
      <3>1. room' = room - n
        BY <1>7 DEF DrainWrite
      <3>2. n \in Nat /\ room \in Nat /\ room <= Capacity
        OBVIOUS
      <3> QED BY <2>1, <3>1, <3>2
    <2>12. UNCHANGED <<mutex, acc, pending, peer, armed, loop, event, attached, calling,
                       sock, inbox, calls, accepted, killed>>
      BY <1>7 DEF DrainWrite, loopVars, processorVars
    <2> QED BY <2>9, <2>10, <2>11, <2>12
  <1>8. CASE DrainPop
    <2>1. Tail(buffered) \in Seq(Op)
      BY <1>8, HeadTailProperties DEF DrainPop
    <2> QED BY <1>8, <2>1 DEF DrainPop, loopVars, processorVars, kernelVars, historyVars
  <1>9. CASE DrainStall
    BY <1>9 DEF DrainStall, SockState, processorVars
  <1>10. CASE DrainEmpty
    BY <1>10 DEF DrainEmpty, UnmarkPending, processorVars, kernelVars, historyVars
  <1>11. CASE Attach \/ Detach \/ ProcessEnd
    BY <1>11 DEF Attach, Detach, ProcessEnd, senderVars, loopVars, processorVars,
                 kernelVars, historyVars
  <1>12. CASE Looping
    <2>1. CASE Poll
      <3>1. Mask \subseteq {"ERR", "IN", "OUT"}
        BY DEF Mask
      <3> QED BY <2>1, <3>1 DEF Poll, senderVars, processorVars, kernelVars, historyVars
    <2>2. CASE Dispatch
      BY <2>2 DEF Dispatch, Handler, senderVars, processorVars, kernelVars, historyVars
    <2>3. CASE ReadData
      BY <2>3 DEF ReadData, senderVars, processorVars, historyVars
    <2>4. CASE ReadNothing
      BY <2>4 DEF ReadNothing, senderVars, processorVars, kernelVars, historyVars
    <2>5. CASE DestroyProcessor \/ FlushEnd
      BY <2>5 DEF DestroyProcessor, FlushEnd, senderVars, processorVars, kernelVars, historyVars
    <2>6. CASE DestroySender
      <3>1. buffered' \in Seq(Op) /\ sock' \in SockState
        BY <2>6 DEF DestroySender, ShutDown, SockState
      <3> QED BY <2>6, <3>1 DEF DestroySender, processorVars, historyVars
    <2> QED BY <1>12, <2>1, <2>2, <2>3, <2>4, <2>5, <2>6 DEF Looping
  <1>13. CASE Notifying
    BY <1>13 DEF Notifying, NotifyBegin, NotifyEnd, senderVars, loopVars,
                 kernelVars, historyVars
  <1>14. CASE ClientSend \/ ClientRead \/ ClientFin \/ ClientReset
    <2>1. CASE ClientSend
      BY <2>1 DEF ClientSend, senderVars, loopVars, processorVars, historyVars
    <2>2. CASE ClientRead
      BY <2>2 DEF ClientRead, senderVars, loopVars, processorVars, historyVars
    <2>3. CASE ClientFin \/ ClientReset
      BY <2>3 DEF ClientFin, ClientReset, SockState, senderVars, loopVars,
                  processorVars, historyVars
    <2> QED BY <1>14, <2>1, <2>2, <2>3
  <1>15. ASSUME NEW i \in DOMAIN buffered, Truncate(i) PROVE TypeOK'
    <2>1. buffered[i] \in Op
      BY ElementOfSeq, LenProperties
    <2>2. [buffered[i] EXCEPT !.eof = TRUE] \in Op
      BY <2>1 DEF Op
    <2>3. buffered' \in Seq(Op)
      BY <1>15, <2>2, ExceptSeq, LenProperties DEF Truncate
    <2> QED BY <1>15, <2>3 DEF Truncate, loopVars, processorVars, kernelVars, historyVars
  <1>16. CASE UNCHANGED vars
    BY <1>16 DEF vars, senderVars, loopVars, processorVars, kernelVars, historyVars
  <1> QED
    BY <1>1, <1>2, <1>3, <1>4, <1>5, <1>6, <1>7, <1>8, <1>9, <1>10, <1>11, <1>12,
       <1>13, <1>14, <1>15, <1>16
    DEF Next, Sending, Draining, Processing, Client, Ended

\* Every variable keeps its type in every behaviour (tcp.cpp, whole file).
THEOREM TypeCorrect == Spec => []TypeOK
  BY TypeInit, TypeNext, PTL DEF Spec

-----------------------------------------------------------------------------
(* The strengthening of the other invariants. It follows the worker: what  *)
(* it read from epoll at Poll is still good enough when it acts on it.     *)

\* Who is where: senderMut, the notifications and the worker.
LockInv ==
  /\ loop = "drain" => mutex = Worker
  /\ mutex = Worker => loop \in {"process", "drain", "flush"}
  /\ mutex \in Producers => mutex \in calling
  /\ loop \in {"flush", "destroy", "gone"} => calling = {} /\ ~attached

\* The EPOLLOUT interest and the flag never part while the descriptor is
\* valid, and a worker on its way to SendBuffered still finds it armed.
InterestInv ==
  /\ peer # -1 => armed = pending
  /\ loop = "dispatch" => event # {} /\ ("OUT" \in event => armed)
  /\ loop \in {"send", "drain"} => armed
  /\ InterestFollowsQueue

\* A worker that writes saw no input, so neither this process's shutdown nor
\* a reported error can be what it meets.
SocketInv ==
  /\ loop = "dispatch" /\ "IN" \notin event => sock \notin {"dead", "shut"}
  /\ loop \in {"send", "drain"} => sock \notin {"dead", "shut"}
  /\ SigpipeNeedsFinAndReset

SenderInv == TypeOK /\ LockInv /\ InterestInv /\ SocketInv

\* The invariant holds when the connection has been accepted.
LEMMA SenderInvInit == Init => SenderInv
  <1> SUFFICES ASSUME Init PROVE SenderInv
    OBVIOUS
  <1>1. TypeOK
    BY TypeInit
  <1>2. LockInv /\ InterestInv /\ SocketInv
    BY ThreadsAssumption
    DEF Init, LockInv, InterestInv, InterestFollowsQueue, SocketInv, SigpipeNeedsFinAndReset
  <1> QED BY <1>1, <1>2 DEF SenderInv

\* Every step keeps the lock discipline.
LEMMA LockNext == SenderInv /\ [Next]_vars => LockInv'
  <1> SUFFICES ASSUME TypeOK, LockInv, [Next]_vars PROVE LockInv'
    BY DEF SenderInv
  <1> USE ThreadsAssumption DEF TypeOK, LockInv
  <1>1. CASE Sending
    BY <1>1 DEF Sending, SendBegin, Caller, Coalesce, InSend, SendEnd, loopVars, processorVars
  <1>2. CASE Draining
    BY <1>2 DEF Draining, DrainBegin, DrainWrite, DrainPop, DrainStall, DrainEmpty,
                loopVars, processorVars
  <1>3. CASE Processing
    BY <1>3 DEF Processing, SendFile, Close, Attach, Detach, ProcessEnd, senderVars,
                loopVars, processorVars
  <1>4. CASE Looping
    BY <1>4 DEF Looping, Poll, Dispatch, Handler, ReadData, ReadNothing,
                DestroyProcessor, FlushEnd, DestroySender, senderVars, processorVars
  <1>5. CASE Notifying
    BY <1>5 DEF Notifying, NotifyBegin, NotifyEnd, senderVars, loopVars
  <1>6. CASE Client
    BY <1>6 DEF Client, ClientSend, ClientRead, ClientFin, ClientReset, Truncate,
                senderVars, loopVars, processorVars
  <1>7. CASE UNCHANGED vars
    BY <1>7 DEF vars, senderVars, loopVars, processorVars
  <1> QED BY <1>1, <1>2, <1>3, <1>4, <1>5, <1>6, <1>7 DEF Next, Ended

\* Every step keeps the agreement of the queue, the flag and epoll.
LEMMA InterestNext == SenderInv /\ [Next]_vars => InterestInv'
  <1> SUFFICES ASSUME TypeOK, LockInv, InterestInv, [Next]_vars PROVE InterestInv'
    BY DEF SenderInv
  <1> USE ThreadsAssumption, DataAssumption DEF InterestInv, InterestFollowsQueue
  <1>1. CASE Sending
    <2>1. ASSUME NEW t \in Producers \cup {Worker}, NEW d \in Payloads, SendBegin(t, d)
          PROVE  InterestInv'
      BY <2>1 DEF SendBegin, loopVars
    <2>2. CASE Coalesce
      BY <2>2 DEF Coalesce, InSend, loopVars
    <2>3. CASE SendEnd
      <3>1. buffered' # <<>>
        BY <2>3, AppendProperties DEF SendEnd, TypeOK, BufferOp, Op
      <3> QED BY <2>3, <3>1 DEF SendEnd, InSend, MarkPending, loopVars, TypeOK
    <2> QED BY <1>1, <2>1, <2>2, <2>3 DEF Sending
  <1>2. CASE Draining
    <2>1. CASE DrainBegin
      BY <2>1 DEF DrainBegin
    <2>2. CASE (\E n \in 1..Capacity : DrainWrite(n)) \/ DrainPop
      BY <2>2 DEF DrainWrite, DrainPop, LockInv, loopVars
    <2>3. CASE DrainStall
      BY <2>3 DEF DrainStall
    <2>4. CASE DrainEmpty
      BY <2>4 DEF DrainEmpty, UnmarkPending, TypeOK
    <2> QED BY <1>2, <2>1, <2>2, <2>3, <2>4 DEF Draining
  <1>3. CASE Processing
    <2>1. ASSUME NEW f \in Files, SendFile(f) PROVE InterestInv'
      <3>1. buffered' # <<>>
        BY <2>1, AppendProperties DEF SendFile, TypeOK, FileOp, Op
      <3> QED BY <2>1, <3>1 DEF SendFile, MarkPending, loopVars, TypeOK
    <2>2. CASE Close
      BY <2>2 DEF Close, loopVars
    <2>3. CASE Attach \/ Detach \/ ProcessEnd
      BY <2>3 DEF Attach, Detach, ProcessEnd, senderVars, loopVars
    <2> QED BY <1>3, <2>1, <2>2, <2>3 DEF Processing
  <1>4. CASE Looping
    <2>1. CASE Poll
      BY <2>1 DEF Poll, Mask, Reported, senderVars
    <2>2. CASE Dispatch
      BY <2>2 DEF Dispatch, Handler, senderVars, TypeOK
    <2>3. CASE ReadData \/ ReadNothing \/ DestroyProcessor \/ FlushEnd
      BY <2>3 DEF ReadData, ReadNothing, DestroyProcessor, FlushEnd, senderVars
    <2>4. CASE DestroySender
      BY <2>4 DEF DestroySender
    <2> QED BY <1>4, <2>1, <2>2, <2>3, <2>4 DEF Looping
  <1>5. CASE Notifying
    BY <1>5 DEF Notifying, NotifyBegin, NotifyEnd, senderVars, loopVars
  <1>6. CASE Client
    <2>1. ASSUME NEW i \in DOMAIN buffered, Truncate(i) PROVE InterestInv'
      <3>1. buffered # <<>> /\ buffered' # <<>>
        BY <2>1 DEF Truncate, TypeOK
      <3> QED BY <2>1, <3>1 DEF Truncate, loopVars
    <2>2. CASE ClientSend \/ ClientRead \/ ClientFin \/ ClientReset
      BY <2>2 DEF ClientSend, ClientRead, ClientFin, ClientReset, senderVars, loopVars
    <2> QED BY <1>6, <2>1, <2>2 DEF Client
  <1>7. CASE UNCHANGED vars
    BY <1>7 DEF vars, senderVars, loopVars
  <1> QED BY <1>1, <1>2, <1>3, <1>4, <1>5, <1>6, <1>7 DEF Next, Ended

\* Every step keeps what the worker knows of the socket.
LEMMA SocketNext == SenderInv /\ [Next]_vars => SocketInv'
  <1> SUFFICES ASSUME TypeOK, SocketInv, InterestInv, [Next]_vars PROVE SocketInv'
    BY DEF SenderInv
  <1> USE DEF SocketInv, SigpipeNeedsFinAndReset
  <1>1. CASE UNCHANGED vars
    BY <1>1 DEF vars, loopVars, kernelVars, historyVars
  <1> SUFFICES ASSUME ~killed,
                      Sending \/ Draining \/ Processing \/ Looping \/ Notifying \/ Client
               PROVE  SocketInv'
    BY <1>1 DEF Next, Ended
  <1>2. CASE Sending
    BY <1>2 DEF Sending, SendBegin, Coalesce, SendEnd, loopVars, kernelVars, historyVars
  <1>3. CASE Draining
    <2>1. CASE DrainStall
      BY <2>1 DEF DrainStall, Broken
    <2>2. CASE DrainBegin \/ (\E n \in 1..Capacity : DrainWrite(n)) \/ DrainPop \/ DrainEmpty
      BY <2>2 DEF DrainBegin, DrainWrite, DrainPop, DrainEmpty, loopVars, kernelVars, historyVars
    <2> QED BY <1>3, <2>1, <2>2 DEF Draining
  <1>4. CASE Processing
    BY <1>4 DEF Processing, SendFile, Close, Attach, Detach, ProcessEnd, loopVars,
                kernelVars, historyVars
  <1>5. CASE Looping
    <2>1. CASE Poll
      BY <2>1 DEF Poll, Mask, Reported, kernelVars, historyVars
    <2>2. CASE Dispatch
      BY <2>2 DEF Dispatch, Handler, kernelVars, historyVars
    <2>3. CASE ReadData \/ ReadNothing \/ DestroyProcessor \/ FlushEnd \/ DestroySender
      BY <2>3 DEF ReadData, ReadNothing, DestroyProcessor, FlushEnd, DestroySender, kernelVars,
                  historyVars
    <2> QED BY <1>5, <2>1, <2>2, <2>3 DEF Looping
  <1>6. CASE Notifying
    BY <1>6 DEF Notifying, NotifyBegin, NotifyEnd, loopVars, kernelVars, historyVars
  <1>7. CASE Client
    BY <1>7 DEF Client, ClientSend, ClientRead, ClientFin, ClientReset, Truncate,
                loopVars, kernelVars, historyVars
  <1> QED BY <1>2, <1>3, <1>4, <1>5, <1>6, <1>7

\* The inductive invariant holds in every reachable state.
THEOREM SenderInvariant == Spec => []SenderInv
  <1>1. SenderInv /\ [Next]_vars => SenderInv'
    BY TypeNext, LockNext, InterestNext, SocketNext DEF SenderInv
  <1> QED BY <1>1, SenderInvInit, PTL DEF Spec

\* What is queued is watched for and nothing else is: no lost EPOLLOUT and no
\* busy loop on an empty queue (MarkPending, UnmarkPending, SendBuffered).
THEOREM InterestCorrect == Spec => []InterestFollowsQueue
  <1>1. SenderInv => InterestFollowsQueue
    BY DEF SenderInv, InterestInv
  <1> QED BY <1>1, SenderInvariant, PTL

\* The only way to SIGPIPE is a FIN and a RST between epoll_wait and a write.
THEOREM SigpipeCorrect == Spec => []SigpipeNeedsFinAndReset
  <1>1. SenderInv => SigpipeNeedsFinAndReset
    BY DEF SenderInv, SocketInv
  <1> QED BY <1>1, SenderInvariant, PTL

\* No producer is inside the sender or about to enter it when
\* ~TcpConnectionContext destroys it.
THEOREM LifetimeCorrect == Spec => []SenderOutlivesCallers
  <1>1. SenderInv => SenderOutlivesCallers
    BY DEF SenderInv, LockInv, TypeOK, SenderOutlivesCallers
  <1> QED BY <1>1, SenderInvariant, PTL

-----------------------------------------------------------------------------
(* The bytes. Next to Conservation the invariant says that "accumulated"   *)
(* is empty whenever no Send is in progress.                               *)

ByteInv ==
  /\ mutex = None \/ loop = "drain" => acc = <<>>
  /\ Conservation

\* Before the first call there are no bytes anywhere.
LEMMA ByteInit == Init => ByteInv
  <1> SUFFICES ASSUME Init PROVE ByteInv
    OBVIOUS
  <1>1. buffered = <<>> /\ acc = <<>> /\ accepted = <<>> /\ wire = <<>>
    BY DEF Init
  <1>2. Bytes(buffered) = <<>>
    <2>1. [i \in DOMAIN buffered |-> buffered[i].data] = <<>>
      BY <1>1
    <2> QED BY <2>1, FlattenEmpty DEF Bytes
  <1>3. accepted = wire \o Bytes(buffered) \o acc
    BY <1>1, <1>2, EmptySeq, ConcatEmptySeq
  <1> QED BY <1>1, <1>3 DEF ByteInv, Conservation, Bytes

\* Send and its loop, and Send(File).
LEMMA ByteSending ==
  ASSUME SenderInv, ByteInv, loop # "gone",
         Sending \/ \E f \in Files : SendFile(f)
  PROVE  ByteInv'
  <1>1. /\ accepted = (wire \o Bytes(buffered)) \o acc
        /\ acc \in Seq(Byte) /\ wire \in Seq(Byte) /\ accepted \in Seq(Byte)
        /\ buffered \in Seq(Op) /\ Bytes(buffered) \in Seq(Byte)
    BY BytesType DEF ByteInv, Conservation, Bytes, SenderInv, TypeOK
  <1>2. ASSUME NEW t \in Producers \cup {Worker}, NEW d \in Payloads, SendBegin(t, d)
        PROVE  ByteInv'
    <2>1. /\ mutex = None /\ acc' = d /\ accepted' = accepted \o d /\ mutex' = t
          /\ UNCHANGED <<buffered, wire, loop>>
      BY <1>2 DEF SendBegin, loopVars
    <2>2. t # None /\ loop # "drain"
      BY <2>1, ThreadsAssumption DEF SenderInv, LockInv
    <2>3. accepted = wire \o Bytes(buffered)
      <3>1. wire \o Bytes(buffered) \in Seq(Byte)
        BY <1>1, ConcatProperties
      <3>2. acc = <<>>
        BY <2>1 DEF ByteInv
      <3> QED BY <1>1, <3>1, <3>2, ConcatEmptySeq
    <2> QED BY <2>1, <2>2, <2>3 DEF ByteInv, Conservation, Bytes
  <1>3. CASE Coalesce
    <2> DEFINE l == Last(buffered).data
               b == Bytes(Front(buffered))
    <2>1. /\ mutex # None /\ loop # "drain" /\ buffered # <<>>
          /\ acc' = l \o acc /\ buffered' = Front(buffered)
          /\ UNCHANGED <<mutex, loop, wire, accepted>>
      BY <1>3 DEF Coalesce, InSend, EndsInBuffer, loopVars, historyVars
    <2>2. Bytes(buffered) = b \o l
      BY <1>1, <2>1, BytesLast
    <2>3. l \in Seq(Byte) /\ b \in Seq(Byte)
      <3>1. Last(buffered) \in Op /\ Front(buffered) \in Seq(Op)
        BY <1>1, <2>1, LastFront
      <3> QED BY <3>1, BytesType DEF Op
    <2>4. accepted = (wire \o b) \o (l \o acc)
      <3>1. /\ wire \in Seq(Byte) /\ b \in Seq(Byte)
            /\ l \in Seq(Byte) /\ acc \in Seq(Byte)
        BY <1>1, <2>3
      <3>2. (wire \o (b \o l)) \o acc = (wire \o b) \o (l \o acc)
        <4> HIDE DEF b, l
        <4> QED BY <3>1
      <3> QED BY <1>1, <2>2, <3>2
    <2>5. Bytes(buffered)' = b
      BY <2>1 DEF Bytes
    <2> QED BY <2>1, <2>4, <2>5 DEF ByteInv, Conservation, Bytes
  <1>4. CASE SendEnd
    <2> DEFINE op == BufferOp(acc)
    <2>1. /\ buffered' = Append(buffered, op) /\ acc' = <<>>
          /\ UNCHANGED <<loop, wire, accepted>>
      BY <1>4 DEF SendEnd, loopVars, historyVars
    <2>2. op \in Op /\ op.data = acc
      BY <1>1 DEF BufferOp, Op, SenderInv, TypeOK
    <2>3. Bytes(Append(buffered, op)) = Bytes(buffered) \o acc
      BY <1>1, <2>2, BytesAppend
    <2>4. accepted = (wire \o (Bytes(buffered) \o acc)) \o <<>>
      <3>1. accepted = wire \o (Bytes(buffered) \o acc)
        <4> DEFINE b == Bytes(buffered)
        <4>1. wire \in Seq(Byte) /\ b \in Seq(Byte) /\ acc \in Seq(Byte)
          BY <1>1
        <4>2. (wire \o b) \o acc = wire \o (b \o acc)
          <5> HIDE DEF b
          <5> QED BY <4>1
        <4> QED BY <1>1, <4>2
      <3> QED BY <1>1, <3>1, ConcatEmptySeq
    <2>5. Bytes(buffered)' = Bytes(buffered) \o acc
      BY <2>1, <2>3 DEF Bytes
    <2> QED BY <2>1, <2>4, <2>5 DEF ByteInv, Conservation, Bytes
  <1>5. ASSUME NEW f \in Files, SendFile(f) PROVE ByteInv'
    <2> DEFINE op == FileOp(f)
    <2>1. /\ buffered' = Append(buffered, op) /\ mutex = None /\ accepted' = accepted \o f
          /\ UNCHANGED <<acc, loop, wire, mutex>>
      BY <1>5 DEF SendFile, loopVars
    <2>2. f \in Seq(Byte)
      BY DataAssumption
    <2>3. op \in Op /\ op.data = f
      BY <2>2 DEF FileOp, Op, SenderInv, TypeOK
    <2>4. Bytes(Append(buffered, op)) = Bytes(buffered) \o f
      BY <1>1, <2>3, BytesAppend
    <2>5. acc = <<>>
      BY <2>1 DEF ByteInv
    <2>6. accepted \o f = (wire \o (Bytes(buffered) \o f)) \o <<>>
      <3>1. accepted = wire \o Bytes(buffered)
        BY <1>1, <2>5, ConcatProperties, ConcatEmptySeq
      <3>2. accepted \o f = wire \o (Bytes(buffered) \o f)
        <4> DEFINE b == Bytes(buffered)
        <4>1. wire \in Seq(Byte) /\ b \in Seq(Byte) /\ f \in Seq(Byte)
          BY <1>1, <2>2
        <4>2. (wire \o b) \o f = wire \o (b \o f)
          <5> HIDE DEF b
          <5> QED BY <4>1
        <4> QED BY <3>1, <4>2
      <3>3. accepted \o f \in Seq(Byte)
        BY <1>1, <2>2, ConcatProperties
      <3> QED BY <3>2, <3>3, ConcatEmptySeq
    <2>7. Bytes(buffered)' = Bytes(buffered) \o f
      BY <2>1, <2>4 DEF Bytes
    <2> QED BY <2>1, <2>5, <2>6, <2>7 DEF ByteInv, Conservation, Bytes
  <1> QED BY <1>2, <1>3, <1>4, <1>5 DEF Sending

\* SendBuffered: a part of the first operation moves to the socket.
LEMMA ByteWrite ==
  ASSUME SenderInv, ByteInv, NEW n \in 1..Capacity, DrainWrite(n)
  PROVE  ByteInv'
  <1> DEFINE op == Head(buffered)
             s == SubSeq(op.data, 1, n)
             r == SubSeq(op.data, n + 1, Len(op.data))
             u == Bytes(Tail(buffered))
  <1>1. /\ loop = "drain" /\ buffered # <<>> /\ n <= Len(op.data)
        /\ wire' = wire \o s
        /\ buffered' = [buffered EXCEPT ![1].data = r]
        /\ UNCHANGED <<mutex, acc, loop, accepted>>
    BY DEF DrainWrite, loopVars
  <1>2. /\ acc = <<>> /\ wire \in Seq(Byte) /\ buffered \in Seq(Op)
        /\ accepted = (wire \o Bytes(buffered)) \o acc
    BY <1>1 DEF ByteInv, Conservation, Bytes, SenderInv, TypeOK
  <1>3. /\ op \in Op /\ op = buffered[1] /\ Tail(buffered) \in Seq(Op)
        /\ Len(buffered) \in Nat /\ Len(buffered) # 0 /\ op.data \in Seq(Byte)
    <2>1. /\ op \in Op /\ Tail(buffered) \in Seq(Op) /\ op = buffered[1]
          /\ Len(buffered) \in Nat /\ Len(buffered) # 0
      BY <1>1, <1>2, HeadTailProperties, EmptySeq, LenProperties
    <2> QED BY <2>1 DEF Op
  <1>4. u \in Seq(Byte)
    BY <1>3, BytesType
  <1>5. s \in Seq(Byte) /\ r \in Seq(Byte) /\ op.data = s \o r
    <2>1. n \in 1..Len(op.data)
      BY <1>1, <1>3, BoundsAssumption, LenProperties
    <2> DEFINE q == op.data
    <2> HIDE DEF q
    <2>2. q \in Seq(Byte) /\ n \in 1..Len(q) /\ Len(q) \in Nat
      BY <1>3, <2>1, LenProperties DEF q
    <2>3. SubSeq(q, 1, n) \in Seq(Byte) /\ SubSeq(q, n + 1, Len(q)) \in Seq(Byte)
      BY <2>2, Split
    <2>4. 1 \in 1..(Len(q) + 1) /\ n \in (1 - 1)..Len(q) /\ Len(q) \in n..Len(q)
      BY <2>2
    <2>5. SubSeq(q, 1, n) \o SubSeq(q, n + 1, Len(q)) = SubSeq(q, 1, Len(q))
      BY <2>2, <2>4, ConcatAdjacentSubSeq
    <2>6. SubSeq(q, 1, Len(q)) = q
      BY <2>2, SubSeqFull
    <2> QED BY <2>3, <2>5, <2>6 DEF q
  <1>6. Bytes(buffered) = (s \o r) \o u
    BY <1>1, <1>2, <1>5, BytesHead
  <1>7. Bytes(buffered)' = r \o u
    <2> DEFINE p == [op EXCEPT !.data = r]
               q == [buffered EXCEPT ![1] = p]
    <2>1. p \in Op /\ p.data = r
      BY <1>3, <1>5 DEF Op
    <2>2. 1 \in 1..Len(buffered)
      BY <1>3
    <2>3. /\ q \in Seq(Op) /\ Len(q) = Len(buffered)
          /\ \A j \in 1..Len(buffered) : q[j] = IF j = 1 THEN p ELSE buffered[j]
      <3> HIDE DEF p
      <3> QED BY <1>2, <2>1, <2>2, ExceptSeq
    <2>4. buffered' = q
      BY <1>1, <1>3
    <2> HIDE DEF q, p
    <2>5. q # <<>> /\ Head(q) = p
      BY <2>2, <2>3, <1>3
    <2>6. Tail(q) = Tail(buffered)
      <3>1. /\ Tail(q) \in Seq(Op) /\ Len(Tail(q)) = Len(buffered) - 1
            /\ \A i \in 1..Len(Tail(q)) : Tail(q)[i] = q[i + 1]
        BY <2>3, <2>5, HeadTailProperties
      <3>2. /\ Tail(buffered) \in Seq(Op) /\ Len(Tail(buffered)) = Len(buffered) - 1
            /\ \A i \in 1..Len(Tail(buffered)) : Tail(buffered)[i] = buffered[i + 1]
        BY <1>1, <1>2, HeadTailProperties
      <3>3. \A i \in 1..Len(Tail(q)) : Tail(q)[i] = Tail(buffered)[i]
        <4> TAKE i \in 1..Len(Tail(q))
        <4>1. i + 1 \in 1..Len(buffered) /\ i + 1 # 1 /\ i \in 1..Len(Tail(buffered))
          BY <1>3, <3>1, <3>2
        <4>2. q[i + 1] = buffered[i + 1]
          BY <2>3, <4>1
        <4> QED BY <3>1, <3>2, <4>1, <4>2
      <3> QED BY <3>1, <3>2, <3>3, SeqEqual
    <2>7. Bytes(q) = r \o u
      BY <2>1, <2>3, <2>5, <2>6, BytesHead
    <2> QED BY <2>4, <2>7 DEF Bytes
  <1>8. accepted = ((wire \o s) \o (r \o u)) \o acc
    <2>1. wire \in Seq(Byte) /\ s \in Seq(Byte) /\ r \in Seq(Byte) /\ u \in Seq(Byte)
      BY <1>2, <1>4, <1>5
    <2>2. wire \o ((s \o r) \o u) = (wire \o s) \o (r \o u)
      <3> HIDE DEF s, r, u
      <3> QED BY <2>1
    <2> QED BY <1>2, <1>6, <2>2
  <1> QED BY <1>1, <1>2, <1>7, <1>8 DEF ByteInv, Conservation, Bytes

\* The other steps of SendBuffered: only operations without bytes go.
LEMMA ByteDrain ==
  ASSUME SenderInv, ByteInv, DrainBegin \/ DrainPop \/ DrainStall \/ DrainEmpty
  PROVE  ByteInv'
  <1>1. CASE DrainPop
    <2>1. /\ loop = "drain" /\ buffered # <<>> /\ Head(buffered).data = <<>>
          /\ buffered' = Tail(buffered)
          /\ UNCHANGED <<mutex, acc, loop, wire, accepted>>
      BY <1>1 DEF DrainPop, Done, loopVars, historyVars
    <2>2. buffered \in Seq(Op) /\ Tail(buffered) \in Seq(Op)
      BY <2>1, HeadTailProperties DEF SenderInv, TypeOK
    <2>3. Bytes(buffered) = Bytes(Tail(buffered))
      BY <2>1, <2>2, BytesHead, BytesType, ConcatEmptySeq
    <2>4. Bytes(buffered)' = Bytes(buffered)
      BY <2>1, <2>3 DEF Bytes
    <2> QED BY <2>1, <2>4 DEF ByteInv, Conservation, Bytes
  <1>2. CASE DrainBegin
    BY <1>2 DEF DrainBegin, ByteInv, Conservation, historyVars
  <1>3. CASE DrainStall \/ DrainEmpty
    BY <1>3 DEF DrainStall, DrainEmpty, ByteInv, Conservation, historyVars
  <1> QED BY <1>1, <1>2, <1>3

\* Every step keeps the bytes.
LEMMA ByteNext == SenderInv /\ ByteInv /\ [Next]_vars => ByteInv'
  <1> SUFFICES ASSUME SenderInv, ByteInv, [Next]_vars PROVE ByteInv'
    OBVIOUS
  <1>1. CASE UNCHANGED vars
    BY <1>1 DEF vars, senderVars, loopVars, historyVars, ByteInv, Conservation
  <1> SUFFICES ASSUME loop # "gone",
                      Sending \/ Draining \/ Processing \/ Looping \/ Notifying \/ Client
               PROVE  ByteInv'
    BY <1>1 DEF Next, Ended
  <1>2. CASE Sending
    BY <1>2, ByteSending
  <1>3. CASE Draining
    BY <1>3, ByteWrite, ByteDrain DEF Draining
  <1>4. CASE Processing
    <2>1. CASE \E f \in Files : SendFile(f)
      BY <2>1, ByteSending
    <2>2. CASE Close \/ Attach \/ Detach \/ ProcessEnd
      BY <2>2 DEF Close, Attach, Detach, ProcessEnd, senderVars, loopVars, historyVars,
                  ByteInv, Conservation
    <2> QED BY <1>4, <2>1, <2>2 DEF Processing
  <1>5. CASE Looping
    <2>1. CASE Poll \/ Dispatch \/ ReadData \/ ReadNothing \/ DestroyProcessor \/ FlushEnd
      BY <2>1 DEF Poll, Dispatch, Handler, ReadData, ReadNothing, DestroyProcessor, FlushEnd,
                  senderVars, historyVars, ByteInv, Conservation
    <2>2. CASE DestroySender
      BY <2>2 DEF DestroySender, ByteInv, Conservation
    <2> QED BY <1>5, <2>1, <2>2 DEF Looping
  <1>6. CASE Notifying
    BY <1>6 DEF Notifying, NotifyBegin, NotifyEnd, senderVars, loopVars, historyVars,
                ByteInv, Conservation
  <1>7. CASE Client
    <2>1. ASSUME NEW i \in DOMAIN buffered, Truncate(i) PROVE ByteInv'
      <3>1. /\ buffered' = [buffered EXCEPT ![i].eof = TRUE]
            /\ UNCHANGED <<mutex, acc, loop, wire, accepted>>
        BY <2>1 DEF Truncate, loopVars, historyVars
      <3>2. buffered \in Seq(Op) /\ i \in 1..Len(buffered)
        BY LenProperties DEF SenderInv, TypeOK
      <3> DEFINE q == [buffered EXCEPT ![i] = [buffered[i] EXCEPT !.eof = TRUE]]
      <3>3. /\ q \in Seq(Op) /\ Len(q) = Len(buffered)
            /\ \A j \in 1..Len(buffered) : q[j].data = buffered[j].data
        <4>1. buffered[i] \in Op
          BY <3>2, ElementOfSeq
        <4> DEFINE e == [buffered[i] EXCEPT !.eof = TRUE]
        <4>2. e \in Op /\ e.data = buffered[i].data
          BY <4>1 DEF Op
        <4> HIDE DEF e
        <4>3. /\ [buffered EXCEPT ![i] = e] \in Seq(Op)
              /\ Len([buffered EXCEPT ![i] = e]) = Len(buffered)
              /\ \A j \in 1..Len(buffered) :
                   [buffered EXCEPT ![i] = e][j] = IF j = i THEN e ELSE buffered[j]
          BY <3>2, <4>2, ExceptSeq
        <4>4. \A j \in 1..Len(buffered) : [buffered EXCEPT ![i] = e][j].data = buffered[j].data
          BY <4>2, <4>3
        <4> QED BY <4>3, <4>4 DEF e
      <3>4. buffered' = q
        BY <3>1
      <3> HIDE DEF q
      <3>5. Bytes(q) = Bytes(buffered)
        BY <3>2, <3>3, BytesSame
      <3>6. Bytes(buffered)' = Bytes(buffered)
        BY <3>4, <3>5 DEF Bytes
      <3> QED BY <3>1, <3>6 DEF ByteInv, Conservation, Bytes
    <2>2. CASE ClientSend \/ ClientRead \/ ClientFin \/ ClientReset
      BY <2>2 DEF ClientSend, ClientRead, ClientFin, ClientReset, senderVars, loopVars,
                  historyVars, ByteInv, Conservation
    <2> QED BY <1>7, <2>1, <2>2 DEF Client
  <1> QED BY <1>2, <1>3, <1>4, <1>5, <1>6, <1>7

\* No byte is lost, repeated or out of place, for any payloads, files, socket
\* buffer and interleaving of callers (Send, SendBuffered).
THEOREM BytesConserved == Spec => []Conservation
  <1>1. ByteInv => Conservation
    BY DEF ByteInv
  <1> QED BY <1>1, ByteInit, ByteNext, SenderInvariant, PTL DEF Spec

-----------------------------------------------------------------------------
(* The refinement: each step of the sender, of its callers, of the kernel  *)
(* and of the client is a step of the byte stream or leaves it alone.      *)

Open == Writable(sock) /\ ~killed

\* What is extended has the old value as a prefix.
LEMMA PrefixConcat ==
  ASSUME NEW a \in Seq(Byte), NEW b \in Seq(Byte)
  PROVE  IsPrefix(a, a \o b)
  <1> DEFINE c == a \o b
             n == Len(a)
  <1>1. /\ n \in Nat /\ Len(b) \in Nat
        /\ c \in Seq(Byte) /\ Len(c) = n + Len(b)
        /\ \A i \in 1..n : c[i] = a[i] /\ a[i] \in Byte
    BY ConcatProperties, LenProperties, ElementOfSeq
  <1> HIDE DEF c, n
  <1>2. /\ SubSeq(a, 1, n) \in Seq(Byte) /\ SubSeq(c, 1, n) \in Seq(Byte)
        /\ Len(SubSeq(a, 1, n)) = n /\ Len(SubSeq(c, 1, n)) = n
        /\ \A i \in 1..n : SubSeq(a, 1, n)[i] = a[i] /\ SubSeq(c, 1, n)[i] = c[i]
    <2>1. \A i \in 1..n : a[i] \in Byte /\ c[i] \in Byte
      BY <1>1
    <2>2. /\ SubSeq(a, 1, n) \in Seq(Byte)
          /\ Len(SubSeq(a, 1, n)) = IF 1 <= n THEN n - 1 + 1 ELSE 0
          /\ \A i \in 1..(n - 1 + 1) : SubSeq(a, 1, n)[i] = a[1 + i - 1]
      BY <1>1, <2>1, SubSeqProperties
    <2>3. /\ SubSeq(c, 1, n) \in Seq(Byte)
          /\ Len(SubSeq(c, 1, n)) = IF 1 <= n THEN n - 1 + 1 ELSE 0
          /\ \A i \in 1..(n - 1 + 1) : SubSeq(c, 1, n)[i] = c[1 + i - 1]
      BY <1>1, <2>1, SubSeqProperties
    <2> QED BY <1>1, <2>2, <2>3
  <1>3. SubSeq(a, 1, n) = SubSeq(c, 1, n)
    <2>1. \A i \in 1..n : SubSeq(a, 1, n)[i] = SubSeq(c, 1, n)[i]
      BY <1>1, <1>2
    <2> DEFINE p == SubSeq(a, 1, n)
               q == SubSeq(c, 1, n)
    <2> HIDE DEF p, q
    <2>2. p \in Seq(Byte) /\ q \in Seq(Byte) /\ Len(p) = n /\ Len(q) = n
      BY <1>2 DEF p, q
    <2>3. p = q
      BY <2>1, <2>2, SeqEqual DEF p, q
    <2> QED BY <2>3 DEF p, q
  <1>4. n <= Len(c)
    BY <1>1
  <1> QED BY <1>3, <1>4 DEF IsPrefix, c, n

\* Send takes bytes.
LEMMA CallsAccept ==
  ASSUME SenderInv,
         \/ \E t \in Producers \cup {Worker}, d \in Payloads : SendBegin(t, d)
         \/ \E f \in Files : SendFile(f)
  PROVE  Stream!Accept
  <1>1. PICK d \in Payloads \cup Files : accepted' = accepted \o d
    BY DEF SendBegin, SendFile
  <1>2. UNCHANGED <<wire, Open>>
    BY DEF SendBegin, SendFile, kernelVars, Open
  <1>3. accepted \in Seq(Byte) /\ d \in Seq(Byte)
    BY DataAssumption DEF SenderInv, TypeOK
  <1>4. accepted \o d \in Seq(Byte) /\ IsPrefix(accepted, accepted \o d)
    BY <1>3, PrefixConcat, ConcatProperties
  <1>5. accepted' \in Seq(Byte) /\ Stream!IsPrefix(accepted, accepted')
    BY <1>1, <1>4 DEF IsPrefix, Stream!IsPrefix
  <1> QED BY <1>2, <1>5, Zenon DEF Stream!Accept, Open

\* SendBuffered delivers the next of them to a socket that is open.
LEMMA WriteDelivers ==
  ASSUME SenderInv, ByteInv, ByteInv', SenderInv', ~killed, NEW n \in 1..Capacity, DrainWrite(n)
  PROVE  Stream!Deliver
  <1> DEFINE s == SubSeq(Head(buffered).data, 1, n)
             b == Bytes(buffered')
  <1>1. /\ Open /\ wire' = wire \o s /\ UNCHANGED <<accepted, Open>>
        /\ loop = "drain" /\ loop' = "drain"
        /\ buffered # <<>> /\ n <= Len(Head(buffered).data)
    BY DEF DrainWrite, Open, loopVars
  <1>2. /\ wire \in Seq(Byte) /\ wire' \in Seq(Byte) /\ buffered \in Seq(Op)
        /\ buffered' \in Seq(Op) /\ acc' = <<>>
    BY <1>1 DEF SenderInv, TypeOK, ByteInv
  <1>3. s \in Seq(Byte)
    <2>1. Head(buffered) \in Op
      BY <1>1, <1>2, HeadTailProperties
    <2>2. Head(buffered).data \in Seq(Byte)
      BY <2>1 DEF Op
    <2>3. n \in 1..Len(Head(buffered).data)
      BY <1>1, <2>2, BoundsAssumption, LenProperties
    <2> QED BY <2>2, <2>3, Split
  <1>4. IsPrefix(wire, wire')
    <2> HIDE DEF s
    <2> QED BY <1>1, <1>2, <1>3, PrefixConcat
  <1>5. b \in Seq(Byte)
    BY <1>2, BytesType
  <1>6. accepted = wire' \o b
    <2>1. accepted' = (wire' \o b) \o acc'
      BY <1>1 DEF ByteInv, Conservation, Bytes
    <2>2. wire' \o b \in Seq(Byte)
      BY <1>2, <1>5, ConcatProperties
    <2> QED BY <1>1, <1>2, <2>1, <2>2, ConcatEmptySeq
  <1>7. IsPrefix(wire', accepted)
    <2> HIDE DEF b
    <2> QED BY <1>2, <1>5, <1>6, PrefixConcat
  <1>8. Open /\ accepted' = accepted /\ Open' = Open
    BY <1>1
  <1>9. Stream!IsPrefix(wire, wire') /\ Stream!IsPrefix(wire', accepted)
    BY <1>4, <1>7 DEF IsPrefix, Stream!IsPrefix
  <1> QED BY <1>8, <1>9, Zenon DEF Stream!Deliver, Open

\* Nothing else concerns the bytes, and no socket that refused them ever
\* takes them again.
LEMMA OthersShut ==
  ASSUME SenderInv, ~killed, UNCHANGED <<accepted, wire>>,
         Sending \/ Draining \/ Processing \/ Looping \/ Notifying \/ Client
  PROVE  Stream!Shut \/ UNCHANGED Stream!vars
  <1>1. ~Open => ~Open'
    <2>1. CASE Sending
      BY <2>1 DEF Sending, SendBegin, Coalesce, SendEnd, kernelVars, historyVars, Open
    <2>2. CASE Draining
      BY <2>2 DEF Draining, DrainBegin, DrainWrite, DrainPop, DrainStall, DrainEmpty,
                  kernelVars, historyVars, Open, Writable
    <2>3. CASE Processing
      BY <2>3 DEF Processing, SendFile, Close, Attach, Detach, ProcessEnd, ShutDown,
                  kernelVars, historyVars, Open, Writable
    <2>4. CASE Looping
      BY <2>4 DEF Looping, Poll, Dispatch, ReadData, ReadNothing, DestroyProcessor,
                  FlushEnd, DestroySender, ShutDown, kernelVars, historyVars, Open, Writable
    <2>5. CASE Notifying
      BY <2>5 DEF Notifying, NotifyBegin, NotifyEnd, kernelVars, historyVars, Open
    <2>6. CASE Client
      BY <2>6 DEF Client, ClientSend, ClientRead, ClientFin, ClientReset, Truncate,
                  kernelVars, historyVars, Open, Writable
    <2> QED BY <2>1, <2>2, <2>3, <2>4, <2>5, <2>6
  <1>2. Open \in BOOLEAN /\ Open' \in BOOLEAN
    BY DEF Open, Writable
  <1>3. Open' = Open \/ Open' = FALSE
    BY <1>1, <1>2
  <1> QED BY <1>3 DEF Stream!Shut, Stream!vars, Open

\* Every step of the sender is a step of the byte stream or a stutter.
LEMMA StreamStep == SenderInv /\ SenderInv' /\ ByteInv /\ ByteInv' /\ [Next]_vars => [Stream!Next]_Stream!vars
  <1> SUFFICES ASSUME SenderInv, SenderInv', ByteInv, ByteInv', [Next]_vars
               PROVE  Stream!Next \/ UNCHANGED Stream!vars
    OBVIOUS
  <1>1. CASE UNCHANGED vars
    BY <1>1 DEF vars, kernelVars, historyVars, Stream!vars
  <1>2. CASE ~killed /\ (Sending \/ Draining \/ Processing \/ Looping \/ Notifying \/ Client)
    <2>1. CASE \/ \E t \in Producers \cup {Worker}, d \in Payloads : SendBegin(t, d)
               \/ \E f \in Files : SendFile(f)
      BY <2>1, CallsAccept DEF Stream!Next
    <2>2. CASE \E n \in 1..Capacity : DrainWrite(n)
      BY <1>2, <2>2, WriteDelivers DEF Stream!Next
    <2>3. CASE UNCHANGED <<accepted, wire>>
      BY <1>2, <2>3, OthersShut DEF Stream!Next
    <2>4. CASE Coalesce \/ SendEnd \/ DrainBegin \/ DrainPop \/ DrainStall \/ DrainEmpty
               \/ Close \/ Attach \/ Detach \/ ProcessEnd
      BY <2>3, <2>4 DEF Coalesce, SendEnd, DrainBegin, DrainPop, DrainStall, DrainEmpty,
                  Close, Attach, Detach, ProcessEnd, historyVars
    <2>5. CASE Looping \/ Notifying \/ Client
      BY <2>3, <2>5 DEF Looping, Poll, Dispatch, ReadData, ReadNothing, DestroyProcessor,
                  FlushEnd, DestroySender, Notifying, NotifyBegin, NotifyEnd, Client, ClientSend,
                  ClientRead, ClientFin, ClientReset, Truncate, historyVars
    <2> QED BY <1>2, <2>1, <2>2, <2>4, <2>5 DEF Sending, Draining, Processing
  <1> QED BY <1>1, <1>2 DEF Next, Ended

\* The sender implements the byte stream its callers are promised
\* (network.hpp, TcpSender), for any producers, payloads, files and socket
\* buffer.
THEOREM SenderIsByteStream == Spec => StreamSpec
  <1>1. Init => Stream!Init
    BY DEF Init, Stream!Init, Writable
  <1>2. Spec => []ByteInv
    BY ByteInit, ByteNext, SenderInvariant, PTL DEF Spec
  <1> QED BY <1>1, <1>2, StreamStep, SenderInvariant, PTL DEF Spec, StreamSpec, Stream!Spec
=============================================================================
