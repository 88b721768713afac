---------------------------- MODULE CaptureProofs ----------------------------
(***************************************************************************)
(* Proofs about Capture: whatever calls fail, the bytes that the receivers *)
(* read do not change under them, frames come in order, and every buffer   *)
(* is with the driver, in use, or lost to a failure. The results hold for  *)
(* any number of frames and failures.                                      *)
(***************************************************************************)
EXTENDS Capture, SequenceTheorems, FiniteSetTheorems, TLAPS

Where == {"open", "request", "bind", "streamon", "epoll", "wait", "process", "requeue", "crashed"}

TypeOK ==
  /\ pc \in Where
  /\ granted \in 0..Count /\ mapped \in 0..granted /\ broken \subseteq Index
  /\ empty \in Seq(Index) /\ filled \in Seq(Index)
  /\ content \in [Index -> Nat] /\ shot \in Nat
  /\ hand \in {NoBuf} \cup [index : Index, frame : Nat]
  /\ shown \in Seq(Nat) /\ lost \subseteq Index /\ errors \in Nat

Held == hand # NoBuf

\* Where the thread is tells what it has and what was set up.
PlaceInv ==
  /\ Held <=> pc \in {"process", "requeue", "crashed"}
  /\ pc = "crashed" => hand.index \in broken
  /\ pc \in {"open", "request"} => mapped = 0
  /\ pc \in {"open", "request"} => granted = 0

Has(s, b) == \E i \in 1..Len(s) : s[i] = b
Once(s)   == \A i, j \in 1..Len(s) : s[i] = s[j] => i = j

Queued(b) == Has(empty, b)
Full(b)   == Has(filled, b)
Here(b)   == Held /\ hand.index = b

\* A buffer that was bound, and no other, is in one place, once.
BufferInv ==
  /\ \A b \in Index : b < mapped <=> Queued(b) \/ Full(b) \/ Here(b) \/ b \in lost
  /\ \A b \in Index : /\ ~ (Queued(b) /\ Full(b)) /\ ~ (Queued(b) /\ Here(b))
                      /\ ~ (Full(b) /\ Here(b))
                      /\ b \in lost => ~ Queued(b) /\ ~ Full(b) /\ ~ Here(b)
  /\ Once(empty)
  /\ Once(filled)

\* The frames are shown in the order of their numbers, the one in use comes
\* after those that were shown, and those that wait come after it.
FrameInv ==
  /\ Held => content[hand.index] = hand.frame /\ hand.frame \in 1..shot
  /\ \A i \in 1..Len(filled) : content[filled[i]] \in 1..shot
  /\ \A i, j \in 1..Len(filled) : i < j => content[filled[i]] < content[filled[j]]
  /\ \A i \in 1..Len(filled) : Held => hand.frame < content[filled[i]]
  /\ \A i \in 1..Len(shown) : shown[i] \in 1..shot
  /\ \A i, j \in 1..Len(shown) : i < j => shown[i] < shown[j]
  /\ \A i \in 1..Len(shown), j \in 1..Len(filled) : shown[i] < content[filled[j]]
  /\ \A i \in 1..Len(shown) : pc = "process" => shown[i] < hand.frame

\* A buffer is lost or has a bad address only by a call that failed, and so
\* is a camera that the loop does not hear of.
ErrorInv ==
  /\ Cardinality(lost) + Cardinality(broken) =< errors
  /\ granted > 1 /\ mapped < granted => errors > 0 \/ pc = "bind"
  /\ granted > 1 /\ epfd # "camera" => errors > 0 \/ pc \in {"bind", "streamon", "epoll"}
  /\ pc \in {"open", "request", "bind", "streamon", "epoll"} => epfd = "unset"

CaptureInv ==
  /\ TypeOK
  /\ PlaceInv
  /\ BufferInv
  /\ FrameInv
  /\ ErrorInv

-----------------------------------------------------------------------------
\* Lemma: an element at the end of a sequence.
LEMMA Appended ==
  ASSUME NEW S, NEW s \in Seq(S), NEW x \in S
  PROVE  /\ Append(s, x) \in Seq(S) /\ Len(Append(s, x)) = Len(s) + 1 /\ Len(s) \in Nat
         /\ \A i \in 1..Len(s) : Append(s, x)[i] = s[i] /\ s[i] \in S
         /\ Append(s, x)[Len(s) + 1] = x
         /\ \A i \in 1..(Len(s) + 1) : i \in 1..Len(s) \/ i = Len(s) + 1
         /\ 1..Len(s) \subseteq 1..(Len(s) + 1) /\ Len(s) + 1 \in 1..(Len(s) + 1)
OBVIOUS

\* Lemma: what the sequence has then,
LEMMA AppendedHas ==
  ASSUME NEW S, NEW s \in Seq(S), NEW x \in S, NEW b \in S
  PROVE  Has(Append(s, x), b) <=> Has(s, b) \/ b = x
<1> DEFINE t == Append(s, x)
<1>1. /\ Len(t) = Len(s) + 1
      /\ \A i \in 1..Len(s) : t[i] = s[i] /\ i \in 1..Len(t)
      /\ t[Len(s) + 1] = x /\ Len(s) + 1 \in 1..Len(t)
      /\ \A i \in 1..Len(t) : i \in 1..Len(s) \/ i = Len(s) + 1
  BY Appended
<1> HIDE DEF t
<1>2. ASSUME NEW i \in 1..Len(t), t[i] = b
      PROVE  (\E k \in 1..Len(s) : s[k] = b) \/ b = x
  BY <1>1, <1>2
<1>3. ASSUME NEW i \in 1..Len(s), s[i] = b
      PROVE  \E k \in 1..Len(t) : t[k] = b
  BY <1>1, <1>3
<1>4. b = x => \E k \in 1..Len(t) : t[k] = b
  BY <1>1
<1>5. Has(t, b) <=> Has(s, b) \/ b = x
  BY <1>2, <1>3, <1>4 DEF Has
<1> QED
  BY <1>5 DEF t

\* Lemma: which is still without repetitions if the element is new.
LEMMA AppendedOnce ==
  ASSUME NEW S, NEW s \in Seq(S), NEW x \in S, Once(s), ~ Has(s, x)
  PROVE  Once(Append(s, x))
<1> DEFINE t == Append(s, x)
<1>1. /\ \A i \in 1..Len(s) : t[i] = s[i]
      /\ t[Len(s) + 1] = x
      /\ \A i \in 1..Len(t) : i \in 1..Len(s) \/ i = Len(s) + 1
  BY Appended
<1> HIDE DEF t
<1>2. ASSUME NEW i \in 1..Len(t), NEW j \in 1..Len(t), t[i] = t[j]
      PROVE  i = j
  BY <1>1, <1>2 DEF Once, Has
<1>3. Once(t)
  BY <1>2 DEF Once
<1> QED
  BY <1>3 DEF t

\* Lemma: the head is taken from a sequence.
LEMMA Dropped ==
  ASSUME NEW S, NEW s \in Seq(S), s # <<>>, NEW t, t = Tail(s)
  PROVE  /\ t \in Seq(S) /\ Len(s) \in Nat \ {0} /\ Len(t) = Len(s) - 1
         /\ Head(s) = s[1] /\ Head(s) \in S /\ 1 \in 1..Len(s)
         /\ \A i \in 1..Len(t) : i + 1 \in 1..Len(s) /\ 1 < i + 1 /\ t[i] = s[i + 1]
<1>1. t \in Seq(S) /\ Len(s) \in Nat \ {0} /\ Len(t) = Len(s) - 1
  OBVIOUS
<1>2. Head(s) = s[1] /\ Head(s) \in S
  OBVIOUS
<1>3. \A i \in 1..Len(t) : i + 1 \in 1..Len(s) /\ 1 < i + 1 /\ t[i] = s[i + 1]
  BY <1>1
<1>4. 1 \in 1..Len(s)
  BY <1>1
<1> QED
  BY <1>1, <1>2, <1>3, <1>4

\* Lemma: and from one without repetitions, it is gone.
LEMMA DroppedOnce ==
  ASSUME NEW S, NEW s \in Seq(S), s # <<>>, Once(s)
  PROVE  /\ Once(Tail(s))
         /\ \A b \in S : Has(Tail(s), b) <=> Has(s, b) /\ b # Head(s)
<1> DEFINE t == Tail(s)
<1>1. /\ Len(s) \in Nat \ {0} /\ Len(t) = Len(s) - 1 /\ Head(s) = s[1] /\ 1 \in 1..Len(s)
      /\ \A i \in 1..Len(t) : i + 1 \in 1..Len(s) /\ 1 < i + 1 /\ t[i] = s[i + 1]
  BY Dropped
<1> HIDE DEF t
<1>2. ASSUME NEW b \in S, NEW i \in 1..Len(t), t[i] = b
      PROVE  (\E k \in 1..Len(s) : s[k] = b) /\ b # Head(s)
  <2>1. i + 1 \in 1..Len(s) /\ s[i + 1] = b /\ i + 1 # 1
    BY <1>1, <1>2
  <2> QED
    BY <1>1, <2>1 DEF Once
<1>3. ASSUME NEW b \in S, NEW i \in 1..Len(s), s[i] = b, b # Head(s)
      PROVE  \E k \in 1..Len(t) : t[k] = b
  <2>1. i # 1
    BY <1>1, <1>3
  <2>2. i - 1 \in 1..Len(t) /\ (i - 1) + 1 = i
    BY <1>1, <2>1
  <2>3. t[i - 1] = s[(i - 1) + 1]
    BY <1>1, <2>2
  <2> QED
    BY <1>3, <2>2, <2>3
<1>4. ASSUME NEW i \in 1..Len(t), NEW j \in 1..Len(t), t[i] = t[j]
      PROVE  i = j
  <2>1. i + 1 = j + 1
    BY <1>1, <1>4 DEF Once
  <2>2. i \in Int /\ j \in Int
    BY <1>1
  <2> QED
    BY <2>1, <2>2
<1>5. Once(t)
  BY <1>4 DEF Once
<1>6. \A b \in S : Has(t, b) <=> Has(s, b) /\ b # Head(s)
  BY <1>2, <1>3 DEF Has
<1> QED
  BY <1>5, <1>6 DEF t

\* Lemma: sets of buffers are finite.
LEMMA CountOneMore ==
  ASSUME TypeOK, NEW S, S \subseteq Index, NEW x
  PROVE  /\ IsFiniteSet(S) /\ Cardinality(S) \in Nat
         /\ Cardinality(S \cup {x}) \in Nat /\ Cardinality(S \cup {x}) =< Cardinality(S) + 1
<1>1. Count \in Nat
  BY CaptureAssumption
<1>2. IsFiniteSet(Index)
  BY <1>1, FS_Interval DEF Index
<1>3. IsFiniteSet(S)
  BY <1>2, FS_Subset
<1>4. Cardinality(S) \in Nat
  BY <1>3, FS_CardinalityType
<1>5. /\ IsFiniteSet(S \cup {x})
      /\ Cardinality(S \cup {x}) = IF x \in S THEN Cardinality(S) ELSE Cardinality(S) + 1
  BY <1>3, FS_AddElement
<1>6. CASE x \in S
  BY <1>3, <1>4, <1>5, <1>6
<1>7. CASE x \notin S
  BY <1>3, <1>4, <1>5, <1>7
<1> QED
  BY <1>6, <1>7

\* Lemma: the initial states.
LEMMA CaptureInit == Init => CaptureInv
<1> SUFFICES ASSUME Init
             PROVE  CaptureInv
  OBVIOUS
<1> USE DEF Init
<1>1. TypeOK
  <2>1. Count \in Nat
    BY CaptureAssumption
  <2>2. granted \in 0..Count /\ mapped \in 0..granted
    BY <2>1
  <2>3. content \in [Index -> Nat] /\ shot \in Nat /\ errors \in Nat
    OBVIOUS
  <2>4. empty \in Seq(Index) /\ filled \in Seq(Index) /\ shown \in Seq(Nat)
    OBVIOUS
  <2>5. pc \in Where /\ broken \subseteq Index /\ lost \subseteq Index
    BY DEF Where
  <2> QED
    BY <2>2, <2>3, <2>4, <2>5 DEF TypeOK
<1>2. PlaceInv
  BY DEF PlaceInv, Held
<1>3. BufferInv
  <2>1. \A b \in Index : ~ (b < 0)
    BY DEF Index
  <2>2. Len(empty) = 0 /\ Len(filled) = 0
    OBVIOUS
  <2>3. \A b \in Index : ~ Queued(b) /\ ~ Full(b) /\ ~ Here(b) /\ b \notin lost
    BY <2>2 DEF Queued, Full, Here, Held, Has
  <2>4. Once(empty) /\ Once(filled)
    BY <2>2 DEF Once
  <2> QED
    BY <2>1, <2>3, <2>4 DEF BufferInv
<1>4. FrameInv
  BY DEF FrameInv, Held
<1>5. ErrorInv
  <2>1. Cardinality({}) = 0
    BY FS_EmptySet
  <2> QED
    BY <2>1 DEF ErrorInv
<1> QED
  BY <1>1, <1>2, <1>3, <1>4, <1>5 DEF CaptureInv

\* Lemma: a step that leaves the buffers where they are, with no frame shown.
LEMMA BuffersSame ==
  ASSUME CaptureInv, UNCHANGED <<mapped, empty, filled, content, shot, hand, shown, lost>>,
         pc' = "process" => pc = "process"
  PROVE  BufferInv' /\ FrameInv'
<1>1. BufferInv'
  BY DEF CaptureInv, BufferInv, Queued, Full, Here, Held, Has, Once
<1>2. FrameInv'
  BY DEF CaptureInv, FrameInv, Held
<1> QED
  BY <1>1, <1>2

\* Lemma: the constructors, but for the binding of a buffer.
LEMMA SetupKeeps ==
  CaptureInv /\ (Open \/ Request \/ BindEnd \/ StreamOn \/ Epoll) => CaptureInv'
<1> SUFFICES ASSUME CaptureInv, Open \/ Request \/ BindEnd \/ StreamOn \/ Epoll
             PROVE  CaptureInv'
  OBVIOUS
<1>1. UNCHANGED <<mapped, broken, empty, filled, content, shot, hand, shown, lost>>
  BY DEF Open, Request, BindEnd, StreamOn, Epoll, setupVars, driverVars
<1>2. pc' \in Where \ {"process", "requeue", "crashed"}
  BY DEF Open, Request, BindEnd, StreamOn, Epoll, Where
<1>3. pc \notin {"process", "requeue", "crashed"}
  BY DEF Open, Request, BindEnd, StreamOn, Epoll
<1>4. errors' = errors \/ Fails
  BY DEF Open, Request, BindEnd, StreamOn, Epoll
<1>5. errors' \in Nat /\ errors' >= errors /\ (Fails => errors' > 0)
  BY <1>4 DEF Fails, CaptureInv, TypeOK
<1>6. granted' \in 0..Count /\ mapped \in 0..granted'
  <2>1. CASE Request
    BY <2>1, CaptureAssumption DEF Request, CaptureInv, TypeOK, PlaceInv
  <2>2. CASE ~ Request
    <3>1. granted' = granted
      BY <2>2 DEF Open, Request, BindEnd, StreamOn, Epoll, setupVars
    <3> QED
      BY <3>1 DEF CaptureInv, TypeOK
  <2> QED
    BY <2>1, <2>2
<1>7. TypeOK'
  BY <1>1, <1>2, <1>5, <1>6 DEF CaptureInv, TypeOK
<1>8. PlaceInv'
  <2>1. Held' <=> Held
    BY <1>1 DEF Held
  <2>2. pc' \notin {"open"} /\ (pc' = "request" => granted' = granted /\ pc = "open")
    BY DEF Open, Request, BindEnd, StreamOn, Epoll
  <2> QED
    BY <1>1, <1>2, <1>3, <2>1, <2>2 DEF CaptureInv, PlaceInv
<1>9. BufferInv' /\ FrameInv'
  BY <1>1, <1>2, BuffersSame
<1>10. ErrorInv'
  <2>1. Cardinality(lost) \in Nat /\ Cardinality(broken) \in Nat
    BY CountOneMore DEF CaptureInv, TypeOK
  <2>2. Cardinality(lost') + Cardinality(broken') =< errors'
    BY <1>1, <1>5, <2>1 DEF CaptureInv, ErrorInv, TypeOK
  <2>3. /\ granted' > 1 /\ mapped' < granted' => errors' > 0 \/ pc' = "bind"
        /\ granted' > 1 /\ epfd' # "camera" => errors' > 0 \/ pc' \in {"bind", "streamon", "epoll"}
        /\ pc' \in {"open", "request", "bind", "streamon", "epoll"} => epfd' = "unset"
    <3>1. CASE Open
      BY <3>1 DEF Open, CaptureInv, PlaceInv, ErrorInv
    <3>2. CASE Request
      BY <1>1, <1>5, <3>2 DEF Request, CaptureInv, PlaceInv, ErrorInv
    <3>3. CASE BindEnd
      BY <3>3 DEF BindEnd, setupVars, CaptureInv, TypeOK, ErrorInv
    <3>4. CASE StreamOn
      BY <1>5, <3>4 DEF StreamOn, CaptureInv, TypeOK, ErrorInv
    <3>5. CASE Epoll
      BY <1>5, <3>5 DEF Epoll, CaptureInv, TypeOK, ErrorInv
    <3> QED
      BY <3>1, <3>2, <3>3, <3>4, <3>5
  <2> QED
    BY <2>2, <2>3 DEF ErrorInv
<1> QED
  BY <1>7, <1>8, <1>9, <1>10 DEF CaptureInv

\* Lemma: BindBuffers: the next buffer is queued and mapped, or the loop ends.
LEMMA BindKeeps == CaptureInv /\ Bind => CaptureInv'
<1> SUFFICES ASSUME CaptureInv, Bind
             PROVE  CaptureInv'
  OBVIOUS
<1>1. /\ UNCHANGED <<fd, granted, epfd, on, filled, content, shot, hand, shown, lost>>
      /\ pc = "bind" /\ mapped < granted
  BY DEF Bind
<1>2. errors \in Nat /\ Count \in Nat /\ mapped \in Index /\ mapped \in Nat /\ ~ Held
  BY <1>1, CaptureAssumption DEF CaptureInv, TypeOK, PlaceInv, Index
<1>3. Cardinality(lost) \in Nat /\ Cardinality(broken) \in Nat
  BY CountOneMore DEF CaptureInv, TypeOK
<1>4. CASE pc' = "streamon"
  <2>1. Fails /\ UNCHANGED <<empty, mapped, broken>>
    BY <1>1, <1>4 DEF Bind
  <2>2. errors' = errors + 1
    BY <2>1 DEF Fails
  <2>3. TypeOK'
    BY <1>1, <1>2, <1>4, <2>1, <2>2 DEF CaptureInv, TypeOK, Where
  <2>4. PlaceInv'
    BY <1>1, <1>4, <2>1 DEF CaptureInv, PlaceInv, Held
  <2>5. BufferInv' /\ FrameInv'
    BY <1>1, <1>4, <2>1, BuffersSame
  <2>6. ErrorInv'
    BY <1>1, <1>2, <1>3, <1>4, <2>1, <2>2 DEF CaptureInv, ErrorInv
  <2> QED
    BY <2>3, <2>4, <2>5, <2>6 DEF CaptureInv
<1>5. CASE pc' = pc
  <2>1. /\ empty' = Append(empty, mapped) /\ mapped' = mapped + 1
        /\ \/ UNCHANGED <<broken, errors>>
           \/ broken' = broken \cup {mapped} /\ Fails
    BY <1>1, <1>5 DEF Bind
  <2>2. errors' \in Nat /\ errors' >= errors
    BY <1>2, <2>1 DEF Fails
  <2>3. TypeOK'
    <3>1. empty' \in Seq(Index)
      BY <1>2, <2>1 DEF CaptureInv, TypeOK
    <3>2. broken' \subseteq Index
      BY <1>2, <2>1 DEF CaptureInv, TypeOK
    <3>3. mapped' \in 0..granted'
      BY <1>1, <1>2, <2>1 DEF CaptureInv, TypeOK
    <3> QED
      BY <1>1, <1>5, <2>2, <3>1, <3>2, <3>3 DEF CaptureInv, TypeOK
  <2>4. PlaceInv'
    BY <1>1, <1>5 DEF CaptureInv, PlaceInv, Held
  <2>5. BufferInv'
    <3>1. \A b \in Index : /\ Queued(b)' <=> Queued(b) \/ b = mapped
                           /\ Full(b)' <=> Full(b)
                           /\ Here(b)' <=> Here(b)
      <4>1. \A b \in Index : Has(empty', b) <=> Has(empty, b) \/ b = mapped
        BY <1>2, <2>1, AppendedHas DEF CaptureInv, TypeOK
      <4> QED
        BY <1>1, <4>1 DEF Queued, Full, Here, Held, Has
    <3>2. ~ Queued(mapped) /\ ~ Full(mapped) /\ ~ Here(mapped) /\ mapped \notin lost
      BY <1>2 DEF CaptureInv, BufferInv
    <3>3. \A b \in Index : b < mapped' <=> b < mapped \/ b = mapped
      BY <1>2, <2>1 DEF Index
    <3>4. Once(empty')
      BY <1>2, <2>1, <3>2, AppendedOnce DEF CaptureInv, BufferInv, TypeOK, Queued
    <3>5. \A b \in Index : b < mapped' <=> Queued(b)' \/ Full(b)' \/ Here(b)' \/ b \in lost
      BY <3>1, <3>3 DEF CaptureInv, BufferInv
    <3>6. \A b \in Index : /\ ~ (Queued(b)' /\ Full(b)') /\ ~ (Queued(b)' /\ Here(b)')
                           /\ ~ (Full(b)' /\ Here(b)')
                           /\ b \in lost => ~ Queued(b)' /\ ~ Full(b)' /\ ~ Here(b)'
      BY <3>1, <3>2 DEF CaptureInv, BufferInv
    <3>7. Once(empty)' /\ Once(filled)'
      BY <1>1, <3>4 DEF CaptureInv, BufferInv, Once
    <3> QED
      BY <1>1, <3>5, <3>6, <3>7 DEF BufferInv
  <2>6. FrameInv'
    BY <1>1, <1>5 DEF CaptureInv, FrameInv, Held
  <2>7. ErrorInv'
    <3>1. Cardinality(lost') + Cardinality(broken') =< errors'
      <4>1. CASE UNCHANGED <<broken, errors>>
        BY <1>1, <4>1 DEF CaptureInv, ErrorInv
      <4>2. CASE broken' = broken \cup {mapped} /\ Fails
        <5>1. Cardinality(broken') \in Nat /\ Cardinality(broken') =< Cardinality(broken) + 1
          BY <4>2, CountOneMore DEF CaptureInv, TypeOK
        <5>2. errors' = errors + 1
          BY <4>2 DEF Fails
        <5> QED
          BY <1>1, <1>2, <1>3, <5>1, <5>2 DEF CaptureInv, ErrorInv
      <4> QED
        BY <2>1, <4>1, <4>2
    <3> QED
      BY <1>1, <1>5, <3>1 DEF CaptureInv, ErrorInv
  <2> QED
    BY <2>3, <2>4, <2>5, <2>6, <2>7 DEF CaptureInv
<1> QED
  BY <1>1, <1>4, <1>5 DEF Bind

\* Lemma: the camera fills the buffer that was queued first, which nobody
\* reads, with the newest frame.
LEMMA ShootKeeps == CaptureInv /\ Shoot => CaptureInv'
<1> SUFFICES ASSUME CaptureInv, Shoot
             PROVE  CaptureInv'
  OBVIOUS
<1>1. UNCHANGED <<pc, granted, mapped, broken, epfd, hand, shown, lost, errors>> /\ shot' = shot + 1
  BY DEF Shoot, setupVars
<1>2. shot \in Nat /\ content \in [Index -> Nat]
  BY DEF CaptureInv, TypeOK
<1>3. PlaceInv' /\ ErrorInv'
  BY <1>1 DEF CaptureInv, PlaceInv, ErrorInv, Held
<1>4. \A n \in 1..shot : n \in 1..shot'
  BY <1>1, <1>2
<1>5. CASE empty = <<>>
  <2>1. UNCHANGED <<empty, filled, content>>
    BY <1>5 DEF Shoot
  <2>2. TypeOK'
    BY <1>1, <1>2, <2>1 DEF CaptureInv, TypeOK
  <2>3. BufferInv'
    BY <1>1, <2>1 DEF CaptureInv, BufferInv, Queued, Full, Here, Held, Has, Once
  <2>4. FrameInv'
    BY <1>1, <1>4, <2>1 DEF CaptureInv, FrameInv, Held
  <2> QED
    BY <1>3, <2>2, <2>3, <2>4 DEF CaptureInv
<1>6. CASE empty # <<>>
  <2> DEFINE h == Head(empty)
  <2>1. /\ empty' = Tail(empty) /\ filled' = Append(filled, h)
        /\ content' = [content EXCEPT ![h] = shot + 1]
    BY <1>1, <1>6 DEF Shoot
  <2>2. empty \in Seq(Index) /\ filled \in Seq(Index)
    BY DEF CaptureInv, TypeOK
  <2>3. Once(empty) /\ Once(filled)
    BY DEF CaptureInv, BufferInv
  <2>4. /\ h \in Index /\ h = empty[1] /\ 1 \in 1..Len(empty)
        /\ empty' \in Seq(Index) /\ Once(empty')
        /\ \A b \in Index : Has(empty', b) <=> Has(empty, b) /\ b # h
    <3>1. h \in Index /\ h = empty[1] /\ 1 \in 1..Len(empty) /\ empty' \in Seq(Index)
      BY <1>6, <2>1, <2>2, Dropped
    <3>2. Once(empty') /\ \A b \in Index : Has(empty', b) <=> Has(empty, b) /\ b # h
      BY <1>6, <2>1, <2>2, <2>3, DroppedOnce
    <3> QED
      BY <3>1, <3>2
  <2>5. Queued(h) /\ ~ Full(h) /\ ~ Here(h) /\ h \notin lost
    BY <2>4 DEF CaptureInv, BufferInv, Queued, Has
  <2> HIDE DEF h
  <2>6. /\ filled' \in Seq(Index) /\ Len(filled') = Len(filled) + 1 /\ Len(filled) \in Nat
        /\ \A i \in 1..Len(filled) : filled'[i] = filled[i] /\ filled[i] \in Index
        /\ filled'[Len(filled) + 1] = h
        /\ \A b \in Index : Has(filled', b) <=> Has(filled, b) \/ b = h
    BY <2>1, <2>2, <2>4, Appended, AppendedHas
  <2>7. Once(filled')
    BY <2>1, <2>2, <2>3, <2>4, <2>5, AppendedOnce DEF Full
  <2>8. \A b \in Index : content'[b] = IF b = h THEN shot + 1 ELSE content[b]
    BY <1>2, <2>1
  <2>9. TypeOK'
    <3>1. content' \in [Index -> Nat] /\ shot' \in Nat
      BY <1>1, <1>2, <2>1, <2>4
    <3> QED
      BY <1>1, <2>4, <2>6, <3>1 DEF CaptureInv, TypeOK
  <2>10. BufferInv'
    <3>1. \A b \in Index : /\ Queued(b)' <=> Queued(b) /\ b # h
                           /\ Full(b)' <=> Full(b) \/ b = h
                           /\ Here(b)' <=> Here(b)
      BY <1>1, <2>4, <2>6 DEF Queued, Full, Here, Held, Has
    <3>2. \A b \in Index : b < mapped <=> Queued(b)' \/ Full(b)' \/ Here(b)' \/ b \in lost
      BY <2>5, <3>1 DEF CaptureInv, BufferInv
    <3>3. \A b \in Index : /\ ~ (Queued(b)' /\ Full(b)') /\ ~ (Queued(b)' /\ Here(b)')
                           /\ ~ (Full(b)' /\ Here(b)')
                           /\ b \in lost => ~ Queued(b)' /\ ~ Full(b)' /\ ~ Here(b)'
      BY <2>5, <3>1 DEF CaptureInv, BufferInv
    <3>4. Once(empty)' /\ Once(filled)'
      BY <2>4, <2>7 DEF Once
    <3> QED
      BY <1>1, <3>2, <3>3, <3>4 DEF BufferInv
  <2>11. FrameInv'
    <3>1. \A i \in 1..Len(filled) : filled[i] # h /\ content'[filled[i]] = content[filled[i]]
      BY <2>5, <2>6, <2>8 DEF Full, Has
    <3>2. Held => hand.index \in Index /\ hand.index # h
      BY <2>5 DEF CaptureInv, TypeOK, Held, Here
    <3>3. \A i \in 1..Len(filled') : i \in 1..Len(filled) \/ i = Len(filled) + 1
      BY <2>6
    <3>4. content'[h] = shot + 1 /\ content'[h] \in 1..shot'
      BY <1>1, <1>2, <2>4, <2>8
    <3>5. Held' => content'[hand'.index] = hand'.frame /\ hand'.frame \in 1..shot'
      BY <1>1, <1>4, <2>8, <3>2 DEF CaptureInv, FrameInv, Held
    <3>6. \A i \in 1..Len(filled') : content'[filled'[i]] \in 1..shot'
      BY <1>4, <2>6, <3>1, <3>3, <3>4 DEF CaptureInv, FrameInv
    <3>7. \A i, j \in 1..Len(filled') : i < j => content'[filled'[i]] < content'[filled'[j]]
      <4> SUFFICES ASSUME NEW i \in 1..Len(filled'), NEW j \in 1..Len(filled'), i < j
                   PROVE  content'[filled'[i]] < content'[filled'[j]]
        OBVIOUS
      <4>1. i \in 1..Len(filled)
        BY <2>6
      <4>2. content[filled[i]] \in 1..shot
        BY <4>1 DEF CaptureInv, FrameInv
      <4>3. CASE j \in 1..Len(filled)
        BY <2>6, <3>1, <4>1, <4>3 DEF CaptureInv, FrameInv
      <4>4. CASE j = Len(filled) + 1
        BY <1>2, <2>6, <3>1, <3>4, <4>1, <4>2, <4>4
      <4> QED
        BY <3>3, <4>3, <4>4
    <3>8. \A i \in 1..Len(filled') : Held' => hand'.frame < content'[filled'[i]]
      <4> SUFFICES ASSUME NEW i \in 1..Len(filled'), Held
                   PROVE  hand.frame < content'[filled'[i]]
        BY <1>1 DEF Held
      <4>1. hand.frame \in 1..shot
        BY DEF CaptureInv, FrameInv
      <4>2. CASE i \in 1..Len(filled)
        BY <2>6, <3>1, <4>2 DEF CaptureInv, FrameInv
      <4>3. CASE i = Len(filled) + 1
        BY <1>2, <2>6, <3>4, <4>1, <4>3
      <4> QED
        BY <3>3, <4>2, <4>3
    <3>9. \A i \in 1..Len(shown), j \in 1..Len(filled') : shown[i] < content'[filled'[j]]
      <4> SUFFICES ASSUME NEW i \in 1..Len(shown), NEW j \in 1..Len(filled')
                   PROVE  shown[i] < content'[filled'[j]]
        OBVIOUS
      <4>1. shown[i] \in 1..shot
        BY DEF CaptureInv, FrameInv
      <4>2. CASE j \in 1..Len(filled)
        BY <2>6, <3>1, <4>2 DEF CaptureInv, FrameInv
      <4>3. CASE j = Len(filled) + 1
        BY <1>2, <2>6, <3>4, <4>1, <4>3
      <4> QED
        BY <3>3, <4>2, <4>3
    <3>10. /\ \A i \in 1..Len(shown) : shown[i] \in 1..shot'
           /\ \A i, j \in 1..Len(shown) : i < j => shown[i] < shown[j]
           /\ \A i \in 1..Len(shown) : pc = "process" => shown[i] < hand.frame
      BY <1>4 DEF CaptureInv, FrameInv
    <3> QED
      BY <1>1, <3>5, <3>6, <3>7, <3>8, <3>9, <3>10 DEF FrameInv
  <2> QED
    BY <1>3, <2>9, <2>10, <2>11 DEF CaptureInv
<1> QED
  BY <1>5, <1>6

\* Lemma: the buffer that was filled first leaves the driver's queue.
LEMMA TakeFirst ==
  ASSUME CaptureInv, filled # <<>>, filled' = Tail(filled)
  PROVE  /\ filled' \in Seq(Index) /\ Once(filled') /\ Head(filled) \in Index
         /\ Full(Head(filled)) /\ Head(filled) = filled[1] /\ 1 \in 1..Len(filled)
         /\ \A b \in Index : Has(filled', b) <=> Full(b) /\ b # Head(filled)
         /\ \A i \in 1..Len(filled') : i + 1 \in 1..Len(filled) /\ 1 < i + 1 /\ filled'[i] = filled[i + 1]
         /\ \A i, j \in 1..Len(filled') : i < j => i + 1 < j + 1
<1>1. filled \in Seq(Index) /\ Once(filled)
  BY DEF CaptureInv, TypeOK, BufferInv
<1>2. /\ filled' \in Seq(Index) /\ Head(filled) = filled[1] /\ Head(filled) \in Index
      /\ 1 \in 1..Len(filled) /\ Len(filled) \in Nat \ {0} /\ Len(filled') = Len(filled) - 1
      /\ \A i \in 1..Len(filled') : i + 1 \in 1..Len(filled) /\ 1 < i + 1 /\ filled'[i] = filled[i + 1]
  BY <1>1, Dropped
<1>3. Once(filled') /\ \A b \in Index : Has(filled', b) <=> Has(filled, b) /\ b # Head(filled)
  BY <1>1, DroppedOnce
<1>4. \A i, j \in 1..Len(filled') : i < j => i + 1 < j + 1
  BY <1>2
<1>5. Full(Head(filled))
  BY <1>2 DEF Full, Has
<1> QED
  BY <1>2, <1>3, <1>4, <1>5 DEF Full

\* Lemma: ProcessFrame gets the oldest frame that is waiting.
LEMMA DequeueKeeps == CaptureInv /\ Dequeue => CaptureInv'
<1> SUFFICES ASSUME CaptureInv, Dequeue
             PROVE  CaptureInv'
  OBVIOUS
<1> DEFINE h == Head(filled)
<1>1. /\ UNCHANGED <<granted, mapped, broken, epfd, empty, content, shot, shown, lost, errors>>
      /\ pc = "wait" /\ pc' = "process" /\ ~ Held /\ filled # <<>>
      /\ filled' = Tail(filled)
      /\ hand' = [index |-> h, frame |-> content[h]]
  BY DEF Dequeue, setupVars, CaptureInv, PlaceInv
<1>2. /\ filled' \in Seq(Index) /\ Once(filled') /\ h \in Index
      /\ Full(h) /\ h = filled[1] /\ 1 \in 1..Len(filled)
      /\ \A b \in Index : Has(filled', b) <=> Full(b) /\ b # h
      /\ \A i \in 1..Len(filled') : i + 1 \in 1..Len(filled) /\ 1 < i + 1 /\ filled'[i] = filled[i + 1]
      /\ \A i, j \in 1..Len(filled') : i < j => i + 1 < j + 1
  BY <1>1, TakeFirst
<1> HIDE DEF h
<1>3. hand'.index = h /\ hand'.frame = content[h]
  BY <1>1
<1>4. h # None
  BY <1>2, CaptureAssumption DEF Index
<1>5. Held'
  BY <1>1, <1>4 DEF Held, NoBuf
<1>6. content[h] \in 1..shot /\ content[h] \in Nat
  BY <1>2 DEF CaptureInv, FrameInv, TypeOK
<1>7. TypeOK'
  BY <1>1, <1>2, <1>6 DEF CaptureInv, TypeOK, Where
<1>8. PlaceInv'
  BY <1>1, <1>5 DEF CaptureInv, PlaceInv
<1>9. BufferInv'
  <2>1. \A b \in Index : /\ Queued(b)' <=> Queued(b)
                         /\ Full(b)' <=> Full(b) /\ b # h
                         /\ Here(b)' <=> b = h
    BY <1>1, <1>2, <1>3, <1>5 DEF Queued, Full, Here, Has
  <2>2. \A b \in Index : ~ Here(b)
    BY <1>1 DEF Here
  <2>3. \A b \in Index : b < mapped <=> Queued(b)' \/ Full(b)' \/ Here(b)' \/ b \in lost
    BY <1>2, <2>1, <2>2 DEF CaptureInv, BufferInv
  <2>4. \A b \in Index : /\ ~ (Queued(b)' /\ Full(b)') /\ ~ (Queued(b)' /\ Here(b)')
                         /\ ~ (Full(b)' /\ Here(b)')
                         /\ b \in lost => ~ Queued(b)' /\ ~ Full(b)' /\ ~ Here(b)'
    BY <1>2, <2>1 DEF CaptureInv, BufferInv
  <2>5. Once(empty)' /\ Once(filled)'
    BY <1>1, <1>2 DEF CaptureInv, BufferInv, Once
  <2> QED
    BY <1>1, <2>3, <2>4, <2>5 DEF BufferInv
<1>10. FrameInv'
  <2>1. \A i \in 1..Len(filled') : content[filled'[i]] \in 1..shot /\ content[h] < content[filled'[i]]
    BY <1>2 DEF CaptureInv, FrameInv
  <2>2. \A i, j \in 1..Len(filled') : i < j => content[filled'[i]] < content[filled'[j]]
    BY <1>2 DEF CaptureInv, FrameInv
  <2>3. \A i \in 1..Len(shown) : shown[i] < content[h]
    BY <1>2 DEF CaptureInv, FrameInv
  <2>4. \A i \in 1..Len(shown), j \in 1..Len(filled') : shown[i] < content[filled'[j]]
    BY <1>2 DEF CaptureInv, FrameInv
  <2>5. /\ \A i \in 1..Len(shown) : shown[i] \in 1..shot
        /\ \A i, j \in 1..Len(shown) : i < j => shown[i] < shown[j]
    BY DEF CaptureInv, FrameInv
  <2> QED
    BY <1>1, <1>3, <1>6, <2>1, <2>2, <2>3, <2>4, <2>5 DEF FrameInv
<1>11. ErrorInv'
  BY <1>1 DEF CaptureInv, ErrorInv
<1> QED
  BY <1>7, <1>8, <1>9, <1>10, <1>11 DEF CaptureInv

\* Lemma: or the call fails, and the buffer may be lost.
LEMMA DequeueFailsKeeps == CaptureInv /\ DequeueFails => CaptureInv'
<1> SUFFICES ASSUME CaptureInv, DequeueFails
             PROVE  CaptureInv'
  OBVIOUS
<1>1. /\ UNCHANGED <<pc, granted, mapped, broken, epfd, empty, content, shot, hand, shown>>
      /\ pc = "wait" /\ ~ Held /\ filled # <<>>
      /\ errors' = errors + 1
  BY DEF DequeueFails, Fails, setupVars, CaptureInv, PlaceInv
<1>2. errors \in Nat /\ Cardinality(lost) \in Nat /\ Cardinality(broken) \in Nat
  BY CountOneMore DEF CaptureInv, TypeOK
<1>3. PlaceInv'
  BY <1>1 DEF CaptureInv, PlaceInv, Held
<1>4. CASE UNCHANGED <<filled, lost>>
  <2>1. TypeOK'
    BY <1>1, <1>2, <1>4 DEF CaptureInv, TypeOK
  <2>2. BufferInv' /\ FrameInv'
    BY <1>1, <1>4, BuffersSame
  <2>3. ErrorInv'
    BY <1>1, <1>2, <1>4 DEF CaptureInv, ErrorInv
  <2> QED
    BY <1>3, <2>1, <2>2, <2>3 DEF CaptureInv
<1>5. CASE filled' = Tail(filled) /\ lost' = lost \cup {Head(filled)}
  <2> DEFINE h == Head(filled)
  <2>1. /\ filled' \in Seq(Index) /\ Once(filled') /\ h \in Index
        /\ Full(h) /\ h = filled[1] /\ 1 \in 1..Len(filled)
        /\ \A b \in Index : Has(filled', b) <=> Full(b) /\ b # h
        /\ \A i \in 1..Len(filled') : i + 1 \in 1..Len(filled) /\ 1 < i + 1 /\ filled'[i] = filled[i + 1]
        /\ \A i, j \in 1..Len(filled') : i < j => i + 1 < j + 1
    BY <1>1, <1>5, TakeFirst
  <2>2. lost' = lost \cup {h}
    BY <1>5
  <2> HIDE DEF h
  <2>3. TypeOK'
    BY <1>1, <1>2, <2>1, <2>2 DEF CaptureInv, TypeOK
  <2>4. BufferInv'
    <3>1. \A b \in Index : /\ Queued(b)' <=> Queued(b)
                           /\ Full(b)' <=> Full(b) /\ b # h
                           /\ ~ Here(b)' /\ ~ Here(b)
      BY <1>1, <2>1 DEF Queued, Full, Here, Has, Held
    <3>2. \A b \in Index : b < mapped <=> Queued(b)' \/ Full(b)' \/ Here(b)' \/ b \in lost'
      BY <2>1, <2>2, <3>1 DEF CaptureInv, BufferInv
    <3>3. \A b \in Index : /\ ~ (Queued(b)' /\ Full(b)') /\ ~ (Queued(b)' /\ Here(b)')
                           /\ ~ (Full(b)' /\ Here(b)')
                           /\ b \in lost' => ~ Queued(b)' /\ ~ Full(b)' /\ ~ Here(b)'
      BY <2>1, <2>2, <3>1 DEF CaptureInv, BufferInv
    <3>4. Once(empty)' /\ Once(filled)'
      BY <1>1, <2>1 DEF CaptureInv, BufferInv, Once
    <3> QED
      BY <1>1, <3>2, <3>3, <3>4 DEF BufferInv
  <2>5. FrameInv'
    <3>1. \A i \in 1..Len(filled') : content[filled'[i]] \in 1..shot
      BY <2>1 DEF CaptureInv, FrameInv
    <3>2. \A i, j \in 1..Len(filled') : i < j => content[filled'[i]] < content[filled'[j]]
      BY <2>1 DEF CaptureInv, FrameInv
    <3>3. \A i \in 1..Len(shown), j \in 1..Len(filled') : shown[i] < content[filled'[j]]
      BY <2>1 DEF CaptureInv, FrameInv
    <3>4. /\ \A i \in 1..Len(shown) : shown[i] \in 1..shot
          /\ \A i, j \in 1..Len(shown) : i < j => shown[i] < shown[j]
      BY DEF CaptureInv, FrameInv
    <3> QED
      BY <1>1, <3>1, <3>2, <3>3, <3>4 DEF FrameInv, Held
  <2>6. ErrorInv'
    <3>1. Cardinality(lost') \in Nat /\ Cardinality(lost') =< Cardinality(lost) + 1
      BY <2>2, CountOneMore DEF CaptureInv, TypeOK
    <3> QED
      BY <1>1, <1>2, <3>1 DEF CaptureInv, ErrorInv
  <2> QED
    BY <1>3, <2>3, <2>4, <2>5, <2>6 DEF CaptureInv
<1> QED
  BY <1>4, <1>5 DEF DequeueFails

\* Lemma: the receivers are given the bytes: the frame is newer than all that
\* were shown.
LEMMA ProcessKeeps == CaptureInv /\ Process => CaptureInv'
<1> SUFFICES ASSUME CaptureInv, Process
             PROVE  CaptureInv'
  OBVIOUS
<1>1. /\ UNCHANGED <<granted, mapped, broken, epfd, empty, filled, content, shot, hand, lost, errors>>
      /\ pc = "process" /\ pc' = "requeue" /\ Held
      /\ shown' = Append(shown, content[hand.index])
  BY DEF Process, setupVars, driverVars, CaptureInv, PlaceInv
<1>2. /\ content[hand.index] = hand.frame /\ hand.frame \in 1..shot /\ hand.frame \in Nat
      /\ shown \in Seq(Nat) /\ shot \in Nat
  BY <1>1 DEF CaptureInv, FrameInv, TypeOK, Held
<1>3. /\ shown' \in Seq(Nat) /\ Len(shown') = Len(shown) + 1 /\ Len(shown) \in Nat
      /\ \A i \in 1..Len(shown) : shown'[i] = shown[i] /\ shown[i] \in Nat
      /\ shown'[Len(shown) + 1] = hand.frame
      /\ \A i \in 1..Len(shown') : i \in 1..Len(shown) \/ i = Len(shown) + 1
  BY <1>1, <1>2, Appended
<1>4. TypeOK'
  BY <1>1, <1>3 DEF CaptureInv, TypeOK, Where
<1>5. PlaceInv' /\ ErrorInv'
  BY <1>1 DEF CaptureInv, PlaceInv, ErrorInv, Held
<1>6. BufferInv'
  BY <1>1 DEF CaptureInv, BufferInv, Queued, Full, Here, Held, Has, Once
<1>7. FrameInv'
  <2>1. \A i \in 1..Len(shown') : shown'[i] \in 1..shot
    BY <1>2, <1>3 DEF CaptureInv, FrameInv
  <2>2. \A i, j \in 1..Len(shown') : i < j => shown'[i] < shown'[j]
    <3> SUFFICES ASSUME NEW i \in 1..Len(shown'), NEW j \in 1..Len(shown'), i < j
                 PROVE  shown'[i] < shown'[j]
      OBVIOUS
    <3>1. i \in 1..Len(shown)
      BY <1>3
    <3>2. CASE j \in 1..Len(shown)
      BY <1>3, <3>1, <3>2 DEF CaptureInv, FrameInv
    <3>3. CASE j = Len(shown) + 1
      BY <1>1, <1>3, <3>1, <3>3 DEF CaptureInv, FrameInv
    <3> QED
      BY <1>3, <3>2, <3>3
  <2>3. \A i \in 1..Len(shown'), j \in 1..Len(filled) : shown'[i] < content[filled[j]]
    BY <1>1, <1>3 DEF CaptureInv, FrameInv
  <2>4. /\ \A i \in 1..Len(filled) : content[filled[i]] \in 1..shot /\ hand.frame < content[filled[i]]
        /\ \A i, j \in 1..Len(filled) : i < j => content[filled[i]] < content[filled[j]]
    BY <1>1 DEF CaptureInv, FrameInv
  <2> QED
    BY <1>1, <1>2, <2>1, <2>2, <2>3, <2>4 DEF FrameInv
<1> QED
  BY <1>4, <1>5, <1>6, <1>7 DEF CaptureInv

\* Lemma: nothing is read of a buffer with a bad address, or all ends.
LEMMA UnmappedKeeps == CaptureInv /\ ProcessUnmapped => CaptureInv'
<1> SUFFICES ASSUME CaptureInv, ProcessUnmapped
             PROVE  CaptureInv'
  OBVIOUS
<1>1. /\ UNCHANGED <<granted, mapped, broken, epfd, empty, filled, content, shot, hand, shown, lost, errors>>
      /\ pc = "process" /\ pc' \in {"crashed", "requeue"} /\ hand.index \in broken
  BY DEF ProcessUnmapped, setupVars, driverVars
<1>2. TypeOK'
  BY <1>1 DEF CaptureInv, TypeOK, Where
<1>3. PlaceInv' /\ ErrorInv'
  BY <1>1 DEF CaptureInv, PlaceInv, ErrorInv, Held
<1>4. BufferInv' /\ FrameInv'
  BY <1>1, BuffersSame
<1> QED
  BY <1>2, <1>3, <1>4 DEF CaptureInv

\* Lemma: the buffer goes back to the driver, or is lost.
LEMMA RequeueKeeps == CaptureInv /\ Requeue => CaptureInv'
<1> SUFFICES ASSUME CaptureInv, Requeue
             PROVE  CaptureInv'
  OBVIOUS
<1> DEFINE h == hand.index
<1>1. /\ UNCHANGED <<granted, mapped, broken, epfd, filled, content, shot, shown>>
      /\ pc = "requeue" /\ pc' = "wait" /\ Held /\ ~ Held'
      /\ hand' = NoBuf
      /\ \/ empty' = Append(empty, h) /\ UNCHANGED <<lost, errors>>
         \/ Fails /\ lost' = lost \cup {h} /\ UNCHANGED empty
  BY DEF Requeue, setupVars, CaptureInv, PlaceInv, Held
<1>2. h \in Index /\ Here(h) /\ ~ Queued(h) /\ ~ Full(h) /\ h \notin lost
  BY <1>1 DEF CaptureInv, TypeOK, BufferInv, Here, Held
<1>3. \A b \in Index : Here(b) <=> b = h
  BY <1>1 DEF Here
<1> HIDE DEF h
<1>4. errors \in Nat /\ Cardinality(lost) \in Nat /\ Cardinality(broken) \in Nat
      /\ empty \in Seq(Index) /\ Once(empty) /\ Once(filled)
  BY CountOneMore DEF CaptureInv, TypeOK, BufferInv
<1>5. PlaceInv'
  BY <1>1 DEF CaptureInv, PlaceInv
<1>6. FrameInv'
  BY <1>1 DEF CaptureInv, FrameInv
<1>7. CASE empty' = Append(empty, h) /\ UNCHANGED <<lost, errors>>
  <2>1. /\ empty' \in Seq(Index) /\ Once(empty')
        /\ \A b \in Index : Has(empty', b) <=> Queued(b) \/ b = h
    BY <1>2, <1>4, <1>7, Appended, AppendedHas, AppendedOnce DEF Queued
  <2>2. TypeOK'
    BY <1>1, <1>7, <2>1 DEF CaptureInv, TypeOK, Where
  <2>3. BufferInv'
    <3>1. \A b \in Index : /\ Queued(b)' <=> Queued(b) \/ b = h
                           /\ Full(b)' <=> Full(b)
                           /\ ~ Here(b)'
      BY <1>1, <2>1 DEF Queued, Full, Here, Has
    <3>2. \A b \in Index : b < mapped <=> Queued(b)' \/ Full(b)' \/ Here(b)' \/ b \in lost
      BY <1>3, <3>1 DEF CaptureInv, BufferInv
    <3>3. \A b \in Index : /\ ~ (Queued(b)' /\ Full(b)') /\ ~ (Queued(b)' /\ Here(b)')
                           /\ ~ (Full(b)' /\ Here(b)')
                           /\ b \in lost => ~ Queued(b)' /\ ~ Full(b)' /\ ~ Here(b)'
      BY <1>2, <3>1 DEF CaptureInv, BufferInv
    <3>4. Once(empty)' /\ Once(filled)'
      BY <1>1, <1>4, <2>1 DEF Once
    <3> QED
      BY <1>1, <1>7, <3>2, <3>3, <3>4 DEF BufferInv
  <2>4. ErrorInv'
    BY <1>1, <1>7 DEF CaptureInv, ErrorInv
  <2> QED
    BY <1>5, <1>6, <2>2, <2>3, <2>4 DEF CaptureInv
<1>8. CASE Fails /\ lost' = lost \cup {h} /\ UNCHANGED empty
  <2>1. errors' = errors + 1
    BY <1>8 DEF Fails
  <2>2. TypeOK'
    BY <1>1, <1>2, <1>4, <1>8, <2>1 DEF CaptureInv, TypeOK, Where
  <2>3. BufferInv'
    <3>1. \A b \in Index : /\ Queued(b)' <=> Queued(b)
                           /\ Full(b)' <=> Full(b)
                           /\ ~ Here(b)'
      BY <1>1, <1>8 DEF Queued, Full, Here, Has
    <3>2. \A b \in Index : b < mapped <=> Queued(b)' \/ Full(b)' \/ Here(b)' \/ b \in lost'
      BY <1>3, <1>8, <3>1 DEF CaptureInv, BufferInv
    <3>3. \A b \in Index : /\ ~ (Queued(b)' /\ Full(b)') /\ ~ (Queued(b)' /\ Here(b)')
                           /\ ~ (Full(b)' /\ Here(b)')
                           /\ b \in lost' => ~ Queued(b)' /\ ~ Full(b)' /\ ~ Here(b)'
      BY <1>2, <1>8, <3>1 DEF CaptureInv, BufferInv
    <3>4. Once(empty)' /\ Once(filled)'
      BY <1>1, <1>4, <1>8 DEF Once
    <3> QED
      BY <1>1, <3>2, <3>3, <3>4 DEF BufferInv
  <2>4. ErrorInv'
    <3>1. Cardinality(lost') \in Nat /\ Cardinality(lost') =< Cardinality(lost) + 1
      BY <1>8, CountOneMore DEF CaptureInv, TypeOK
    <3> QED
      BY <1>1, <1>4, <2>1, <3>1 DEF CaptureInv, ErrorInv
  <2> QED
    BY <1>5, <1>6, <2>2, <2>3, <2>4 DEF CaptureInv
<1> QED
  BY <1>1, <1>7, <1>8

\* Lemma: every step keeps the invariant.
LEMMA CaptureNext == CaptureInv /\ [Next]_vars => CaptureInv'
<1> SUFFICES ASSUME CaptureInv, [Next]_vars
             PROVE  CaptureInv'
  OBVIOUS
<1>1. CASE Setup
  BY <1>1, SetupKeeps, BindKeeps DEF Setup
<1>2. CASE Loop
  BY <1>2, DequeueKeeps, DequeueFailsKeeps, ProcessKeeps, UnmappedKeeps, RequeueKeeps DEF Loop
<1>3. CASE Shoot
  BY <1>3, ShootKeeps
<1>4. CASE UNCHANGED vars
  <2>1. UNCHANGED <<pc, fd, granted, mapped, broken, epfd, on, empty, filled, content, shot,
                    hand, shown, lost, errors>>
    BY <1>4 DEF vars, setupVars, driverVars
  <2>2. TypeOK' /\ PlaceInv' /\ ErrorInv'
    BY <2>1 DEF CaptureInv, TypeOK, PlaceInv, ErrorInv, Held
  <2>3. BufferInv' /\ FrameInv'
    BY <2>1, BuffersSame
  <2> QED
    BY <2>2, <2>3 DEF CaptureInv
<1> QED
  BY <1>1, <1>2, <1>3, <1>4 DEF Next, Waiting

-----------------------------------------------------------------------------
\* Lemma: the four places as sets.
LEMMA PlacesAre ==
  ASSUME CaptureInv
  PROVE  /\ \A b : b \in ToSet(empty) <=> b \in Index /\ Queued(b)
         /\ \A b : b \in ToSet(filled) <=> b \in Index /\ Full(b)
         /\ \A b : b \in InHand <=> b \in Index /\ Here(b)
         /\ \A b : b \in lost => b \in Index
         /\ Places[1] = ToSet(empty) /\ Places[2] = ToSet(filled)
         /\ Places[3] = InHand /\ Places[4] = lost
         /\ DOMAIN Places = 1..4
<1>1. empty \in Seq(Index) /\ filled \in Seq(Index) /\ lost \subseteq Index
  BY DEF CaptureInv, TypeOK
<1>2. \A b : b \in ToSet(empty) <=> b \in Index /\ Queued(b)
  BY <1>1 DEF ToSet, Queued, Has
<1>3. \A b : b \in ToSet(filled) <=> b \in Index /\ Full(b)
  BY <1>1 DEF ToSet, Full, Has
<1>4. \A b : b \in InHand <=> b \in Index /\ Here(b)
  BY DEF InHand, Here, Held, CaptureInv, TypeOK
<1>5. /\ Places[1] = ToSet(empty) /\ Places[2] = ToSet(filled)
      /\ Places[3] = InHand /\ Places[4] = lost
  BY DEF Places
<1>6. DOMAIN Places = 1..4
  BY DEF Places
<1> QED
  BY <1>1, <1>2, <1>3, <1>4, <1>5, <1>6

\* Theorem: where each buffer is, which frames it has, and what it takes to
\* lose one.
THEOREM CaptureInvariant == Spec => []CaptureInv
<1>1. Init => CaptureInv
  BY CaptureInit
<1>2. CaptureInv /\ [Next]_vars => CaptureInv'
  BY CaptureNext
<1> QED
  BY <1>1, <1>2, PTL DEF Spec

\* Theorem: video::Stream::ProcessFrame hands out the driver's own memory, and
\* still no byte changes while receivers read, the frames come in order, none
\* twice, and an address is bad only if an mmap failed.
THEOREM ReadsAreStable == Spec => []ReadIsStable
<1>1. CaptureInv => ReadIsStable
  <2> SUFFICES ASSUME CaptureInv
               PROVE  ReadIsStable
    OBVIOUS
  <2>1. hand # NoBuf => content[hand.index] = hand.frame /\ hand.index < mapped
    BY DEF CaptureInv, TypeOK, FrameInv, BufferInv, Held, Here
  <2>2. shown \in Seq(Nat)
    BY DEF CaptureInv, TypeOK
  <2>3. \A i, j \in DOMAIN shown : i < j => shown[i] < shown[j]
    BY <2>2 DEF CaptureInv, FrameInv
  <2>4. ToSet(shown) \subseteq 1..shot
    BY <2>2 DEF CaptureInv, FrameInv, ToSet
  <2>5. pc = "crashed" => hand.index \in broken /\ Cardinality(broken) <= errors
    <3>1. Cardinality(lost) \in Nat /\ Cardinality(broken) \in Nat /\ errors \in Nat
      BY CountOneMore DEF CaptureInv, TypeOK
    <3> QED
      BY <3>1 DEF CaptureInv, PlaceInv, ErrorInv
  <2> QED
    BY <2>1, <2>3, <2>4, <2>5 DEF ReadIsStable
<1> QED
  BY <1>1, CaptureInvariant, PTL

\* Theorem: each buffer that BindBuffers bound is with the driver, once, or in
\* use, or lost to a failed ioctl; and a loop that will not hear of the camera
\* or got too few buffers had a failure before.
THEOREM BuffersAreKept == Spec => []BuffersKept
<1>1. CaptureInv => BuffersKept
  <2> SUFFICES ASSUME CaptureInv
               PROVE  BuffersKept
    OBVIOUS
  <2>1. /\ mapped \in Nat /\ granted \in 0..Count /\ mapped \in 0..granted /\ Count \in Nat
        /\ empty \in Seq(Index) /\ filled \in Seq(Index)
    BY CaptureAssumption DEF CaptureInv, TypeOK
  <2>2. \A b : b \in UNION ToSet(Places) <=>
          b \in ToSet(empty) \/ b \in ToSet(filled) \/ b \in InHand \/ b \in lost
    <3>1. ToSet(Places) = {Places[1], Places[2], Places[3], Places[4]}
      <4>1. 1..4 = {1, 2, 3, 4}
        OBVIOUS
      <4> QED
        BY <4>1, PlacesAre DEF ToSet
    <3> QED
      BY <3>1, PlacesAre
  <2>3. \A b : b \in 0..(mapped - 1) <=> b \in Index /\ b < mapped
    BY <2>1 DEF Index
  <2>4. UNION ToSet(Places) = 0..(mapped - 1)
    BY <2>2, <2>3, PlacesAre DEF CaptureInv, BufferInv
  <2>5. \A i, j \in 1..4 : i # j => Places[i] \cap Places[j] = {}
    <3>1. /\ Places[1] \cap Places[2] = {} /\ Places[1] \cap Places[3] = {}
          /\ Places[1] \cap Places[4] = {} /\ Places[2] \cap Places[3] = {}
          /\ Places[2] \cap Places[4] = {} /\ Places[3] \cap Places[4] = {}
      BY PlacesAre DEF CaptureInv, BufferInv
    <3>2. \A i \in 1..4 : i = 1 \/ i = 2 \/ i = 3 \/ i = 4
      OBVIOUS
    <3> QED
      BY <3>1, <3>2
  <2>6. IsInjective(empty \o filled)
    <3> DEFINE s == empty \o filled
    <3>1. /\ DOMAIN s = 1..(Len(empty) + Len(filled))
          /\ \A i \in 1..Len(empty) : s[i] = empty[i] /\ empty[i] \in Index
          /\ \A i \in 1..(Len(empty) + Len(filled)) : i \notin 1..Len(empty) =>
               /\ i - Len(empty) \in 1..Len(filled)
               /\ s[i] = filled[i - Len(empty)] /\ filled[i - Len(empty)] \in Index
      BY <2>1
    <3>2. Len(empty) \in Nat /\ Len(filled) \in Nat
      BY <2>1
    <3>3. Once(empty) /\ Once(filled) /\ \A b \in Index : ~ (Queued(b) /\ Full(b))
      BY DEF CaptureInv, BufferInv
    <3> HIDE DEF s
    <3>4. ASSUME NEW i \in DOMAIN s, NEW j \in DOMAIN s, s[i] = s[j]
          PROVE  i = j
      <4>1. CASE i \in 1..Len(empty) /\ j \in 1..Len(empty)
        BY <3>1, <3>3, <3>4, <4>1 DEF Once
      <4>2. CASE i \notin 1..Len(empty) /\ j \notin 1..Len(empty)
        <5>1. i - Len(empty) = j - Len(empty)
          BY <3>1, <3>3, <3>4, <4>2 DEF Once
        <5>2. i \in Int /\ j \in Int
          BY <3>1, <3>2
        <5> QED
          BY <3>2, <5>1, <5>2
      <4>3. CASE i \in 1..Len(empty) /\ j \notin 1..Len(empty)
        BY <3>1, <3>3, <3>4, <4>3 DEF Queued, Full, Has
      <4>4. CASE i \notin 1..Len(empty) /\ j \in 1..Len(empty)
        BY <3>1, <3>3, <3>4, <4>4 DEF Queued, Full, Has
      <4> QED
        BY <4>1, <4>2, <4>3, <4>4
    <3>5. IsInjective(s)
      BY <3>4 DEF IsInjective
    <3> QED
      BY <3>5 DEF s
  <2>7. Cardinality(lost) + Cardinality(broken) <= errors
    BY DEF CaptureInv, ErrorInv
  <2>8. pc = "wait" /\ granted > 1 /\ (epfd # "camera" \/ mapped < granted) => errors > 0
    BY DEF CaptureInv, ErrorInv
  <2> QED
    BY <2>4, <2>5, <2>6, <2>7, <2>8 DEF BuffersKept
<1> QED
  BY <1>1, CaptureInvariant, PTL
=============================================================================
