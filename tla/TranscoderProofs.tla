-------------------------- MODULE TranscoderProofs --------------------------
(***************************************************************************)
(* Proofs about Transcoder, for any number of frames and failures and any  *)
(* delays of the codecs: a transcoder that was built completely is used    *)
(* within the lifetime of its parts, every frame is accounted for, and a   *)
(* flush leaves nothing behind. And about EventQueue, from which the       *)
(* thread of a transcoder takes its frames: events leave in the order of   *)
(* their arrival, and no wakeup is lost.                                   *)
(***************************************************************************)
EXTENDS Transcoder, EventQueue, SequenceTheorems, FiniteSetTheorems, TLAPS

-----------------------------------------------------------------------------
(* The inductive invariant.                                                *)

Part == {"decoder", "filter", "encoder", "writer"}

Where == Part \cup {"begin", "idle", "decoding", "encoding", "flush", "end", "gone",
                    "undefined", "terminated"}

TypeOK ==
  /\ unknown \subseteq {"inFormat", "outFormat"}
  /\ built \in [Part -> Nat] /\ pb \in {"none", "open", "header"} /\ ready \in BOOLEAN
  /\ phase \in {"construct", "process", "decoder", "encoder"} /\ step \in Where
  /\ fed \in 0..MaxFrames
  /\ decoder \in Seq(Frame) /\ encoder \subseteq Frame /\ ended \subseteq {"decoder", "encoder"}
  /\ pts \in Nat /\ stamp \in [Frame -> Int]
  /\ muxer \in Seq(Frame) /\ out \in Seq(Frame \cup {0})
  /\ dropped \subseteq Frame /\ errors \in Nat

Complete(p) == built[p] = Len(Stages[p])

\* The parts whose constructors have returned.
Before == [decoder |-> {}, filter |-> {"decoder"}, encoder |-> {"decoder", "filter"},
           writer |-> {"decoder", "filter", "encoder"}, begin |-> Part]

\* Where the thread can be in each phase.
PhaseInv ==
  /\ phase = "construct" => step \in Part \cup {"begin", "terminated", "undefined"}
  /\ step \in Part \cup {"begin", "terminated"} => phase = "construct"
  /\ step = "idle" => phase = "process"
  /\ step = "decoding" => phase \in {"process", "decoder"}
  /\ step = "flush" => phase = "decoder"
  /\ step \in {"end", "gone"} => phase = "encoder"

\* What is missing is missing by a failure.
BuildInv ==
  /\ step \in Part => built[step] < Len(Stages[step])
  /\ \A s \in Part \cup {"begin"} : step = s =>
       /\ \A p \in Before[s] : Complete(p) \/ errors > 0
       /\ \A p \in Part \ Before[s] : p # s => built[p] = 0
  /\ phase = "construct" => ~ready /\ pb = "none"
  /\ phase # "construct" /\ ~ready => errors > 0
  /\ ready /\ step # "gone" => pb = "header" /\ \A p \in Part : Complete(p)
  /\ ready => step # "undefined"

\* The codecs have room when the loops come to give them more, and are told
\* of the end in order.
CodecInv ==
  /\ phase = "construct" => decoder = <<>> /\ encoder = {}
  /\ phase \in {"construct", "process"} => ended = {}
  /\ "encoder" \in ended => phase = "encoder"
  /\ Len(decoder) <= DecoderDelay + 1
  /\ step = "idle" => Len(decoder) <= DecoderDelay
  /\ Cardinality(encoder) <= EncoderDelay + 1
  /\ step \in {"idle", "decoding", "flush"} => Cardinality(encoder) <= EncoderDelay

\* Without a failure a loop ends only when its codec is empty.
FlushInv ==
  errors = 0 =>
    /\ phase = "decoder" /\ step \in {"decoding", "encoding"} => "decoder" \in ended
    /\ phase = "encoder" /\ step = "encoding" => "encoder" \in ended
    /\ step = "flush" \/ phase = "encoder" => decoder = <<>>
    /\ step \in {"end", "gone"} => encoder = {}

\* What the muxer was given, in order; a 0 at its end is the trailer.
Sent == out \o muxer

Packets == ToSet(Sent) \ {0}

\* Only a writer with a header has packets, and only its end adds the trailer.
WriterInv ==
  /\ pb # "header" /\ step # "gone" => out = <<>> /\ muxer = <<>>
  /\ step # "gone" => out \in Seq(Frame)
  /\ step = "gone" => /\ muxer = <<>>
                      /\ ready => out # <<>>
                      /\ out # <<>> => \A i \in 1..Len(out) : out[i] = 0 <=> i = Len(out)

\* A frame is in one place.
PlaceInv ==
  /\ ToSet(decoder) \cup encoder \cup Packets \cup dropped = 1..fed
  /\ ToSet(decoder) \cap encoder = {} /\ ToSet(decoder) \cap Packets = {}
  /\ ToSet(decoder) \cap dropped = {} /\ encoder \cap Packets = {}
  /\ encoder \cap dropped = {} /\ Packets \cap dropped = {}
  /\ IsInjective(Sent)

\* A codec that opened refuses no frame: what is lost is lost by a failure.
DropInv == ready \/ phase = "construct" => Cardinality(dropped) <= errors

Stamped == encoder \cup Packets

\* The frames come from the decoder in order, and are stamped in that order.
StampInv ==
  /\ \A i, j \in 1..Len(decoder) : i < j => decoder[i] < decoder[j]
  /\ \A f \in Stamped, i \in 1..Len(decoder) : f < decoder[i]
  /\ \A f \in Stamped : stamp[f] < pts
  /\ \A f, g \in Stamped : f < g => stamp[f] < stamp[g]

TransInv ==
  /\ TypeOK /\ PhaseInv /\ BuildInv /\ CodecInv /\ FlushInv
  /\ WriterInv /\ PlaceInv /\ DropInv /\ StampInv

-----------------------------------------------------------------------------
(* Facts about the parts, and about the sequences and sets of frames.      *)

USE TranscoderAssumption

\* The literal sequences of the model, as functions.
LEMMA StagesAre ==
  /\ ToSet(Parts) = Part
  /\ Len(Stages["decoder"]) = 4 /\ Len(Stages["filter"]) = 5
  /\ Len(Stages["encoder"]) = 4 /\ Len(Stages["writer"]) = 4
<1>1. ToSet(Parts) = Part
  BY DEF ToSet, Parts, Part
<1>2. /\ Len(Stages["decoder"]) = 4 /\ Len(Stages["filter"]) = 5
      /\ Len(Stages["encoder"]) = 4 /\ Len(Stages["writer"]) = 4
  BY DEF Stages, DecoderStages, FilterStages, EncoderStages, WriterStages
<1> QED
  BY <1>1, <1>2

\* No part is without stages.
LEMMA StageCount ==
  ASSUME NEW p \in Part
  PROVE  Len(Stages[p]) \in Nat /\ Len(Stages[p]) > 0
<1>1. CASE p = "decoder"
  BY <1>1, StagesAre
<1>2. CASE p = "filter"
  BY <1>2, StagesAre
<1>3. CASE p = "encoder"
  BY <1>3, StagesAre
<1>4. CASE p = "writer"
  BY <1>4, StagesAre
<1> QED
  BY <1>1, <1>2, <1>3, <1>4 DEF Part

\* A part that was built completely has each of its stages.
LEMMA CompleteHas ==
  /\ Complete("decoder") => Has("decoder", "context") /\ Has("decoder", "open")
                             /\ Has("decoder", "frame") /\ Has("decoder", "packet")
  /\ Complete("filter") => Has("filter", "frame")
  /\ Complete("encoder") => Has("encoder", "context") /\ Has("encoder", "open")
                             /\ Has("encoder", "packet")
  /\ Complete("writer") => Has("writer", "context") /\ Has("writer", "codecpar")
<1>1. Complete("decoder") => Has("decoder", "context") /\ Has("decoder", "open")
                             /\ Has("decoder", "frame") /\ Has("decoder", "packet")
  <2>1. Stages["decoder"] = <<"context", "open", "frame", "packet">>
    BY DEF Stages, DecoderStages
  <2> QED
    BY <2>1 DEF Complete, Has
<1>2. Complete("filter") => Has("filter", "frame")
  <2>1. Stages["filter"] = <<"in", "out", "pix_fmts", "graph", "frame">>
    BY DEF Stages, FilterStages
  <2> QED
    BY <2>1 DEF Complete, Has
<1>3. Complete("encoder") => Has("encoder", "context") /\ Has("encoder", "open")
                             /\ Has("encoder", "packet")
  <2>1. Stages["encoder"] = <<"context", "open", "frame", "packet">>
    BY DEF Stages, EncoderStages
  <2> QED
    BY <2>1 DEF Complete, Has
<1>4. Complete("writer") => Has("writer", "context") /\ Has("writer", "codecpar")
  <2>1. Stages["writer"] = <<"context", "stream", "codecpar", "packet">>
    BY DEF Stages, WriterStages
  <2> QED
    BY <2>1 DEF Complete, Has
<1> QED
  BY <1>1, <1>2, <1>3, <1>4

\* What a step appends to or takes from a sequence joins or leaves its set.
LEMMA AppendSet ==
  ASSUME NEW S, NEW q \in Seq(S), NEW x \in S
  PROVE  ToSet(Append(q, x)) = ToSet(q) \cup {x}
<1>1. /\ Len(q) \in Nat /\ DOMAIN q = 1..Len(q) /\ DOMAIN Append(q, x) = 1..(Len(q) + 1)
      /\ \A i \in 1..Len(q) : Append(q, x)[i] = q[i]
      /\ Append(q, x)[Len(q) + 1] = x
  OBVIOUS
<1>2. ASSUME NEW y \in ToSet(Append(q, x)) PROVE y \in ToSet(q) \cup {x}
  <2>1. PICK i \in 1..(Len(q) + 1) : y = Append(q, x)[i]
    BY <1>1 DEF ToSet
  <2>2. i \in 1..Len(q) \/ i = Len(q) + 1
    BY <1>1
  <2> QED
    BY <1>1, <2>1, <2>2 DEF ToSet
<1>3. x \in ToSet(Append(q, x))
  BY <1>1 DEF ToSet
<1>4. ASSUME NEW y \in ToSet(q) PROVE y \in ToSet(Append(q, x))
  <2>1. PICK i \in 1..Len(q) : y = q[i]
    BY <1>1 DEF ToSet
  <2>2. i \in 1..(Len(q) + 1)
    BY <1>1
  <2> QED
    BY <1>1, <2>1, <2>2 DEF ToSet
<1> QED
  BY <1>2, <1>3, <1>4

\* The first element leaves the set of a sequence without repetition.
LEMMA TailSet ==
  ASSUME NEW S, NEW q \in Seq(S), q # <<>>,
         \A i, j \in 1..Len(q) : i # j => q[i] # q[j]
  PROVE  /\ ToSet(Tail(q)) = ToSet(q) \ {Head(q)}
         /\ Head(q) \in ToSet(q)
<1>1. /\ Len(q) \in Nat /\ Len(q) >= 1 /\ Head(q) = q[1] /\ DOMAIN q = 1..Len(q)
      /\ Tail(q) \in Seq(S) /\ Len(Tail(q)) = Len(q) - 1
      /\ DOMAIN Tail(q) = 1..(Len(q) - 1)
      /\ \A i \in 1..(Len(q) - 1) : Tail(q)[i] = q[i + 1]
  OBVIOUS
<1>2. ASSUME NEW x \in ToSet(Tail(q)) PROVE x \in ToSet(q) \ {Head(q)}
  BY <1>1 DEF ToSet
<1>3. ASSUME NEW x \in ToSet(q) \ {Head(q)} PROVE x \in ToSet(Tail(q))
  <2>1. PICK i \in 1..Len(q) : x = q[i]
    BY <1>1 DEF ToSet
  <2>2. i # 1 /\ i - 1 \in 1..(Len(q) - 1) /\ Tail(q)[i - 1] = q[i]
    BY <1>1, <1>3, <2>1
  <2> QED
    BY <1>1, <2>1, <2>2 DEF ToSet
<1>4. Head(q) \in ToSet(q)
  BY <1>1 DEF ToSet
<1> QED
  BY <1>2, <1>3, <1>4

\* Appending something new keeps a sequence injective.
LEMMA InjectiveAppend ==
  ASSUME NEW S, NEW q \in Seq(S), NEW x \in S, IsInjective(q), x \notin ToSet(q)
  PROVE  IsInjective(Append(q, x))
  BY DEF IsInjective, ToSet

\* Cutting a sequence in two loses nothing.
LEMMA CutSame ==
  ASSUME NEW S, NEW q \in Seq(S), NEW n \in 0..Len(q)
  PROVE  /\ SubSeq(q, 1, n) \in Seq(S) /\ SubSeq(q, n + 1, Len(q)) \in Seq(S)
         /\ SubSeq(q, 1, n) \o SubSeq(q, n + 1, Len(q)) = q
<1> DEFINE a == SubSeq(q, 1, n)
           b == SubSeq(q, n + 1, Len(q))
<1>1. /\ a \in Seq(S) /\ Len(a) = n /\ \A i \in 1..n : a[i] = q[i]
  OBVIOUS
<1>2. /\ b \in Seq(S) /\ Len(b) = Len(q) - n
      /\ \A i \in 1..(Len(q) - n) : b[i] = q[n + i]
  OBVIOUS
<1> HIDE DEF a, b
<1>3. a \o b \in Seq(S) /\ Len(a \o b) = Len(q)
  BY <1>1, <1>2
<1>4. ASSUME NEW i \in 1..Len(q) PROVE (a \o b)[i] = q[i]
  <2>0. i <= n \/ i > n
    OBVIOUS
  <2>1. CASE i <= n
    <3>1. (a \o b)[i] = a[i]
      BY <1>1, <1>2, <2>1
    <3> QED
      BY <1>1, <2>1, <3>1
  <2>2. CASE i > n
    <3>1. (a \o b)[i] = b[i - n] /\ i - n \in 1..(Len(q) - n)
      BY <1>1, <1>2, <2>2
    <3>2. b[i - n] = q[n + (i - n)]
      BY <1>2, <3>1
    <3> QED
      BY <3>1, <3>2
  <2> QED
    BY <2>0, <2>1, <2>2
<1>5. a \o b = q
  BY <1>3, <1>4, SeqEqual
<1> QED
  BY <1>1, <1>2, <1>5 DEF a, b

\* The set of two sequences, one behind the other.
LEMMA ConcatSet ==
  ASSUME NEW S, NEW p \in Seq(S), NEW q \in Seq(S)
  PROVE  ToSet(p \o q) = ToSet(p) \cup ToSet(q)
<1>1. /\ Len(p) \in Nat /\ Len(q) \in Nat
      /\ DOMAIN p = 1..Len(p) /\ DOMAIN q = 1..Len(q)
      /\ DOMAIN (p \o q) = 1..(Len(p) + Len(q))
      /\ \A i \in 1..Len(p) : (p \o q)[i] = p[i]
      /\ \A i \in 1..Len(q) : (p \o q)[Len(p) + i] = q[i]
  OBVIOUS
<1>2. ASSUME NEW x \in ToSet(p \o q) PROVE x \in ToSet(p) \cup ToSet(q)
  <2>1. PICK i \in 1..(Len(p) + Len(q)) : x = (p \o q)[i]
    BY <1>1 DEF ToSet
  <2>2. CASE i \in 1..Len(p)
    BY <1>1, <2>1, <2>2 DEF ToSet
  <2>3. CASE i \notin 1..Len(p)
    <3>1. i - Len(p) \in 1..Len(q) /\ Len(p) + (i - Len(p)) = i
      BY <1>1, <2>1, <2>3
    <3>2. x = q[i - Len(p)]
      BY <1>1, <2>1, <3>1
    <3> QED
      BY <1>1, <3>1, <3>2 DEF ToSet
  <2> QED
    BY <2>2, <2>3
<1>3. ASSUME NEW x \in ToSet(p) PROVE x \in ToSet(p \o q)
  <2>1. PICK i \in 1..Len(p) : x = p[i]
    BY <1>1 DEF ToSet
  <2>2. i \in 1..(Len(p) + Len(q))
    BY <1>1
  <2> QED
    BY <1>1, <2>1, <2>2 DEF ToSet
<1>4. ASSUME NEW x \in ToSet(q) PROVE x \in ToSet(p \o q)
  <2>1. PICK i \in 1..Len(q) : x = q[i]
    BY <1>1 DEF ToSet
  <2>2. Len(p) + i \in 1..(Len(p) + Len(q))
    BY <1>1
  <2> QED
    BY <1>1, <2>1, <2>2 DEF ToSet
<1> QED
  BY <1>2, <1>3, <1>4

\* The set of five places.
LEMMA FiveSet ==
  ASSUME NEW a, NEW b, NEW c, NEW d, NEW e
  PROVE  ToSet(<<a, b, c, d, e>>) = {a, b, c, d, e}
  BY DEF ToSet

\* Nothing is in both halves of an injective sequence.
LEMMA InjectiveHalves ==
  ASSUME NEW S, NEW p \in Seq(S), NEW q \in Seq(S), IsInjective(p \o q)
  PROVE  ToSet(p) \cap ToSet(q) = {}
<1>1. /\ Len(p) \in Nat /\ Len(q) \in Nat
      /\ DOMAIN p = 1..Len(p) /\ DOMAIN q = 1..Len(q)
      /\ DOMAIN (p \o q) = 1..(Len(p) + Len(q))
      /\ \A i \in 1..Len(p) : (p \o q)[i] = p[i]
      /\ \A i \in 1..Len(q) : (p \o q)[Len(p) + i] = q[i]
  OBVIOUS
<1>2. ASSUME NEW x \in ToSet(p), x \in ToSet(q) PROVE FALSE
  <2>1. PICK i \in 1..Len(p) : x = p[i]
    BY <1>1 DEF ToSet
  <2>2. PICK j \in 1..Len(q) : x = q[j]
    BY <1>1, <1>2 DEF ToSet
  <2>3. /\ i \in DOMAIN (p \o q) /\ Len(p) + j \in DOMAIN (p \o q) /\ i # Len(p) + j
    BY <1>1
  <2> QED
    BY <1>1, <2>1, <2>2, <2>3 DEF IsInjective
<1> QED
  BY <1>2

\* Frames are finitely many, and a set grows by at most one at a time.
LEMMA FramesFinite ==
  ASSUME NEW A \in SUBSET Frame, NEW f \in Frame
  PROVE  /\ IsFiniteSet(A) /\ Cardinality(A) \in Nat
         /\ Cardinality(A) = 0 => A = {}
         /\ Cardinality(A \cup {f}) <= Cardinality(A) + 1
         /\ Cardinality(A \cup {f}) \in Nat
         /\ Cardinality(A \ {f}) \in Nat
         /\ Cardinality(A \ {f}) <= Cardinality(A)
         /\ f \in A => Cardinality(A \ {f}) = Cardinality(A) - 1
<1>1. IsFiniteSet(Frame)
  BY FS_Interval DEF Frame
<1>2. IsFiniteSet(A)
  BY <1>1, FS_Subset
<1>3. Cardinality(A) \in Nat /\ (Cardinality(A) = 0 => A = {})
  BY <1>2, FS_CardinalityType, FS_EmptySet
<1>4. Cardinality(A \cup {f}) = IF f \in A THEN Cardinality(A) ELSE Cardinality(A) + 1
  BY <1>2, FS_AddElement
<1>5. Cardinality(A \ {f}) = IF f \in A THEN Cardinality(A) - 1 ELSE Cardinality(A)
  BY <1>2, FS_RemoveElement
<1>6. Cardinality(A \ {f}) \in Nat
  BY <1>2, FS_RemoveElement, FS_CardinalityType
<1> QED
  BY <1>2, <1>3, <1>4, <1>5, <1>6
\* The frames in the codecs and the lost ones can be counted.
LEMMA FramesNumber ==
  ASSUME TransInv
  PROVE  Cardinality(encoder) \in Nat /\ Cardinality(dropped) \in Nat
<1>1. dropped \subseteq Frame /\ encoder \subseteq Frame /\ IsFiniteSet(Frame)
  BY FS_Interval, TranscoderAssumption DEF TransInv, TypeOK, Frame
<1> QED
  BY <1>1, FS_Subset, FS_CardinalityType

-----------------------------------------------------------------------------
(* The invariant holds at first, and each action keeps it.                 *)

\* The places of the frames, for actions that move none of them.
Places == <<fed, decoder, encoder, muxer, out, pts, stamp, dropped>>

\* Constructors, flushes and misuse: each frame stays where it is.
LEMMA PlacesKept ==
  ASSUME TransInv, UNCHANGED Places
  PROVE  PlaceInv' /\ StampInv'
<1>1. PlaceInv'
  BY DEF TransInv, PlaceInv, Places, Packets, Sent
<1>2. StampInv'
  BY DEF TransInv, StampInv, Stamped, Places, Packets, Sent
<1> QED
  BY <1>1, <1>2

\* Nothing is built, nothing has failed and there is no frame.
LEMMA TransInit == Init => TransInv
<1> SUFFICES ASSUME Init PROVE TransInv
  OBVIOUS
<1>1. step = "decoder" /\ phase = "construct" /\ errors = 0 /\ ready = FALSE /\ pb = "none"
  BY DEF Init, Parts
<1>2. built = [p \in Part |-> 0]
  BY StagesAre DEF Init
<1>3. fed = 0 /\ decoder = <<>> /\ encoder = {} /\ ended = {} /\ pts = 0
      /\ muxer = <<>> /\ out = <<>> /\ dropped = {}
  BY DEF Init
<1>4. TypeOK
  <2>0. unknown \subseteq {"inFormat", "outFormat"}
    BY DEF Init
  <2>1. /\ built \in [Part -> Nat]
        /\ pb \in {"none", "open", "header"} /\ ready \in BOOLEAN
        /\ phase \in {"construct", "process", "decoder", "encoder"} /\ step \in Where
    BY <1>1, <1>2 DEF Where, Part
  <2>2. stamp \in [Frame -> Int]
    BY DEF Init
  <2>3. /\ fed \in 0..MaxFrames /\ pts \in Nat /\ errors \in Nat
        /\ decoder \in Seq(Frame) /\ encoder \subseteq Frame
        /\ ended \subseteq {"decoder", "encoder"}
        /\ muxer \in Seq(Frame) /\ out \in Seq(Frame \cup {0}) /\ dropped \subseteq Frame
    BY <1>1, <1>3, TranscoderAssumption
  <2> QED
    BY <2>0, <2>1, <2>2, <2>3 DEF TypeOK
<1>5. PhaseInv
  BY <1>1 DEF PhaseInv, Part
<1>6. BuildInv
  BY <1>1, <1>2, StagesAre DEF BuildInv, Part, Before
<1>7. CodecInv /\ FlushInv
  <2>1. Cardinality({}) = 0
    BY FS_EmptySet
  <2> QED
    BY <1>1, <1>3, <2>1, TranscoderAssumption DEF CodecInv, FlushInv
<1>8. WriterInv
  BY <1>1, <1>3 DEF WriterInv
<1>9. Sent = <<>> /\ Packets = {} /\ ToSet(decoder) = {}
  BY <1>3 DEF Sent, Packets, ToSet
<1>10. PlaceInv /\ StampInv
  <2>1. IsInjective(Sent)
    BY <1>9 DEF IsInjective
  <2>2. PlaceInv
    BY <1>3, <1>9, <2>1 DEF PlaceInv
  <2>3. StampInv
    BY <1>3, <1>9 DEF StampInv, Stamped
  <2> QED
    BY <2>2, <2>3
<1>11. DropInv
  BY <1>1, <1>3, FS_EmptySet DEF DropInv
<1> QED
  BY <1>4, <1>5, <1>6, <1>7, <1>8, <1>10, <1>11 DEF TransInv

\* A constructor goes on to the next part when this one is complete, or when
\* something failed.
LEMMA ConstructKeeps ==
  ASSUME TransInv, Construct
  PROVE  TransInv'
<1>0. TypeOK /\ PhaseInv /\ BuildInv /\ CodecInv /\ FlushInv /\ WriterInv /\ DropInv
  BY DEF TransInv
<1>1. /\ phase = "construct" /\ phase' = "construct" /\ ready' = ready /\ pb' = pb
      /\ step \in Part /\ ~ready /\ pb = "none" /\ ended = {}
      /\ UNCHANGED <<unknown, ended, Places>>
  BY <1>0, StagesAre DEF Construct, codecVars, writerVars, BuildInv, Places, CodecInv
<1>2. /\ errors' \in Nat /\ errors' >= errors
      /\ built' \in [Part -> Nat]
      /\ \/ step' = "terminated" /\ built' = built
         \/ /\ built' = [built EXCEPT ![step] = @ + 1]
            /\ step' = IF built'[step] = Len(Stages[step]) THEN AfterPart[step] ELSE step
            /\ errors' = errors
         \/ built' = built /\ step' = AfterPart[step] /\ errors' > 0
  <2>1. errors \in Nat /\ built \in [Part -> Nat]
    BY <1>0 DEF TypeOK
  <2> QED
    BY <1>1, <2>1 DEF Construct, Fails
<1>3. step' \in Part \cup {"begin", "terminated"}
  BY <1>1, <1>2 DEF AfterPart, Part
<1>4. TypeOK'
  BY <1>0, <1>1, <1>2, <1>3 DEF TypeOK, Where, Places
<1>5. PhaseInv'
  BY <1>1, <1>3 DEF PhaseInv, Part
<1>6. BuildInv'
  <2>0. errors \in Nat /\ built \in [Part -> Nat]
    BY <1>0 DEF TypeOK
  <2>1. CASE step' = "terminated"
    BY <1>1, <2>1 DEF BuildInv, Part
  <2>2. CASE step' = step /\ step' # "terminated"
    <3>1. /\ built' = [built EXCEPT ![step] = @ + 1] /\ errors' = errors
          /\ built'[step] # Len(Stages[step])
      BY <1>1, <1>2, <2>2 DEF AfterPart, Part
    <3>2. \A p \in Part : p # step => built'[p] = built[p]
      BY <1>1, <2>0, <3>1
    <3>3. built'[step] = built[step] + 1 /\ built[step] < Len(Stages[step])
          /\ Len(Stages[step]) \in Nat
      BY <1>0, <1>1, <2>0, <3>1, StagesAre DEF BuildInv, Part
    <3>4. built'[step'] < Len(Stages[step'])
      BY <1>1, <2>0, <2>2, <3>1, <3>3
    <3>5. ASSUME NEW s \in Part \cup {"begin"}, step' = s
          PROVE  /\ \A p \in Before[s] : Complete(p)' \/ errors' > 0
                 /\ \A p \in Part \ Before[s] : p # s => built'[p] = 0
      <4>1. step = s /\ s \in Part
        BY <1>1, <2>2, <3>5
      <4>2. s \notin Before[s] /\ Before[s] \subseteq Part
        BY <4>1 DEF Before, Part
      <4> QED
        BY <1>0, <3>1, <3>2, <4>1, <4>2 DEF BuildInv, Complete
    <3> QED
      BY <1>1, <2>2, <3>4, <3>5 DEF BuildInv
  <2>3. CASE step' = AfterPart[step]
    <3>0. PICK s \in Part : s = step
      BY <1>1
    <3>1. built'[s] = Len(Stages[s]) \/ errors' > 0
      <4>1. AfterPart[s] # s /\ AfterPart[s] # "terminated"
        BY <3>0 DEF AfterPart, Part
      <4> QED
        BY <1>2, <2>3, <3>0, <4>1
    <3>2. \A p \in Part : p # s => built'[p] = built[p]
      BY <1>1, <1>2, <2>0, <3>0
    <3>3. /\ \A p \in Before[s] : Complete(p) \/ errors > 0
          /\ \A p \in Part \ Before[s] : p # s => built[p] = 0
      BY <1>0, <3>0 DEF BuildInv
    <3>4. /\ Before[step'] = Before[s] \cup {s} /\ s \notin Before[s]
          /\ step' # s /\ step' \in Part \cup {"begin"} /\ step' \notin Before[step']
          /\ Before[s] \subseteq Part
      BY <2>3, <3>0 DEF Before, AfterPart, Part
    <3>5. ASSUME NEW p \in Before[step'] PROVE Complete(p)' \/ errors' > 0
      <4>1. CASE p = s
        BY <3>1, <4>1 DEF Complete
      <4>2. CASE p \in Before[s]
        <5>1. built'[p] = built[p]
          BY <3>2, <3>4, <4>2
        <5>2. errors > 0 => errors' > 0
          BY <1>2, <2>0
        <5> QED
          BY <3>3, <4>2, <5>1, <5>2 DEF Complete
      <4> QED
        BY <3>4, <4>1, <4>2
    <3>6. \A p \in Part \ Before[step'] : built'[p] = 0
      BY <3>2, <3>3, <3>4
    <3>7. step' \in Part => built'[step'] < Len(Stages[step'])
      <4>1. step' \in Part => built'[step'] = 0
        BY <3>4, <3>6
      <4>2. ASSUME NEW p \in Part PROVE Len(Stages[p]) > 0
        BY StageCount
      <4> QED
        BY <4>1, <4>2
    <3> QED
      BY <1>1, <3>4, <3>5, <3>6, <3>7 DEF BuildInv
  <2> QED
    BY <1>2, <2>1, <2>2, <2>3
<1>7. CodecInv' /\ FlushInv'
  BY <1>0, <1>1, <1>3 DEF CodecInv, FlushInv, Places, Part
<1>8. WriterInv'
  BY <1>0, <1>1, <1>3 DEF WriterInv, Places, Part
<1>9. DropInv'
  <2>1. errors \in Nat
    BY <1>0 DEF TypeOK
  <2> QED
    BY <1>0, <1>1, <1>2, <2>1, FramesNumber DEF DropInv, Places
<1> QED
  BY <1>1, <1>4, <1>5, <1>6, <1>7, <1>8, <1>9, PlacesKept DEF TransInv
\* A transcoder that is ready has all it uses.
LEMMA ReadyHas ==
  ASSUME TransInv, ready, step # "gone"
  PROVE  /\ pb = "header"
         /\ Has("decoder", "context") /\ Has("decoder", "open")
         /\ Has("decoder", "frame") /\ Has("decoder", "packet")
         /\ Has("filter", "frame")
         /\ Has("encoder", "context") /\ Has("encoder", "open") /\ Has("encoder", "packet")
<1>1. /\ pb = "header" /\ Complete("decoder") /\ Complete("filter")
      /\ Complete("encoder") /\ Complete("writer")
  BY DEF TransInv, BuildInv, Part
<1> QED
  BY <1>1, CompleteHas

\* Begin finds out whether the transcoder is ready: if a part misses a stage,
\* or the header is not out, something failed.
LEMMA BeginKeeps ==
  ASSUME TransInv, Begin
  PROVE  TransInv'
<1>0. TypeOK /\ PhaseInv /\ BuildInv /\ CodecInv /\ FlushInv /\ WriterInv /\ DropInv
  BY DEF TransInv
<1>1. /\ step = "begin" /\ phase = "construct" /\ pb = "none" /\ ready = FALSE
      /\ ended = {} /\ out = <<>> /\ muxer = <<>>
  <2>1. step = "begin" /\ phase = "construct"
    BY <1>0 DEF Begin, PhaseInv
  <2>2. pb = "none" /\ ready = FALSE
    BY <1>0, <2>1 DEF BuildInv, TypeOK
  <2> QED
    BY <1>0, <2>1, <2>2 DEF CodecInv, WriterInv
<1>2. UNCHANGED <<unknown, built, ended, Places>>
  BY DEF Begin, codecVars, writerVars, Places
<1>3. errors \in Nat /\ errors' \in Nat /\ errors' >= errors
  BY <1>0 DEF TypeOK, Begin, Fails
<1>4. \/ step' = "undefined" /\ phase' = phase /\ ready' = ready /\ pb' = pb
      \/ /\ step' = "idle" /\ phase' = "process" /\ pb' \in {"none", "open", "header"}
         /\ ready' = (pb' = "header" /\ \A p \in Part : Complete(p))
         /\ pb' = "header" \/ errors' > 0 \/ ~Has("writer", "codecpar")
  <2>1. errors' = errors + 1 => errors' > 0
    BY <1>3
  <2> QED
    BY <2>1, StagesAre DEF Begin, Fails, Complete
<1>5. ready' \in BOOLEAN
  BY <1>1, <1>4
<1>6. TypeOK'
  BY <1>0, <1>1, <1>2, <1>3, <1>4, <1>5 DEF TypeOK, Where, Places
<1>7. PhaseInv'
  BY <1>1, <1>4 DEF PhaseInv, Part
<1>8. BuildInv'
  <2>1. CASE step' = "undefined"
    BY <1>1, <1>4, <2>1 DEF BuildInv, Part
  <2>2. CASE step' # "undefined"
    <3>1. /\ step' = "idle" /\ phase' = "process"
          /\ ready' = (pb' = "header" /\ \A p \in Part : Complete(p))
          /\ pb' = "header" \/ errors' > 0 \/ ~Has("writer", "codecpar")
      BY <1>4, <2>2
    <3>2. \A p \in Part : Complete(p)' = Complete(p)
      BY <1>2 DEF Complete
    <3>3. ~ready' => errors' > 0
      <4>1. \A p \in Part : Complete(p) \/ errors > 0
        BY <1>0, <1>1 DEF BuildInv, Before
      <4>2. errors > 0 => errors' > 0
        BY <1>3
      <4>3. "writer" \in Part
        BY DEF Part
      <4> QED
        BY <3>1, <4>1, <4>2, <4>3, CompleteHas
    <3>4. step' \notin Part \cup {"begin"} /\ phase' # "construct"
      BY <3>1 DEF Part
    <3>5. ready' => pb' = "header" /\ \A p \in Part : Complete(p)'
      BY <3>1, <3>2
    <3>6. step' # "undefined"
      BY <2>2
    <3> QED
      BY <3>3, <3>4, <3>5, <3>6 DEF BuildInv
  <2> QED
    BY <2>1, <2>2
<1>9. CodecInv'
  <2>1. decoder' = <<>> /\ encoder' = {} /\ ended' = {}
    BY <1>0, <1>1, <1>2 DEF CodecInv, Places
  <2>2. Len(decoder') = 0 /\ Cardinality(encoder') = 0
    BY <2>1, FS_EmptySet
  <2> QED
    BY <2>1, <2>2, TranscoderAssumption DEF CodecInv
<1>10. FlushInv'
  BY <1>1, <1>4 DEF FlushInv
<1>11. WriterInv'
  BY <1>1, <1>2, <1>4 DEF WriterInv, Places
<1>12. DropInv'
  BY <1>0, <1>1, <1>2, <1>3, FramesNumber DEF DropInv, Places
<1> QED
  BY <1>2, <1>6, <1>7, <1>8, <1>9, <1>10, <1>11, <1>12, PlacesKept DEF TransInv

\* What is undefined in a transcoder happens in none that is ready.
LEMMA MisuseKeeps ==
  ASSUME TransInv, Misuse
  PROVE  TransInv'
<1>0. TypeOK /\ PhaseInv /\ BuildInv /\ CodecInv /\ FlushInv /\ WriterInv /\ DropInv
  BY DEF TransInv
<1>1. /\ step' = "undefined"
      /\ step \in {"idle", "decoding", "flush", "encoding", "end"}
      /\ UNCHANGED <<unknown, built, pb, ready, phase, ended, errors, Places>>
  BY DEF Misuse, buildVars, codecVars, writerVars, Places
<1>2. ~ready
  <2>1. SUFFICES ASSUME ready PROVE FALSE
    OBVIOUS
  <2>2. step # "gone"
    BY <1>1
  <2> QED
    BY <2>1, <2>2, ReadyHas DEF Misuse
<1>3. phase # "construct" /\ errors > 0
  BY <1>0, <1>1, <1>2 DEF PhaseInv, BuildInv, Part
<1>4. TypeOK'
  BY <1>0, <1>1 DEF TypeOK, Where, Places
<1>5. PhaseInv' /\ BuildInv'
  BY <1>1, <1>2, <1>3 DEF PhaseInv, BuildInv, Part
<1>6. CodecInv' /\ FlushInv'
  BY <1>0, <1>1, <1>3 DEF CodecInv, FlushInv, Places
<1>7. WriterInv' /\ DropInv'
  BY <1>0, <1>1 DEF WriterInv, DropInv, Places
<1> QED
  BY <1>1, <1>4, <1>5, <1>6, <1>7, PlacesKept DEF TransInv

\* Decoder::Flush leaves its loop out only after a failure.
LEMMA FlushKeeps ==
  ASSUME TransInv, Flush
  PROVE  TransInv'
<1>0. TypeOK /\ PhaseInv /\ BuildInv /\ CodecInv /\ FlushInv /\ WriterInv /\ DropInv
  BY DEF TransInv
<1>1. /\ step = "idle" /\ phase = "process" /\ phase' = "decoder" /\ ended = {}
      /\ UNCHANGED <<unknown, built, pb, ready, Places>>
  BY <1>0 DEF Flush, buildVars, writerVars, Places, CodecInv
<1>2. errors \in Nat /\ errors' \in Nat /\ errors' >= errors
  BY <1>0 DEF TypeOK, Flush, Fails
<1>3. \/ ended' = {"decoder"} /\ step' = "decoding"
      \/ ended' = {} /\ step' = "flush" /\ (~Has("decoder", "open") \/ errors' > 0)
  <2>1. errors' = errors + 1 => errors' > 0
    BY <1>2
  <2> QED
    BY <1>1, <2>1 DEF Flush, Fails
<1>4. Complete("decoder") \/ errors > 0
  BY <1>0, <1>1 DEF BuildInv, Part
<1>5. TypeOK'
  BY <1>0, <1>1, <1>2, <1>3 DEF TypeOK, Where, Places
<1>6. PhaseInv' /\ BuildInv'
  <2>1. ~ready => errors' > 0
    BY <1>0, <1>1, <1>2 DEF BuildInv
  <2>2. \A p \in Part : Complete(p)' = Complete(p)
    BY <1>1 DEF Complete
  <2>3. step' \notin Part \cup {"begin", "undefined", "terminated", "idle", "end", "gone"}
    BY <1>3 DEF Part
  <2>4. ready' => pb' = "header" /\ \A p \in Part : Complete(p)'
    BY <1>0, <1>1, <2>2 DEF BuildInv
  <2>5. BuildInv'
    BY <1>1, <2>1, <2>3, <2>4 DEF BuildInv
  <2>6. PhaseInv'
    BY <1>1, <1>3, <2>3 DEF PhaseInv
  <2> QED
    BY <2>5, <2>6
<1>7. CodecInv'
  BY <1>0, <1>1, <1>3 DEF CodecInv, Places
<1>8. FlushInv'
  <2>1. step' = "flush" => errors' > 0
    <3>1. errors > 0 => errors' > 0
      BY <1>2
    <3> QED
      BY <1>3, <1>4, <3>1, CompleteHas
  <2> QED
    BY <1>1, <1>2, <1>3, <2>1 DEF FlushInv
<1>9. WriterInv'
  BY <1>0, <1>1, <1>3 DEF WriterInv, Places
<1>10. DropInv'
  BY <1>0, <1>1, <1>2, FramesNumber DEF DropInv, Places
<1> QED
  BY <1>1, <1>5, <1>6, <1>7, <1>8, <1>9, <1>10, PlacesKept DEF TransInv

\* Encoder::Flush likewise; then the decoder is empty already.
LEMMA FlushEncoderKeeps ==
  ASSUME TransInv, FlushEncoder
  PROVE  TransInv'
<1>0. TypeOK /\ PhaseInv /\ BuildInv /\ CodecInv /\ FlushInv /\ WriterInv /\ DropInv
  BY DEF TransInv
<1>1. /\ step = "flush" /\ phase = "decoder" /\ phase' = "encoder"
      /\ UNCHANGED <<unknown, built, pb, ready, Places>>
  BY <1>0 DEF FlushEncoder, buildVars, writerVars, Places, PhaseInv
<1>2. errors \in Nat /\ errors' \in Nat /\ errors' >= errors
  BY <1>0 DEF TypeOK, FlushEncoder, Fails
<1>3. \/ ended' = ended \cup {"encoder"} /\ step' = "encoding"
      \/ ended' = ended /\ step' = "end" /\ (~Has("encoder", "open") \/ errors' > 0)
  <2>1. errors' = errors + 1 => errors' > 0
    BY <1>2
  <2> QED
    BY <1>1, <2>1 DEF FlushEncoder, Fails
<1>4. Complete("encoder") \/ errors > 0
  BY <1>0, <1>1 DEF BuildInv, Part
<1>5. TypeOK'
  BY <1>0, <1>1, <1>2, <1>3 DEF TypeOK, Where, Places
<1>6. PhaseInv' /\ BuildInv'
  <2>1. ~ready => errors' > 0
    BY <1>0, <1>1, <1>2 DEF BuildInv
  <2>2. \A p \in Part : Complete(p)' = Complete(p)
    BY <1>1 DEF Complete
  <2>3. step' \notin Part \cup {"begin", "undefined", "terminated", "idle", "decoding", "flush", "gone"}
    BY <1>3 DEF Part
  <2>4. ready' => pb' = "header" /\ \A p \in Part : Complete(p)'
    BY <1>0, <1>1, <2>2 DEF BuildInv
  <2>5. BuildInv'
    BY <1>1, <2>1, <2>3, <2>4 DEF BuildInv
  <2>6. PhaseInv'
    BY <1>1, <1>3, <2>3 DEF PhaseInv
  <2> QED
    BY <2>5, <2>6
<1>7. CodecInv'
  BY <1>0, <1>1, <1>3 DEF CodecInv, Places
<1>8. FlushInv'
  <2>1. step' = "end" => errors' > 0
    <3>1. errors > 0 => errors' > 0
      BY <1>2
    <3> QED
      BY <1>3, <1>4, <3>1, CompleteHas
  <2>2. errors' = 0 => errors = 0
    BY <1>2
  <2>3. errors = 0 => decoder' = <<>>
    BY <1>0, <1>1 DEF FlushInv, Places
  <2> QED
    BY <1>1, <1>3, <2>1, <2>2, <2>3 DEF FlushInv
<1>9. WriterInv'
  BY <1>0, <1>1, <1>3 DEF WriterInv, Places
<1>10. DropInv'
  BY <1>0, <1>1, <1>2, FramesNumber DEF DropInv, Places
<1> QED
  BY <1>1, <1>5, <1>6, <1>7, <1>8, <1>9, <1>10, PlacesKept DEF TransInv
-----------------------------------------------------------------------------
(* The loops: what all their actions have in common.                       *)

\* A turn of a loop leaves the parts as they are,
LEMMA LoopBuild ==
  ASSUME TransInv, UNCHANGED <<buildVars, phase>>, errors' \in Nat, errors' >= errors,
         step # "gone", phase # "construct",
         step' \in {"idle", "decoding", "encoding", "flush", "end"}
  PROVE  BuildInv'
<1>1. BuildInv /\ errors \in Nat
  BY DEF TransInv, TypeOK
<1>2. /\ built' = built /\ pb' = pb /\ ready' = ready /\ phase' = phase
      /\ \A p \in Part : Complete(p)' = Complete(p)
  BY DEF buildVars, Complete
<1>3. step' \notin Part \cup {"begin", "undefined"}
  BY DEF Part
<1>4. ~ready' => errors' > 0
  BY <1>1, <1>2 DEF BuildInv
<1>5. ready' => pb' = "header" /\ \A p \in Part : Complete(p)'
  BY <1>1, <1>2 DEF BuildInv
<1> QED
  BY <1>2, <1>3, <1>4, <1>5 DEF BuildInv

\* and loses a frame only by a failure, or in a transcoder that never was
\* ready.
LEMMA LoopDrops ==
  ASSUME TransInv, UNCHANGED <<buildVars, phase>>, phase # "construct", errors' \in Nat,
         \/ dropped' = dropped /\ errors' >= errors
         \/ \E f \in Frame : /\ dropped' = dropped \cup {f}
                             /\ errors' = errors + 1 \/ ~ready
  PROVE  DropInv'
<1>1. DropInv /\ errors \in Nat /\ dropped \in SUBSET Frame /\ Cardinality(dropped) \in Nat
  BY FramesNumber DEF TransInv, TypeOK
<1>2. ready' = ready /\ phase' = phase
  BY DEF buildVars
<1>3. CASE dropped' = dropped /\ errors' >= errors
  BY <1>1, <1>2, <1>3 DEF DropInv
<1>4. CASE ~(dropped' = dropped /\ errors' >= errors)
  <2>0. PICK f \in Frame : /\ dropped' = dropped \cup {f}
                           /\ errors' = errors + 1 \/ ~ready
    BY <1>4
  <2>1. /\ Cardinality(dropped \cup {f}) <= Cardinality(dropped) + 1
        /\ Cardinality(dropped \cup {f}) \in Nat
    <3>1. f \in Frame /\ dropped \in SUBSET Frame
      BY <1>1
    <3> QED
      BY <3>1, FramesFinite
  <2> QED
    BY <1>1, <1>2, <2>0, <2>1 DEF DropInv
<1> QED
  BY <1>3, <1>4

\* The frames in the decoder are in order, so that it has each of them once.
LEMMA DecoderOrder ==
  ASSUME TransInv, decoder # <<>>
  PROVE  /\ ToSet(Tail(decoder)) = ToSet(decoder) \ {Head(decoder)}
         /\ Head(decoder) \in ToSet(decoder) /\ Head(decoder) \in Frame
         /\ Head(decoder) = decoder[1] /\ Len(decoder) \in Nat /\ Len(decoder) >= 1
         /\ Tail(decoder) \in Seq(Frame) /\ Len(Tail(decoder)) = Len(decoder) - 1
         /\ \A i \in 1..Len(Tail(decoder)) : /\ i + 1 \in 1..Len(decoder)
                                             /\ Tail(decoder)[i] = decoder[i + 1]
<1>1. decoder \in Seq(Frame) /\ \A i, j \in 1..Len(decoder) : i < j => decoder[i] < decoder[j]
  BY DEF TransInv, TypeOK, StampInv
<1>2. /\ Len(decoder) \in Nat /\ Len(decoder) >= 1 /\ Head(decoder) = decoder[1]
      /\ Tail(decoder) \in Seq(Frame) /\ Len(Tail(decoder)) = Len(decoder) - 1
      /\ Head(decoder) \in Frame
  BY <1>1
<1>3. \A i \in 1..Len(Tail(decoder)) : /\ i + 1 \in 1..Len(decoder)
                                    /\ Tail(decoder)[i] = decoder[i + 1]
  BY <1>1, <1>2
<1>4. \A i, j \in 1..Len(decoder) : i # j => decoder[i] # decoder[j]
  <2>1. SUFFICES ASSUME NEW i \in 1..Len(decoder), NEW j \in 1..Len(decoder), i # j
                 PROVE  decoder[i] # decoder[j]
    OBVIOUS
  <2>2. decoder[i] \in Int /\ decoder[j] \in Int
    BY <1>1 DEF Frame
  <2>3. i < j \/ j < i
    BY <1>2, <2>1
  <2> QED
    BY <1>1, <2>2, <2>3
<1> QED
  BY <1>1, <1>2, <1>3, <1>4, TailSet

\* A frame that is gone from the decoder leaves the others in order.
LEMMA TailStamps ==
  ASSUME TransInv, decoder # <<>>, decoder' = Tail(decoder),
         UNCHANGED <<encoder, out, muxer, stamp, pts>>
  PROVE  StampInv'
<1>1. StampInv
  BY DEF TransInv
<1>2. Stamped' = Stamped /\ stamp' = stamp /\ pts' = pts
  BY DEF Stamped, Packets, Sent
<1>3. /\ Len(decoder) \in Nat /\ Len(decoder') = Len(decoder) - 1
      /\ \A i \in 1..Len(decoder') : i + 1 \in 1..Len(decoder) /\ decoder'[i] = decoder[i + 1]
  BY DecoderOrder
<1>4. \A i, j \in 1..Len(decoder') : i < j => decoder'[i] < decoder'[j]
  BY <1>1, <1>3 DEF StampInv
<1>5. \A f \in Stamped', i \in 1..Len(decoder') : f < decoder'[i]
  BY <1>1, <1>2, <1>3 DEF StampInv
<1> QED
  BY <1>1, <1>2, <1>4, <1>5 DEF StampInv

\* The places of the frames do not overlap and none is missing.
Partition(D, E, P, X, n) ==
  /\ D \cup E \cup P \cup X = 1..n
  /\ D \cap E = {} /\ D \cap P = {} /\ D \cap X = {}
  /\ E \cap P = {} /\ E \cap X = {} /\ P \cap X = {}

\* The invariant in terms of Partition, in this state and the next one.
LEMMA PlaceIs ==
  /\ PlaceInv <=> /\ Partition(ToSet(decoder), encoder, Packets, dropped, fed)
                  /\ IsInjective(Sent)
  /\ PlaceInv' <=> /\ Partition(ToSet(decoder'), encoder', Packets', dropped', fed')
                   /\ IsInjective(Sent')
<1>1. PlaceInv <=> /\ Partition(ToSet(decoder), encoder, Packets, dropped, fed)
                   /\ IsInjective(Sent)
  BY DEF PlaceInv, Partition
<1>2. PlaceInv' <=> /\ Partition(ToSet(decoder'), encoder', Packets', dropped', fed')
                    /\ IsInjective(Sent')
  BY DEF PlaceInv, Partition
<1> QED
  BY <1>1, <1>2

\* A frame that arrives is nowhere yet.
LEMMA Arrives ==
  ASSUME NEW D, NEW E, NEW P, NEW X, NEW n \in Nat, Partition(D, E, P, X, n)
  PROVE  /\ Partition(D \cup {n + 1}, E, P, X, n + 1)
         /\ Partition(D, E, P, X \cup {n + 1}, n + 1)
<1>1. 1..(n + 1) = (1..n) \cup {n + 1} /\ n + 1 \notin 1..n
  OBVIOUS
<1>2. n + 1 \notin D /\ n + 1 \notin E /\ n + 1 \notin P /\ n + 1 \notin X
  BY <1>1 DEF Partition
<1> QED
  BY <1>1, <1>2 DEF Partition

\* A frame that moves on or is lost is in one place again.
LEMMA Moves ==
  ASSUME NEW D, NEW E, NEW P, NEW X, NEW n, NEW f, Partition(D, E, P, X, n)
  PROVE  /\ f \in D => /\ Partition(D \ {f}, E \cup {f}, P, X, n)
                       /\ Partition(D \ {f}, E, P, X \cup {f}, n)
         /\ f \in E => /\ Partition(D, E \ {f}, P \cup {f}, X, n)
                       /\ Partition(D, E \ {f}, P, X \cup {f}, n)
  BY DEF Partition
-----------------------------------------------------------------------------
(* The actions of the decoder's loop.                                      *)

\* Decode: the decoder has room when the thread is idle.
LEMMA DecodeKeeps ==
  ASSUME TransInv, Decode
  PROVE  TransInv'
<1>0. TypeOK /\ PhaseInv /\ BuildInv /\ CodecInv /\ FlushInv /\ WriterInv /\ PlaceInv /\ StampInv
  BY DEF TransInv
<1>1. /\ step = "idle" /\ phase = "process" /\ fed' = fed + 1 /\ fed < MaxFrames
      /\ UNCHANGED <<buildVars, unknown, built, pb, ready, phase, encoder, ended, pts, stamp, muxer, out>>
  BY DEF Decode, buildVars, writerVars
<1>2. fed \in Nat /\ fed + 1 \in Frame /\ fed + 1 \in 0..MaxFrames
  BY <1>0, <1>1, TranscoderAssumption DEF TypeOK, Frame
<1>3. ended = {} /\ Len(decoder) <= DecoderDelay /\ Len(decoder) \in Nat
  BY <1>0, <1>1 DEF CodecInv, TypeOK
<1>4. \/ /\ decoder' = Append(decoder, fed + 1) /\ step' = "decoding"
         /\ dropped' = dropped /\ errors' = errors
      \/ /\ errors' = errors + 1 /\ dropped' = dropped \cup {fed + 1}
         /\ decoder' = decoder /\ step' = step
  BY <1>1, <1>3 DEF Decode, Accepts, Fails
<1>5. errors \in Nat /\ errors' \in Nat /\ errors' >= errors
  BY <1>0, <1>4 DEF TypeOK
<1>6. TypeOK'
  <2>0. decoder \in Seq(Frame) /\ dropped \subseteq Frame /\ step' \in Where
    BY <1>0, <1>1, <1>4 DEF TypeOK, Where
  <2>1. decoder' \in Seq(Frame) /\ dropped' \subseteq Frame /\ step' \in Where
    BY <1>2, <1>4, <2>0
  <2> QED
    BY <1>0, <1>1, <1>2, <1>5, <2>1 DEF TypeOK
<1>7. PhaseInv'
  BY <1>1, <1>4 DEF PhaseInv, Part
<1>8. BuildInv'
  BY <1>1, <1>4, <1>5, LoopBuild
<1>9. CodecInv'
  <2>1. decoder' = Append(decoder, fed + 1) => Len(decoder') = Len(decoder) + 1
    BY <1>0, <1>2 DEF TypeOK
  <2>2. Len(decoder') <= DecoderDelay + 1 /\ (step' = "idle" => Len(decoder') <= DecoderDelay)
    BY <1>1, <1>3, <1>4, <2>1, TranscoderAssumption
  <2> QED
    BY <1>0, <1>1, <1>4, <2>2 DEF CodecInv
<1>10. FlushInv'
  BY <1>1, <1>4 DEF FlushInv
<1>11. WriterInv'
  BY <1>0, <1>1, <1>4 DEF WriterInv
<1>12. DropInv'
  BY <1>1, <1>2, <1>4, <1>5, LoopDrops
<1>13. Sent' = Sent /\ Packets' = Packets /\ Stamped' = Stamped
  BY <1>1 DEF Sent, Packets, Stamped
<1>14. PlaceInv'
  <2>1. Partition(ToSet(decoder), encoder, Packets, dropped, fed) /\ IsInjective(Sent)
    BY <1>0, PlaceIs
  <2>2. /\ Partition(ToSet(decoder) \cup {fed + 1}, encoder, Packets, dropped, fed + 1)
        /\ Partition(ToSet(decoder), encoder, Packets, dropped \cup {fed + 1}, fed + 1)
    BY <1>2, <2>1, Arrives
  <2>3. ToSet(Append(decoder, fed + 1)) = ToSet(decoder) \cup {fed + 1}
    BY <1>0, <1>2, AppendSet DEF TypeOK
  <2>4. Partition(ToSet(decoder'), encoder', Packets', dropped', fed')
    BY <1>1, <1>4, <1>13, <2>2, <2>3
  <2> QED
    BY <1>13, <2>1, <2>4, PlaceIs
<1>15. StampInv'
  <2>1. CASE decoder' = decoder
    BY <1>0, <1>1, <1>13, <2>1 DEF StampInv
  <2>2. CASE decoder' = Append(decoder, fed + 1)
    <3>1. /\ Len(decoder') = Len(decoder) + 1 /\ decoder'[Len(decoder) + 1] = fed + 1
          /\ \A i \in 1..Len(decoder) : decoder'[i] = decoder[i] /\ decoder[i] \in ToSet(decoder)
      BY <1>0, <1>2, <2>2 DEF TypeOK, ToSet
    <3>2. /\ \A f \in ToSet(decoder) : f < fed + 1
          /\ \A f \in Stamped : f < fed + 1
      BY <1>0, <1>2 DEF PlaceInv, Stamped
    <3>3. \A i \in 1..Len(decoder') : i \in 1..Len(decoder) \/ i = Len(decoder) + 1
      BY <1>3, <3>1
    <3>4. ASSUME NEW i \in 1..Len(decoder'), NEW j \in 1..Len(decoder'), i < j
          PROVE  decoder'[i] < decoder'[j]
      <4>1. i \in 1..Len(decoder)
        BY <1>3, <3>1, <3>4
      <4>2. CASE j \in 1..Len(decoder)
        BY <1>0, <3>1, <3>4, <4>1, <4>2 DEF StampInv
      <4>3. CASE j = Len(decoder) + 1
        BY <3>1, <3>2, <4>1, <4>3
      <4> QED
        BY <3>3, <4>2, <4>3
    <3>5. ASSUME NEW f \in Stamped, NEW i \in 1..Len(decoder') PROVE f < decoder'[i]
      <4>1. CASE i \in 1..Len(decoder)
        BY <1>0, <3>1, <4>1 DEF StampInv
      <4>2. CASE i = Len(decoder) + 1
        BY <3>1, <3>2, <4>2
      <4> QED
        BY <3>3, <4>1, <4>2
    <3> QED
      BY <1>0, <1>1, <1>13, <3>4, <3>5 DEF StampInv
  <2> QED
    BY <1>4, <2>1, <2>2
<1> QED
  BY <1>6, <1>7, <1>8, <1>9, <1>10, <1>11, <1>12, <1>14, <1>15 DEF TransInv

\* The next frame of the decoder is later than all that have a time stamp.
LEMMA NextStamp ==
  ASSUME TransInv, decoder # <<>>, decoder' = Tail(decoder),
         pts' = pts + 1, stamp' = [stamp EXCEPT ![Head(decoder)] = pts],
         Stamped' \subseteq Stamped \cup {Head(decoder)}
  PROVE  StampInv'
<1> DEFINE h == Head(decoder)
<1>1. StampInv /\ pts \in Nat /\ stamp \in [Frame -> Int] /\ Stamped \subseteq Frame
  <2>1. StampInv /\ pts \in Nat /\ stamp \in [Frame -> Int] /\ encoder \subseteq Frame
        /\ fed \in 0..MaxFrames /\ PlaceInv
    BY DEF TransInv, TypeOK
  <2>2. 1..fed \subseteq Frame
    BY <2>1, TranscoderAssumption DEF Frame
  <2>3. Packets \subseteq 1..fed
    BY <2>1 DEF PlaceInv
  <2> QED
    BY <2>1, <2>2, <2>3 DEF Stamped
<1>2. /\ Len(decoder) \in Nat /\ Len(decoder) >= 1 /\ Len(decoder') = Len(decoder) - 1
      /\ h = decoder[1] /\ h \in Frame
      /\ \A i \in 1..Len(decoder') : i + 1 \in 1..Len(decoder) /\ decoder'[i] = decoder[i + 1]
  BY DecoderOrder
<1>3. \A f \in Stamped : f < h
  <2>1. 1 \in 1..Len(decoder)
    BY <1>2
  <2> QED
    BY <1>1, <1>2, <2>1 DEF StampInv
<1>4. \A i \in 1..Len(decoder') : h < decoder'[i]
  <2>1. \A i \in 1..Len(decoder') : 1 \in 1..Len(decoder) /\ 1 < i + 1
    BY <1>2
  <2> QED
    BY <1>1, <1>2, <2>1 DEF StampInv
<1>5. stamp'[h] = pts /\ \A f \in Stamped : f # h /\ stamp'[f] = stamp[f] /\ stamp[f] < pts
  <2>1. \A f \in Stamped : f # h
    BY <1>1, <1>2, <1>3 DEF Frame
  <2>2. \A f \in Stamped : stamp'[f] = stamp[f]
    BY <1>1, <2>1
  <2>3. \A f \in Stamped : stamp[f] < pts
    BY <1>1 DEF StampInv
  <2>4. stamp'[h] = pts
    BY <1>1, <1>2
  <2> QED
    BY <2>1, <2>2, <2>3, <2>4
<1>6. \A f \in Stamped' : f \in Stamped \/ f = h
  OBVIOUS
<1> HIDE DEF h
<1>7. \A i, j \in 1..Len(decoder') : i < j => decoder'[i] < decoder'[j]
  BY <1>1, <1>2 DEF StampInv
<1>8. ASSUME NEW f \in Stamped', NEW i \in 1..Len(decoder') PROVE f < decoder'[i]
  <2>1. CASE f = h
    BY <1>4, <2>1
  <2>2. CASE f \in Stamped
    BY <1>1, <1>2, <2>2 DEF StampInv
  <2> QED
    BY <1>6, <2>1, <2>2
<1>9. ASSUME NEW f \in Stamped' PROVE stamp'[f] < pts'
  <2>1. CASE f = h
    BY <1>1, <1>5, <2>1
  <2>2. CASE f \in Stamped
    <3>1. stamp'[f] = stamp[f] /\ stamp[f] < pts /\ stamp[f] \in Int
      BY <1>1, <1>5, <2>2
    <3> QED
      BY <1>1, <3>1
  <2> QED
    BY <1>6, <2>1, <2>2
<1>10. ASSUME NEW f \in Stamped', NEW g \in Stamped', f < g PROVE stamp'[f] < stamp'[g]
  <2>0. f \in Int /\ g \in Int /\ h \in Int
    BY <1>1, <1>2, <1>6 DEF Frame
  <2>1. CASE f \in Stamped /\ g \in Stamped
    BY <1>1, <1>5, <1>10, <2>1 DEF StampInv
  <2>2. CASE f \in Stamped /\ g = h
    BY <1>5, <2>2
  <2>3. CASE f = h
    <3>1. g = h \/ g < h
      BY <1>3, <1>6
    <3> QED
      BY <1>10, <2>0, <2>3, <3>1
  <2> QED
    BY <1>6, <2>1, <2>2, <2>3
<1> QED
  BY <1>7, <1>8, <1>9, <1>10 DEF StampInv
\* A decoded frame gets the next time stamp and meets an encoder that has
\* room, if it opened.
LEMMA DecodedKeeps ==
  ASSUME TransInv, Decoded
  PROVE  TransInv'
<1> DEFINE h == Head(decoder)
<1>0. TypeOK /\ PhaseInv /\ BuildInv /\ CodecInv /\ FlushInv /\ WriterInv /\ PlaceInv /\ StampInv
  BY DEF TransInv
<1>1. /\ step = "decoding" /\ phase \in {"process", "decoder"} /\ decoder # <<>>
      /\ decoder' = Tail(decoder)
      /\ UNCHANGED <<buildVars, unknown, built, pb, ready, phase, fed, ended, muxer, out>>
  BY <1>0 DEF Decoded, buildVars, writerVars, PhaseInv
<1>2. /\ ToSet(decoder') = ToSet(decoder) \ {h} /\ h \in ToSet(decoder) /\ h \in Frame
      /\ Len(decoder) \in Nat /\ decoder' \in Seq(Frame) /\ Len(decoder') = Len(decoder) - 1
  BY <1>1, DecoderOrder
<1>3. "encoder" \notin ended /\ Cardinality(encoder) <= EncoderDelay
  BY <1>0, <1>1 DEF CodecInv
<1>4. Has("encoder", "open") \/ ~ready
  BY <1>1, ReadyHas
<1>5. errors \in Nat /\ errors + 1 \in Nat /\ pts \in Nat /\ stamp \in [Frame -> Int]
  BY <1>0 DEF TypeOK
<1>6. \/ /\ encoder' = encoder \cup {h} /\ step' = "encoding"
         /\ dropped' = dropped /\ errors' = errors
         /\ pts' = pts + 1 /\ stamp' = [stamp EXCEPT ![h] = pts]
      \/ /\ encoder' = encoder /\ step' = step
         /\ dropped' = dropped \cup {h} /\ (errors' = errors + 1 \/ (errors' = errors /\ ~ready))
         /\ \/ pts' = pts + 1 /\ stamp' = [stamp EXCEPT ![h] = pts]
            \/ pts' = pts /\ stamp' = stamp
  <2>1. CASE Has("encoder", "context") /\ Encode(h)
    BY <1>3, <1>4, <2>1 DEF Encode, Accepts, Fails
  <2>2. CASE /\ Fails /\ dropped' = dropped \cup {h}
             /\ UNCHANGED <<encoder, step, pts, stamp>>
    BY <2>2 DEF Fails
  <2> QED
    BY <2>1, <2>2 DEF Decoded
<1> HIDE DEF h
<1>7. errors' \in Nat /\ errors' >= errors
  BY <1>5, <1>6
<1>8. TypeOK'
  <2>1. encoder' \subseteq Frame /\ dropped' \subseteq Frame /\ step' \in Where
    BY <1>0, <1>1, <1>2, <1>6 DEF TypeOK, Where
  <2>2. pts' \in Nat /\ stamp' \in [Frame -> Int]
    BY <1>2, <1>5, <1>6
  <2> QED
    BY <1>0, <1>1, <1>2, <1>7, <2>1, <2>2 DEF TypeOK
<1>9. PhaseInv'
  BY <1>1, <1>6 DEF PhaseInv, Part
<1>10. BuildInv'
  BY <1>1, <1>6, <1>7, LoopBuild
<1>11. CodecInv'
  <2>1. Len(decoder') <= DecoderDelay + 1
    BY <1>0, <1>2, TranscoderAssumption DEF CodecInv
  <2>2. encoder \in SUBSET Frame /\ Cardinality(encoder) \in Nat
    BY <1>0, FramesNumber DEF TypeOK
  <2>3. Cardinality(encoder \cup {h}) <= Cardinality(encoder) + 1
        /\ Cardinality(encoder \cup {h}) \in Nat
    BY <1>2, <2>2, FramesFinite
  <2>4. /\ Cardinality(encoder') <= EncoderDelay + 1
        /\ step' = "decoding" => Cardinality(encoder') <= EncoderDelay
    <3>1. CASE encoder' = encoder
      BY <1>3, <2>2, <3>1, TranscoderAssumption
    <3>2. CASE encoder' = encoder \cup {h} /\ step' = "encoding"
      <4>1. Cardinality(encoder') <= EncoderDelay + 1
        BY <1>3, <2>2, <2>3, <3>2, TranscoderAssumption
      <4> QED
        BY <3>2, <4>1
    <3> QED
      BY <1>6, <3>1, <3>2
  <2> QED
    BY <1>0, <1>1, <1>6, <2>1, <2>4 DEF CodecInv
<1>12. FlushInv'
  <2>1. errors' = 0 => errors = 0
    BY <1>5, <1>7
  <2> QED
    BY <1>0, <1>1, <1>6, <2>1 DEF FlushInv
<1>13. WriterInv'
  BY <1>0, <1>1, <1>6 DEF WriterInv
<1>14. DropInv'
  BY <1>1, <1>2, <1>6, <1>7, LoopDrops
<1>15. Sent' = Sent /\ Packets' = Packets /\ Stamped' = encoder' \cup Packets
  BY <1>1 DEF Sent, Packets, Stamped
<1>16. PlaceInv'
  <2>1. Partition(ToSet(decoder), encoder, Packets, dropped, fed) /\ IsInjective(Sent)
    BY <1>0, PlaceIs
  <2>2. /\ Partition(ToSet(decoder) \ {h}, encoder \cup {h}, Packets, dropped, fed)
        /\ Partition(ToSet(decoder) \ {h}, encoder, Packets, dropped \cup {h}, fed)
    BY <1>2, <2>1, Moves
  <2>3. Partition(ToSet(decoder'), encoder', Packets', dropped', fed')
    BY <1>1, <1>2, <1>6, <1>15, <2>2
  <2> QED
    BY <1>15, <2>1, <2>3, PlaceIs
<1>17. StampInv'
  <2>1. CASE pts' = pts + 1 /\ stamp' = [stamp EXCEPT ![h] = pts]
    <3>1. Stamped' \subseteq Stamped \cup {h}
      BY <1>6, <1>15 DEF Stamped
    <3> QED
      BY <1>1, <2>1, <3>1, NextStamp DEF h
  <2>2. CASE pts' = pts /\ stamp' = stamp /\ encoder' = encoder
    BY <1>1, <2>2, TailStamps
  <2> QED
    BY <1>6, <2>1, <2>2
<1> QED
  BY <1>8, <1>9, <1>10, <1>11, <1>12, <1>13, <1>14, <1>16, <1>17 DEF TransInv

\* The loop ends with room in the decoder, or with nothing in it.
LEMMA DecoderDoneKeeps ==
  ASSUME TransInv, DecoderDone
  PROVE  TransInv'
<1> DEFINE h == Head(decoder)
<1>0. TypeOK /\ PhaseInv /\ BuildInv /\ CodecInv /\ FlushInv /\ WriterInv /\ PlaceInv /\ StampInv
  BY DEF TransInv
<1>1. /\ step = "decoding" /\ phase \in {"process", "decoder"}
      /\ step' = (IF phase = "process" THEN "idle" ELSE "flush")
      /\ UNCHANGED <<buildVars, unknown, built, pb, ready, phase, fed, encoder, ended, pts, stamp, muxer, out>>
  BY <1>0 DEF DecoderDone, AfterDecoder, buildVars, writerVars, PhaseInv
<1>2. errors \in Nat /\ errors + 1 \in Nat /\ decoder \in Seq(Frame) /\ Len(decoder) \in Nat
  BY <1>0 DEF TypeOK
<1>3. \/ /\ decoder' = decoder /\ dropped' = dropped /\ errors' = errors
         /\ \/ "decoder" \notin ended /\ Len(decoder) <= DecoderDelay
            \/ "decoder" \in ended /\ Len(decoder) = 0
      \/ /\ decoder # <<>> /\ decoder' = Tail(decoder)
         /\ dropped' = dropped \cup {h} /\ errors' = errors + 1
  BY DEF DecoderDone, MayWait, AtEnd, Fails
<1>4. decoder # <<>> => /\ ToSet(Tail(decoder)) = ToSet(decoder) \ {h}
                        /\ h \in ToSet(decoder) /\ h \in Frame
                        /\ Tail(decoder) \in Seq(Frame) /\ Len(Tail(decoder)) = Len(decoder) - 1
  BY DecoderOrder
<1> HIDE DEF h
<1>5. errors' \in Nat /\ errors' >= errors
  BY <1>2, <1>3
<1>6. TypeOK'
  <2>1. decoder' \in Seq(Frame) /\ dropped' \subseteq Frame /\ step' \in Where
    BY <1>0, <1>1, <1>3, <1>4 DEF TypeOK, Where
  <2> QED
    BY <1>0, <1>1, <1>5, <2>1 DEF TypeOK
<1>7. PhaseInv'
  BY <1>1 DEF PhaseInv, Part
<1>8. BuildInv'
  BY <1>1, <1>5, LoopBuild
<1>9. CodecInv'
  <2>1. Len(decoder') <= DecoderDelay
    BY <1>0, <1>2, <1>3, <1>4, TranscoderAssumption DEF CodecInv
  <2>2. Len(decoder') \in Nat
    BY <1>2, <1>3, <1>4
  <2>3. Len(decoder') <= DecoderDelay + 1
    BY <2>1, <2>2, TranscoderAssumption
  <2> QED
    BY <1>0, <1>1, <2>1, <2>3 DEF CodecInv
<1>10. FlushInv'
  <2>1. errors' = 0 => errors = 0 /\ decoder' = decoder
    BY <1>2, <1>3
  <2>2. errors' = 0 /\ phase = "decoder" => Len(decoder) = 0
    BY <1>0, <1>1, <1>2, <1>3 DEF FlushInv
  <2>3. Len(decoder) = 0 => decoder = <<>>
    BY <1>2
  <2> QED
    BY <1>0, <1>1, <2>1, <2>2, <2>3 DEF FlushInv
<1>11. WriterInv'
  BY <1>0, <1>1 DEF WriterInv
<1>12. DropInv'
  <2>1. \/ dropped' = dropped /\ errors' >= errors
        \/ h \in Frame /\ dropped' = dropped \cup {h} /\ errors' = errors + 1
    BY <1>3, <1>4, <1>5
  <2> QED
    BY <1>1, <1>5, <2>1, LoopDrops
<1>13. Sent' = Sent /\ Packets' = Packets /\ Stamped' = Stamped
  BY <1>1 DEF Sent, Packets, Stamped
<1>14. PlaceInv'
  <2>1. Partition(ToSet(decoder), encoder, Packets, dropped, fed) /\ IsInjective(Sent)
    BY <1>0, PlaceIs
  <2>2. h \in ToSet(decoder) => Partition(ToSet(decoder) \ {h}, encoder, Packets, dropped \cup {h}, fed)
    BY <2>1, Moves
  <2>3. Partition(ToSet(decoder'), encoder', Packets', dropped', fed')
    BY <1>1, <1>3, <1>4, <1>13, <2>1, <2>2
  <2> QED
    BY <1>13, <2>1, <2>3, PlaceIs
<1>15. StampInv'
  <2>1. CASE decoder' = decoder
    BY <1>0, <1>1, <1>13, <2>1 DEF StampInv
  <2>2. CASE decoder # <<>> /\ decoder' = Tail(decoder)
    BY <1>1, <2>2, TailStamps
  <2> QED
    BY <1>3, <2>1, <2>2
<1> QED
  BY <1>6, <1>7, <1>8, <1>9, <1>10, <1>11, <1>12, <1>14, <1>15 DEF TransInv

-----------------------------------------------------------------------------
(* The actions of the encoder's loop, and the end.                         *)

\* Fewer frames in the encoder, none of them new.
LEMMA FewerStamps ==
  ASSUME TransInv, UNCHANGED <<decoder, stamp, pts>>, Stamped' \subseteq Stamped
  PROVE  StampInv'
  BY DEF TransInv, StampInv

\* What the muxer gives away at once or later, it gives away in order.
LEMMA SentNext ==
  ASSUME TransInv, step # "gone", NEW f \in Frame, NEW n \in 0..(Len(muxer) + 1),
         out' = out \o SubSeq(Append(muxer, f), 1, n),
         muxer' = SubSeq(Append(muxer, f), n + 1, Len(muxer) + 1)
  PROVE  /\ Sent \in Seq(Frame) /\ Sent' = Append(Sent, f)
         /\ out' \in Seq(Frame) /\ muxer' \in Seq(Frame)
<1> DEFINE m == Append(muxer, f)
           a == SubSeq(m, 1, n)
<1>1. out \in Seq(Frame) /\ muxer \in Seq(Frame)
  BY DEF TransInv, TypeOK, WriterInv
<1>2. m \in Seq(Frame) /\ Len(m) = Len(muxer) + 1 /\ out \o m = Append(out \o muxer, f)
  BY <1>1
<1>3. n \in 0..Len(m) /\ muxer' = SubSeq(m, n + 1, Len(m))
  BY <1>1, <1>2
<1> HIDE DEF m
<1>4. a \in Seq(Frame) /\ muxer' \in Seq(Frame) /\ a \o muxer' = m
  BY <1>2, <1>3, CutSame
<1>5. out' = out \o a
  BY DEF m
<1> HIDE DEF a
<1>6. (out \o a) \o muxer' = out \o (a \o muxer')
  <2> DEFINE x == out
             y == muxer'
  <2>1. x \in Seq(Frame) /\ a \in Seq(Frame) /\ y \in Seq(Frame)
    BY <1>1, <1>4
  <2> HIDE DEF x, y
  <2>2. (x \o a) \o y = x \o (a \o y)
    BY <2>1
  <2> QED
    BY <2>2 DEF x, y
<1>7. Sent' = Append(Sent, f)
  BY <1>2, <1>4, <1>5, <1>6 DEF Sent
<1>8. Sent \in Seq(Frame) /\ out' \in Seq(Frame)
  BY <1>1, <1>4, <1>5 DEF Sent
<1> QED
  BY <1>4, <1>7, <1>8

\* The packets of frames: there is no 0 among them.
LEMMA SentFrames ==
  ASSUME NEW q \in Seq(Frame)
  PROVE  ToSet(q) \subseteq Frame /\ 0 \notin ToSet(q)
<1>1. ToSet(q) \subseteq Frame
  BY DEF ToSet
<1> QED
  BY <1>1 DEF Frame

\* A packet goes to the muxer, which keeps it or gives it away, or is lost.
LEMMA EncodedKeeps ==
  ASSUME TransInv, Encoded
  PROVE  TransInv'
<1>0. TypeOK /\ PhaseInv /\ BuildInv /\ CodecInv /\ FlushInv /\ WriterInv /\ PlaceInv /\ StampInv
  BY DEF TransInv
<1>1. /\ step = "encoding" /\ phase # "construct" /\ pb = "header"
      /\ UNCHANGED <<buildVars, unknown, built, pb, ready, phase, step, fed, decoder, ended, pts, stamp>>
  BY <1>0 DEF Encoded, buildVars, PhaseInv, Part
<1>2. PICK f \in encoder :
        /\ encoder' = encoder \ {f}
        /\ \/ /\ \E n \in 0..(Len(muxer) + 1) :
                   /\ out' = out \o SubSeq(Append(muxer, f), 1, n)
                   /\ muxer' = SubSeq(Append(muxer, f), n + 1, Len(muxer) + 1)
              /\ UNCHANGED <<dropped, errors>>
           \/ /\ errors' = errors + 1
              /\ dropped' = dropped \cup {f}
              /\ UNCHANGED <<out, muxer>>
  BY DEF Encoded, Fails, writerVars
<1>3. f \in Frame /\ encoder \in SUBSET Frame /\ f \in encoder
  BY <1>0, <1>2 DEF TypeOK
<1>4. errors \in Nat /\ errors' \in Nat /\ errors' >= errors
  BY <1>0, <1>2 DEF TypeOK
<1>5. Sent \in Seq(Frame) /\ out \in Seq(Frame) /\ muxer \in Seq(Frame)
  BY <1>0, <1>1 DEF TypeOK, WriterInv, Sent
<1>6. /\ out' \in Seq(Frame) /\ muxer' \in Seq(Frame)
      /\ \/ Sent' = Append(Sent, f) /\ dropped' = dropped /\ errors' = errors
         \/ Sent' = Sent /\ dropped' = dropped \cup {f} /\ errors' = errors + 1
  <2>1. CASE /\ \E n \in 0..(Len(muxer) + 1) :
                  /\ out' = out \o SubSeq(Append(muxer, f), 1, n)
                  /\ muxer' = SubSeq(Append(muxer, f), n + 1, Len(muxer) + 1)
             /\ UNCHANGED <<dropped, errors>>
    <3>1. PICK n \in 0..(Len(muxer) + 1) :
                  /\ out' = out \o SubSeq(Append(muxer, f), 1, n)
                  /\ muxer' = SubSeq(Append(muxer, f), n + 1, Len(muxer) + 1)
      BY <2>1
    <3>2. /\ Sent' = Append(Sent, f)
          /\ out' \in Seq(Frame) /\ muxer' \in Seq(Frame)
      BY <1>1, <1>3, <3>1, SentNext
    <3> QED
      BY <2>1, <3>2
  <2>2. CASE /\ errors' = errors + 1
             /\ dropped' = dropped \cup {f}
             /\ UNCHANGED <<out, muxer>>
    BY <1>5, <2>2 DEF Sent
  <2> QED
    BY <1>2, <2>1, <2>2
<1>7. ToSet(Sent) \subseteq Frame /\ 0 \notin ToSet(Sent) /\ f # 0
  BY <1>3, <1>5, SentFrames DEF Frame
<1>8. Sent' = Append(Sent, f) => Packets' = Packets \cup {f}
  <2>1. ToSet(Append(Sent, f)) = ToSet(Sent) \cup {f}
    BY <1>3, <1>5, AppendSet
  <2> QED
    BY <1>7, <2>1 DEF Packets
<1>9. TypeOK'
  <2>1. encoder' \subseteq Frame /\ dropped' \subseteq Frame
    BY <1>0, <1>2, <1>3, <1>6 DEF TypeOK
  <2>2. out' \in Seq(Frame \cup {0})
    BY <1>6
  <2> QED
    BY <1>0, <1>1, <1>4, <1>6, <2>1, <2>2 DEF TypeOK
<1>10. PhaseInv'
  BY <1>0, <1>1 DEF PhaseInv
<1>11. BuildInv'
  BY <1>1, <1>4, LoopBuild
<1>12. CodecInv'
  <2>1. /\ Cardinality(encoder) \in Nat /\ Cardinality(encoder') \in Nat
        /\ Cardinality(encoder') <= Cardinality(encoder)
    BY <1>2, <1>3, FramesFinite
  <2>2. Cardinality(encoder) <= EncoderDelay + 1
    BY <1>0 DEF CodecInv
  <2>3. Cardinality(encoder') <= EncoderDelay + 1
    BY <2>1, <2>2, TranscoderAssumption
  <2> QED
    BY <1>0, <1>1, <2>3 DEF CodecInv
<1>13. FlushInv'
  <2>1. errors' = 0 => errors = 0
    BY <1>4
  <2> QED
    BY <1>0, <1>1, <2>1 DEF FlushInv
<1>14. WriterInv'
  BY <1>1, <1>6 DEF WriterInv
<1>15. DropInv'
  BY <1>1, <1>3, <1>4, <1>6, LoopDrops
<1>16. PlaceInv'
  <2>1. Partition(ToSet(decoder), encoder, Packets, dropped, fed) /\ IsInjective(Sent)
    BY <1>0, PlaceIs
  <2>2. /\ Partition(ToSet(decoder), encoder \ {f}, Packets \cup {f}, dropped, fed)
        /\ Partition(ToSet(decoder), encoder \ {f}, Packets, dropped \cup {f}, fed)
    BY <1>3, <2>1, Moves
  <2>3. Sent' = Sent => Packets' = Packets
    BY DEF Packets
  <2>4. Partition(ToSet(decoder'), encoder', Packets', dropped', fed')
    BY <1>1, <1>2, <1>6, <1>8, <2>2, <2>3
  <2>5. f \notin Packets
    BY <1>3, <2>1 DEF Partition
  <2>6. f \notin ToSet(Sent)
    BY <1>7, <2>5 DEF Packets
  <2>7. IsInjective(Append(Sent, f))
    BY <1>3, <1>5, <2>1, <2>6, InjectiveAppend
  <2> QED
    BY <1>6, <2>1, <2>4, <2>7, PlaceIs
<1>17. StampInv'
  <2>1. Packets' \subseteq Packets \cup {f}
    BY <1>6, <1>8 DEF Packets
  <2>2. Stamped' \subseteq Stamped
    BY <1>2, <2>1 DEF Stamped
  <2> QED
    BY <1>1, <2>2, FewerStamps
<1> QED
  BY <1>9, <1>10, <1>11, <1>12, <1>13, <1>14, <1>15, <1>16, <1>17 DEF TransInv

\* The inner loop ends with room in the encoder, or with nothing in it.
LEMMA EncoderDoneKeeps ==
  ASSUME TransInv, EncoderDone
  PROVE  TransInv'
<1>0. TypeOK /\ PhaseInv /\ BuildInv /\ CodecInv /\ FlushInv /\ WriterInv /\ PlaceInv /\ StampInv
  BY DEF TransInv
<1>1. /\ step = "encoding" /\ phase \in {"process", "decoder", "encoder"}
      /\ step' = (IF phase = "encoder" THEN "end" ELSE "decoding")
      /\ UNCHANGED <<buildVars, unknown, built, pb, ready, phase, fed, decoder, ended, pts, stamp, muxer, out>>
  BY <1>0 DEF EncoderDone, buildVars, writerVars, PhaseInv, Part, TypeOK
<1>2. errors \in Nat /\ errors + 1 \in Nat /\ encoder \in SUBSET Frame /\ Cardinality(encoder) \in Nat
  BY <1>0, FramesNumber DEF TypeOK
<1>3. \/ /\ encoder' = encoder /\ dropped' = dropped /\ errors' = errors
         /\ \/ "encoder" \notin ended /\ Cardinality(encoder) <= EncoderDelay
            \/ "encoder" \in ended /\ Cardinality(encoder) = 0
      \/ /\ errors' = errors + 1
         /\ \E f \in encoder : encoder' = encoder \ {f} /\ dropped' = dropped \cup {f}
  BY DEF EncoderDone, MayWait, AtEnd, Fails
<1>4. errors' \in Nat /\ errors' >= errors
  BY <1>2, <1>3
<1>5. TypeOK'
  <2>1. encoder' \subseteq Frame /\ dropped' \subseteq Frame /\ step' \in Where
    BY <1>0, <1>1, <1>3 DEF TypeOK, Where
  <2> QED
    BY <1>0, <1>1, <1>4, <2>1 DEF TypeOK
<1>6. PhaseInv'
  BY <1>1 DEF PhaseInv, Part
<1>7. BuildInv'
  BY <1>1, <1>4, LoopBuild
<1>8. Cardinality(encoder') <= EncoderDelay
  <2>1. Cardinality(encoder) <= EncoderDelay + 1
    BY <1>0 DEF CodecInv
  <2>2. CASE encoder' = encoder /\ (Cardinality(encoder) <= EncoderDelay \/ Cardinality(encoder) = 0)
    BY <1>2, <2>2, TranscoderAssumption
  <2>3. ASSUME NEW f \in encoder, encoder' = encoder \ {f} PROVE Cardinality(encoder') <= EncoderDelay
    <3>1. f \in Frame
      BY <1>2
    <3>2. Cardinality(encoder \ {f}) = Cardinality(encoder) - 1
      BY <1>2, <3>1, FramesFinite
    <3> QED
      BY <1>2, <2>1, <2>3, <3>2, TranscoderAssumption
  <2> QED
    BY <1>3, <2>2, <2>3
<1>9. CodecInv'
  <2>1. Cardinality(encoder') \in Nat
    <3>1. encoder' \subseteq Frame
      BY <1>5 DEF TypeOK
    <3>2. IsFiniteSet(Frame)
      BY FS_Interval, TranscoderAssumption DEF Frame
    <3> QED
      BY <3>1, <3>2, FS_Subset, FS_CardinalityType
  <2>2. Cardinality(encoder') <= EncoderDelay + 1
    BY <1>8, <2>1, TranscoderAssumption
  <2> QED
    BY <1>0, <1>1, <1>8, <2>2 DEF CodecInv
<1>10. FlushInv'
  <2>1. errors' = 0 => errors = 0 /\ encoder' = encoder
    BY <1>2, <1>3
  <2>2. errors' = 0 /\ phase = "encoder" => Cardinality(encoder) = 0
    BY <1>0, <1>1, <1>2, <1>3 DEF FlushInv
  <2>3. Cardinality(encoder) = 0 => encoder = {}
    <3>1. IsFiniteSet(encoder)
      <4>1. IsFiniteSet(Frame) /\ encoder \subseteq Frame
        BY <1>2, FS_Interval, TranscoderAssumption DEF Frame
      <4> QED
        BY <4>1, FS_Subset
    <3> QED
      BY <3>1, FS_EmptySet
  <2> QED
    BY <1>0, <1>1, <2>1, <2>2, <2>3 DEF FlushInv
<1>11. WriterInv'
  BY <1>0, <1>1 DEF WriterInv
<1>12. DropInv'
  <2>1. \/ dropped' = dropped /\ errors' >= errors
        \/ \E f \in Frame : dropped' = dropped \cup {f} /\ errors' = errors + 1
    BY <1>2, <1>3, <1>4
  <2> QED
    BY <1>1, <1>4, <2>1, LoopDrops
<1>13. Sent' = Sent /\ Packets' = Packets
  BY <1>1 DEF Sent, Packets
<1>14. PlaceInv'
  <2>1. Partition(ToSet(decoder), encoder, Packets, dropped, fed) /\ IsInjective(Sent)
    BY <1>0, PlaceIs
  <2>2. \A f \in encoder : Partition(ToSet(decoder), encoder \ {f}, Packets, dropped \cup {f}, fed)
    BY <2>1, Moves
  <2>3. Partition(ToSet(decoder'), encoder', Packets', dropped', fed')
    <3>1. CASE encoder' = encoder /\ dropped' = dropped
      BY <1>1, <1>13, <2>1, <3>1
    <3>2. ASSUME NEW f \in encoder, encoder' = encoder \ {f}, dropped' = dropped \cup {f}
          PROVE  Partition(ToSet(decoder'), encoder', Packets', dropped', fed')
      BY <1>1, <1>13, <2>2, <3>2
    <3> QED
      BY <1>3, <3>1, <3>2
  <2> QED
    BY <1>13, <2>1, <2>3, PlaceIs
<1>15. StampInv'
  <2>1. Stamped' \subseteq Stamped
    BY <1>3, <1>13 DEF Stamped
  <2> QED
    BY <1>1, <2>1, FewerStamps
<1> QED
  BY <1>5, <1>6, <1>7, <1>9, <1>10, <1>11, <1>12, <1>14, <1>15 DEF TransInv

\* Writer::End adds the trailer behind all packets, and no packet.
LEMMA EndKeeps ==
  ASSUME TransInv, End
  PROVE  TransInv'
<1>0. TypeOK /\ PhaseInv /\ BuildInv /\ CodecInv /\ FlushInv /\ WriterInv
      /\ PlaceInv /\ DropInv /\ StampInv
  BY DEF TransInv
<1>1. /\ step = "end" /\ step' = "gone" /\ phase = "encoder" /\ muxer' = <<>> /\ pb' = "none"
      /\ built' = [p \in ToSet(Parts) |-> 0]
      /\ UNCHANGED <<unknown, ready, phase, fed, decoder, encoder, ended, pts, stamp, dropped, errors>>
  BY <1>0 DEF End, codecVars, PhaseInv
<1>2. Sent \in Seq(Frame) /\ out \in Seq(Frame) /\ muxer \in Seq(Frame)
  BY <1>0, <1>1 DEF TypeOK, WriterInv, Sent
<1>3. out' = IF pb = "header" THEN Append(Sent, 0) ELSE Sent
  <2>1. pb # "header" => Sent = out
    BY <1>0, <1>1 DEF WriterInv, Sent
  <2> QED
    BY <2>1 DEF End, Sent
<1>4. out' \in Seq(Frame \cup {0}) /\ Sent' = out'
  <2>1. Sent \in Seq(Frame \cup {0})
    BY <1>2
  <2>2. out' \in Seq(Frame \cup {0})
    BY <1>3, <2>1
  <2> QED
    BY <1>1, <2>2 DEF Sent
<1>5. TypeOK'
  <2>1. built' \in [Part -> Nat]
    BY <1>1, StagesAre
  <2>2. muxer' \in Seq(Frame)
    BY <1>1
  <2> QED
    BY <1>0, <1>1, <1>4, <2>1, <2>2 DEF TypeOK, Where
<1>6. PhaseInv'
  BY <1>1 DEF PhaseInv, Part
<1>7. BuildInv'
  BY <1>0, <1>1 DEF BuildInv, Part
<1>8. CodecInv'
  BY <1>0, <1>1 DEF CodecInv
<1>9. FlushInv'
  BY <1>0, <1>1 DEF FlushInv
<1>10. DropInv'
  BY <1>0, <1>1 DEF DropInv
<1>11. ToSet(Sent) \subseteq Frame /\ 0 \notin ToSet(Sent)
  BY <1>2, SentFrames
<1>12. WriterInv'
  <2>1. CASE pb # "header"
    <3>1. out' = <<>>
      BY <1>0, <1>1, <1>3, <2>1 DEF WriterInv, Sent
    <3>2. ~ready
      BY <1>0, <1>1, <2>1 DEF BuildInv
    <3> QED
      BY <1>1, <3>1, <3>2 DEF WriterInv
  <2>2. CASE pb = "header"
    <3>1. /\ Len(Sent) \in Nat /\ Len(out') = Len(Sent) + 1 /\ out' # <<>>
          /\ out'[Len(Sent) + 1] = 0
          /\ \A i \in 1..Len(Sent) : out'[i] = Sent[i] /\ Sent[i] \in Frame
      BY <1>2, <1>3, <2>2
    <3>2. ASSUME NEW i \in 1..Len(out') PROVE out'[i] = 0 <=> i = Len(out')
      <4>1. CASE i = Len(Sent) + 1
        BY <3>1, <4>1
      <4>2. CASE i \in 1..Len(Sent)
        <5>1. out'[i] # 0
          BY <3>1, <4>2 DEF Frame
        <5>2. i # Len(out')
          BY <3>1, <4>2
        <5> QED
          BY <5>1, <5>2
      <4> QED
        BY <3>1, <4>1, <4>2
    <3> QED
      BY <1>1, <3>1, <3>2 DEF WriterInv
  <2> QED
    BY <2>1, <2>2
<1>13. Packets' = Packets
  <2>1. ToSet(Append(Sent, 0)) = ToSet(Sent) \cup {0}
    <3>1. Sent \in Seq(Frame \cup {0}) /\ 0 \in Frame \cup {0}
      BY <1>2
    <3> QED
      BY <3>1, AppendSet
  <2> QED
    BY <1>3, <1>4, <2>1 DEF Packets
<1>14. PlaceInv'
  <2>1. Partition(ToSet(decoder), encoder, Packets, dropped, fed) /\ IsInjective(Sent)
    BY <1>0, PlaceIs
  <2>2. IsInjective(Append(Sent, 0))
    <3>1. Sent \in Seq(Frame \cup {0}) /\ 0 \in Frame \cup {0}
      BY <1>2
    <3> QED
      BY <1>11, <2>1, <3>1, InjectiveAppend
  <2>3. IsInjective(Sent')
    BY <1>3, <1>4, <2>1, <2>2
  <2> QED
    BY <1>1, <1>13, <2>1, <2>3, PlaceIs
<1>15. StampInv'
  <2>1. Stamped' \subseteq Stamped
    BY <1>1, <1>13 DEF Stamped
  <2> QED
    BY <1>1, <2>1, FewerStamps
<1> QED
  BY <1>5, <1>6, <1>7, <1>8, <1>9, <1>10, <1>12, <1>14, <1>15 DEF TransInv

\* Every step keeps the invariant.
LEMMA TransNext == TransInv /\ [Next]_vars => TransInv'
<1> SUFFICES ASSUME TransInv, [Next]_vars PROVE TransInv'
  OBVIOUS
<1>1. CASE Construct
  BY <1>1, ConstructKeeps
<1>2. CASE Begin
  BY <1>2, BeginKeeps
<1>3. CASE Misuse
  BY <1>3, MisuseKeeps
<1>4. CASE Decode
  BY <1>4, DecodeKeeps
<1>5. CASE Flush
  BY <1>5, FlushKeeps
<1>6. CASE Decoded
  BY <1>6, DecodedKeeps
<1>7. CASE DecoderDone
  BY <1>7, DecoderDoneKeeps
<1>8. CASE FlushEncoder
  BY <1>8, FlushEncoderKeeps
<1>9. CASE Encoded
  BY <1>9, EncodedKeeps
<1>10. CASE EncoderDone
  BY <1>10, EncoderDoneKeeps
<1>11. CASE End
  BY <1>11, EndKeeps
<1>12. CASE UNCHANGED vars
  <2>1. UNCHANGED <<unknown, built, pb, ready, phase, step, fed, decoder, encoder, ended,
                    pts, stamp, muxer, out, dropped, errors>>
    BY <1>12 DEF vars, buildVars, codecVars, writerVars
  <2>2. TypeOK' /\ PhaseInv' /\ BuildInv' /\ CodecInv' /\ FlushInv'
    BY <2>1 DEF TransInv, TypeOK, PhaseInv, BuildInv, CodecInv, FlushInv, Complete
  <2>3. WriterInv' /\ DropInv'
    BY <2>1 DEF TransInv, WriterInv, DropInv
  <2>4. PlaceInv' /\ StampInv'
    BY <2>1, PlacesKept DEF Places
  <2> QED
    BY <2>2, <2>3, <2>4 DEF TransInv
<1> QED
  BY <1>1, <1>2, <1>3, <1>4, <1>5, <1>6, <1>7, <1>8, <1>9, <1>10, <1>11, <1>12
  DEF Next, Return, Gone

-----------------------------------------------------------------------------
(* The theorems.                                                           *)

\* The inductive invariant: where the thread is in the constructors and
\* loops of codec.cpp tells which parts exist, which codec has room or has
\* been told of the end, and where each frame is.
THEOREM TranscoderInvariant == Spec => []TransInv
<1>1. Init => TransInv
  BY TransInit
<1>2. TransInv /\ [Next]_vars => TransInv'
  BY TransNext
<1> QED
  BY <1>1, <1>2, PTL DEF Spec

\* Whatever libav answers, a transcoder that was built completely and wrote
\* its header uses no part before it is built or after it is freed, up to
\* the end of ~AppStreamTranscoder; one that was not had a failure.
THEOREM UsedOnceReady == Spec => []DefinedOnceReady
<1>1. TransInv => DefinedOnceReady
  BY DEF TransInv, BuildInv, DefinedOnceReady
<1> QED
  BY <1>1, TranscoderInvariant, PTL

\* At the end without a failure, what is nowhere else has been written.
LEMMA FlushIs == TransInv => FlushComplete
<1> SUFFICES ASSUME TransInv, step = "gone" PROVE
      /\ muxer = <<>>
      /\ ready => Last(out) = 0
      /\ errors = 0 => Written = 1..fed
      /\ out # <<>> => \A i \in DOMAIN out : out[i] = 0 <=> i = Len(out)
  BY DEF FlushComplete
<1>0. TypeOK /\ PhaseInv /\ BuildInv /\ FlushInv /\ WriterInv /\ PlaceInv /\ DropInv
  BY DEF TransInv
<1>1. /\ muxer = <<>> /\ phase = "encoder"
      /\ ready => out # <<>>
      /\ out # <<>> => \A i \in 1..Len(out) : out[i] = 0 <=> i = Len(out)
  BY <1>0 DEF WriterInv, PhaseInv
<1>2. out \in Seq(Frame \cup {0}) /\ DOMAIN out = 1..Len(out) /\ Len(out) \in Nat
      /\ (out # <<>> => Len(out) \in 1..Len(out))
  BY <1>0 DEF TypeOK
<1>3. ready => Last(out) = 0
  BY <1>1, <1>2 DEF Last
<1>4. Packets = Written
  <2>1. out \in Seq(Frame \cup {0}) /\ muxer = <<>>
    BY <1>1, <1>2
  <2>2. Sent = out
    BY <2>1 DEF Sent
  <2> QED
    BY <2>2 DEF Packets, Written
<1>5. errors = 0 => Written = 1..fed
  <2>1. SUFFICES ASSUME errors = 0 PROVE Written = 1..fed
    OBVIOUS
  <2>2. decoder = <<>> /\ encoder = {}
    BY <1>0, <1>1, <2>1 DEF FlushInv
  <2>3. ready
    BY <1>0, <1>1, <2>1 DEF BuildInv
  <2>4. Cardinality(dropped) = 0
    BY <1>0, <2>1, <2>3, FramesNumber DEF DropInv
  <2>5. dropped = {}
    <3>1. IsFiniteSet(Frame) /\ dropped \subseteq Frame
      BY <1>0, FS_Interval, TranscoderAssumption DEF TypeOK, Frame
    <3>2. IsFiniteSet(dropped)
      BY <3>1, FS_Subset
    <3> QED
      BY <2>4, <3>2, FS_EmptySet
  <2>6. ToSet(decoder) = {}
    BY <2>2 DEF ToSet
  <2> QED
    BY <1>0, <1>4, <2>2, <2>5, <2>6 DEF PlaceInv
<1> QED
  BY <1>1, <1>2, <1>3, <1>5

\* What ~AppStreamTranscoder leaves: nothing in the muxer, the trailer once
\* and last, and without a failure every frame that was handed to Process.
THEOREM FlushIsComplete == Spec => []FlushComplete
  BY FlushIs, TranscoderInvariant, PTL

\* What the muxer has and what it gave away are different: Sent is injective.
LEMMA AccountedIs == TransInv => FramesAccounted
<1> SUFFICES ASSUME TransInv PROVE FramesAccounted
  OBVIOUS
<1> DEFINE places == <<ToSet(decoder), encoder, ToSet(muxer), Written, dropped>>
<1>0. TypeOK /\ PhaseInv /\ BuildInv /\ WriterInv /\ PlaceInv /\ DropInv /\ StampInv
  BY DEF TransInv
<1>1. out \in Seq(Frame \cup {0}) /\ muxer \in Seq(Frame \cup {0}) /\ muxer \in Seq(Frame)
  BY <1>0 DEF TypeOK
<1>2. 0 \notin ToSet(muxer)
  BY <1>1, SentFrames
<1>3. ToSet(Sent) = ToSet(out) \cup ToSet(muxer)
  BY <1>1, ConcatSet DEF Sent
<1>4. Packets = Written \cup ToSet(muxer)
  BY <1>2, <1>3 DEF Packets, Written
<1>5. Written \cap ToSet(muxer) = {}
  BY <1>0, <1>1, InjectiveHalves DEF PlaceInv, Sent, Written
<1>6. UNION ToSet(places) = 1..fed
  <2>1. ToSet(places) = {ToSet(decoder), encoder, ToSet(muxer), Written, dropped}
    BY FiveSet
  <2> QED
    BY <1>0, <1>4, <2>1 DEF PlaceInv
<1>7. \A i, j \in 1..5 : i # j => places[i] \cap places[j] = {}
  <2>1. /\ places[1] = ToSet(decoder) /\ places[2] = encoder /\ places[3] = ToSet(muxer)
        /\ places[4] = Written /\ places[5] = dropped
    OBVIOUS
  <2>2. /\ ToSet(decoder) \cap encoder = {} /\ ToSet(decoder) \cap ToSet(muxer) = {}
        /\ ToSet(decoder) \cap Written = {} /\ ToSet(decoder) \cap dropped = {}
        /\ encoder \cap ToSet(muxer) = {} /\ encoder \cap Written = {}
        /\ encoder \cap dropped = {} /\ ToSet(muxer) \cap dropped = {}
        /\ Written \cap dropped = {}
    BY <1>0, <1>4 DEF PlaceInv
  <2> HIDE DEF places
  <2>3. \A i, j \in 1..5 : i < j => places[i] \cap places[j] = {} /\ places[j] \cap places[i] = {}
    BY <1>5, <2>1, <2>2
  <2>4. \A i, j \in 1..5 : i # j => i < j \/ j < i
    OBVIOUS
  <2> QED
    BY <2>3, <2>4
<1>8. ready => Cardinality(dropped) <= errors
  BY <1>0 DEF DropInv
<1>9. \A f, g \in Written : f < g => stamp[f] < stamp[g]
  BY <1>0, <1>4 DEF StampInv, Stamped
<1>10. IsInjective(out \o muxer)
  BY <1>0 DEF PlaceInv, Sent
<1> QED
  BY <1>6, <1>7, <1>8, <1>9, <1>10 DEF FramesAccounted

\* Every frame handed to Process is in one place, none is written twice, one
\* that is lost has its failure, and the time stamps tell the camera's order
\* for any order of the encoder's packets.
THEOREM FramesAreAccounted == Spec => []FramesAccounted
  BY AccountedIs, TranscoderInvariant, PTL

-----------------------------------------------------------------------------
(* The queue the transcoder's thread takes its input from (EventQueue),    *)
(* for any producers, consumers and events and any number of pushes. The   *)
(* inductive invariant: both safety properties, over the types.            *)

QueueTypeOK ==
  /\ events \in Seq(Event)
  /\ pushed \in Seq(Event)
  /\ popped \in Seq(Event)
  /\ waiting \subseteq Consumers
  /\ notifying \subseteq Producers

QueueInv == QueueTypeOK /\ Fifo /\ NoLostWakeup

-----------------------------------------------------------------------------
\* push_back, seen from the whole history: what is appended to the deque is
\* appended to everything ever pushed.
LEMMA AppendToTail ==
  ASSUME NEW s \in Seq(Event), NEW t \in Seq(Event), NEW e \in Event
  PROVE  Append(s \o t, e) = s \o Append(t, e)
  <1>1. s \o t \in Seq(Event) /\ <<e>> \in Seq(Event)
    BY ConcatProperties
  <1>2. Append(s \o t, e) = (s \o t) \o <<e>>
    BY <1>1, AppendIsConcat
  <1>3. Append(t, e) = t \o <<e>>
    BY AppendIsConcat
  <1> QED BY <1>1, <1>2, <1>3, ConcatAssociative

\* front and pop_front: the event taken goes from the head of the deque to
\* the end of what was popped, and the two together stay what they were.
LEMMA TakeMovesOne ==
  ASSUME NEW s \in Seq(Event), NEW q \in Seq(Event), q # <<>>
  PROVE  /\ Take(q).event \in Event /\ Take(q).rest \in Seq(Event)
         /\ Append(s, Take(q).event) \o Take(q).rest = s \o q
  <1> DEFINE h == Head(q)
             t == Tail(q)
  <1>1. /\ h \in Event /\ t \in Seq(Event) /\ Len(t) = Len(q) - 1
        /\ \A i \in 1..Len(t) : t[i] = q[i + 1]
    BY HeadTailProperties
  <1>2. /\ <<h>> \in Seq(Event) /\ Len(<<h>>) = 1
    BY <1>1
  <1>3. <<h>> \o t = q
    <2>1. /\ <<h>> \o t \in Seq(Event) /\ Len(<<h>> \o t) = Len(q)
      BY <1>1, <1>2, ConcatProperties, LenProperties
    <2>2. ASSUME NEW i \in 1..Len(q) PROVE (<<h>> \o t)[i] = q[i]
      BY <1>1, <1>2, ConcatProperties, LenProperties
    <2> QED BY <2>1, <2>2, SeqEqual
  <1>4. Append(s, h) \o t = s \o (<<h>> \o t)
    <2>1. Append(s, h) = s \o <<h>>
      BY <1>1, AppendIsConcat
    <2>2. (s \o <<h>>) \o t = s \o (<<h>> \o t)
      BY <1>1, <1>2, ConcatAssociative
    <2> QED BY <2>1, <2>2
  <1> QED BY <1>1, <1>3, <1>4 DEF Take

-----------------------------------------------------------------------------
\* The invariant holds of a new queue.
LEMMA QueueStarts == QueueInit => QueueInv
  <1> SUFFICES ASSUME QueueInit PROVE QueueInv
    OBVIOUS
  <1>1. QueueTypeOK
    BY EmptySeq DEF QueueInit, QueueTypeOK
  <1>2. Fifo
    BY EmptySeq, ConcatEmptySeq DEF QueueInit, Fifo
  <1> QED BY <1>1, <1>2 DEF QueueInit, QueueInv, NoLostWakeup

\* Every critical section, every notification and every wakeup keeps it.
LEMMA QueueKeeps == QueueInv /\ [QueueNext]_queueVars => QueueInv'
  <1> SUFFICES ASSUME QueueInv, [QueueNext]_queueVars PROVE QueueInv'
    OBVIOUS
  <1> USE QueueAssumption DEF QueueInv, QueueTypeOK, Fifo, NoLostWakeup
  <1>1. CASE \E p \in Producers, e \in Event : Push(p, e)
    <2>1. PICK p \in Producers, e \in Event : Push(p, e)
      BY <1>1
    <2>2. QueueTypeOK'
      BY <2>1, AppendProperties DEF Push
    <2>3. Fifo'
      BY <2>1, AppendToTail DEF Push
    <2>4. NoLostWakeup'
      BY <2>1 DEF Push
    <2> QED BY <2>2, <2>3, <2>4
  \* Whoever was notified is awake; if nobody waited, somebody is.
  <1>2. CASE \E p \in Producers : NotifyOne(p)
    BY <1>2 DEF NotifyOne
  <1>3. CASE \E c \in Consumers : Pop(c)
    <2>1. PICK c \in Consumers : Pop(c)
      BY <1>3
    <2>2. QueueTypeOK' /\ Fifo'
      BY <2>1, TakeMovesOne, AppendProperties DEF Pop
    <2> QED BY <2>1, <2>2 DEF Pop
  \* A consumer goes to sleep only while there is nothing to take.
  <1>4. CASE \E c \in Consumers : Wait(c)
    BY <1>4 DEF Wait
  <1>5. CASE \E c \in Consumers : SpuriousWakeup(c)
    BY <1>5 DEF SpuriousWakeup
  <1>6. CASE UNCHANGED queueVars
    BY <1>6 DEF queueVars
  <1> QED BY <1>1, <1>2, <1>3, <1>4, <1>5, <1>6 DEF QueueNext

\* The three facts, for every behaviour.
THEOREM QueueInvariant == QueueSpec => []QueueInv
  BY QueueStarts, QueueKeeps, PTL DEF QueueSpec

-----------------------------------------------------------------------------
\* However many threads push and pop, consumers together take every event
\* once and in the order of the pushes.
THEOREM QueueIsFifo == QueueSpec => []Fifo
  <1>1. QueueInv => Fifo
    BY DEF QueueInv
  <1> QED BY <1>1, QueueInvariant, PTL

\* notify_one after the unlock is late but never lost: no event is left with
\* every consumer asleep and nobody about to wake one.
THEOREM NoWakeupIsLost == QueueSpec => []NoLostWakeup
  <1>1. QueueInv => NoLostWakeup
    BY DEF QueueInv
  <1> QED BY <1>1, QueueInvariant, PTL
=============================================================================
