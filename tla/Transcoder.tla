----------------------------- MODULE Transcoder -----------------------------
(***************************************************************************)
(* AppStreamTranscoder (src/src/main/stream.cpp) and the pipeline behind   *)
(* it (src/src/core/codec.cpp): decoder, filter, encoder and writer, with  *)
(* loops nested in callbacks: each packet sent to the decoder may yield    *)
(* frames, each frame goes through the filter into the encoder, each       *)
(* packet the encoder yields goes to the writer. Decoder and encoder hold  *)
(* frames back until they are drained; the encoder may also change their   *)
(* order. The filter, drawtext, yields one frame for one (main.cpp). What  *)
(* libav may do is external: a call may fail, and a codec refuses input it *)
(* has no room for and input after it was told that the stream ended. The  *)
(* constructors only log what fails and return: a part may be used that    *)
(* was built half, and then the step is undefined.                         *)
(***************************************************************************)
EXTENDS Integers, Sequences, SequencesExt, FiniteSets

CONSTANTS
  MaxFrames,     \* bound: frames handed to Process
  MaxErrors,     \* bound: calls of libav that fail
  DecoderDelay,  \* frames the decoder holds back
  EncoderDelay   \* frames the encoder holds back

ASSUME TranscoderAssumption ==
  /\ MaxFrames \in Nat /\ MaxErrors \in Nat
  /\ DecoderDelay \in Nat /\ EncoderDelay \in Nat

Parts == <<"decoder", "filter", "encoder", "writer">>

\* What the constructors acquire, in order.
DecoderStages == <<"context", "open", "frame", "packet">>
FilterStages == <<"in", "out", "pix_fmts", "graph", "frame">>
EncoderStages == <<"context", "open", "frame", "packet">>
WriterStages == <<"context", "stream", "codecpar", "packet">>

Stages == [decoder |-> DecoderStages, filter |-> FilterStages,
           encoder |-> EncoderStages, writer |-> WriterStages]

VARIABLES
  unknown,  \* of "inFormat", "outFormat": names ConvertPixFormat does not know
  built,    \* how many of its stages each part has
  pb,       \* of the writer: "none", "open"; "header": and the header is out
  ready,    \* history: all of that succeeded
  phase,    \* "construct", "process"; "decoder", "encoder": what
            \* ~AppStreamTranscoder flushes
  step,     \* the part under construction; later the innermost loop the
            \* thread is in: "decoding" for GetDecodedFrame, "encoding" for
            \* GetEncodedPacket
  fed,      \* frames handed to Process so far
  decoder,  \* frames held by the decoder
  encoder,  \* frames held by the encoder
  ended,    \* the codecs told that the stream ended
  pts,      \* Encoder::pts
  stamp,    \* the pts of each frame, -1: none yet
  muxer,    \* packets the writer has and has not given away
  out,      \* what the writer gave away
  dropped,  \* frames lost to an error that was logged
  errors    \* failures so far

buildVars == <<unknown, built, pb, ready>>
codecVars == <<decoder, encoder, ended>>
writerVars == <<muxer, out>>
vars == <<buildVars, phase, step, fed, codecVars, pts, stamp, writerVars, dropped, errors>>

-----------------------------------------------------------------------------
Frame == 1..MaxFrames

\* What a codec that holds "held" frames, with this delay, may answer.
MayWait(codec, held, delay) == codec \notin ended /\ held <= delay
AtEnd(codec, held) == codec \in ended /\ held = 0
Accepts(codec, held, delay) == codec \notin ended /\ held <= delay

Fails == errors < MaxErrors /\ errors' = errors + 1

Has(part, stage) == \E i \in 1..built[part] : Stages[part][i] = stage

Init ==
  /\ unknown \in SUBSET {"inFormat", "outFormat"}
  /\ built = [p \in ToSet(Parts) |-> 0] /\ pb = "none" /\ ready = FALSE
  /\ phase = "construct" /\ step = Parts[1] /\ fed = 0
  /\ decoder = <<>> /\ encoder = {} /\ ended = {}
  /\ pts = 0 /\ stamp = [f \in Frame |-> -1]
  /\ muxer = <<>> /\ out = <<>>
  /\ dropped = {} /\ errors = 0

-----------------------------------------------------------------------------
(* AppStreamTranscoderFactory::Create and the constructors.                *)

\* ConvertPixFormat throws: the thread that creates the transcoder, the
\* recorder's or a connection's, does not catch it.
Throws ==
  \/ step = "filter" /\ built.filter = 0 /\ "inFormat" \in unknown
  \/ step = "filter" /\ built.filter = 2 /\ "outFormat" \in unknown
  \/ step = "encoder" /\ built.encoder = 1 /\ "outFormat" \in unknown

AfterPart == [decoder |-> "filter", filter |-> "encoder", encoder |-> "writer",
              writer |-> "begin"]

\* The next stage of the part under construction: the last one, or one that
\* fails, ends its constructor.
Construct ==
  /\ phase = "construct" /\ step \in ToSet(Parts)
  /\ \/ /\ Throws
        /\ step' = "terminated"
        /\ UNCHANGED <<built, errors>>
     \/ /\ ~Throws
        /\ built' = [built EXCEPT ![step] = @ + 1]
        /\ step' = IF built'[step] = Len(Stages[step]) THEN AfterPart[step] ELSE step
        /\ UNCHANGED errors
     \/ /\ ~Throws /\ Fails
        /\ step' = AfterPart[step]
        /\ UNCHANGED built
  /\ UNCHANGED <<unknown, pb, ready, phase, fed, codecVars, pts, stamp, writerVars, dropped>>

\* BufferWriter::Begin, FileWriter::Begin: pb, and the header, which no muxer
\* writes for a stream it knows nothing of. Without a context there is no
\* place for pb.
Begin ==
  /\ step = "begin"
  /\ \/ /\ ~Has("writer", "context")
        /\ step' = "undefined"
        /\ UNCHANGED <<pb, ready, phase, errors>>
     \/ /\ Has("writer", "context")
        /\ \/ Has("writer", "codecpar") /\ pb' = "header" /\ UNCHANGED errors
           \/ Has("writer", "codecpar") /\ pb' \in {"none", "open"} /\ Fails
           \/ ~Has("writer", "codecpar") /\ pb' = "open" /\ UNCHANGED errors
           \/ ~Has("writer", "codecpar") /\ pb' = "none" /\ Fails
        /\ ready' = (pb' = "header" /\ \A p \in ToSet(Parts) : built[p] = Len(Stages[p]))
        /\ phase' = "process" /\ step' = "idle"
  /\ UNCHANGED <<unknown, built, fed, codecVars, pts, stamp, writerVars, dropped>>

\* Each part where it is used: Decode fills packet, the filter needs it all,
\* the codecs refuse what is not open but not a null pointer.
Misuse ==
  /\ \/ step = "idle" /\ ~Has("decoder", "packet")
     \/ step = "decoding" /\ decoder # <<>> /\ ~Has("filter", "frame")
     \/ step = "decoding" /\ ~Has("decoder", "frame")
     \/ step = "decoding" /\ decoder # <<>> /\ ~Has("encoder", "context")
     \/ step = "flush" /\ ~Has("encoder", "context")
     \/ step = "encoding" /\ ~Has("encoder", "packet")
     \/ step = "encoding" /\ encoder # {} /\ pb # "header"
     \/ step = "end" /\ pb = "open"
  /\ step' = "undefined"
  /\ UNCHANGED <<buildVars, phase, fed, codecVars, pts, stamp, writerVars, dropped, errors>>

-----------------------------------------------------------------------------
(* Transcoder::Process: Decoder::Decode.                                   *)

Decode ==
  /\ step = "idle" /\ phase = "process" /\ Has("decoder", "packet")
  /\ fed < MaxFrames
  /\ fed' = fed + 1
  /\ \/ /\ Accepts("decoder", Len(decoder), DecoderDelay)
        /\ decoder' = Append(decoder, fed')
        /\ step' = "decoding"
        /\ UNCHANGED <<dropped, errors>>
     \/ /\ IF Accepts("decoder", Len(decoder), DecoderDelay) THEN Fails ELSE UNCHANGED errors
        /\ dropped' = dropped \cup {fed'}
        /\ UNCHANGED <<decoder, step>>
  /\ UNCHANGED <<buildVars, phase, encoder, ended, pts, stamp, writerVars>>

\* Encoder::Encode: the frame has a pts whether it is accepted or not.
Encode(f) ==
  LET accepts == /\ Has("encoder", "open")
                 /\ Accepts("encoder", Cardinality(encoder), EncoderDelay) IN
  /\ stamp' = [stamp EXCEPT ![f] = pts]
  /\ pts' = pts + 1
  /\ \/ /\ accepts
        /\ encoder' = encoder \cup {f}
        /\ step' = "encoding"
        /\ UNCHANGED <<dropped, errors>>
     \/ /\ IF accepts THEN Fails ELSE UNCHANGED errors
        /\ dropped' = dropped \cup {f}
        /\ UNCHANGED <<encoder, step>>

\* One turn of GetDecodedFrame with a frame: through Filter::Process, which
\* may fail, into the encoder.
Decoded ==
  /\ step = "decoding" /\ decoder # <<>>
  /\ Has("decoder", "frame") /\ Has("filter", "frame")
  /\ decoder' = Tail(decoder)
  /\ \/ Has("encoder", "context") /\ Encode(Head(decoder))
     \/ /\ Fails
        /\ dropped' = dropped \cup {Head(decoder)}
        /\ UNCHANGED <<encoder, step, pts, stamp>>
  /\ UNCHANGED <<buildVars, phase, fed, ended, writerVars>>

\* Where Decode and Flush go on when GetDecodedFrame has returned.
AfterDecoder == step' = IF phase = "process" THEN "idle" ELSE "flush"

DecoderDone ==
  /\ step = "decoding" /\ Has("decoder", "frame")
  /\ \/ /\ MayWait("decoder", Len(decoder), DecoderDelay) \/ AtEnd("decoder", Len(decoder))
        /\ UNCHANGED <<decoder, dropped, errors>>
     \/ /\ decoder # <<>> /\ Fails
        /\ decoder' = Tail(decoder)
        /\ dropped' = dropped \cup {Head(decoder)}
  /\ AfterDecoder
  /\ UNCHANGED <<buildVars, phase, fed, encoder, ended, pts, stamp, writerVars>>

\* One turn of GetEncodedPacket with a packet: Writer::Process, which may
\* fail. The muxer gives away what it likes.
Encoded ==
  /\ step = "encoding" /\ Has("encoder", "packet") /\ pb = "header"
  /\ \E f \in encoder :
       /\ encoder' = encoder \ {f}
       /\ \/ /\ \E n \in 0..(Len(muxer) + 1) :
                  /\ out' = out \o SubSeq(Append(muxer, f), 1, n)
                  /\ muxer' = SubSeq(Append(muxer, f), n + 1, Len(muxer) + 1)
             /\ UNCHANGED <<dropped, errors>>
          \/ /\ Fails
             /\ dropped' = dropped \cup {f}
             /\ UNCHANGED writerVars
  /\ UNCHANGED <<buildVars, phase, step, fed, decoder, ended, pts, stamp>>

\* GetEncodedPacket returns: into the loop of the decoder, or out of Flush.
EncoderDone ==
  /\ step = "encoding" /\ Has("encoder", "packet")
  /\ \/ /\ MayWait("encoder", Cardinality(encoder), EncoderDelay)
           \/ AtEnd("encoder", Cardinality(encoder))
        /\ UNCHANGED <<encoder, dropped, errors>>
     \/ /\ Fails
        /\ \E f \in encoder : encoder' = encoder \ {f} /\ dropped' = dropped \cup {f}
  /\ step' = IF phase = "encoder" THEN "end" ELSE "decoding"
  /\ UNCHANGED <<buildVars, phase, fed, decoder, ended, pts, stamp, writerVars>>

\* Mutant: the encoder is told of the end together with the decoder.
FlushEncoderFirst ==
  /\ step = "idle" /\ phase = "process" /\ Has("decoder", "open")
  /\ phase' = "decoder" /\ step' = "decoding"
  /\ ended' = {"decoder", "encoder"}
  /\ UNCHANGED <<buildVars, fed, decoder, encoder, pts, stamp, writerVars, dropped, errors>>

\* Mutant: only the encoder is flushed.
FlushEncoderOnly ==
  /\ step = "idle" /\ phase = "process"
  /\ phase' = "decoder" /\ step' = "flush"
  /\ UNCHANGED <<buildVars, fed, codecVars, pts, stamp, writerVars, dropped, errors>>

\* Mutant: the writer ends before the codecs are flushed.
FlushAfterEnd ==
  /\ step = "idle" /\ phase = "process" /\ Has("decoder", "open")
  /\ phase' = "decoder" /\ step' = "decoding"
  /\ ended' = {"decoder"}
  /\ out' = IF pb = "header" THEN Append(out \o muxer, 0) ELSE out
  /\ muxer' = <<>> /\ pb' = "none"
  /\ UNCHANGED <<unknown, built, ready, fed, decoder, encoder, pts, stamp, dropped, errors>>

\* ~AppStreamTranscoder, Transcoder::Flush: the decoder is told that the
\* stream ends, which may fail,
Flush ==
  /\ step = "idle" /\ phase = "process"
  /\ phase' = "decoder"
  /\ Has("decoder", "context")
  /\ \/ /\ Has("decoder", "open")
        /\ ended' = {"decoder"} /\ step' = "decoding"
        /\ UNCHANGED errors
     \/ /\ IF Has("decoder", "open") THEN Fails ELSE UNCHANGED errors
        /\ step' = "flush"
        /\ UNCHANGED ended
  /\ UNCHANGED <<buildVars, fed, decoder, encoder, pts, stamp, writerVars, dropped>>

\* and then the encoder.
FlushEncoder ==
  /\ step = "flush" /\ Has("encoder", "context")
  /\ phase' = "encoder"
  /\ \/ /\ Has("encoder", "open")
        /\ ended' = ended \cup {"encoder"} /\ step' = "encoding"
        /\ UNCHANGED errors
     \/ /\ IF Has("encoder", "open") THEN Fails ELSE UNCHANGED errors
        /\ step' = "end"
        /\ UNCHANGED ended
  /\ UNCHANGED <<buildVars, fed, decoder, encoder, pts, stamp, writerVars, dropped>>

\* Writer::End: the trailer, behind everything the muxer still has, if there
\* is something to write to. Then all parts are freed.
End ==
  /\ step = "end" /\ pb # "open"
  /\ out' = IF pb = "header" THEN Append(out \o muxer, 0) ELSE out
  /\ muxer' = <<>>
  /\ pb' = "none" /\ built' = [p \in ToSet(Parts) |-> 0]
  /\ step' = "gone"
  /\ UNCHANGED <<unknown, ready, phase, fed, codecVars, pts, stamp, dropped, errors>>

-----------------------------------------------------------------------------
Return == Decoded \/ DecoderDone \/ FlushEncoder \/ Encoded \/ EncoderDone \/ End

Gone == step \in {"gone", "undefined", "terminated"} /\ UNCHANGED vars

Next == Construct \/ Begin \/ Misuse \/ Decode \/ Flush \/ Return \/ Gone

Spec == Init /\ [][Next]_vars

-----------------------------------------------------------------------------
Written == ToSet(out) \ {0}

\* Every frame handed to Process is in one place: inside a codec, with the
\* muxer, written, or dropped; none is written twice; and each dropped frame
\* has its error: the loops read a codec until it has room again before they
\* give it more, and Flush ends the decoder before the encoder, so that no
\* frame meets a codec that refuses it (unless the codec never opened). The
\* time stamps tell the camera's order, even across dropped frames and an
\* encoder that changes the order of its packets.
FramesAccounted ==
  LET places == <<ToSet(decoder), encoder, ToSet(muxer), Written, dropped>> IN
    /\ UNION ToSet(places) = 1..fed
    /\ \A i, j \in 1..5 : i # j => places[i] \cap places[j] = {}
    /\ IsInjective(out \o muxer)
    /\ ready => Cardinality(dropped) <= errors
    /\ \A f, g \in Written : f < g => stamp[f] < stamp[g]

\* A finished recording has its trailer, which comes last and once, and all
\* its frames, unless a call failed: nothing that decoder, encoder or muxer
\* held back goes with them when they are destroyed. (An error while flushing
\* ends that loop, and what the codec still holds is lost.) A writer that did
\* not get as far as the header gives nothing away at all.
FlushComplete ==
  step = "gone" => /\ muxer = <<>>
                   /\ ready => Last(out) = 0
                   /\ errors = 0 => Written = 1..fed
                   /\ out # <<>> => \A i \in DOMAIN out : out[i] = 0 <=> i = Len(out)

\* Whatever libav's calls answer later, a transcoder that was built completely
\* and wrote its header is never used outside the lifetime of one of its
\* parts: neither while it flushes into the writer nor at its end. One that
\* was not had a failure (and was created and used all the same).
DefinedOnceReady ==
  /\ step = "undefined" => ~ready
  /\ phase # "construct" /\ ~ready => errors > 0

=============================================================================
