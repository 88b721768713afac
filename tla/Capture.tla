------------------------------- MODULE Capture -------------------------------
(***************************************************************************)
(* The camera's buffers: video::Stream (src/src/core/video.cpp) and the    *)
(* capturer thread of src/src/main/stream.cpp that calls ProcessFrame for  *)
(* ever. Buffers are shared memory: the driver fills those that were       *)
(* queued, the thread dequeues one, hands its bytes to the distributer     *)
(* without a copy, and queues it again. Every ioctl may fail; errors are   *)
(* logged and the thread carries on.                                       *)
(***************************************************************************)
EXTENDS Integers, Sequences, SequencesExt, FiniteSets

CONSTANTS
  Count,     \* bound: buffers granted by VIDIOC_REQBUFS; 4 are asked for,
             \* the driver may grant less or more
  MaxFrames, \* bound: frames the camera takes
  MaxErrors, \* bound: calls that fail
  None       \* no buffer

ASSUME CaptureAssumption ==
  /\ Count \in Nat \ {0, 1} /\ MaxFrames \in Nat /\ MaxErrors \in Nat
  /\ None \notin Nat

Index == 0..(Count - 1)

VARIABLES
  pc,       \* where the thread is
  fd,       \* Device::fd is a camera
  granted,  \* buffers the driver allocated
  mapped,   \* buffers.size()
  broken,   \* buffers whose ptr is MAP_FAILED
  epfd,     \* "unset", "none" (-1), "empty", or "camera": it reports the camera
  on,       \* the camera streams
  empty,    \* the driver's buffers to be filled, by index
  filled,   \* the driver's buffers with a frame, in the order they were filled
  content,  \* the last frame in each buffer; 0: none
  shot,     \* frames the camera has taken
  hand,     \* buf: its index and the frame it had when it was dequeued
  shown,    \* frames handed to the distributer
  lost,     \* buffers that neither the driver nor the thread has
  errors    \* failures so far

setupVars == <<fd, granted, mapped, broken, epfd, on>>
driverVars == <<empty, filled, content, shot>>
vars == <<pc, setupVars, driverVars, hand, shown, lost, errors>>

NoBuf == [index |-> None, frame |-> 0]

Fails == errors < MaxErrors /\ errors' = errors + 1

Init ==
  /\ pc = "open" /\ fd = FALSE /\ granted = 0 /\ mapped = 0 /\ broken = {}
  /\ epfd = "unset" /\ on = FALSE
  /\ empty = <<>> /\ filled = <<>> /\ content = [i \in Index |-> 0] /\ shot = 0
  /\ hand = NoBuf /\ shown = <<>> /\ lost = {} /\ errors = 0

-----------------------------------------------------------------------------
(* The constructors of Device and Stream, which report nothing: the thread *)
(* goes on with what it got. On a descriptor that is not open every ioctl  *)
(* fails. The outcome of SetParameters is the camera's business only.      *)

Open ==
  /\ pc = "open"
  /\ \/ fd' = TRUE /\ UNCHANGED errors
     \/ Fails /\ UNCHANGED fd
  /\ pc' = "request"
  /\ UNCHANGED <<granted, mapped, broken, epfd, on, driverVars, hand, shown, lost>>

\* BindBuffers: VIDIOC_REQBUFS; less than two buffers are not used,
Request ==
  /\ pc = "request"
  /\ \/ /\ fd /\ granted' \in 1..Count
        /\ pc' = IF granted' < 2 THEN "streamon" ELSE "bind"
        /\ UNCHANGED errors
     \/ /\ IF fd THEN Fails ELSE UNCHANGED errors
        /\ pc' = "streamon"
        /\ UNCHANGED granted
  /\ UNCHANGED <<fd, mapped, broken, epfd, on, driverVars, hand, shown, lost>>

\* Mutant: the mapping comes before VIDIOC_QBUF.
BindMapsFirst ==
  /\ pc = "bind" /\ mapped < granted
  /\ mapped' = mapped + 1
  /\ \/ empty' = Append(empty, mapped) /\ UNCHANGED <<pc, errors>>
     \/ Fails /\ pc' = "streamon" /\ UNCHANGED empty
  /\ UNCHANGED <<fd, granted, broken, epfd, on, filled, content, shot, hand, shown, lost>>

\* VIDIOC_QUERYBUF, VIDIOC_QBUF, and only then the mapping. An ioctl that
\* fails ends it, mmap does not: the buffer is kept with its bad address.
Bind ==
  /\ pc = "bind" /\ mapped < granted
  /\ \/ /\ empty' = Append(empty, mapped)
        /\ mapped' = mapped + 1
        /\ \/ UNCHANGED <<broken, errors>>
           \/ broken' = broken \cup {mapped} /\ Fails
        /\ UNCHANGED pc
     \/ /\ Fails
        /\ pc' = "streamon"
        /\ UNCHANGED <<empty, mapped, broken>>
  /\ UNCHANGED <<fd, granted, epfd, on, filled, content, shot, hand, shown, lost>>

BindEnd ==
  /\ pc = "bind" /\ mapped = granted
  /\ pc' = "streamon"
  /\ UNCHANGED <<setupVars, driverVars, hand, shown, lost, errors>>

\* StartStreaming: VIDIOC_STREAMON, which needs buffers. If it fails epfd
\* keeps the value it had in an uninitialised object. ProcessFrame then fails
\* or waits on whatever epoll instance that may name; no other instance
\* knows the camera, and events of other descriptors are skipped: no frame
\* is ever fetched, as with "none" and "empty".
StreamOn ==
  /\ pc = "streamon"
  /\ \/ granted > 0 /\ on' = TRUE /\ pc' = "epoll" /\ UNCHANGED errors
     \/ /\ IF granted > 0 THEN Fails ELSE UNCHANGED errors
        /\ pc' = "wait" /\ UNCHANGED on
  /\ UNCHANGED <<fd, granted, mapped, broken, epfd, driverVars, hand, shown, lost>>

\* epoll_create1 and epoll_ctl. Whatever fails, ProcessFrame is called: with
\* an epfd that does not report the camera it fails or waits, for ever.
Epoll ==
  /\ pc = "epoll"
  /\ \/ epfd' = "camera" /\ UNCHANGED errors
     \/ epfd' \in {"none", "empty"} /\ Fails
  /\ pc' = "wait"
  /\ UNCHANGED <<fd, granted, mapped, broken, on, driverVars, hand, shown, lost>>

-----------------------------------------------------------------------------
\* The camera: the next frame goes to the buffer queued first.
Shoot ==
  /\ on /\ pc # "crashed"
  /\ shot < MaxFrames
  /\ shot' = shot + 1
  /\ IF empty = <<>>
       THEN UNCHANGED <<empty, filled, content>>
       ELSE /\ empty' = Tail(empty)
            /\ filled' = Append(filled, Head(empty))
            /\ content' = [content EXCEPT ![Head(empty)] = shot']
  /\ UNCHANGED <<pc, setupVars, hand, shown, lost, errors>>

-----------------------------------------------------------------------------
(* ProcessFrame.                                                           *)

\* epoll_wait reports the camera, and VIDIOC_DQBUF
Dequeue ==
  /\ pc = "wait" /\ epfd = "camera" /\ filled # <<>>
  /\ hand' = [index |-> Head(filled), frame |-> content[Head(filled)]]
  /\ filled' = Tail(filled)
  /\ pc' = "process"
  /\ UNCHANGED <<setupVars, empty, content, shot, shown, lost, errors>>

\* may fail, with the buffer or without it. (EAGAIN is also an answer;
\* nothing changes then.)
DequeueFails ==
  /\ pc = "wait" /\ epfd = "camera" /\ filled # <<>>
  /\ Fails
  /\ \/ UNCHANGED <<filled, lost>>
     \/ filled' = Tail(filled) /\ lost' = lost \cup {Head(filled)}
  /\ UNCHANGED <<pc, setupVars, empty, content, shot, hand, shown>>

\* Mutant: the buffer is queued again before its bytes are used.
ProcessQueued ==
  /\ pc = "process" /\ hand.index \notin broken
  /\ shown' = Append(shown, hand.frame)
  /\ empty' = Append(empty, hand.index)
  /\ pc' = "requeue"
  /\ UNCHANGED <<setupVars, filled, content, shot, hand, lost, errors>>

\* processor.ProcessFrame: every receiver has copied the bytes, or is done
\* with them, when it returns.
Process ==
  /\ pc = "process" /\ hand.index \notin broken
  /\ shown' = Append(shown, content[hand.index])
  /\ pc' = "requeue"
  /\ UNCHANGED <<setupVars, driverVars, hand, lost, errors>>

\* Where there is no mapping a receiver ends the process; while there is no
\* receiver yet nobody reads.
ProcessUnmapped ==
  /\ pc = "process" /\ hand.index \in broken
  /\ pc' \in {"crashed", "requeue"}
  /\ UNCHANGED <<setupVars, driverVars, hand, shown, lost, errors>>

\* VIDIOC_QBUF
Requeue ==
  /\ pc = "requeue"
  /\ \/ /\ empty' = Append(empty, hand.index)
        /\ UNCHANGED <<lost, errors>>
     \/ /\ Fails
        /\ lost' = lost \cup {hand.index}
        /\ UNCHANGED empty
  /\ hand' = NoBuf
  /\ pc' = "wait"
  /\ UNCHANGED <<setupVars, filled, content, shot, shown>>

-----------------------------------------------------------------------------
Setup == Open \/ Request \/ Bind \/ BindEnd \/ StreamOn \/ Epoll
Loop == Dequeue \/ DequeueFails \/ Process \/ ProcessUnmapped \/ Requeue

\* The thread waits for ever: the camera is bounded, does not stream, or has
\* no buffers left; or epfd does not report it.
Waiting ==
  /\ \/ pc = "crashed"
     \/ pc = "wait" /\ (on => shot = MaxFrames) /\ (filled = <<>> \/ epfd # "camera")
  /\ UNCHANGED vars

Next == Setup \/ Loop \/ Shoot \/ Waiting

Spec == Init /\ [][Next]_vars

-----------------------------------------------------------------------------
InHand == IF hand = NoBuf THEN {} ELSE {hand.index}
Places == <<ToSet(empty), ToSet(filled), InHand, lost>>

\* While receivers read a buffer its bytes do not change, and buffers[buf.index]
\* exists although binding may have stopped half way; so they see the camera's
\* frames in order, none twice, and none before the camera took it. Memory
\* that is not mapped is read only if an mmap failed.
ReadIsStable ==
  /\ hand # NoBuf => content[hand.index] = hand.frame /\ hand.index < mapped
  /\ \A i, j \in DOMAIN shown : i < j => shown[i] < shown[j]
  /\ ToSet(shown) \subseteq 1..shot
  /\ pc = "crashed" => hand.index \in broken /\ Cardinality(broken) <= errors

\* Every buffer that was bound is with the driver, once, or in use, or lost
\* to an error; nothing else is queued. And the loop is never deaf without a
\* cause: if the driver holds a frame that nobody will fetch, or grants
\* buffers that were not bound, a call failed.
BuffersKept ==
  /\ UNION ToSet(Places) = 0..(mapped - 1)
  /\ \A i, j \in 1..4 : i # j => Places[i] \cap Places[j] = {}
  /\ IsInjective(empty \o filled)
  /\ Cardinality(lost) + Cardinality(broken) <= errors
  /\ pc = "wait" /\ granted > 1 /\ (epfd # "camera" \/ mapped < granted) => errors > 0

=============================================================================
