----------------------------- MODULE ByteStream -----------------------------
(***************************************************************************)
(* What a TcpSender promises its callers (src/src/core/network.hpp,        *)
(* TcpSender): the bytes handed to Send reach the socket in the order of   *)
(* the calls, none twice and none out of place, until the stream is shut;  *)
(* a shut stream delivers nothing more and never reopens.                  *)
(***************************************************************************)
EXTENDS Sequences, SequencesExt

CONSTANT Byte

VARIABLES
  accepted,   \* every byte handed to Send so far, in the order of the calls
  wire,       \* every byte the socket has taken so far
  open        \* the stream still delivers

vars == <<accepted, wire, open>>

Init ==
  /\ accepted = <<>>
  /\ wire = <<>>
  /\ open = TRUE

\* A caller appends bytes; nothing already accepted changes.
Accept ==
  /\ accepted' \in Seq(Byte)
  /\ IsPrefix(accepted, accepted')
  /\ UNCHANGED <<wire, open>>

\* The socket takes the next bytes of the accepted stream.
Deliver ==
  /\ open
  /\ IsPrefix(wire, wire')
  /\ IsPrefix(wire', accepted)
  /\ UNCHANGED <<accepted, open>>

Shut ==
  /\ open' = FALSE
  /\ UNCHANGED <<accepted, wire>>

Next == Accept \/ Deliver \/ Shut

Spec == Init /\ [][Next]_vars
=============================================================================
