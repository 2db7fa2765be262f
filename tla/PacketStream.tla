---------------------------- MODULE PacketStream ----------------------------
(***************************************************************************)
(* What a framing layer promises to an application that reads a damaged    *)
(* stream: it gets the packets that were put in, each of them whole and    *)
(* as it was, in the order they were put in, and between two that are not  *)
(* neighbours it is told that something is missing, unless it moved to     *)
(* another place itself.                                                   *)
(***************************************************************************)
EXTENDS Integers, Sequences

VARIABLES
  sent,        \* the packets that were put in
  received     \* what came out: the number of a packet, or a mark

HoleMark == 0     \* something is missing here
SeekMark == -1    \* the application went to another place

Marks == {HoleMark, SeekMark}

\* The last packet that came out, 0 before the first.
LastPacket ==
  LET at == {i \in DOMAIN received : received[i] \notin Marks}
  IN  IF at = {} THEN 0
      ELSE received[CHOOSE i \in at : \A j \in at : j <= i]

Init == sent = <<>> /\ received = <<>>

Put ==
  /\ Len(sent') = Len(sent) + 1
  /\ SubSeq(sent', 1, Len(sent)) = sent
  /\ UNCHANGED received

\* The next packet, or a later one behind a mark.
Get(k) ==
  /\ received' = Append(received, k)
  /\ k > LastPacket
  /\ \/ k = LastPacket + 1
     \/ received # <<>> /\ received[Len(received)] \in Marks
  /\ UNCHANGED sent

Mark ==
  /\ \E m \in Marks : received' = Append(received, m)
  /\ UNCHANGED sent

Next == Put \/ Mark \/ \E k \in DOMAIN sent : Get(k)

Spec == Init /\ [][Next]_<<sent, received>>
=============================================================================
