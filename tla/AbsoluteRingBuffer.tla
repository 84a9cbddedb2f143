------------------------- MODULE AbsoluteRingBuffer -------------------------
(***************************************************************************)
(* common/absoluteringbuffer.h: the last RingSize elements of a sequence,  *)
(* addressed by their absolute position.  It has no lock and no thread of  *)
(* its own: its users instantiate it and call PushBack from their actions. *)
(***************************************************************************)
EXTENDS Integers

CONSTANTS
  RingSize,  \* _ringSize, at least 1
  NoElement  \* a null shared_ptr

VARIABLES
  ring,  \* _ring
  head,  \* _head
  tail   \* _tail

Init ==
  /\ ring = [c \in 0 .. RingSize - 1 |-> NoElement]
  /\ head = 0
  /\ tail = 0

(* The positions isPositionValid accepts. *)
Positions == tail .. head - 1

(* The cells at_unsafe reaches from them. *)
KeptCells == {i % RingSize : i \in Positions}

At(i) == IF i \in Positions THEN ring[i % RingSize] ELSE NoElement

PushBackKeepingTail(e) ==  \* mutant: no space is reserved
  /\ ring' = [ring EXCEPT ![head % RingSize] = e]
  /\ head' = head + 1
  /\ UNCHANGED tail

PushBack(e) ==
  /\ tail' = IF head - tail >= RingSize THEN tail + 1 ELSE tail
  /\ ring' = [ring EXCEPT ![head % RingSize] = e]
  /\ head' = head + 1

=============================================================================
