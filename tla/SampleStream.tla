---------------------------- MODULE SampleStream ----------------------------
(***************************************************************************)
(* What the ring of common/ringbuffer.h promises (its class comment, lines *)
(* 20-91): a stream of samples that grows by whole batches, of which the   *)
(* oldest are forgotten as room is needed, and from which a consumer is    *)
(* only ever handed a run of consecutive committed samples that was still  *)
(* kept in full when it was handed out.                                    *)
(*                                                                         *)
(* There are no cells, no copies and no staging here: module               *)
(* RingBufferReaders implements this specification.                        *)
(***************************************************************************)
EXTENDS Integers, Sequences

CONSTANTS
  Batches,    \* the sizes of batches
  Capacity,   \* the number of samples that can be kept
  Consumers,
  None        \* a consumer that holds no span

VARIABLES
  committed,  \* number of samples committed so far
  oldest,     \* the oldest sample kept
  span        \* what each consumer was handed

vars == <<committed, oldest, span>>

Init ==
  /\ committed = 0
  /\ oldest = 0
  /\ span = [r \in Consumers |-> None]

(* A batch becomes available at once, in the room that was made for it. *)
Commit(n) ==
  /\ committed + n - oldest <= Capacity
  /\ committed' = committed + n
  /\ UNCHANGED <<oldest, span>>

Forget ==
  /\ oldest' \in oldest + 1 .. committed
  /\ UNCHANGED <<committed, span>>

(* Consumer r is handed the n samples from first. *)
Deliver(r, first, n) ==
  /\ span[r] = None
  /\ first + n <= committed
  /\ span' = [span EXCEPT ![r] = [first   |-> first,
                                  samples |-> [i \in 1 .. n |-> first + i - 1]]]
  /\ UNCHANGED <<committed, oldest>>

Drop(r) ==
  /\ span[r] # None
  /\ span' = [span EXCEPT ![r] = None]
  /\ UNCHANGED <<committed, oldest>>

Next ==
  \/ \E n \in Batches : Commit(n)
  \/ Forget
  \/ \E r \in Consumers, first \in oldest .. committed - 1, n \in 1 .. committed - oldest :
       Deliver(r, first, n)
  \/ \E r \in Consumers : Drop(r)

Spec == Init /\ [][Next]_vars

=============================================================================
