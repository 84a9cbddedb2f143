---------------------------- MODULE MCRingBuffer ----------------------------
(* Small instances of RingBufferReaders: the batches a run allows decide   *)
(* whether one batch can overrun the ring.                                 *)
EXTENDS RingBufferReaders, TLC

(* The readers make the same calls, so they are interchangeable. *)
ReaderSymmetry == Permutations(Readers)

=============================================================================
