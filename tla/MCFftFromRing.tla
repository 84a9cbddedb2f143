--------------------------- MODULE MCFftFromRing ---------------------------
(* Small instances of FftFromRing.  A ring longer than an FFT by one       *)
(* batch at least lets the thread fall behind; FFTs that do not divide the *)
(* ring make it wrap around inside one.                                    *)
EXTENDS FftFromRing

(* Stack leftovers: a position still kept at some time, and one that never *)
(* is.                                                                     *)
Leftovers == {1, WordSize - 1}

=============================================================================
