---------------------------- MODULE MCTransmission -----------------------------
(* Messages for Transmission: one that is repeated, one that ends with a block, *)
(* one for another frequency, and one whose prepareMessage failed.              *)
EXTENDS Transmission

ThePlan ==
  [repeated |-> [frequency |-> "f1", symbols |-> <<2, 0, 3>>, repeats |-> 1],
   whole    |-> [frequency |-> "f1", symbols |-> <<1, 2>>, repeats |-> 0],
   far      |-> [frequency |-> "f2", symbols |-> <<4>>, repeats |-> 0],
   failed   |-> [frequency |-> "f1", symbols |-> <<>>, repeats |-> 0]]

================================================================================
