---------------------------- MODULE MCSensingServer ----------------------------
(***************************************************************************)
(* SensingServer and the viewer on a small instance. With one client that  *)
(* joins before or after the viewer, the one that is erased is followed by *)
(* the viewer or is the last of the list; three pieces are an FFT and an   *)
(* update's header and payload. The clients are values of the cfg.         *)
(***************************************************************************)
EXTENDS SensingNode

================================================================================
