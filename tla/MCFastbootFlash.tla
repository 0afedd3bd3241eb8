-------------------------- MODULE MCFastbootFlash --------------------------
(***************************************************************************)
(* Instances of FastbootFlash for TLC.                                     *)
(***************************************************************************)
EXTENDS FastbootFlash

\* Partitions larger and smaller than the download buffer, and raw images.
UsualKinds == {"big", "small", "raw"}
=============================================================================
