----------------------------- MODULE MCSources -----------------------------
(* Small instances of SourceIntents alone, for the runs that find a
   violation. *)
EXTENDS SourceIntents, TLC
=============================================================================
