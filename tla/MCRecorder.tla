----------------------------- MODULE MCRecorder -----------------------------
(***************************************************************************)
(* Instances of Recorder for TLC.                                          *)
(***************************************************************************)
EXTENDS Recorder

\* The counters, after one routine that runs before them.
CounterOrder == <<"boot", "os", "proc", "mem">>

\* With the routines that have the most particular failure paths.
ListingOrder ==
  <<"boot", "crash", "osinfo", "driver", "drvchange", "service", "os", "proc", "mem">>
=============================================================================
