------------------------------ MODULE MCEvents ------------------------------
(***************************************************************************)
(* The event pipeline under its faults, a browser on top of it, and the    *)
(* transcript of one Turn, for TLC, side by side.                          *)
(***************************************************************************)
EXTENDS EventStream, Transcript

VARIABLE part

\* Short Turns, one event at a time, for the browser.
Views == INSTANCE EventStream WITH
  PerTurn <- 1, MaxBatch <- 1, MaxBuffered <- 1, MaxPending <- 1, MaxOrphans <- 0,
  Faults <- {"disconnect", "notify", "compaction", "gateway"}

EventsInit ==
  /\ part \in {"delivery", "views", "transcript"}
  /\ Init /\ TranscriptInit
  /\ part = "transcript" => external

EventsNext ==
  /\ UNCHANGED part
  /\ \/ part = "delivery" /\ PipelineNext /\ UNCHANGED <<browser, transcriptVars>>
     \/ part = "views" /\ Views!Next /\ UNCHANGED transcriptVars
     \/ part = "transcript" /\ TranscriptNext /\ UNCHANGED vars

EventsSpec == EventsInit /\ [][EventsNext]_<<vars, transcriptVars, part>>

=============================================================================
