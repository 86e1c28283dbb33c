---------------------------- MODULE MCTimeline ----------------------------
(* An instance of Timeline for TLC. *)
EXTENDS Timeline

\* No phases, or two with a gap between them, the second of which is longer, by its
\* ticks, than the import was.
MCSpans == {{}, {<<0, 1>>, <<3, 5>>}}
=============================================================================
