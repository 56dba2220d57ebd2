------------------------------ MODULE HostVideo ------------------------------
(* The sessions of a Host (HostSession) and the size of their video          *)
(* (VideoSize): an offer is taken, its stream gets a size and a bitrate.     *)
EXTENDS HostSession, VideoSize

\* Whatever display and viewport the session taken meets: its stream is as large
\* as fits both, however floating point rounds, and the one it shows during
\* input is within its limits, in the same aspect, and reduced once and for all.
StreamsFit == offered # {} => ViewportsFit /\ ReductionsFit
=============================================================================
