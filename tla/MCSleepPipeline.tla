---------------------------- MODULE MCSleepPipeline ----------------------------
(* Instances of SleepPipeline for TLC. *)
EXTENDS SleepPipeline

CONSTANTS a, b, s1

\* config/smaug.example.yaml: both routes (ollama, marker) name one server.
OneServer == [rt \in Routes |-> s1]

\* Both routes are tracked; or b has no Sleep-on-LAN timeout, so that it is only
\* known to the tracker by its activity.
BothTracked == [rt \in Routes |-> 2]
OneTracked == [rt \in Routes |-> IF rt = a THEN 2 ELSE 0]
================================================================================
