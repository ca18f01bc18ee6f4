-------------------------- MODULE MCHueSensorPosix --------------------------
(* HueSensorPosix for TLC, and the claim of a comment about time.          *)
EXTENDS HueSensorPosix

\* hue_sensor_command.hpp:104, "Only recent values will be actually posted,
\* too old values will be lost, if not confirmed by the bridge in time": a
\* bridge that never ends its response does not keep a value queued for ever.
QueueReleased == \A v \in 1 .. MaxPosts : v \in Queued ~> v \notin Queued
=============================================================================
