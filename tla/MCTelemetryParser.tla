------------------------- MODULE MCTelemetryParser -------------------------
(* Instances of TelemetryParser for TLC. *)
EXTENDS TelemetryParser

\* a ping without data (type 0) and commands with one byte and with the
\* longest data there is; the bytes of the data are types and lengths too
PingsAndCommands ==
    {[type |-> 0, data |-> << >>]}
    \cup {[type |-> 1, data |-> d] : d \in [1 .. 1 -> Byte] \cup [1 .. MaxByte -> {0, MaxByte}]}
=============================================================================
