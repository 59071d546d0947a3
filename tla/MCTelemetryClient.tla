------------------------- MODULE MCTelemetryClient -------------------------
(* Instances of TelemetryClient for TLC. *)
EXTENDS TelemetryClient

\* no payload, one that looks like the start of a header, and one that looks
\* like the header of a packet that is too long for the buffer
Reports == {<< >>, <<Magic>>, <<Magic, BufferSize + 1>>}

\* a log line whose text is not ASCII
Texts == {<<Magic>>}
=============================================================================
