----------------------------- MODULE MCExporter -----------------------------
(* Small instances of the export protocol for TLC.                         *)
EXTENDS Exporter

CONSTANTS t1, t2

\* Two requests to a checkpoint, one of them a transaction.
MCAligned == {<<t1, Other, t2, Other>>}

\* As well: all transactions come before the first checkpoint, which is then
\* not of the block its number says, while the second is again.
MCLogs == MCAligned \cup {<<t1, t2, Other, Other>>}
=============================================================================
