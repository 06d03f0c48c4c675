----------------------------- MODULE MCOsfStream -----------------------------
(* Three streams, one of them with a header in fewer packets, for TLC.     *)
(* The second has another type on its first channel, of the same width,    *)
(* and a location; the third has more channels, and a string.              *)
EXTENDS Telemetry, TLC

MCFragments == <<3, 2, 3>>

Channel(name, datatype) == [name |-> name, datatype |-> datatype]

MCHeader ==
    << <<Channel("speed", "Int32"), Channel("doors", "Bool")>>,
       <<Channel("speed", "Float"), Channel("position", "GpsLocation")>>,
       <<Channel("speed", "Float"), Channel("position", "GpsLocation"), Channel("driver", "String"), Channel("doors", "Bool")>> >>

Osf1(channel, control, count) == [channel |-> channel, control |-> control, count |-> count]

CONSTANTS b1, b2

MCContent ==
    << (b1 :> Osf1(1, "Single", 1) @@ b2 :> Osf1(2, "Multi", 2)),
       (b1 :> Osf1(1, "Multi", 2) @@ b2 :> Osf1(2, "Single", 1)),
       (b1 :> Osf1(4, "Single", 1) @@ b2 :> Osf1(3, "String", 1)) >>

MCFirstFile == MCHeader[1]
=============================================================================
