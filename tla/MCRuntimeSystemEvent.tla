------------------------ MODULE MCRuntimeSystemEvent ------------------------
(* System events on small instances.                                       *)
EXTENDS RuntimeSystemEvent

CONSTANTS h1, h2

TwoHandlers == {h1, h2}

(* Two station types, which publish the same snapshot, and a network        *)
(* interface event, which publishes nothing.                                *)
StationCells == {"wifi_sta"}
StationOwn == <<{"wifi_sta"}, {"wifi_sta"}, {}>>
StationOptional == <<{}, {}, {}>>

(* SIM and registration events of the modem, which share the radio          *)
(* technology, and a network interface event.                               *)
ModemCells == {"sim", "registration", "rat"}
ModemOwn == <<{"sim"}, {"registration"}, {}>>
ModemOptional == <<{"rat"}, {"rat"}, {}>>
=============================================================================
