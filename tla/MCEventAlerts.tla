--------------------------- MODULE MCEventAlerts ---------------------------
(* Model-checking instances of EventAlerts: see the .cfg files.            *)
EXTENDS EventAlerts

\* As shipped with quiet hours on; no model set up; threshold at critical.
Hushed   == [bar |-> Serious, muted |-> FALSE, quiet |-> TRUE, model |-> TRUE]
Unready  == [Hushed EXCEPT !.muted = TRUE, !.model = FALSE]
Critical == [Hushed EXCEPT !.bar = Worst]
Offered    == {Hushed, Unready}
Thresholds == {Hushed, Critical}
=============================================================================
