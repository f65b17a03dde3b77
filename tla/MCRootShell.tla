---- MODULE MCRootShell ----
(* The UI thread, with all its buttons, and the timers of an activity that was *)
(* made twice.                                                                 *)
EXTENDS RootShell

CONSTANTS ui, timer1, timer2

MCThreads == {ui, timer1, timer2}
MCJobsOf == [t \in MCThreads |-> IF t = ui THEN {"UPK", "DEL", "CPY"} ELSE {"Tick"}]

====
