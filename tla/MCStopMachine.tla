--------------------------- MODULE MCStopMachine ---------------------------
(* The instances of StopMachine that TLC checks. *)
EXTENDS StopMachine, TLC

CONSTANTS a, b, c

MCHome  == a :> 2 @@ b :> 1 @@ c :> 2
MCCalls == a :> {"two", "one"} @@ b :> {"machine", "down"}
             @@ c :> {"cpus", "try", "up"}

(* Both cpus are stopped, or one, while the machine is or a cpu goes down and
   comes up again. *)
MCHomeLive  == a :> 2 @@ b :> 1
MCCallsLive == a :> {"two", "one"} @@ b :> {"machine", "down", "up"}
=============================================================================
