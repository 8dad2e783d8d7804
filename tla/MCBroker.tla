------------------------------ MODULE MCBroker ------------------------------
(* Instance of the broker's parts and of its client for TLC.  The parts    *)
(* meet in what they promise each other (an engine's call has passed       *)
(* guarded(), a load finds an imported model, a routing command gets any   *)
(* answer), so each is explored with the others at rest: `part` says which *)
(* one moves.  Three calls of one model meet a load of another one, an     *)
(* unload, and a job of the service that loads.                            *)
EXTENDS BrokerEngine, BrokerAccess, ModelStore, Routing

CONSTANTS c1, c2, c3, j1, m1, m2

VARIABLE part

Infer == [kind |-> "infer", model |-> m1]
MCAsks ==
  c1 :> {Infer} @@ c2 :> {Infer, [kind |-> "load", model |-> m2]}
  @@ c3 :> {Infer, [kind |-> "unload", model |-> m1]}
  @@ j1 :> {[kind |-> "load", model |-> m1]}

Init ==
  /\ part \in {"engine", "access", "models", "routing"}
  /\ EngineInit /\ AccessInit /\ ModelInit
  /\ IF part = "routing" THEN RouteInit
     ELSE RouteInit /\ <<mode, token, execute, keyword, fits>>
                         = <<"keyword", FALSE, FALSE, NoAction, TRUE>>

Next ==
  /\ UNCHANGED part
  /\ \/ part = "engine" /\ EngineNext /\ UNCHANGED <<accessVars, modelVars, routeVars>>
     \/ part = "access" /\ AccessNext /\ UNCHANGED <<engineVars, modelVars, routeVars>>
     \/ part = "models" /\ ModelNext /\ UNCHANGED <<engineVars, accessVars, routeVars>>
     \/ part = "routing" /\ RouteNext /\ UNCHANGED <<engineVars, accessVars, modelVars>>

Spec == Init /\ [][Next]_<<part, engineVars, accessVars, modelVars, routeVars>> /\ EngineFair
=============================================================================
