----------------------------- MODULE MCRouting -----------------------------
(* Instance of Routing for TLC: the constants are here and in the .cfg file. *)
EXTENDS Routing

Model(role, quality, cost, latency, up) ==
  [role |-> role, quality |-> quality, cost |-> cost, latency |-> latency, is_available |-> up]

\* One catalog without a model for HIGH requests, whose fast model dominates the
\* other, and one with a free and instant default model, a model for HIGH requests,
\* and the fast model marked unavailable.
MCCatalogs ==
  {<<Model("fast", 600, 3, 200, TRUE), Model("default", 590, 80, 800, TRUE)>>,
   <<Model("default", 500, 0, 0, TRUE), Model("fast", 400, 3, 200, FALSE),
     Model("reasoning", 950, 80, 3000, TRUE)>>}

MCRegistryConfig == [fast |-> "local", default |-> "cloud", reasoning |-> Unset]
=============================================================================
