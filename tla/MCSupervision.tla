--------------------------- MODULE MCSupervision ---------------------------
(***************************************************************************)
(* Three watchers that do not share state, each from its own initial       *)
(* state.                                                                  *)
(*   watch: a watched cell and the master chain, a failover budget of one, *)
(*     and one failure of a reading or of the monitor.                     *)
(*   anchors: a backlog of one, TSAs two ticks off a tolerance of one.     *)
(*   telemetry: rings of two slots, one tracked destination of two, one    *)
(*     batch kept.                                                         *)
(***************************************************************************)
EXTENDS Supervision, Anchoring, Telemetry

CONSTANTS w1
VARIABLE part

MCWatched == <<w1>>

MCInit ==
  /\ part \in {"watch", "anchors", "telemetry"}
  /\ SupInit /\ AnchorInit /\ TelInit
  /\ part # "watch" => ~wired
MCNext ==
  \/ part = "watch" /\ SupNext /\ UNCHANGED <<anchorVars, telVars, part>>
  \/ part = "anchors" /\ AnchorNext /\ UNCHANGED <<supVars, telVars, part>>
  \/ part = "telemetry" /\ TelNext /\ UNCHANGED <<supVars, anchorVars, part>>
MCSpec == MCInit /\ [][MCNext]_<<supVars, anchorVars, telVars, part>>
=============================================================================
