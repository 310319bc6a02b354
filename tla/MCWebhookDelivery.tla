------------------------- MODULE MCWebhookDelivery -------------------------
(***************************************************************************)
(* Small instances of WebhookDelivery: every webhook subscribes to every   *)
(* event. A behaviour plays one scene: one retry job and all webhooks, or  *)
(* two retry jobs that overlap on the first one.                           *)
(***************************************************************************)
EXTENDS WebhookDelivery

CONSTANTS w1, w2

VARIABLE scene

AllMatch == [k \in Calls |-> Hooks]

MCScenes == {[jobs |-> {w1}, hooks |-> Hooks], [jobs |-> {w1, w2}, hooks |-> {1}]}

MCInit == Init /\ scene \in MCScenes

InScene ==
  /\ UNCHANGED scene
  /\ \A h \in Hooks \ scene.hooks : hook'[h] = hook[h]
  /\ \A w \in Retriers \ scene.jobs : retrier'[w].pc = "idle"

MCSpec ==
  /\ MCInit /\ [][Next /\ InScene]_<<vars, scene>>
  /\ WF_<<vars, scene>>(Tick /\ InScene)
  /\ \A w \in Retriers : WF_<<vars, scene>>(RetryStep(w) /\ InScene)

=============================================================================
