--------------------------- MODULE MCRemediation ---------------------------
(***************************************************************************)
(* RemediationBacklog for TLC. A behaviour plays one scene: the keys that  *)
(* may get a row and the workers on duty. Two workers share one row; one   *)
(* worker has a batch of two rows, of which the second is the new          *)
(* generation of a finding that returned; one worker meets a row whose     *)
(* strategy changes as it is detected again.                               *)
(***************************************************************************)
EXTENDS RemediationBacklog

CONSTANTS i1, w1, w2

VARIABLE scene

MCScenes == {
  [keys |-> {<<i1, 0>>}, crew |-> {w1, w2}, strategies |-> {"registered"},
   delays |-> 0 .. MaxDelay, events |-> 2],
  [keys |-> {<<i1, 0>>}, crew |-> {w1}, strategies |-> Strategies,
   delays |-> 0 .. MaxDelay, events |-> 2],
  [keys |-> Keys, crew |-> {w1}, strategies |-> {"registered"},
   delays |-> {0}, events |-> 1]}

MCInit == Init /\ scene \in MCScenes

InScene ==
  /\ UNCHANGED scene /\ events' <= scene.events
  /\ \A k \in Keys \ scene.keys : rows'[k] = NoRow
  /\ \A k \in scene.keys : rows'[k].status # "absent" => rows'[k].strategy \in scene.strategies
  /\ \A d \in Detectors : det'[d].pc # "idle" =>
       det'[d].key \in scene.keys /\ det'[d].strategy \in scene.strategies
  /\ \A w \in Workers \ scene.crew : work'[w] = IdleJob
  /\ \A w \in Workers, k \in Keys : work'[w].buf[k].next \in scene.delays

\* The scheduler keeps starting the job, a job that neither fails nor dies runs
\* to its commit, and time passes.
MCSpec ==
  /\ MCInit /\ [][Next /\ InScene]_<<vars, scene>>
  /\ \A w \in Workers : WF_<<vars, scene>>(WorkerStep(w) /\ InScene)
  /\ WF_<<vars, scene>>(Tick /\ InScene)
=============================================================================
