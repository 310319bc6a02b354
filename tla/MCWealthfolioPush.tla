-------------------------- MODULE MCWealthfolioPush --------------------------
(***************************************************************************)
(* WealthfolioPush for TLC. A behaviour plays one scene: one push at a     *)
(* time over two accounts, the first with a transaction of any kind before *)
(* one that maps, or two pushes that overlap on one account.               *)
(***************************************************************************)
EXTENDS WealthfolioPush, TLC

CONSTANTS a1, a2, w1, w2

VARIABLE scene

\* The id of the first transaction of a1 is part of that of the second.
MCMentions == {<<<<a1, 2>>, <<a1, 1>>>>}

\* modes: how each process pushes; source: the kinds the transactions start with; moves: those that change.
MCScenes == {
  [modes |-> (w1 :> {"full"} @@ w2 :> {}), events |-> 2, scope |-> Accounts,
   source |-> {<<kind, "ok", "absent", "ok">> : kind \in ActiveKinds},
   moves |-> {<<a1, 1>>}, kinds |-> {"ok", "withdrawn"}],
  [modes |-> (w1 :> {"incremental"} @@ w2 :> {"incremental", "rebuild"}), events |-> 1, scope |-> {a1},
   source |-> {<<"ok", "absent", "absent", "absent">>, <<"absent", "ok", "absent", "absent">>},
   moves |-> Of(a1), kinds |-> {"ok"}]}

MCInit ==
  /\ Init
  /\ scene \in MCScenes /\ scope = scene.scope
  /\ <<src[<<a1, 1>>], src[<<a1, 2>>], src[<<a2, 1>>], src[<<a2, 2>>]>> \in scene.source

InScene ==
  /\ UNCHANGED scene /\ events' <= scene.events
  /\ \A t \in Txns : src'[t] # src[t] => t \in scene.moves /\ src'[t] \in scene.kinds
  /\ \A w \in Pushers : job'[w] = IdleJob \/ job'[w].mode \in scene.modes[w]
  /\ scene.scope # Accounts => scope' = scope

\* The scheduler keeps starting pushes, and a push that neither fails nor dies
\* runs to its end.
MCSpec ==
  /\ MCInit /\ [][Next /\ InScene]_<<vars, scene>>
  /\ \A w \in Pushers :
       /\ WF_<<vars, scene>>((\E mode \in Modes : Start(w, mode)) /\ InScene)
       /\ WF_<<vars, scene>>(PushStep(w) /\ InScene)
=============================================================================
