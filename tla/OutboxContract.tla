--------------------------- MODULE OutboxContract ---------------------------
(***************************************************************************)
(* What the outbox promises its producers and consumers, without claims,   *)
(* publishers, batches or time: a message that was written reaches a       *)
(* verdict; the verdict "sent" is only given once every handler of the     *)
(* message has processed it; a verdict may be revised (two publishers can  *)
(* hold one message) but never withdrawn; and a handler may process a      *)
(* message any number of times, before or after the verdict.               *)
(***************************************************************************)
EXTENDS Sequences

CONSTANTS Messages, Handlers, HandlersOf

VARIABLES verdict, handled

contractVars == <<verdict, handled>>

Verdicts == {"none", "accepted", "sent", "failed"}

Required(m) == {HandlersOf[m][i] : i \in DOMAIN HandlersOf[m]}

Init ==
  /\ verdict = [m \in Messages |-> "none"]
  /\ handled = [m \in Messages |-> {}]

Accept(m) ==
  /\ verdict[m] = "none"
  /\ verdict' = [verdict EXCEPT ![m] = "accepted"]
  /\ UNCHANGED handled

Process(m, h) ==
  /\ verdict[m] # "none"
  /\ handled' = [handled EXCEPT ![m] = @ \union {h}]
  /\ UNCHANGED verdict

Settle(m) ==
  /\ verdict[m] # "none"
  /\ \/ /\ Required(m) \subseteq handled[m]
        /\ verdict' = [verdict EXCEPT ![m] = "sent"]
     \/ verdict' = [verdict EXCEPT ![m] = "failed"]
  /\ UNCHANGED handled

Next == \E m \in Messages :
          \/ Accept(m)
          \/ \E h \in Handlers : Process(m, h)
          \/ Settle(m)

Spec == Init /\ [][Next]_contractVars

\* Every accepted message is eventually given a verdict.
Settles == \A m \in Messages : (verdict[m] = "accepted") ~> (verdict[m] \in {"sent", "failed"})

FairSpec == Spec /\ Settles

=============================================================================
