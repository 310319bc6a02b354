------------------------------- MODULE Outbox -------------------------------
(***************************************************************************)
(* The transactional outbox: rows of outbox_messages, written in the       *)
(* transaction of the entity they announce, claimed in batches by any      *)
(* number of OutboxPublisher instances (one per worker replica), handed to *)
(* every registered handler and marked sent or failed.                     *)
(*                                                                         *)
(* Time is kept as ages: the age of a claim and the time a publisher has   *)
(* spent since it read its clock, both saturating one unit after           *)
(* CLAIM_TIMEOUT, which is all that the code can tell apart.               *)
(***************************************************************************)
EXTENDS Naturals, Sequences, FiniteSets

CONSTANTS
  Messages,       \* rows that the application may write
  Publishers,     \* OutboxPublisher instances polling the same table
  Handlers,       \* registered handler callables
  HandlersOf,     \* HandlersOf[m]: handlers of m's event type, then those of "*"
  CLAIM_TIMEOUT,  \* claims strictly older than this may be taken over
  CreatedTimes,   \* the instants a created_at may hold
  BatchSize,      \* limit of one claim transaction
  MaxCrashes      \* bound on the publisher crashes of one behaviour

ASSUME OutboxConstants ==
  /\ CLAIM_TIMEOUT \in Nat
  /\ BatchSize \in Nat \ {0}
  /\ MaxCrashes \in Nat
  /\ CreatedTimes \subseteq Nat
  /\ HandlersOf \in [Messages -> Seq(Handlers)]

VARIABLES
  row,      \* row[m]: the committed row of m
  pub,      \* pub[p]: the local state of one run_once call of publisher p
  handled,  \* history: handled[m], the handlers that processed m without error
  crashes   \* number of crashes so far

vars == <<row, pub, handled, crashes>>

Status == {"absent", "pending", "processing", "sent", "failed"}
Settled == {"sent", "failed"}
Age == 0 .. CLAIM_TIMEOUT + 1

\* claimed: whether claimed_at is set; age: how long ago that was.
Row == [status : Status, claimed : BOOLEAN, age : Age, created : Nat]

\* claim: rows selected and locked by the open claim transaction;
\* batch: messages still to dispatch, the first one being in hand;
\* next: handlers of the message in hand already called; ok: none raised.
Publisher == [pc : {"idle", "claim", "dispatch"}, batch : Seq(Messages),
              next : Nat, ok : BOOLEAN, lag : Age]

NoRow == [status |-> "absent", claimed |-> FALSE, age |-> 0, created |-> 0]
IdlePublisher == [pc |-> "idle", batch |-> <<>>, next |-> 0, ok |-> TRUE, lag |-> 0]

Init ==
  /\ row = [m \in Messages |-> NoRow]
  /\ pub = [p \in Publishers |-> IdlePublisher]
  /\ handled = [m \in Messages |-> {}]
  /\ crashes = 0

Picked(batch) == {batch[i] : i \in DOMAIN batch}
InBatch(p) == Picked(pub[p].batch)

\* Rows under the row lock of an uncommitted claim transaction.
Locked(m) == \E p \in Publishers : pub[p].pc = "claim" /\ m \in InBatch(p)

\* Fault: claims never expire.
ClaimableNoExpiry(m) == row[m].status = "pending"

\* Fault: a claim protects nothing.
ClaimableAnyProcessing(m) == row[m].status \in {"pending", "processing"}

\* Fault: failed rows are polled again.
ClaimableFailed(m) ==
  \/ row[m].status \in {"pending", "failed"}
  \/ /\ row[m].status = "processing"
     /\ ~row[m].claimed \/ row[m].age > CLAIM_TIMEOUT

\* The WHERE clause of _fetch_pending.
Claimable(m) ==
  \/ row[m].status = "pending"
  \/ /\ row[m].status = "processing"
     /\ ~row[m].claimed \/ row[m].age > CLAIM_TIMEOUT

\* Everything a claim could return: no row twice.
Batches ==
  {b \in UNION {[1 .. n -> Messages] : n \in 1 .. BatchSize} :
     \A i, j \in DOMAIN b : i # j => b[i] # b[j]}

\* ORDER BY created_at LIMIT batch_size FOR UPDATE SKIP LOCKED.
Selects(batch) ==
  LET free == {m \in Messages : Claimable(m) /\ ~Locked(m)}
  IN  /\ Picked(batch) \subseteq free
      /\ \A i, j \in DOMAIN batch :
           i < j => row[batch[i]].created <= row[batch[j]].created
      /\ \A m \in free \ Picked(batch) :
           /\ Len(batch) = BatchSize
           /\ \A i \in DOMAIN batch : row[batch[i]].created <= row[m].created

-----------------------------------------------------------------------------
\* A unit of work that called add_outbox_message commits.  Transactions need
\* not commit in the order of their timestamps.
AddOutboxMessage(m) ==
  /\ row[m].status = "absent"
  /\ \E t \in CreatedTimes :
       row' = [row EXCEPT ![m] = [status |-> "pending", claimed |-> FALSE,
                                  age |-> 0, created |-> t]]
  /\ UNCHANGED <<pub, handled, crashes>>

\* run_once reads the clock, then selects and locks its rows; with nothing to
\* do it returns at once, which changes nothing.
FetchSelect(p) ==
  /\ pub[p].pc = "idle"
  /\ \E batch \in Batches :
       /\ Selects(batch)
       /\ pub' = [pub EXCEPT ![p] = [pc |-> "claim", batch |-> batch,
                                     next |-> 0, ok |-> TRUE, lag |-> 0]]
  /\ UNCHANGED <<row, handled, crashes>>

\* The claim commits: claimed_at is the time read before the select.
FetchCommit(p) ==
  /\ pub[p].pc = "claim"
  /\ row' = [m \in Messages |->
               IF m \in InBatch(p)
               THEN [row[m] EXCEPT !.status = "processing", !.claimed = TRUE,
                                   !.age = pub[p].lag]
               ELSE row[m]]
  /\ pub' = [pub EXCEPT ![p].pc = "dispatch"]
  /\ UNCHANGED <<handled, crashes>>

\* Fault: an exception of a handler is swallowed.
RunHandlerSwallow(p) ==
  /\ pub[p].pc = "dispatch"
  /\ LET m == Head(pub[p].batch)
     IN  /\ pub[p].next < Len(HandlersOf[m])
         /\ \/ handled' = [handled EXCEPT ![m] = @ \union {HandlersOf[m][pub[p].next + 1]}]
            \/ UNCHANGED handled
  /\ pub' = [pub EXCEPT ![p].next = @ + 1]
  /\ UNCHANGED <<row, crashes>>

\* _dispatch calls the next handler of the message in hand; a handler that
\* raises is recorded and the remaining handlers still run.
RunHandler(p) ==
  /\ pub[p].pc = "dispatch"
  /\ LET m == Head(pub[p].batch)
     IN  /\ pub[p].next < Len(HandlersOf[m])
         /\ LET h == HandlersOf[m][pub[p].next + 1]
            IN  \/ /\ handled' = [handled EXCEPT ![m] = @ \union {h}]
                   /\ pub' = [pub EXCEPT ![p].next = @ + 1]
                \/ /\ pub' = [pub EXCEPT ![p].next = @ + 1, ![p].ok = FALSE]
                   /\ UNCHANGED handled
  /\ UNCHANGED <<row, crashes>>

\* The publisher after it has settled the message in hand.
Advance(p) ==
  IF Len(pub[p].batch) = 1
  THEN IdlePublisher
  ELSE [pub[p] EXCEPT !.batch = Tail(@), !.next = 0, !.ok = TRUE]

\* Fault: the verdict is a status of another enum.
MarkDelivered(p) ==
  /\ pub[p].pc = "dispatch"
  /\ LET m == Head(pub[p].batch)
     IN  /\ pub[p].next = Len(HandlersOf[m])
         /\ ~Locked(m)
         /\ row' = [row EXCEPT ![m].status = IF pub[p].ok THEN "delivered" ELSE "failed"]
  /\ pub' = [pub EXCEPT ![p] = Advance(p)]
  /\ UNCHANGED <<handled, crashes>>

\* Fault: the verdict is given after the first handler.
MarkEarly(p) ==
  /\ pub[p].pc = "dispatch"
  /\ LET m == Head(pub[p].batch)
     IN  /\ pub[p].next > 0
         /\ ~Locked(m)
         /\ row' = [row EXCEPT ![m].status = IF pub[p].ok THEN "sent" ELSE "failed",
                             ![m].claimed = FALSE, ![m].age = 0]
  /\ pub' = [pub EXCEPT ![p] = Advance(p)]
  /\ UNCHANGED <<handled, crashes>>

\* All handlers were called (or there are none, _mark_sent): UPDATE ... WHERE
\* id = message.id, which waits for a row lock and tests nothing else.
MarkOutcome(p) ==
  /\ pub[p].pc = "dispatch"
  /\ LET m == Head(pub[p].batch)
     IN  /\ pub[p].next = Len(HandlersOf[m])
         /\ ~Locked(m)
         /\ row' = [row EXCEPT ![m].status = IF pub[p].ok THEN "sent" ELSE "failed",
                             ![m].claimed = FALSE, ![m].age = 0]
  /\ pub' = [pub EXCEPT ![p] = Advance(p)]
  /\ UNCHANGED <<handled, crashes>>

\* The process dies, or a statement of its own raises out of run_once: an open
\* claim rolls back, a committed claim stays as it is.
Crash(p) ==
  /\ crashes < MaxCrashes
  /\ pub[p].pc # "idle"
  /\ pub' = [pub EXCEPT ![p] = IdlePublisher]
  /\ crashes' = crashes + 1
  /\ UNCHANGED <<row, handled>>

Older(a) == IF a > CLAIM_TIMEOUT THEN a ELSE a + 1

\* Time passes.
Tick ==
  /\ row' = [m \in Messages |-> IF row[m].claimed
                                THEN [row[m] EXCEPT !.age = Older(@)]
                                ELSE row[m]]
  /\ pub' = [p \in Publishers |-> IF pub[p].pc = "idle"
                                  THEN pub[p]
                                  ELSE [pub[p] EXCEPT !.lag = Older(@)]]
  /\ UNCHANGED <<handled, crashes>>

Next ==
  \/ \E m \in Messages : AddOutboxMessage(m)
  \/ \E p \in Publishers :
       FetchSelect(p) \/ FetchCommit(p) \/ RunHandler(p) \/ MarkOutcome(p) \/ Crash(p)
  \/ Tick

Spec == Init /\ [][Next]_vars

\* The interval job polls again and again, handlers return (the HTTP client has
\* a timeout) and the clock advances.  Nothing obliges a message to be written
\* or a publisher to crash.
Fairness ==
  /\ WF_vars(Tick)
  /\ \A p \in Publishers :
       WF_vars(FetchSelect(p) \/ FetchCommit(p) \/ RunHandler(p) \/ MarkOutcome(p))

FairSpec == Spec /\ Fairness

-----------------------------------------------------------------------------
\* Every variable keeps its type: rows, claims and publishers are always in a
\* state the table and run_once can represent.
TypeOK ==
  /\ row \in [Messages -> Row]
  /\ pub \in [Publishers -> Publisher]
  /\ handled \in [Messages -> SUBSET Handlers]
  /\ crashes \in 0 .. MaxCrashes

\* The protection that _fetch_pending's docstring claims for the processing
\* state: two publishers hold one message only if one of them has been at work
\* for longer than CLAIM_TIMEOUT, whatever crashed in between.
ExclusiveClaim ==
  \A p, q \in Publishers :
    (p # q /\ InBatch(p) \cap InBatch(q) # {})
      => (pub[p].lag > CLAIM_TIMEOUT \/ pub[q].lag > CLAIM_TIMEOUT)

\* A row says sent only if every handler registered for its event has processed
\* the message, although several publishers may have overwritten each other's
\* verdict (_dispatch runs all handlers before its unguarded UPDATE).
SentIsHandled ==
  \A m \in Messages :
    row[m].status = "sent" =>
      \A i \in DOMAIN HandlersOf[m] : HandlersOf[m][i] \in handled[m]

\* A message that once had a verdict is never claimed again: a late publisher
\* may change the verdict, but never puts the row back to work.
VerdictNotWithdrawn ==
  [][\A m \in Messages : row[m].status \in Settled => row'[m].status \in Settled]_vars

\* No message is stranded: each one that was written gets a verdict, although
\* publishers crash with claims in hand (the purpose of CLAIM_TIMEOUT).
EveryMessageSettles ==
  \A m \in Messages : (row[m].status = "pending") ~> (row[m].status \in Settled)

\* The outbox implements its contract, with claims and ages hidden.
Verdict(m) ==
  CASE row[m].status = "absent" -> "none"
    [] row[m].status \in {"pending", "processing"} -> "accepted"
    [] OTHER -> row[m].status

Contract == INSTANCE OutboxContract
              WITH verdict <- [m \in Messages |-> Verdict(m)]

\* Every behaviour of the publishers is one of OutboxContract, liveness included.
ImplementsContract == Contract!FairSpec

=============================================================================
