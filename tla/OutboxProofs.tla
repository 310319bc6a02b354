---------------------------- MODULE OutboxProofs ----------------------------
(***************************************************************************)
(* Proofs, for any number of messages, publishers and handlers, that the   *)
(* outbox keeps its types, that claims exclude each other until they       *)
(* expire, that a sent message was handled, that a verdict is never        *)
(* withdrawn, and that the outbox implements the safety part of            *)
(* OutboxContract.                                                         *)
(***************************************************************************)
EXTENDS Outbox, TLAPS

\* A publisher at work has a message in hand, an idle one has none.
BatchInv ==
  \A p \in Publishers :
    /\ pub[p].pc = "idle" => pub[p].batch = <<>>
    /\ pub[p].pc # "idle" => pub[p].batch # <<>>

\* Open claim transactions lock disjoint sets of rows.
LockInv ==
  \A p, q \in Publishers :
    (p # q /\ pub[p].pc = "claim" /\ pub[q].pc = "claim")
      => InBatch(p) \cap InBatch(q) = {}

\* A row under lock is still one the claim may take.
ClaimInv ==
  \A p \in Publishers : \A m \in InBatch(p) :
    pub[p].pc = "claim" => Claimable(m)

\* Until the claim of p expires, a message of p's batch is either settled (by
\* another publisher) or carries exactly p's claim.
HoldInv ==
  \A p \in Publishers : \A m \in InBatch(p) :
    (pub[p].pc = "dispatch" /\ pub[p].lag <= CLAIM_TIMEOUT) =>
      \/ row[m].status \in Settled
      \/ /\ row[m].status = "processing"
         /\ row[m].claimed
         /\ row[m].age = pub[p].lag

\* Messages in hand exist.
PresentInv ==
  \A p \in Publishers : \A m \in InBatch(p) : row[m].status # "absent"

\* As long as nothing raised, the handlers already called have processed the
\* message in hand.
ProgressInv ==
  \A p \in Publishers :
    (pub[p].pc # "idle" /\ pub[p].ok) =>
      \A i \in 1 .. pub[p].next : HandlersOf[Head(pub[p].batch)][i] \in handled[Head(pub[p].batch)]

ClaimsInv == TypeOK /\ BatchInv /\ LockInv /\ ClaimInv /\ HoldInv /\ PresentInv /\ ExclusiveClaim

IInv == ClaimsInv /\ ProgressInv /\ SentIsHandled

-----------------------------------------------------------------------------
\* A sequence with an element: its head is one of its members and so are those
\* of its tail.
LEMMA HeadTail ==
  ASSUME NEW S, NEW b \in Seq(S), b # <<>>
  PROVE  /\ Head(b) \in S
         /\ Head(b) \in Picked(b)
         /\ Tail(b) \in Seq(S)
         /\ Picked(Tail(b)) \subseteq Picked(b)
         /\ Len(b) # 1 => Tail(b) # <<>>
<1>1. Len(b) \in Nat /\ Len(b) >= 1 /\ DOMAIN b = 1 .. Len(b)
  OBVIOUS
<1>2. Head(b) = b[1] /\ b[1] \in S /\ 1 \in DOMAIN b
  BY <1>1
<1>3. Tail(b) \in Seq(S) /\ Len(Tail(b)) = Len(b) - 1
  BY <1>1
<1>4. \A i \in DOMAIN Tail(b) : Tail(b)[i] = b[i + 1] /\ i + 1 \in DOMAIN b
  BY <1>1, <1>3
<1>5. Head(b) \in Picked(b)
  BY <1>2 DEF Picked
<1>6. Picked(Tail(b)) \subseteq Picked(b)
  BY <1>4 DEF Picked
<1>7. Len(b) # 1 => Tail(b) # <<>>
  <2>1. Len(b) # 1 => Len(Tail(b)) # 0
    BY <1>1, <1>3
  <2>2. Tail(b) = <<>> => Len(Tail(b)) = 0
    BY <1>3
  <2> QED
    BY <2>1, <2>2
<1> QED
  BY <1>2, <1>3, <1>5, <1>6, <1>7

\* The batches a claim may return are non-empty sequences of messages.
LEMMA BatchType ==
  ASSUME NEW b \in Batches
  PROVE  b \in Seq(Messages) /\ b # <<>>
<1> USE OutboxConstants
<1>1. PICK n \in 1 .. BatchSize : b \in [1 .. n -> Messages]
  BY DEF Batches
<1>2. n \in Nat /\ n >= 1
  OBVIOUS
<1>3. b \in Seq(Messages) /\ Len(b) = n
  BY <1>1, <1>2
<1> QED
  BY <1>2, <1>3

\* The assignments to a publisher's local state keep its type.
LEMMA PublisherUpdate ==
  ASSUME NEW r \in Publisher, NEW n \in Nat, NEW b \in Seq(Messages)
  PROVE  /\ [r EXCEPT !.next = n] \in Publisher
         /\ [r EXCEPT !.next = n, !.ok = FALSE] \in Publisher
         /\ [r EXCEPT !.batch = b, !.next = n, !.ok = TRUE] \in Publisher
  BY DEF Publisher

\* Initially nothing is written, claimed or processed.
LEMMA InitIInv == Init => IInv
<1> SUFFICES ASSUME Init PROVE IInv
  OBVIOUS
<1> USE OutboxConstants DEF Init
<1>1. TypeOK
  BY DEF TypeOK, Row, NoRow, Status, Age, Publisher, IdlePublisher
<1>2. \A p \in Publishers : InBatch(p) = {} /\ pub[p].pc = "idle" /\ pub[p].batch = <<>>
  BY DEF InBatch, Picked, IdlePublisher
<1>3. BatchInv /\ LockInv /\ ClaimInv /\ HoldInv /\ PresentInv /\ ExclusiveClaim /\ ProgressInv
  BY <1>2 DEF BatchInv, LockInv, ClaimInv, HoldInv, PresentInv, ExclusiveClaim, ProgressInv
<1>4. SentIsHandled
  BY DEF SentIsHandled, NoRow
<1> QED
  BY <1>1, <1>3, <1>4 DEF IInv, ClaimsInv

-----------------------------------------------------------------------------
\* Every step keeps the types.
LEMMA TypeStep ==
  ASSUME TypeOK, BatchInv, [Next]_vars
  PROVE  TypeOK'
<1> USE OutboxConstants
<1>1. CASE UNCHANGED vars
  BY <1>1 DEF vars, TypeOK
<1>2. ASSUME NEW m \in Messages, AddOutboxMessage(m) PROVE TypeOK'
  BY <1>2 DEF AddOutboxMessage, TypeOK, Row, Status, Age
<1>3. ASSUME NEW p \in Publishers, FetchSelect(p) PROVE TypeOK'
  <2>1. PICK b \in Batches : pub' = [pub EXCEPT ![p] = [pc |-> "claim", batch |-> b,
                                     next |-> 0, ok |-> TRUE, lag |-> 0]]
    BY <1>3 DEF FetchSelect
  <2>2. b \in Seq(Messages)
    BY BatchType
  <2>3. pub' \in [Publishers -> Publisher]
    BY <2>1, <2>2 DEF TypeOK, Publisher, Age
  <2> QED
    BY <1>3, <2>3 DEF FetchSelect, TypeOK
<1>4. ASSUME NEW p \in Publishers, FetchCommit(p) PROVE TypeOK'
  <2>a. pub[p].lag \in Age /\ "processing" \in Status
    BY DEF TypeOK, Publisher, Status
  <2>b. \A n \in Messages :
          [row[n] EXCEPT !.status = "processing", !.claimed = TRUE, !.age = pub[p].lag] \in Row
    BY <2>a DEF TypeOK, Row
  <2>1. row' \in [Messages -> Row]
    BY <1>4, <2>b DEF FetchCommit, TypeOK
  <2>2. pub' \in [Publishers -> Publisher]
    BY <1>4 DEF FetchCommit, TypeOK, Publisher
  <2> QED
    BY <1>4, <2>1, <2>2 DEF FetchCommit, TypeOK
<1>5. ASSUME NEW p \in Publishers, RunHandler(p) PROVE TypeOK'
  <2> DEFINE m == Head(pub[p].batch)
             h == HandlersOf[m][pub[p].next + 1]
  <2>1. pub[p] \in Publisher /\ pub[p].batch # <<>> /\ pub[p].batch \in Seq(Messages)
    BY <1>5 DEF RunHandler, TypeOK, Publisher, BatchInv
  <2>2. m \in Messages
    BY <2>1, HeadTail
  <2>3. HandlersOf[m] \in Seq(Handlers) /\ pub[p].next \in Nat /\ pub[p].next < Len(HandlersOf[m])
    BY <1>5, <2>1, <2>2 DEF RunHandler, Publisher
  <2>4. h \in Handlers
    BY <2>3
  <2>5. handled' \in [Messages -> SUBSET Handlers]
    BY <1>5, <2>2, <2>4 DEF RunHandler, TypeOK
  <2>a. pub[p].next + 1 \in Nat
    BY <2>3
  <2>6. [pub[p] EXCEPT !.next = @ + 1] \in Publisher
    BY <2>1, <2>a, PublisherUpdate
  <2>7. [pub[p] EXCEPT !.next = @ + 1, !.ok = FALSE] \in Publisher
    BY <2>1, <2>a, PublisherUpdate
  <2>8. \/ pub' = [pub EXCEPT ![p] = [pub[p] EXCEPT !.next = @ + 1]]
        \/ pub' = [pub EXCEPT ![p] = [pub[p] EXCEPT !.next = @ + 1, !.ok = FALSE]]
    BY <1>5 DEF RunHandler, TypeOK
  <2>9. pub' \in [Publishers -> Publisher]
    BY <2>6, <2>7, <2>8 DEF TypeOK
  <2> QED
    BY <1>5, <2>5, <2>9 DEF RunHandler, TypeOK
<1>6. ASSUME NEW p \in Publishers, MarkOutcome(p) PROVE TypeOK'
  <2>1. pub[p] \in Publisher /\ pub[p].batch # <<>> /\ pub[p].batch \in Seq(Messages)
    BY <1>6 DEF MarkOutcome, TypeOK, Publisher, BatchInv
  <2>a. PICK v \in {"sent", "failed"} :
          row' = [row EXCEPT ![Head(pub[p].batch)].status = v,
                             ![Head(pub[p].batch)].claimed = FALSE,
                             ![Head(pub[p].batch)].age = 0]
    BY <1>6 DEF MarkOutcome
  <2>b. v \in Status /\ 0 \in Age
    BY DEF Status, Age
  <2>2. row' \in [Messages -> Row]
    BY <2>a, <2>b DEF TypeOK, Row
  <2>3. Tail(pub[p].batch) \in Seq(Messages)
    BY <2>1, HeadTail
  <2>4. Advance(p) \in Publisher
    <3>1. IdlePublisher \in Publisher
      BY DEF IdlePublisher, Publisher, Age
    <3>2. [pub[p] EXCEPT !.batch = Tail(@), !.next = 0, !.ok = TRUE] \in Publisher
      BY <2>1, <2>3, PublisherUpdate
    <3> QED
      BY <3>1, <3>2 DEF Advance
  <2>5. pub' \in [Publishers -> Publisher]
    BY <1>6, <2>4 DEF MarkOutcome, TypeOK
  <2> QED
    BY <1>6, <2>2, <2>5 DEF MarkOutcome, TypeOK
<1>7. ASSUME NEW p \in Publishers, Crash(p) PROVE TypeOK'
  <2>1. IdlePublisher \in Publisher
    BY DEF IdlePublisher, Publisher, Age
  <2> QED
    BY <1>7, <2>1 DEF Crash, TypeOK
<1>8. ASSUME Tick PROVE TypeOK'
  <2>1. \A a \in Age : Older(a) \in Age
    BY DEF Age, Older
  <2>2. row' \in [Messages -> Row]
    BY <1>8, <2>1 DEF Tick, TypeOK, Row
  <2>3. pub' \in [Publishers -> Publisher]
    BY <1>8, <2>1 DEF Tick, TypeOK, Publisher
  <2> QED
    BY <1>8, <2>2, <2>3 DEF Tick, TypeOK
<1> QED
  BY <1>1, <1>2, <1>3, <1>4, <1>5, <1>6, <1>7, <1>8 DEF Next

\* Publishers hold messages.
LEMMA InBatchType ==
  ASSUME TypeOK, NEW p \in Publishers
  PROVE  InBatch(p) \subseteq Messages
<1>1. pub[p].batch \in Seq(Messages)
  BY DEF TypeOK, Publisher
<1> QED
  BY <1>1 DEF InBatch, Picked

\* The part of the invariant about claims, without the types.
ClaimFacts == BatchInv /\ LockInv /\ ClaimInv /\ HoldInv /\ PresentInv /\ ExclusiveClaim

\* Every step keeps the discipline of claims.
LEMMA ClaimsStep ==
  ASSUME TypeOK, ClaimFacts, [Next]_vars, TypeOK'
  PROVE  ClaimFacts'
<1> USE OutboxConstants
<1> USE DEF ClaimFacts
<1>1. CASE UNCHANGED vars
  BY <1>1 DEF vars, BatchInv, LockInv, ClaimInv, HoldInv, PresentInv, ExclusiveClaim,
              InBatch, Claimable
<1>2. ASSUME NEW m \in Messages, AddOutboxMessage(m) PROVE ClaimFacts'
  <2>1. pub' = pub /\ \A p \in Publishers : InBatch(p)' = InBatch(p)
    BY <1>2 DEF AddOutboxMessage, InBatch
  <2>2. \A p \in Publishers : m \notin InBatch(p)
    BY <1>2 DEF AddOutboxMessage, PresentInv
  <2>3. \A n \in Messages : n # m => row'[n] = row[n]
    BY <1>2 DEF AddOutboxMessage, TypeOK
  <2>4. \A p \in Publishers : InBatch(p) \subseteq Messages
    BY InBatchType
  <2>5. \A p \in Publishers : \A n \in InBatch(p) : row'[n] = row[n]
    BY <2>2, <2>3, <2>4
  <2>6. BatchInv' /\ LockInv' /\ ExclusiveClaim'
    BY <2>1 DEF BatchInv, LockInv, ExclusiveClaim
  <2>7. ClaimInv' /\ HoldInv' /\ PresentInv'
    BY <2>1, <2>5 DEF ClaimInv, HoldInv, PresentInv, Claimable
  <2> QED
    BY <2>6, <2>7
<1>3. ASSUME NEW p \in Publishers, FetchSelect(p) PROVE ClaimFacts'
  <2>1. PICK b \in Batches :
          /\ Selects(b)
          /\ pub' = [pub EXCEPT ![p] = [pc |-> "claim", batch |-> b,
                                        next |-> 0, ok |-> TRUE, lag |-> 0]]
    BY <1>3 DEF FetchSelect
  <2>2. row' = row /\ \A n \in Messages : Claimable(n)' = Claimable(n)
    BY <1>3 DEF FetchSelect, Claimable
  <2>3. /\ pub'[p].pc = "claim" /\ pub'[p].batch = b /\ pub'[p].lag = 0
        /\ \A q \in Publishers : q # p => pub'[q] = pub[q]
    BY <2>1 DEF TypeOK
  <2>4. /\ InBatch(p)' = Picked(b)
        /\ \A q \in Publishers : q # p => InBatch(q)' = InBatch(q)
    BY <2>3 DEF InBatch, Picked
  <2>5. \A n \in Picked(b) : n \in Messages /\ Claimable(n) /\ ~Locked(n)
    BY <2>1 DEF Selects
  <2>6. b # <<>>
    BY BatchType
  <2>7. BatchInv'
    BY <2>3, <2>6 DEF BatchInv
  <2>8. LockInv'
    BY <2>3, <2>4, <2>5 DEF LockInv, Locked
  <2>9. ClaimInv'
    BY <2>2, <2>3, <2>4, <2>5 DEF ClaimInv, Claimable
  <2>10. HoldInv'
    BY <2>2, <2>3, <2>4 DEF HoldInv
  <2>11. PresentInv'
    BY <2>2, <2>3, <2>4, <2>5 DEF PresentInv, Claimable
  <2>12. ASSUME NEW q \in Publishers, q # p, NEW n \in Picked(b), n \in InBatch(q)
         PROVE  pub[q].lag > CLAIM_TIMEOUT
    <3>1. pub[q].pc # "idle"
      BY <2>12 DEF BatchInv, InBatch, Picked
    <3>2. pub[q].pc # "claim"
      BY <2>5, <2>12 DEF Locked
    <3>3. pub[q].pc = "dispatch"
      BY <3>1, <3>2 DEF TypeOK, Publisher
    <3>4. pub[q].lag \in Nat
      BY DEF TypeOK, Publisher, Age
    <3>5. Claimable(n)
      BY <2>5
    <3> QED
      BY <2>12, <3>3, <3>4, <3>5 DEF HoldInv, Claimable, Settled
  <2>13. ExclusiveClaim'
    BY <2>3, <2>4, <2>12 DEF ExclusiveClaim
  <2> QED
    BY <2>7, <2>8, <2>9, <2>10, <2>11, <2>13
<1>4. ASSUME NEW p \in Publishers, FetchCommit(p) PROVE ClaimFacts'
  <2>1. /\ pub'[p].pc = "dispatch" /\ pub'[p].batch = pub[p].batch /\ pub'[p].lag = pub[p].lag
        /\ \A q \in Publishers : q # p => pub'[q] = pub[q]
    BY <1>4 DEF FetchCommit, TypeOK, Publisher
  <2>2. \A q \in Publishers : InBatch(q)' = InBatch(q) /\ pub'[q].lag = pub[q].lag /\ InBatch(q) \subseteq Messages
    BY <2>1, InBatchType DEF InBatch
  <2>3. \A n \in Messages :
          /\ n \in InBatch(p) => /\ row'[n].status = "processing"
                                 /\ row'[n].claimed
                                 /\ row'[n].age = pub[p].lag
          /\ n \notin InBatch(p) => row'[n] = row[n]
    BY <1>4 DEF FetchCommit, TypeOK, Row
  <2>4. pub[p].pc = "claim"
    BY <1>4 DEF FetchCommit
  <2>5. BatchInv'
    BY <2>1, <2>4 DEF BatchInv
  <2>6. LockInv'
    BY <2>1, <2>2 DEF LockInv
  <2>7. ClaimInv'
    BY <2>1, <2>2, <2>3, <2>4 DEF ClaimInv, LockInv, Claimable
  <2>8. PresentInv'
    BY <2>2, <2>3 DEF PresentInv
  <2>9. ExclusiveClaim'
    BY <2>1, <2>2 DEF ExclusiveClaim
  <2>10. HoldInv'
    <3>1. SUFFICES ASSUME NEW q \in Publishers, NEW n \in InBatch(q),
                          pub'[q].pc = "dispatch", pub[q].lag <= CLAIM_TIMEOUT
                   PROVE  \/ row'[n].status \in Settled
                          \/ /\ row'[n].status = "processing"
                             /\ row'[n].claimed
                             /\ row'[n].age = pub[q].lag
      BY <2>2 DEF HoldInv
    <3>2. CASE q = p
      BY <2>2, <2>3, <3>2
    <3>3. CASE q # p
      <4>1. n \notin InBatch(p)
        <5>1. SUFFICES ASSUME n \in InBatch(p) PROVE FALSE
          OBVIOUS
        <5>2. Claimable(n)
          BY <2>4, <5>1 DEF ClaimInv
        <5>3. pub[q].pc = "dispatch"
          BY <2>1, <3>1, <3>3
        <5>4. pub[q].lag \in Nat
          BY DEF TypeOK, Publisher, Age
        <5> QED
          BY <3>1, <5>2, <5>3, <5>4 DEF HoldInv, Claimable, Settled
      <4> QED
        BY <2>1, <2>2, <2>3, <3>1, <3>3, <4>1 DEF HoldInv
    <3> QED
      BY <3>2, <3>3
  <2> QED
    BY <2>5, <2>6, <2>7, <2>8, <2>9, <2>10
<1>5. ASSUME NEW p \in Publishers, RunHandler(p) PROVE ClaimFacts'
  <2>1. row' = row
    BY <1>5 DEF RunHandler
  <2>2. \A q \in Publishers : /\ pub'[q].pc = pub[q].pc
                              /\ pub'[q].batch = pub[q].batch
                              /\ pub'[q].lag = pub[q].lag
    <3>1. \/ pub' = [pub EXCEPT ![p] = [pub[p] EXCEPT !.next = @ + 1]]
          \/ pub' = [pub EXCEPT ![p] = [pub[p] EXCEPT !.next = @ + 1, !.ok = FALSE]]
      BY <1>5 DEF RunHandler, TypeOK
    <3>2. pub[p] \in Publisher
      BY DEF TypeOK
    <3> DEFINE k == pub[p].next + 1
    <3>a. \/ pub'[p] = [pub[p] EXCEPT !.next = k]
          \/ pub'[p] = [pub[p] EXCEPT !.next = k, !.ok = FALSE]
      BY <1>5 DEF RunHandler, TypeOK
    <3> HIDE DEF k
    <3>3. pub'[p].pc = pub[p].pc /\ pub'[p].batch = pub[p].batch /\ pub'[p].lag = pub[p].lag
      BY <3>2, <3>a DEF Publisher
    <3> QED
      BY <3>1, <3>3 DEF TypeOK
  <2>3. \A q \in Publishers : InBatch(q)' = InBatch(q)
    BY <2>2 DEF InBatch, Picked
  <2> QED
    BY <2>1, <2>2, <2>3
       DEF BatchInv, LockInv, ClaimInv, HoldInv, PresentInv, ExclusiveClaim, Claimable
<1>6. ASSUME NEW p \in Publishers, MarkOutcome(p) PROVE ClaimFacts'
  <2> DEFINE m == Head(pub[p].batch)
  <2>1. pub[p].batch # <<>> /\ pub[p].batch \in Seq(Messages) /\ pub[p].pc = "dispatch"
    BY <1>6 DEF MarkOutcome, TypeOK, Publisher, BatchInv
  <2>2. m \in Messages /\ ~Locked(m)
    BY <1>6, <2>1, HeadTail DEF MarkOutcome
  <2>3. /\ row'[m].status \in Settled
        /\ \A n \in Messages : n # m => row'[n] = row[n]
    BY <1>6, <2>2 DEF MarkOutcome, TypeOK, Row, Settled
  <2>4. /\ pub'[p] = Advance(p)
        /\ \A q \in Publishers : q # p => pub'[q] = pub[q]
    BY <1>6 DEF MarkOutcome, TypeOK
  <2>5. /\ Picked(Advance(p).batch) \subseteq InBatch(p)
        /\ \/ Advance(p).pc = "idle" /\ Advance(p).batch = <<>>
           \/ /\ Advance(p).pc = "dispatch" /\ Advance(p).batch # <<>>
              /\ Advance(p).lag = pub[p].lag
    <3>1. CASE Len(pub[p].batch) = 1
      BY <3>1 DEF Advance, IdlePublisher, Picked
    <3>2. CASE Len(pub[p].batch) # 1
      <4>1. Advance(p) = [pub[p] EXCEPT !.batch = Tail(@), !.next = 0, !.ok = TRUE]
        BY <3>2 DEF Advance
      <4>2. /\ Advance(p).batch = Tail(pub[p].batch) /\ Advance(p).pc = "dispatch"
            /\ Advance(p).lag = pub[p].lag
        BY <2>1, <4>1 DEF TypeOK, Publisher
      <4> QED
        BY <2>1, <3>2, <4>2, HeadTail DEF InBatch
    <3> QED
      BY <3>1, <3>2
  <2>6. /\ InBatch(p)' \subseteq InBatch(p)
        /\ \A q \in Publishers : q # p => InBatch(q)' = InBatch(q)
        /\ \A q \in Publishers : InBatch(q) \subseteq Messages
        /\ pub'[p].pc = "idle" => InBatch(p)' = {}
    <3>1. InBatch(p)' \subseteq InBatch(p)
      BY <2>4, <2>5 DEF InBatch
    <3>2. \A q \in Publishers : q # p => InBatch(q)' = InBatch(q)
      BY <2>4 DEF InBatch
    <3>3. pub'[p].pc = "idle" => InBatch(p)' = {}
      BY <2>4, <2>5 DEF InBatch, Picked
    <3> QED
      BY <3>1, <3>2, <3>3, InBatchType
  <2>7. BatchInv'
    BY <2>4, <2>5 DEF BatchInv
  <2>8. LockInv'
    BY <2>4, <2>5, <2>6 DEF LockInv
  <2>9. ClaimInv'
    BY <2>2, <2>3, <2>4, <2>5, <2>6 DEF ClaimInv, Claimable, Locked
  <2>10. HoldInv'
    <3>1. SUFFICES ASSUME NEW q \in Publishers, NEW n \in InBatch(q)',
                          pub'[q].pc = "dispatch", pub'[q].lag <= CLAIM_TIMEOUT, n # m
                   PROVE  \/ row'[n].status \in Settled
                          \/ /\ row'[n].status = "processing"
                             /\ row'[n].claimed
                             /\ row'[n].age = pub'[q].lag
      BY <2>3 DEF HoldInv
    <3>2. n \in InBatch(q) /\ row'[n] = row[n]
      BY <2>3, <2>6, <3>1
    <3>3. pub[q].pc = "dispatch" /\ pub[q].lag = pub'[q].lag
      BY <2>1, <2>4, <2>5, <3>1
    <3> QED
      BY <3>1, <3>2, <3>3 DEF HoldInv
  <2>11. PresentInv'
    BY <2>3, <2>6 DEF PresentInv, Settled
  <2>12. ExclusiveClaim'
    BY <2>4, <2>5, <2>6 DEF ExclusiveClaim
  <2> QED
    BY <2>7, <2>8, <2>9, <2>10, <2>11, <2>12
<1>7. ASSUME NEW p \in Publishers, Crash(p) PROVE ClaimFacts'
  <2>1. /\ row' = row /\ pub'[p].pc = "idle" /\ pub'[p].batch = <<>>
        /\ \A q \in Publishers : q # p => pub'[q] = pub[q]
    BY <1>7 DEF Crash, IdlePublisher, TypeOK
  <2>2. InBatch(p)' = {} /\ \A q \in Publishers : q # p => InBatch(q)' = InBatch(q)
    BY <2>1 DEF InBatch, Picked
  <2> QED
    BY <2>1, <2>2
       DEF BatchInv, LockInv, ClaimInv, HoldInv, PresentInv, ExclusiveClaim, Claimable
<1>8. ASSUME Tick PROVE ClaimFacts'
  <2>1. \A q \in Publishers :
          /\ pub'[q].pc = pub[q].pc /\ pub'[q].batch = pub[q].batch
          /\ pub[q].pc # "idle" => pub'[q].lag = Older(pub[q].lag)
          /\ pub[q].lag \in Age
    BY <1>8 DEF Tick, TypeOK, Publisher
  <2>2. \A q \in Publishers : InBatch(q)' = InBatch(q) /\ InBatch(q) \subseteq Messages
    BY <2>1 DEF InBatch, Picked, TypeOK, Publisher
  <2>3. \A n \in Messages :
          /\ row'[n].status = row[n].status /\ row'[n].claimed = row[n].claimed
          /\ row[n].claimed => row'[n].age = Older(row[n].age)
          /\ row[n].age \in Age
    BY <1>8 DEF Tick, TypeOK, Row
  <2>4. \A a \in Age : /\ Older(a) > CLAIM_TIMEOUT \/ Older(a) = a + 1
                       /\ a > CLAIM_TIMEOUT => Older(a) > CLAIM_TIMEOUT
                       /\ Older(a) <= CLAIM_TIMEOUT => a <= CLAIM_TIMEOUT
    BY DEF Age, Older
  <2>5. BatchInv' /\ LockInv' /\ PresentInv'
    BY <2>1, <2>2, <2>3 DEF BatchInv, LockInv, PresentInv
  <2>6. ClaimInv'
    BY <2>1, <2>2, <2>3, <2>4 DEF ClaimInv, Claimable
  <2>7. HoldInv'
    BY <2>1, <2>2, <2>3, <2>4 DEF HoldInv
  <2>8. \A q \in Publishers : InBatch(q) # {} => pub[q].pc # "idle"
    BY DEF BatchInv, InBatch, Picked
  <2>9. ExclusiveClaim'
    BY <2>1, <2>2, <2>4, <2>8 DEF ExclusiveClaim
  <2> QED
    BY <2>5, <2>6, <2>7, <2>9
<1> QED
  BY <1>1, <1>2, <1>3, <1>4, <1>5, <1>6, <1>7, <1>8 DEF Next

\* Every step keeps the meaning of the verdict "sent".
LEMMA HandledStep ==
  ASSUME TypeOK, BatchInv, PresentInv, ProgressInv, SentIsHandled, [Next]_vars
  PROVE  ProgressInv' /\ SentIsHandled'
<1> USE OutboxConstants
<1>1. CASE UNCHANGED vars
  BY <1>1 DEF vars, ProgressInv, SentIsHandled
<1>2. ASSUME NEW m \in Messages, AddOutboxMessage(m) PROVE ProgressInv' /\ SentIsHandled'
  <2>1. pub' = pub /\ handled' = handled
    BY <1>2 DEF AddOutboxMessage
  <2>2. \A n \in Messages : row'[n].status = "sent" => row[n].status = "sent"
    BY <1>2 DEF AddOutboxMessage, TypeOK
  <2> QED
    BY <2>1, <2>2 DEF ProgressInv, SentIsHandled
<1>3. ASSUME NEW p \in Publishers, FetchSelect(p) PROVE ProgressInv' /\ SentIsHandled'
  <2>1. row' = row /\ handled' = handled
    BY <1>3 DEF FetchSelect
  <2>2. pub'[p].next = 0 /\ \A q \in Publishers : q # p => pub'[q] = pub[q]
    BY <1>3 DEF FetchSelect, TypeOK
  <2> QED
    BY <2>1, <2>2 DEF ProgressInv, SentIsHandled
<1>4. ASSUME NEW p \in Publishers, FetchCommit(p) PROVE ProgressInv' /\ SentIsHandled'
  <2>1. handled' = handled /\ \A n \in Messages : row'[n].status = "sent" => row[n].status = "sent"
    BY <1>4 DEF FetchCommit, TypeOK, Row
  <2>2. /\ pub[p].pc # "idle" /\ pub'[p].next = pub[p].next
        /\ pub'[p].batch = pub[p].batch /\ pub'[p].ok = pub[p].ok
        /\ \A q \in Publishers : q # p => pub'[q] = pub[q]
    BY <1>4 DEF FetchCommit, TypeOK, Publisher
  <2>3. ProgressInv'
    BY <2>1, <2>2 DEF ProgressInv
  <2> QED
    BY <2>1, <2>3 DEF SentIsHandled
<1>5. ASSUME NEW p \in Publishers, RunHandler(p) PROVE ProgressInv' /\ SentIsHandled'
  <2> DEFINE m == Head(pub[p].batch)
             k == pub[p].next + 1
             h == HandlersOf[m][k]
  <2>1. pub[p] \in Publisher /\ pub[p].batch # <<>> /\ pub[p].batch \in Seq(Messages) /\ pub[p].pc # "idle"
    BY <1>5 DEF RunHandler, TypeOK, Publisher, BatchInv
  <2>2. m \in Messages
    BY <2>1, HeadTail
  <2>3. row' = row /\ \A n \in Messages : handled[n] \subseteq handled'[n]
    BY <1>5, <2>2 DEF RunHandler, TypeOK
  <2>4. SentIsHandled'
    BY <2>3 DEF SentIsHandled
  <2>5. \A q \in Publishers : q # p => pub'[q] = pub[q]
    BY <1>5 DEF RunHandler, TypeOK
  <2>6. \/ /\ pub'[p] = [pub[p] EXCEPT !.next = k]
           /\ h \in handled'[m]
        \/ pub'[p] = [pub[p] EXCEPT !.next = k, !.ok = FALSE]
    BY <1>5, <2>2 DEF RunHandler, TypeOK
  <2>7. ASSUME NEW q \in Publishers, q # p, pub'[q].pc # "idle", pub'[q].ok,
               NEW i \in 1 .. pub'[q].next
        PROVE  HandlersOf[Head(pub'[q].batch)][i] \in handled'[Head(pub'[q].batch)]
    <3>1. pub[q].batch \in Seq(Messages) /\ pub[q].batch # <<>>
      BY <2>5, <2>7 DEF TypeOK, Publisher, BatchInv
    <3>2. Head(pub[q].batch) \in Messages
      BY <3>1, HeadTail
    <3> QED
      BY <2>3, <2>5, <2>7, <3>2 DEF ProgressInv
  <2>8. ASSUME pub'[p].ok, NEW i \in 1 .. pub'[p].next
        PROVE  HandlersOf[Head(pub'[p].batch)][i] \in handled'[Head(pub'[p].batch)]
    <3>1. ~[pub[p] EXCEPT !.next = k, !.ok = FALSE].ok
      BY <2>1 DEF Publisher
    <3>2. pub'[p] = [pub[p] EXCEPT !.next = k] /\ h \in handled'[m]
      BY <2>6, <2>8, <3>1
    <3>3. pub'[p].next = k /\ pub'[p].ok = pub[p].ok /\ pub'[p].batch = pub[p].batch
      BY <2>1, <3>2 DEF Publisher
    <3>4. pub[p].next \in Nat
      BY <2>1 DEF Publisher
    <3>5. CASE i = k
      BY <3>2, <3>3, <3>5
    <3>6. CASE i # k
      <4>1. i \in 1 .. pub[p].next
        BY <2>8, <3>3, <3>4, <3>6
      <4>2. HandlersOf[m][i] \in handled[m]
        BY <2>1, <2>8, <3>3, <4>1 DEF ProgressInv
      <4> QED
        BY <2>2, <2>3, <3>3, <4>2
    <3> QED
      BY <3>5, <3>6
  <2>9. ProgressInv'
    BY <2>7, <2>8 DEF ProgressInv
  <2> QED
    BY <2>4, <2>9
<1>6. ASSUME NEW p \in Publishers, MarkOutcome(p) PROVE ProgressInv' /\ SentIsHandled'
  <2> DEFINE m == Head(pub[p].batch)
  <2>1. pub[p] \in Publisher /\ pub[p].batch # <<>> /\ pub[p].batch \in Seq(Messages) /\ pub[p].pc # "idle"
    BY <1>6 DEF MarkOutcome, TypeOK, Publisher, BatchInv
  <2>2. m \in Messages
    BY <2>1, HeadTail
  <2>3. handled' = handled /\ pub[p].next = Len(HandlersOf[m])
    BY <1>6 DEF MarkOutcome
  <2>4. /\ \A n \in Messages : n # m => row'[n] = row[n]
        /\ row'[m].status = "sent" => pub[p].ok
    BY <1>6, <2>2 DEF MarkOutcome, TypeOK, Row
  <2>5. DOMAIN HandlersOf[m] = 1 .. Len(HandlersOf[m])
    BY <2>2
  <2>6. SentIsHandled'
    BY <2>1, <2>3, <2>4, <2>5 DEF SentIsHandled, ProgressInv
  <2>7. Advance(p).next = 0
    BY <2>1 DEF Advance, IdlePublisher, Publisher
  <2>8. pub'[p].next = 0 /\ \A q \in Publishers : q # p => pub'[q] = pub[q]
    BY <1>6, <2>7 DEF MarkOutcome, TypeOK
  <2>9. ProgressInv'
    BY <2>3, <2>8 DEF ProgressInv
  <2> QED
    BY <2>6, <2>9
<1>7. ASSUME NEW p \in Publishers, Crash(p) PROVE ProgressInv' /\ SentIsHandled'
  <2>1. row' = row /\ handled' = handled
    BY <1>7 DEF Crash
  <2>2. pub'[p].pc = "idle" /\ \A q \in Publishers : q # p => pub'[q] = pub[q]
    BY <1>7 DEF Crash, IdlePublisher, TypeOK
  <2> QED
    BY <2>1, <2>2 DEF ProgressInv, SentIsHandled
<1>8. ASSUME Tick PROVE ProgressInv' /\ SentIsHandled'
  <2>1. \A q \in Publishers :
          /\ pub'[q].pc = pub[q].pc /\ pub'[q].batch = pub[q].batch
          /\ pub'[q].next = pub[q].next /\ pub'[q].ok = pub[q].ok
    BY <1>8 DEF Tick, TypeOK, Publisher
  <2>2. handled' = handled /\ \A n \in Messages : row'[n].status = row[n].status
    BY <1>8 DEF Tick, TypeOK, Row
  <2>3. ProgressInv'
    BY <2>1, <2>2 DEF ProgressInv
  <2> QED
    BY <2>2, <2>3 DEF SentIsHandled
<1> QED
  BY <1>1, <1>2, <1>3, <1>4, <1>5, <1>6, <1>7, <1>8 DEF Next

-----------------------------------------------------------------------------
\* IInv is inductive.
THEOREM Invariance == Spec => []IInv
<1>1. Init => IInv
  BY InitIInv
<1>2. IInv /\ [Next]_vars => IInv'
  <2> SUFFICES ASSUME IInv, [Next]_vars PROVE IInv'
    OBVIOUS
  <2>1. TypeOK /\ ClaimFacts /\ ProgressInv /\ SentIsHandled
    BY DEF IInv, ClaimsInv, ClaimFacts
  <2>2. TypeOK'
    BY <2>1, TypeStep DEF ClaimFacts
  <2>3. ClaimFacts'
    BY <2>1, <2>2, ClaimsStep
  <2>4. ProgressInv' /\ SentIsHandled'
    BY <2>1, HandledStep DEF ClaimFacts
  <2> QED
    BY <2>2, <2>3, <2>4 DEF IInv, ClaimsInv, ClaimFacts
<1> QED
  BY <1>1, <1>2, PTL DEF Spec

\* Rows, claims and publishers keep their types.
THEOREM TypeCorrect == Spec => []TypeOK
<1>1. IInv => TypeOK
  BY DEF IInv, ClaimsInv
<1> QED
  BY <1>1, Invariance, PTL

\* Two publishers hold one message only after the claim of one has expired
\* (_fetch_pending), for any number of publishers, messages and crashes.
THEOREM ClaimsExclusive == Spec => []ExclusiveClaim
<1>1. IInv => ExclusiveClaim
  BY DEF IInv, ClaimsInv
<1> QED
  BY <1>1, Invariance, PTL

\* A sent message has been processed by all its handlers (_dispatch).
THEOREM SentHandled == Spec => []SentIsHandled
<1>1. IInv => SentIsHandled
  BY DEF IInv
<1> QED
  BY <1>1, Invariance, PTL

\* A row under an open claim has no verdict, so committing the claim withdraws
\* none.
LEMMA SettledStep ==
  ASSUME IInv, [Next]_vars
  PROVE  \A m \in Messages : row[m].status \in Settled => row'[m].status \in Settled
<1> SUFFICES ASSUME NEW m \in Messages, row[m].status \in Settled
             PROVE  row'[m].status \in Settled
  OBVIOUS
<1>0. TypeOK /\ ClaimInv
  BY DEF IInv, ClaimsInv
<1>1. CASE UNCHANGED vars
  BY <1>1 DEF vars
<1>2. ASSUME NEW n \in Messages, AddOutboxMessage(n) PROVE row'[m].status \in Settled
  BY <1>0, <1>2 DEF AddOutboxMessage, TypeOK, Settled
<1>3. ASSUME NEW p \in Publishers, FetchSelect(p) \/ RunHandler(p) \/ Crash(p)
      PROVE  row'[m].status \in Settled
  BY <1>3 DEF FetchSelect, RunHandler, Crash
<1>4. ASSUME NEW p \in Publishers, FetchCommit(p) PROVE row'[m].status \in Settled
  <2>1. m \notin InBatch(p)
    BY <1>0, <1>4 DEF FetchCommit, ClaimInv, Claimable, Settled
  <2> QED
    BY <1>4, <2>1 DEF FetchCommit
<1>5. ASSUME NEW p \in Publishers, MarkOutcome(p) PROVE row'[m].status \in Settled
  BY <1>0, <1>5 DEF MarkOutcome, TypeOK, Row, Settled
<1>6. ASSUME Tick PROVE row'[m].status \in Settled
  BY <1>0, <1>6 DEF Tick, TypeOK, Row
<1> QED
  BY <1>1, <1>2, <1>3, <1>4, <1>5, <1>6 DEF Next

\* A message with a verdict is never put back to work, however late a publisher
\* finishes.
THEOREM VerdictKept == Spec => VerdictNotWithdrawn
<1>1. IInv /\ [Next]_vars =>
        [\A m \in Messages : row[m].status \in Settled => row'[m].status \in Settled]_vars
  BY SettledStep
<1> QED
  BY <1>1, Invariance, PTL DEF Spec, VerdictNotWithdrawn

-----------------------------------------------------------------------------
\* A step that leaves statuses and processed messages alone is a stutter of the
\* contract.
LEMMA ContractStutter ==
  ASSUME \A n \in Messages : Verdict(n)' = Verdict(n), handled' = handled
  PROVE  UNCHANGED Contract!contractVars
<1>1. [n \in Messages |-> Verdict(n)'] = [n \in Messages |-> Verdict(n)]
  OBVIOUS
<1> QED
  BY <1>1 DEF Contract!contractVars

\* Every step of the publishers is a step of the contract or changes nothing it
\* can see.
LEMMA ContractStep ==
  ASSUME IInv, [Next]_vars
  PROVE  [Contract!Next]_(Contract!contractVars)
<1> USE OutboxConstants
<1>0. TypeOK /\ ClaimInv /\ BatchInv /\ PresentInv /\ ProgressInv
  BY DEF IInv, ClaimsInv
<1>1. CASE UNCHANGED vars
  <2>1. handled' = handled /\ \A n \in Messages : Verdict(n)' = Verdict(n)
    BY <1>1 DEF vars, Verdict
  <2> QED
    BY <2>1, ContractStutter
<1>2. ASSUME NEW m \in Messages, AddOutboxMessage(m) PROVE Contract!Next
  <2>1. Verdict(m) = "none" /\ Verdict(m)' = "accepted" /\ handled' = handled
    BY <1>0, <1>2 DEF AddOutboxMessage, Verdict, TypeOK
  <2>2. \A n \in Messages : n # m => Verdict(n)' = Verdict(n)
    BY <1>0, <1>2 DEF AddOutboxMessage, Verdict, TypeOK
  <2>3. [n \in Messages |-> Verdict(n)'] = [[n \in Messages |-> Verdict(n)] EXCEPT ![m] = "accepted"]
    BY <2>1, <2>2
  <2> QED
    BY <2>1, <2>3 DEF Contract!Next, Contract!Accept
<1>3. ASSUME NEW p \in Publishers, FetchSelect(p) \/ Crash(p)
      PROVE  UNCHANGED Contract!contractVars
  <2>1. handled' = handled /\ \A n \in Messages : Verdict(n)' = Verdict(n)
    BY <1>3 DEF FetchSelect, Crash, Verdict
  <2> QED
    BY <2>1, ContractStutter
<1>4. ASSUME NEW p \in Publishers, FetchCommit(p) PROVE UNCHANGED Contract!contractVars
  <2>1. \A n \in Messages : n \notin InBatch(p) => row'[n] = row[n]
    BY <1>4 DEF FetchCommit
  <2>2. \A n \in Messages : n \in InBatch(p) =>
          row'[n].status = "processing" /\ row[n].status \in {"pending", "processing"}
    BY <1>0, <1>4 DEF FetchCommit, ClaimInv, Claimable, TypeOK, Row
  <2>3. handled' = handled /\ \A n \in Messages : Verdict(n)' = Verdict(n)
    BY <1>4, <2>1, <2>2 DEF FetchCommit, Verdict
  <2> QED
    BY <2>3, ContractStutter
<1>5. ASSUME NEW p \in Publishers, RunHandler(p) PROVE [Contract!Next]_(Contract!contractVars)
  <2> DEFINE m == Head(pub[p].batch)
             h == HandlersOf[m][pub[p].next + 1]
  <2>1. pub[p] \in Publisher /\ pub[p].batch # <<>> /\ pub[p].batch \in Seq(Messages)
    BY <1>0, <1>5 DEF RunHandler, TypeOK, Publisher, BatchInv
  <2>2. m \in Messages /\ m \in InBatch(p)
    BY <2>1, HeadTail DEF InBatch
  <2>3. HandlersOf[m] \in Seq(Handlers) /\ pub[p].next \in Nat /\ pub[p].next < Len(HandlersOf[m])
    BY <1>5, <2>1, <2>2 DEF RunHandler, Publisher
  <2>4. h \in Handlers
    BY <2>3
  <2>5. \A n \in Messages : Verdict(n)' = Verdict(n)
    BY <1>5 DEF RunHandler, Verdict
  <2>6. Verdict(m) # "none"
    BY <1>0, <2>2 DEF PresentInv, Verdict, TypeOK, Row, Status
  <2>7. CASE handled' = handled
    BY <2>5, <2>7, ContractStutter
  <2>8. CASE handled' = [handled EXCEPT ![m] = @ \union {h}]
    <3>1. [n \in Messages |-> Verdict(n)'] = [n \in Messages |-> Verdict(n)]
      BY <2>5
    <3>2. Contract!Process(m, h)
      BY <2>2, <2>6, <2>8, <3>1 DEF Contract!Process
    <3> QED
      BY <2>2, <2>4, <3>2 DEF Contract!Next
  <2> QED
    BY <1>5, <2>7, <2>8 DEF RunHandler
<1>6. ASSUME NEW p \in Publishers, MarkOutcome(p) PROVE Contract!Next
  <2>1. pub[p] \in Publisher /\ pub[p].batch # <<>> /\ pub[p].batch \in Seq(Messages) /\ pub[p].pc # "idle"
    BY <1>0, <1>6 DEF MarkOutcome, TypeOK, Publisher, BatchInv
  <2>2. PICK m \in Messages : m = Head(pub[p].batch) /\ m \in InBatch(p)
    BY <2>1, HeadTail DEF InBatch
  <2>3. handled' = handled /\ pub[p].next = Len(HandlersOf[m])
    BY <1>6, <2>2 DEF MarkOutcome
  <2>4. /\ \A n \in Messages : n # m => row'[n] = row[n]
        /\ \/ row'[m].status = "sent" /\ pub[p].ok
           \/ row'[m].status = "failed"
    BY <1>0, <1>6, <2>2 DEF MarkOutcome, TypeOK, Row
  <2>5. Verdict(m) # "none" /\ \A n \in Messages : n # m => Verdict(n)' = Verdict(n)
    BY <1>0, <2>2, <2>4 DEF PresentInv, Verdict, TypeOK, Row, Status
  <2>6. DOMAIN HandlersOf[m] = 1 .. Len(HandlersOf[m])
    BY <2>2
  <2>7. pub[p].ok => Contract!Required(m) \subseteq handled[m]
    BY <1>0, <2>1, <2>2, <2>3, <2>6 DEF Contract!Required, ProgressInv
  <2>8. \/ Verdict(m)' = "sent" /\ pub[p].ok
        \/ Verdict(m)' = "failed"
    BY <2>4 DEF Verdict
  <2>9. [n \in Messages |-> Verdict(n)'] =
          [[n \in Messages |-> Verdict(n)] EXCEPT ![m] = Verdict(m)']
    BY <2>5
  <2>10. Contract!Settle(m)
    BY <2>2, <2>3, <2>5, <2>7, <2>8, <2>9 DEF Contract!Settle
  <2> QED
    BY <2>2, <2>10 DEF Contract!Next
<1>7. ASSUME Tick PROVE UNCHANGED Contract!contractVars
  <2>1. handled' = handled /\ \A n \in Messages : row'[n].status = row[n].status
    BY <1>0, <1>7 DEF Tick, TypeOK, Row
  <2>2. \A n \in Messages : Verdict(n)' = Verdict(n)
    BY <2>1 DEF Verdict
  <2> QED
    BY <2>1, <2>2, ContractStutter
<1> QED
  BY <1>1, <1>2, <1>3, <1>4, <1>5, <1>6, <1>7 DEF Next

\* The publishers, with their claims, batches, crashes and clocks, implement the
\* safety part of the contract the outbox offers its producers and consumers.
THEOREM Refinement == Spec => Contract!Spec
<1>1. Init => Contract!Init
  BY DEF Init, Contract!Init, Verdict, NoRow
<1>2. IInv /\ [Next]_vars => [Contract!Next]_(Contract!contractVars)
  BY ContractStep
<1> QED
  BY <1>1, <1>2, Invariance, PTL DEF Spec, Contract!Spec

=============================================================================
