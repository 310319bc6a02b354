------------------------ MODULE WealthfolioPushProofs ------------------------
(***************************************************************************)
(* A push that is about to be recorded as completed has delivered what it  *)
(* fetched, for any number of accounts, transactions, pushers and runs.    *)
(***************************************************************************)
EXTENDS WealthfolioPush, TLAPS, WellFoundedInduction

\* What the comparison of the account in hand is still to look at.
InHand(j) ==
  {t \in Of(j.acct) : j.pc \in {"push", "cursor", "compare"}}
    \union {t \in j.listed : j.pc \in {"repair", "check"}}

\* A push without an error has all it answers for at the destination R or in
\* hand; it answers only for what the source s has, for nothing before its
\* first account and for nothing of the account whose activities it may still
\* delete.
Answers(j, R) == ~j.bad => \A t \in j.owed : t \in R \/ Confusable(t) \/ t \in InHand(j)
OwedActive(j, s) == \A t \in j.owed : s[t] \in ActiveKinds
Early(j) == j.pc \in {"idle", "prune"} => j.owed = {}
Begun(j) == j.acct \notin j.todo
OwnStale(j) == j.pc = "delete" => j.batch \subseteq Of(j.acct)
OwedBegun(j) == \A t \in j.owed :
  /\ t[1] \notin j.todo
  /\ j.pc \in {"clean", "delete", "fetch"} => t[1] # j.acct
JobInv(j, R, s) ==
  Answers(j, R) /\ OwedActive(j, s) /\ Early(j) /\ Begun(j) /\ OwnStale(j) /\ OwedBegun(j)

JobsInv == \A w \in Pushers : JobInv(job[w], remote, src)

IInv == TypeOK /\ JobsInv

------------------------------------------------------------------------------
(* Operators.                                                              *)

\* A set of positions that is not empty has a last one.
LEMMA LastPosition ==
  ASSUME NEW T \in SUBSET (1 .. MaxPos), T # {}
  PROVE  \E n \in T : \A m \in T : m <= n
<1> DEFINE D == {n \in Nat : MaxPos - n \in T}
<1>1. MaxPos \in Nat BY PushAssumption
<1>2. D \subseteq Nat /\ D # {}
  <2>1. PICK m \in T : TRUE OBVIOUS
  <2>2. MaxPos - m \in Nat /\ MaxPos - (MaxPos - m) = m BY <1>1
  <2> QED BY <2>1, <2>2
<1>3. PICK d \in D : \A e \in D : ~(<<e, d>> \in OpToRel(<, Nat))
  <2> HIDE DEF D
  <2> QED BY <1>2, NatLessThanWellFounded, WFMin, Zenon
<1>4. \A e \in D : ~(e < d) BY <1>3, Zenon DEF OpToRel
<1>5. MaxPos - d \in T /\ d \in Nat BY <1>3
<1>6. \A m \in T : m <= MaxPos - d
  <2> TAKE m \in T
  <2>1. MaxPos - m \in Nat /\ MaxPos - (MaxPos - m) = m BY <1>1
  <2>2. MaxPos - m \in D BY <2>1
  <2>3. ~(MaxPos - m < d) BY <2>2, <1>4
  <2> QED BY <2>1, <2>3, <1>5, <1>1
<1> QED BY <1>5, <1>6

\* The cursor is put on a position of the account.
LEMMA LastOfType ==
  ASSUME NEW S \in SUBSET Txns
  PROVE  LastOf(S) \in Places
<1>1. CASE S = {} BY <1>1, PushAssumption DEF LastOf, Places
<1>2. CASE S # {}
  <2> DEFINE T == {t[2] : t \in S}
  <2>1. T \in SUBSET (1 .. MaxPos) /\ T # {} BY <1>2 DEF Txns
  <2>2. PICK n \in T : \A m \in T : m <= n BY <2>1, LastPosition
  <2>3. n \in 1 .. MaxPos /\ (\E t \in S : t[2] = n) /\ \A t \in S : t[2] <= n BY <2>1, <2>2
  <2>4. LastOf(S) \in 1 .. MaxPos BY <1>2, <2>3, Zenon DEF LastOf
  <2> QED BY <2>4, PushAssumption DEF Places
<1> QED BY <1>1, <1>2

\* An idle push answers for nothing.
LEMMA IdleOK == IdleJob \in Job /\ \A R, s : JobInv(IdleJob, R, s)
<1>1. 0 \in Places BY PushAssumption DEF Places
<1>2. NONE \in RunRefs BY DEF RunRefs
<1>3. IdleJob \in Job BY <1>1, <1>2 DEF IdleJob, Job, Modes
<1>4. /\ IdleJob.pc = "idle" /\ IdleJob.owed = {} /\ IdleJob.todo = {} /\ IdleJob.acct = NONE
  BY DEF IdleJob
<1>5. \A R, s : JobInv(IdleJob, R, s)
  BY <1>4 DEF JobInv, Answers, OwedActive, Early, Begun, OwnStale, OwedBegun
<1> QED BY <1>3, <1>5

\* More at the destination harms no push.
LEMMA MoreRemote ==
  ASSUME NEW j \in Job, NEW R, NEW Q, NEW s, R \subseteq Q, JobInv(j, R, s)
  PROVE  JobInv(j, Q, s)
BY DEF JobInv, Answers

\* A push that answers for less is as good as before, though that much is gone.
LEMMA Relieved ==
  ASSUME NEW j \in Job, NEW R, NEW S, NEW Q, NEW s, R \ S \subseteq Q, JobInv(j, R, s)
  PROVE  [j EXCEPT !.owed = @ \ S] \in Job /\ JobInv([j EXCEPT !.owed = @ \ S], Q, s)
<1> DEFINE k == [j EXCEPT !.owed = @ \ S]
<1>1. k \in Job BY DEF Job
<1>2. /\ k.pc = j.pc /\ k.todo = j.todo /\ k.acct = j.acct /\ k.batch = j.batch
      /\ k.listed = j.listed
      /\ k.bad = j.bad /\ k.owed = j.owed \ S
  BY DEF Job
<1> HIDE DEF k
<1>3. JobInv(k, Q, s)
  BY <1>2 DEF JobInv, Answers, OwedActive, Early, Begun, OwnStale, OwedBegun, InHand
<1> QED BY <1>1, <1>3 DEF k

\* The next account after a failure: the run is not recorded as completed.
LEMMA Skipped ==
  ASSUME NEW j \in Job, NEW R, NEW Q, NEW s, NEW b \in BOOLEAN,
         b \/ j.bad \/ \A t \in j.owed : t \in Q \/ Confusable(t),
         JobInv(j, R, s)
  PROVE  NextAccount(j, b) \in Job /\ JobInv(NextAccount(j, b), Q, s)
<1> DEFINE k == NextAccount(j, b)
<1>1. 0 \in Places BY PushAssumption DEF Places
<1>2. k \in Job BY <1>1 DEF Job, NextAccount
<1>3. /\ k.pc = "next" /\ k.todo = j.todo /\ k.acct = NONE
      /\ k.bad = (j.bad \/ b) /\ k.owed = j.owed
  BY DEF Job, NextAccount
<1>4. j.todo \subseteq Accounts /\ NONE \notin Accounts BY PushAssumption DEF Job
<1> HIDE DEF k
<1>5. JobInv(k, Q, s)
  BY <1>3, <1>4 DEF JobInv, Answers, OwedActive, Early, Begun, OwnStale, OwedBegun, InHand
<1> QED BY <1>2, <1>5 DEF k

\* A step of one push that deletes nothing.
LEMMA JobStep ==
  ASSUME IInv, NEW w \in Pushers, NEW j \in Job, job' = [job EXCEPT ![w] = j],
         remote \subseteq remote', src' = src, JobInv(j, remote', src')
  PROVE  job' \in [Pushers -> Job] /\ JobsInv'
<1>1. job \in [Pushers -> Job] BY DEF IInv, TypeOK
<1>2. job' \in [Pushers -> Job] BY <1>1
<1>3. ASSUME NEW v \in Pushers PROVE JobInv(job[v], remote, src)' 
  <2>1. CASE v = w
    <3>1. job'[v] = j BY <2>1, <1>1
    <3> QED BY <3>1
  <2>2. CASE v # w
    <3>1. job'[v] = job[v] /\ job[v] \in Job BY <2>2, <1>1
    <3>2. JobInv(job[v], remote, src) BY DEF IInv, JobsInv
    <3>3. JobInv(job[v], remote', src) BY <3>1, <3>2, MoreRemote
    <3> QED BY <3>1, <3>3
  <2> QED BY <2>1, <2>2
<1> QED BY <1>2, <1>3 DEF JobsInv

\* A step that deletes activities at the destination.
LEMMA RemoveStep ==
  ASSUME IInv, NEW w, NEW j \in Job, NEW S, Remove(w, S, j), src' = src,
         JobInv(j, remote \ S, src)
  PROVE  remote' \subseteq Txns /\ job' \in [Pushers -> Job] /\ JobsInv'
<1>1. job \in [Pushers -> Job] /\ remote \subseteq Txns BY DEF IInv, TypeOK
<1>2. remote' = remote \ S BY DEF Remove
<1>3. job' = [v \in Pushers |-> IF v = w THEN j ELSE [job[v] EXCEPT !.owed = @ \ S]]
  BY DEF Remove
<1>4. ASSUME NEW v \in Pushers PROVE job'[v] \in Job /\ JobInv(job'[v], remote', src')
  <2>1. CASE v = w
    <3>1. job'[v] = j BY <2>1, <1>3
    <3> QED BY <3>1, <1>2
  <2>2. CASE v # w
    <3>1. job'[v] = [job[v] EXCEPT !.owed = @ \ S] BY <2>2, <1>3
    <3>2. JobInv(job[v], remote, src) /\ job[v] \in Job BY <1>1 DEF IInv, JobsInv
    <3>3. [job[v] EXCEPT !.owed = @ \ S] \in Job
          /\ JobInv([job[v] EXCEPT !.owed = @ \ S], remote \ S, src)
      BY <3>2, Relieved
    <3> QED BY <3>1, <3>3, <1>2
  <2> QED BY <2>1, <2>2
<1>5. job' \in [Pushers -> Job] BY <1>3, <1>4, Zenon
<1> QED BY <1>1, <1>2, <1>4, <1>5 DEF JobsInv

------------------------------------------------------------------------------
(* The steps of a push.                                                    *)

\* What a step of w finds.
LEMMA Own ==
  ASSUME IInv, NEW w \in Pushers
  PROVE  job[w] \in Job /\ JobInv(job[w], remote, src) /\ remote \subseteq Txns
         /\ job \in [Pushers -> Job]
BY DEF IInv, JobsInv, TypeOK

\* Start: the new push has nothing to answer for.
LEMMA StartInv ==
  ASSUME IInv, NEW w \in Pushers, NEW mode \in Modes, Start(w, mode)
  PROVE  IInv'
<1>1. PICK r \in Runs :
        /\ runRow' = [q \in Runs |-> IF q = r THEN "running"
                                     ELSE IF runRow[q] = "running" THEN "cancelled"
                                     ELSE "none"]
        /\ job' = [job EXCEPT ![w] = [IdleJob EXCEPT !.pc = "prune", !.run = r,
                     !.mode = mode, !.todo = IF scope = {} THEN Accounts ELSE scope]]
  BY Zenon DEF Start
<1>2. UNCHANGED <<src, scope, remote, cursor, events>> BY DEF Start
<1> DEFINE j == [IdleJob EXCEPT !.pc = "prune", !.run = r,
                   !.mode = mode, !.todo = IF scope = {} THEN Accounts ELSE scope]
<1>3. scope \subseteq Accounts BY DEF IInv, TypeOK
<1>4. r \in RunRefs BY DEF RunRefs
<1>5. j \in Job BY <1>3, <1>4, IdleOK DEF Job
<1>6. j.pc = "prune" /\ j.owed = {} /\ j.acct = NONE /\ j.todo \subseteq Accounts
  BY <1>3 DEF IdleJob
<1>7. job' = [job EXCEPT ![w] = j] BY <1>1, Zenon
<1> HIDE DEF j
<1>8. JobInv(j, remote', src')
  BY <1>6, PushAssumption DEF JobInv, Answers, OwedActive, Early, Begun, OwnStale, OwedBegun, InHand
<1>9. job' \in [Pushers -> Job] /\ JobsInv' BY <1>2, <1>5, <1>7, <1>8, JobStep
<1>10. runRow' \in [Runs -> {"none", "running", "completed", "failed", "cancelled"}]
  BY <1>1 DEF IInv, TypeOK
<1> QED BY <1>2, <1>9, <1>10 DEF IInv, TypeOK

\* Prune: before the first account, whatever is deleted.
LEMMA PruneInv ==
  ASSUME IInv, NEW w \in Pushers, Prune(w)
  PROVE  IInv'
<1> DEFINE S == {t \in remote : t[1] \notin job[w].todo}
           j == [job[w] EXCEPT !.pc = "next"]
<1>1. job[w].pc = "prune" /\ Remove(w, S, j) /\ UNCHANGED <<src, scope, cursor, runRow, events>>
  BY Zenon DEF Prune, At
<1>2. job[w] \in Job /\ JobInv(job[w], remote, src) BY Own
<1>3. j \in Job BY <1>2 DEF Job
<1>4. j.pc = "next" /\ j.owed = job[w].owed /\ j.acct = job[w].acct /\ j.todo = job[w].todo
  BY <1>2 DEF Job
<1> HIDE DEF j, S
<1>5. JobInv(j, remote \ S, src)
  BY <1>1, <1>2, <1>4 DEF JobInv, Answers, OwedActive, Early, Begun, OwnStale, OwedBegun, InHand
<1>6. remote' \subseteq Txns /\ job' \in [Pushers -> Job] /\ JobsInv'
  BY <1>1, <1>3, <1>5, RemoveStep
<1> QED BY <1>1, <1>6 DEF IInv, TypeOK

\* NextAccountBegins: nothing is owed yet for the account in hand.
LEMMA NextAccountBeginsInv ==
  ASSUME IInv, NEW w \in Pushers, NextAccountBegins(w)
  PROVE  IInv'
<1>1. job[w].pc = "next" /\ UNCHANGED <<src, scope, remote, cursor, runRow, events>>
  BY DEF NextAccountBegins, At
<1>2. job[w] \in Job /\ JobInv(job[w], remote, src) /\ remote \subseteq Txns
      /\ job \in [Pushers -> Job] BY Own
<1>3. PICK a \in job[w].todo :
       job' = [job EXCEPT ![w] = [job[w] EXCEPT
         !.todo = @ \ {a}, !.acct = a,
         !.pc = IF job[w].mode = "rebuild" THEN "delete" ELSE "clean",
         !.batch = IF job[w].mode = "rebuild" THEN remote \intersect Of(a)
                   ELSE {t \in Of(a) : Active(t)}]]
  BY Zenon DEF NextAccountBegins
<1> DEFINE todo == job[w].todo \ {a}
           pc == IF job[w].mode = "rebuild" THEN "delete" ELSE "clean"
           batch == IF job[w].mode = "rebuild" THEN remote \intersect Of(a)
                    ELSE {t \in Of(a) : Active(t)}
           j == [job[w] EXCEPT !.todo = todo, !.acct = a, !.pc = pc, !.batch = batch]
<1>4. job' = [job EXCEPT ![w] = j] BY <1>2, <1>3
<1>5. /\ todo \subseteq Accounts /\ a \in Accounts /\ batch \subseteq Of(a) /\ batch \subseteq Txns
      /\ pc \in {"delete", "clean"} /\ a \notin todo
  BY <1>2 DEF Job, Of
<1>6. todo \subseteq job[w].todo OBVIOUS
<1> HIDE DEF todo, pc, batch
<1>7. j \in Job BY <1>2, <1>5 DEF Job
<1>8. j.pc = pc /\ j.owed = job[w].owed /\ j.acct = a /\ j.todo = todo /\ j.batch = batch
      /\ j.bad = job[w].bad
  BY <1>2 DEF Job
<1> HIDE DEF j
<1>9. JobInv(j, remote', src')
  BY <1>1, <1>2, <1>5, <1>6, <1>8 DEF JobInv, Answers, OwedActive, Early, Begun, OwnStale, OwedBegun, InHand
<1>10. job' \in [Pushers -> Job] /\ JobsInv' BY <1>1, <1>4, <1>7, <1>9, JobStep
<1> QED BY <1>1, <1>10 DEF IInv, TypeOK

\* ListStale: only activities of the account in hand are listed.
LEMMA ListStaleInv ==
  ASSUME IInv, NEW w \in Pushers, ListStale(w)
  PROVE  IInv'
<1> DEFINE batch == (remote \intersect Of(job[w].acct)) \ job[w].batch
           j == [job[w] EXCEPT !.pc = "delete", !.batch = batch]
<1>1. job[w].pc = "clean" /\ UNCHANGED <<src, scope, remote, cursor, runRow, events>>
  BY DEF ListStale, At
<1>2. job[w] \in Job /\ JobInv(job[w], remote, src) /\ remote \subseteq Txns
      /\ job \in [Pushers -> Job] BY Own
<1>3. job' = [job EXCEPT ![w] = j] BY <1>2 DEF ListStale
<1>4. batch \subseteq Of(job[w].acct) /\ batch \subseteq Txns BY <1>2
<1> HIDE DEF batch
<1>5. j \in Job BY <1>2, <1>4 DEF Job
<1>6. j.pc = "delete" /\ j.owed = job[w].owed /\ j.acct = job[w].acct /\ j.todo = job[w].todo
      /\ j.batch = batch /\ j.bad = job[w].bad
  BY <1>2 DEF Job
<1> HIDE DEF j
<1>7. JobInv(j, remote', src')
  BY <1>1, <1>2, <1>4, <1>6 DEF JobInv, Answers, OwedActive, Early, Begun, OwnStale, OwedBegun, InHand
<1>8. job' \in [Pushers -> Job] /\ JobsInv' BY <1>1, <1>3, <1>5, <1>7, JobStep
<1> QED BY <1>1, <1>8 DEF IInv, TypeOK

\* DeleteStale: what is deleted is of the account in hand, what is owed is not.
LEMMA DeleteStaleInv ==
  ASSUME IInv, NEW w \in Pushers, DeleteStale(w)
  PROVE  IInv'
<1> DEFINE S == job[w].batch
           j == [job[w] EXCEPT !.pc = "fetch", !.batch = {}]
<1>1. job[w].pc = "delete" /\ Remove(w, S, j) /\ UNCHANGED <<src, scope, cursor, runRow, events>>
  BY Zenon DEF DeleteStale, At
<1>2. job[w] \in Job /\ JobInv(job[w], remote, src) BY Own
<1>3. j \in Job BY <1>2 DEF Job
<1>4. j.pc = "fetch" /\ j.owed = job[w].owed /\ j.acct = job[w].acct /\ j.todo = job[w].todo
      /\ j.bad = job[w].bad
  BY <1>2 DEF Job
<1>5. \A t \in job[w].owed : t \notin S
  BY <1>1, <1>2 DEF JobInv, OwnStale, OwedBegun, Of
<1> HIDE DEF j, S
<1>6. JobInv(j, remote \ S, src)
  BY <1>1, <1>2, <1>4, <1>5 DEF JobInv, Answers, OwedActive, Early, Begun, OwnStale, OwedBegun, InHand
<1>7. remote' \subseteq Txns /\ job' \in [Pushers -> Job] /\ JobsInv'
  BY <1>1, <1>3, <1>6, RemoveStep
<1> QED BY <1>1, <1>7 DEF IInv, TypeOK

\* FetchAndMap: a run without an error has mapped all it fetched.
LEMMA FetchAndMapInv ==
  ASSUME IInv, NEW w \in Pushers, FetchAndMap(w)
  PROVE  IInv'
<1> DEFINE fetched == {t \in Of(job[w].acct) \intersect Window(job[w].mode) : Active(t)}
           mapped == MappedOf(fetched)
           bad == \E t \in fetched : ~Pushable(t)
           owed == job[w].owed \union fetched
           skipped == [NextAccount(job[w], bad) EXCEPT !.owed = @ \union fetched]
           pushes == [job[w] EXCEPT !.pc = "push", !.batch = mapped, !.last = LastOf(mapped),
                         !.bad = @ \/ bad, !.owed = @ \union fetched]
<1>1. job[w].pc = "fetch" /\ UNCHANGED <<src, scope, remote, cursor, runRow, events>>
  BY DEF FetchAndMap, At
<1>2. job[w] \in Job /\ JobInv(job[w], remote, src) /\ remote \subseteq Txns
      /\ job \in [Pushers -> Job] BY Own
<1>3. job' = [job EXCEPT ![w] = IF mapped = {} THEN skipped ELSE pushes]
  <2>1. job' = [job EXCEPT ![w] =
          IF mapped = {} THEN [NextAccount(job[w], bad) EXCEPT !.owed = @ \union fetched]
          ELSE [job[w] EXCEPT !.pc = "push", !.batch = mapped, !.last = LastOf(mapped),
                         !.bad = @ \/ bad, !.owed = @ \union fetched]]
    BY Zenon DEF FetchAndMap
  <2> HIDE DEF fetched, mapped, bad
  <2> QED BY <1>2, <2>1
<1>4. /\ fetched \subseteq Txns /\ mapped \subseteq fetched /\ bad \in BOOLEAN
      /\ \A t \in fetched : t[1] = job[w].acct /\ t \in Of(job[w].acct) /\ src[t] \in ActiveKinds
  BY DEF Of, MappedOf, Active
<1>5. ~bad => mapped = fetched
  BY DEF MappedOf, Unresolved, Pushable
<1> HIDE DEF fetched, mapped, bad
<1>6. LastOf(mapped) \in Places BY <1>4, LastOfType
<1>7. owed \subseteq Txns BY <1>2, <1>4 DEF Job
<1>8. CASE mapped = {}
  <2>1. 0 \in Places BY PushAssumption DEF Places
  <2>2. skipped \in Job BY <1>2, <1>4, <2>1, <1>7 DEF Job, NextAccount
  <2>3. skipped.pc = "next" /\ skipped.owed = owed /\ skipped.acct = NONE
        /\ skipped.todo = job[w].todo /\ skipped.bad = (job[w].bad \/ bad)
    BY <1>2 DEF Job, NextAccount
  <2>4. NONE \notin job[w].todo BY <1>2, PushAssumption DEF Job
  <2> HIDE DEF skipped
  <2>5. JobInv(skipped, remote', src')
    BY <1>1, <1>2, <1>4, <1>5, <1>8, <2>3, <2>4
       DEF JobInv, Answers, OwedActive, Early, Begun, OwnStale, OwedBegun, InHand
  <2>6. job' = [job EXCEPT ![w] = skipped] BY <1>3, <1>8
  <2>7. job' \in [Pushers -> Job] /\ JobsInv' BY <1>1, <2>2, <2>5, <2>6, JobStep
  <2> QED BY <1>1, <2>7 DEF IInv, TypeOK
<1>9. CASE mapped # {}
  <2>2. pushes \in Job BY <1>2, <1>4, <1>6, <1>7 DEF Job
  <2>3. pushes.pc = "push" /\ pushes.owed = owed /\ pushes.acct = job[w].acct
        /\ pushes.todo = job[w].todo /\ pushes.bad = (job[w].bad \/ bad) /\ pushes.batch = mapped
    BY <1>2 DEF Job
  <2> HIDE DEF pushes
  <2>5. JobInv(pushes, remote', src')
    BY <1>1, <1>2, <1>4, <1>5, <2>3
       DEF JobInv, Answers, OwedActive, Early, Begun, OwnStale, OwedBegun, InHand
  <2>6. job' = [job EXCEPT ![w] = pushes] BY <1>3, <1>9
  <2>7. job' \in [Pushers -> Job] /\ JobsInv' BY <1>1, <2>2, <2>5, <2>6, JobStep
  <2> QED BY <1>1, <2>7 DEF IInv, TypeOK
<1> QED BY <1>8, <1>9

\* A change from outside or a failure is counted.
LEMMA EventCounted ==
  ASSUME IInv, Event
  PROVE  events' \in 0 .. MaxEvents
BY PushAssumption DEF IInv, TypeOK, Event

\* PushChunk: whatever was stored, the comparison is still to come.
LEMMA PushChunkInv ==
  ASSUME IInv, NEW w \in Pushers, NEW C \in SUBSET job[w].batch, NEW stored,
         PushChunk(w, C, stored)
  PROVE  IInv'
<1> DEFINE batch == job[w].batch \ C
           pc == IF job[w].batch = C THEN "cursor" ELSE "push"
           j == [job[w] EXCEPT !.batch = batch, !.pc = pc]
<1>1. /\ job[w].pc = "push" /\ UNCHANGED <<src, scope, cursor, runRow>>
      /\ remote' = remote \union stored /\ stored \subseteq C
  BY DEF PushChunk, At
<1>2. job[w] \in Job /\ JobInv(job[w], remote, src) /\ remote \subseteq Txns
      /\ job \in [Pushers -> Job] BY Own
<1>3. job' = [job EXCEPT ![w].batch = @ \ C,
                ![w].pc = IF job[w].batch = C THEN "cursor" ELSE "push"]
  BY Zenon DEF PushChunk
<1>4. job' = [job EXCEPT ![w] = j] BY <1>2, <1>3
<1>5. batch \subseteq Txns /\ pc \in {"cursor", "push"} /\ C \subseteq Txns BY <1>2 DEF Job
<1> HIDE DEF batch, pc
<1>6. j \in Job BY <1>2, <1>5 DEF Job
<1>7. j.pc = pc /\ j.owed = job[w].owed /\ j.acct = job[w].acct /\ j.todo = job[w].todo
      /\ j.bad = job[w].bad /\ j.listed = job[w].listed
  BY <1>2 DEF Job
<1> HIDE DEF j
<1>8. JobInv(j, remote', src')
  BY <1>1, <1>2, <1>5, <1>7
     DEF JobInv, Answers, OwedActive, Early, Begun, OwnStale, OwedBegun, InHand
<1>9. remote \subseteq remote' /\ remote' \subseteq Txns BY <1>1, <1>2, <1>5
<1>10. job' \in [Pushers -> Job] /\ JobsInv' BY <1>1, <1>4, <1>6, <1>8, <1>9, JobStep
<1>11. events' \in 0 .. MaxEvents BY EventCounted DEF PushChunk, IInv, TypeOK
<1> QED BY <1>1, <1>9, <1>10, <1>11 DEF IInv, TypeOK

\* UpdateCursor: the destination and what is owed stay.
LEMMA UpdateCursorInv ==
  ASSUME IInv, NEW w \in Pushers, UpdateCursor(w)
  PROVE  IInv'
<1> DEFINE j == [job[w] EXCEPT !.pc = "compare"]
<1>1. job[w].pc = "cursor" /\ UNCHANGED <<src, scope, remote, runRow, events>>
      /\ cursor' = [cursor EXCEPT ![job[w].acct] = job[w].last]
  BY DEF UpdateCursor, At
<1>2. job[w] \in Job /\ JobInv(job[w], remote, src) /\ job \in [Pushers -> Job] BY Own
<1>3. job' = [job EXCEPT ![w] = j] BY <1>2 DEF UpdateCursor
<1>4. j \in Job BY <1>2 DEF Job
<1>5. j.pc = "compare" /\ j.owed = job[w].owed /\ j.acct = job[w].acct /\ j.todo = job[w].todo
      /\ j.bad = job[w].bad
  BY <1>2 DEF Job
<1> HIDE DEF j
<1>6. JobInv(j, remote', src')
  BY <1>1, <1>2, <1>5 DEF JobInv, Answers, OwedActive, Early, Begun, OwnStale, OwedBegun, InHand
<1>7. job' \in [Pushers -> Job] /\ JobsInv' BY <1>1, <1>3, <1>4, <1>6, JobStep
<1>8. cursor' \in [Accounts -> Places]
  <2>1. job[w].last \in Places BY <1>2 DEF Job
  <2>2. cursor \in [Accounts -> Places] BY DEF IInv, TypeOK
  <2> QED BY <1>1, <2>1, <2>2
<1> QED BY <1>1, <1>7, <1>8 DEF IInv, TypeOK

\* Compare: all that is owed of the account is in what is listed.
LEMMA CompareInv ==
  ASSUME IInv, NEW w \in Pushers, Compare(w)
  PROVE  IInv'
<1> DEFINE listed == {t \in Of(job[w].acct) : Active(t)}
           bad == \E t \in listed : ~Comparable(t)
           batch == {t \in listed \ remote : Mappable(t)}
           owed == job[w].owed \union listed
           done == [NextAccount(job[w], bad) EXCEPT !.owed = @ \union listed]
           repairs == [job[w] EXCEPT !.pc = "repair", !.listed = listed, !.bad = @ \/ bad,
                         !.batch = batch, !.owed = @ \union listed]
<1>1. job[w].pc = "compare" /\ UNCHANGED <<src, scope, remote, cursor, runRow, events>>
  BY DEF Compare, At
<1>2. job[w] \in Job /\ JobInv(job[w], remote, src) /\ job \in [Pushers -> Job] BY Own
<1>3. job' = [job EXCEPT ![w] = IF listed \subseteq remote THEN done ELSE repairs]
  <2>1. job' = [job EXCEPT ![w] =
          IF listed \subseteq remote
          THEN [NextAccount(job[w], bad) EXCEPT !.owed = @ \union listed]
          ELSE [job[w] EXCEPT !.pc = "repair", !.listed = listed, !.bad = @ \/ bad,
                         !.batch = {t \in listed \ remote : Mappable(t)},
                         !.owed = @ \union listed]]
    BY Zenon DEF Compare
  <2> HIDE DEF listed, bad
  <2> QED BY <1>2, <2>1
<1>4. /\ listed \subseteq Txns /\ batch \subseteq Txns /\ bad \in BOOLEAN
      /\ \A t \in listed : t[1] = job[w].acct /\ src[t] \in ActiveKinds
  BY DEF Of, Active
<1>5. \A t \in job[w].owed : t[1] = job[w].acct => t \in listed
  BY <1>2 DEF JobInv, OwedActive, Of, Active, Job
<1>6. job[w].bad \/ \A t \in job[w].owed : t \in remote \/ Confusable(t) \/ t[1] = job[w].acct
  BY <1>1, <1>2 DEF JobInv, Answers, InHand, Of
<1> HIDE DEF listed, bad, batch
<1>7. owed \subseteq Txns BY <1>2, <1>4 DEF Job
<1>8. CASE listed \subseteq remote
  <2>1. 0 \in Places BY PushAssumption DEF Places
  <2>2. done \in Job BY <1>2, <1>4, <2>1, <1>7 DEF Job, NextAccount
  <2>3. done.pc = "next" /\ done.owed = owed /\ done.acct = NONE
        /\ done.todo = job[w].todo /\ done.bad = (job[w].bad \/ bad)
    BY <1>2 DEF Job, NextAccount
  <2>4. NONE \notin job[w].todo BY <1>2, PushAssumption DEF Job
  <2> HIDE DEF done
  <2>5. JobInv(done, remote', src')
    BY <1>1, <1>2, <1>4, <1>5, <1>6, <1>8, <2>3, <2>4
       DEF JobInv, Answers, OwedActive, Early, Begun, OwnStale, OwedBegun, InHand
  <2>6. job' = [job EXCEPT ![w] = done] BY <1>3, <1>8
  <2>7. job' \in [Pushers -> Job] /\ JobsInv' BY <1>1, <2>2, <2>5, <2>6, JobStep
  <2> QED BY <1>1, <2>7 DEF IInv, TypeOK
<1>9. CASE ~(listed \subseteq remote)
  <2>2. repairs \in Job BY <1>2, <1>4, <1>7 DEF Job
  <2>3. repairs.pc = "repair" /\ repairs.owed = owed /\ repairs.acct = job[w].acct
        /\ repairs.todo = job[w].todo /\ repairs.bad = (job[w].bad \/ bad)
        /\ repairs.listed = listed
    BY <1>2 DEF Job
  <2> HIDE DEF repairs
  <2>5. JobInv(repairs, remote', src')
    BY <1>1, <1>2, <1>4, <1>5, <1>6, <2>3
       DEF JobInv, Answers, OwedActive, Early, Begun, OwnStale, OwedBegun, InHand
  <2>6. job' = [job EXCEPT ![w] = repairs] BY <1>3, <1>9
  <2>7. job' \in [Pushers -> Job] /\ JobsInv' BY <1>1, <2>2, <2>5, <2>6, JobStep
  <2> QED BY <1>1, <2>7 DEF IInv, TypeOK
<1> QED BY <1>8, <1>9

\* Repair, whatever part of it the destination accepts.
LEMMA RepairInv ==
  ASSUME IInv, NEW w \in Pushers, NEW accepted, Repair(w, accepted)
  PROVE  IInv'
<1> DEFINE j == [job[w] EXCEPT !.pc = "check", !.batch = {}]
<1>1. job[w].pc = "repair" /\ UNCHANGED <<src, scope, cursor, runRow>>
      /\ remote' = remote \union accepted /\ accepted \subseteq job[w].batch
  BY DEF Repair, At
<1>2. job[w] \in Job /\ JobInv(job[w], remote, src) /\ job \in [Pushers -> Job]
      /\ remote \subseteq Txns BY Own
<1>3. job' = [job EXCEPT ![w] = j] BY <1>2 DEF Repair
<1>4. remote' \subseteq Txns BY <1>1, <1>2 DEF Job
<1>5. j \in Job BY <1>2 DEF Job
<1>6. j.pc = "check" /\ j.owed = job[w].owed /\ j.acct = job[w].acct /\ j.todo = job[w].todo
      /\ j.bad = job[w].bad /\ j.listed = job[w].listed
  BY <1>2 DEF Job
<1> HIDE DEF j
<1>7. JobInv(j, remote', src')
  BY <1>1, <1>2, <1>6 DEF JobInv, Answers, OwedActive, Early, Begun, OwnStale, OwedBegun, InHand
<1>8. job' \in [Pushers -> Job] /\ JobsInv' BY <1>1, <1>3, <1>5, <1>7, JobStep
<1>9. events' \in 0 .. MaxEvents BY EventCounted DEF Repair, IInv, TypeOK
<1> QED BY <1>1, <1>4, <1>8, <1>9 DEF IInv, TypeOK

\* Check: a finding is an error, and without one the account is done.
LEMMA CheckInv ==
  ASSUME IInv, NEW w \in Pushers, Check(w)
  PROVE  IInv'
<1> DEFINE b == \E t \in job[w].listed : ~Found(t)
<1>1. job[w].pc = "check" /\ UNCHANGED <<src, scope, remote, cursor, runRow, events>>
      /\ job' = [job EXCEPT ![w] = NextAccount(job[w], b)]
  BY Zenon DEF Check, At
<1>2. job[w] \in Job /\ JobInv(job[w], remote, src) BY Own
<1>3. b \in BOOLEAN OBVIOUS
<1>4. b \/ job[w].bad \/ \A t \in job[w].owed : t \in remote \/ Confusable(t)
  BY <1>1, <1>2 DEF JobInv, Answers, InHand, Found, Confusable
<1> HIDE DEF b
<1>5. NextAccount(job[w], b) \in Job /\ JobInv(NextAccount(job[w], b), remote, src)
  BY <1>2, <1>3, <1>4, Skipped
<1>6. JobInv(NextAccount(job[w], b), remote', src') BY <1>1, <1>5
<1>7. job' \in [Pushers -> Job] /\ JobsInv' BY <1>1, <1>5, <1>6, JobStep
<1> QED BY <1>1, <1>7 DEF IInv, TypeOK

\* AccountsDone.
LEMMA AccountsDoneInv ==
  ASSUME IInv, NEW w \in Pushers, AccountsDone(w)
  PROVE  IInv'
<1> DEFINE j == [job[w] EXCEPT !.pc = "final"]
<1>1. job[w].pc = "next" /\ UNCHANGED <<src, scope, remote, cursor, runRow, events>>
  BY DEF AccountsDone, At
<1>2. job[w] \in Job /\ JobInv(job[w], remote, src) /\ job \in [Pushers -> Job] BY Own
<1>3. job' = [job EXCEPT ![w] = j] BY <1>2 DEF AccountsDone
<1>4. j \in Job BY <1>2 DEF Job
<1>5. j.pc = "final" /\ j.owed = job[w].owed /\ j.acct = job[w].acct /\ j.todo = job[w].todo
      /\ j.bad = job[w].bad
  BY <1>2 DEF Job
<1> HIDE DEF j
<1>6. JobInv(j, remote', src')
  BY <1>1, <1>2, <1>5 DEF JobInv, Answers, OwedActive, Early, Begun, OwnStale, OwedBegun, InHand
<1>7. job' \in [Pushers -> Job] /\ JobsInv' BY <1>1, <1>3, <1>4, <1>6, JobStep
<1> QED BY <1>1, <1>7 DEF IInv, TypeOK

------------------------------------------------------------------------------
(* The ends of a push and its failures.                                    *)

\* The end of a push.
LEMMA PushEnds ==
  ASSUME IInv, NEW w \in Pushers, job' = [job EXCEPT ![w] = IdleJob],
         remote' = remote, src' = src
  PROVE  job' \in [Pushers -> Job] /\ JobsInv'
<1>1. remote \subseteq remote' OBVIOUS
<1> QED BY <1>1, IdleOK, JobStep

\* CompleteRun.
LEMMA CompleteRunInv ==
  ASSUME IInv, NEW w \in Pushers, CompleteRun(w)
  PROVE  IInv'
<1>1. UNCHANGED <<src, scope, remote, cursor, events>> /\ job' = [job EXCEPT ![w] = IdleJob]
  BY DEF CompleteRun
<1>2. job' \in [Pushers -> Job] /\ JobsInv' BY <1>1, PushEnds
<1>3. runRow' \in [Runs -> {"none", "running", "completed", "failed", "cancelled"}]
  BY DEF CompleteRun, IInv, TypeOK
<1> QED BY <1>1, <1>2, <1>3 DEF IInv, TypeOK

\* RunEndsEarly.
LEMMA RunEndsEarlyInv ==
  ASSUME IInv, NEW w \in Pushers, NEW status, RunEndsEarly(w, status)
  PROVE  IInv'
<1>1. UNCHANGED <<src, scope, remote, cursor>> /\ job' = [job EXCEPT ![w] = IdleJob]
  BY DEF RunEndsEarly
<1>2. job' \in [Pushers -> Job] /\ JobsInv' BY <1>1, PushEnds
<1>3. runRow' \in [Runs -> {"none", "running", "completed", "failed", "cancelled"}]
  BY DEF RunEndsEarly, IInv, TypeOK
<1>4. events' \in 0 .. MaxEvents BY EventCounted DEF RunEndsEarly
<1> QED BY <1>1, <1>2, <1>3, <1>4 DEF IInv, TypeOK

\* Crash.
LEMMA CrashInv ==
  ASSUME IInv, NEW w \in Pushers, Crash(w)
  PROVE  IInv'
<1>1. UNCHANGED <<src, scope, remote, cursor, runRow>> /\ job' = [job EXCEPT ![w] = IdleJob]
  BY DEF Crash
<1>2. job' \in [Pushers -> Job] /\ JobsInv' BY <1>1, PushEnds
<1>3. events' \in 0 .. MaxEvents BY EventCounted DEF Crash
<1> QED BY <1>1, <1>2, <1>3 DEF IInv, TypeOK

\* A failure costs the account and is not lost.
LEMMA AccountLost ==
  ASSUME IInv, NEW w \in Pushers, remote \subseteq remote', src' = src,
         job' = [job EXCEPT ![w] = NextAccount(job[w], TRUE)]
  PROVE  job' \in [Pushers -> Job] /\ JobsInv'
<1>1. job[w] \in Job /\ JobInv(job[w], remote, src) BY Own
<1>2. NextAccount(job[w], TRUE) \in Job /\ JobInv(NextAccount(job[w], TRUE), remote', src')
  BY <1>1, Skipped
<1> QED BY <1>2, JobStep

\* PushRejected, whatever part of the chunk was stored.
LEMMA PushRejectedInv ==
  ASSUME IInv, NEW w \in Pushers, NEW C \in SUBSET job[w].batch, NEW stored,
         PushRejected(w, C, stored)
  PROVE  IInv'
<1>1. UNCHANGED <<src, scope, cursor, runRow>>
      /\ job' = [job EXCEPT ![w] = NextAccount(job[w], TRUE)]
  BY DEF PushRejected
<1>2. remote' = remote \union stored /\ stored \subseteq job[w].batch BY DEF PushRejected
<1>3. job[w] \in Job /\ remote \subseteq Txns BY Own
<1>4. remote \subseteq remote' /\ remote' \subseteq Txns BY <1>2, <1>3 DEF Job
<1>5. job' \in [Pushers -> Job] /\ JobsInv' BY <1>1, <1>4, AccountLost
<1>6. events' \in 0 .. MaxEvents BY EventCounted DEF PushRejected
<1> QED BY <1>1, <1>4, <1>5, <1>6 DEF IInv, TypeOK

\* AccountFails, carried out or not.
LEMMA AccountFailsInv ==
  ASSUME IInv, NEW w \in Pushers, AccountFails(w)
  PROVE  IInv'
<1>1. UNCHANGED <<src, scope, cursor, runRow>> BY DEF AccountFails
<1>2. events' \in 0 .. MaxEvents BY EventCounted DEF AccountFails
<1>3. job[w] \in Job /\ remote \subseteq Txns /\ JobInv(job[w], remote, src) BY Own
<1>4. remote' \subseteq Txns /\ job' \in [Pushers -> Job] /\ JobsInv'
  <2>1. CASE remote' = remote /\ job' = [job EXCEPT ![w] = NextAccount(job[w], TRUE)]
    BY <1>1, <1>3, <2>1, AccountLost
  <2>2. CASE \E S \in SUBSET job[w].batch : Remove(w, S, NextAccount(job[w], TRUE))
    <3>1. PICK S \in SUBSET job[w].batch : Remove(w, S, NextAccount(job[w], TRUE)) BY <2>2
    <3>2. NextAccount(job[w], TRUE) \in Job /\ JobInv(NextAccount(job[w], TRUE), remote \ S, src)
      BY <1>3, Skipped
    <3> QED BY <1>1, <3>1, <3>2, RemoveStep
  <2>3. CASE /\ \E stored \in SUBSET job[w].batch : remote' = remote \union stored
             /\ job' = [job EXCEPT ![w] = NextAccount(job[w], TRUE)]
    <3>1. remote \subseteq remote' /\ remote' \subseteq Txns BY <1>3, <2>3 DEF Job
    <3> QED BY <1>1, <2>3, <3>1, AccountLost
  <2> QED BY <2>1, <2>2, <2>3 DEF AccountFails
<1> QED BY <1>1, <1>2, <1>4 DEF IInv, TypeOK

\* HoldingsFinding.
LEMMA HoldingsFindingInv ==
  ASSUME IInv, NEW w \in Pushers, HoldingsFinding(w)
  PROVE  IInv'
<1> DEFINE j == [job[w] EXCEPT !.bad = TRUE]
<1>1. UNCHANGED <<src, scope, remote, cursor, runRow>> BY DEF HoldingsFinding
<1>2. job[w] \in Job /\ JobInv(job[w], remote, src) /\ job \in [Pushers -> Job] BY Own
<1>3. job' = [job EXCEPT ![w] = j] BY <1>2 DEF HoldingsFinding
<1>4. j \in Job BY <1>2 DEF Job
<1>5. j.pc = job[w].pc /\ j.owed = job[w].owed /\ j.acct = job[w].acct /\ j.todo = job[w].todo
      /\ j.batch = job[w].batch /\ j.listed = job[w].listed /\ j.bad
  BY <1>2 DEF Job
<1> HIDE DEF j
<1>6. JobInv(j, remote', src')
  BY <1>1, <1>2, <1>5 DEF JobInv, Answers, OwedActive, Early, Begun, OwnStale, OwedBegun, InHand
<1>7. job' \in [Pushers -> Job] /\ JobsInv' BY <1>1, <1>3, <1>4, <1>6, JobStep
<1>8. events' \in 0 .. MaxEvents BY EventCounted DEF HoldingsFinding
<1> QED BY <1>1, <1>7, <1>8 DEF IInv, TypeOK

------------------------------------------------------------------------------
(* Around the push.                                                        *)

\* SourceChanges: for a withdrawn transaction no push answers any more.
LEMMA SourceChangesInv ==
  ASSUME IInv, NEW t \in Txns, NEW kind \in Kinds, SourceChanges(t, kind)
  PROVE  IInv'
<1>1. UNCHANGED <<scope, remote, cursor, runRow>> /\ src' = [src EXCEPT ![t] = kind]
      /\ job' = [w \in Pushers |-> IF kind \in ActiveKinds THEN job[w]
                                   ELSE [job[w] EXCEPT !.owed = @ \ {t}]]
  BY Zenon DEF SourceChanges
<1>2. events' \in 0 .. MaxEvents BY EventCounted DEF SourceChanges
<1>3. src' \in [Txns -> Kinds] BY <1>1 DEF IInv, TypeOK
<1>4. ASSUME NEW w \in Pushers PROVE job'[w] \in Job /\ JobInv(job'[w], remote', src')
  <2>1. job[w] \in Job /\ JobInv(job[w], remote, src) BY Own
  <2> DEFINE k == job'[w]
  <2>2. CASE kind \in ActiveKinds
    <3>1. k = job[w] BY <1>1, <2>2
    <3>2. OwedActive(k, src') BY <1>1, <1>3, <2>1, <2>2, <3>1 DEF JobInv, OwedActive, Job, IInv, TypeOK
    <3> QED BY <1>1, <2>1, <3>1, <3>2 DEF JobInv
  <2>3. CASE kind \notin ActiveKinds
    <3>1. job'[w] = [job[w] EXCEPT !.owed = @ \ {t}] BY <1>1, <2>3
    <3>2. remote \ {t} \subseteq remote OBVIOUS
    <3>3. [job[w] EXCEPT !.owed = @ \ {t}] \in Job
          /\ JobInv([job[w] EXCEPT !.owed = @ \ {t}], remote, src)
      BY <2>1, <3>2, Relieved
    <3>4. k.owed = job[w].owed \ {t} BY <2>1, <3>1 DEF Job
    <3>5. OwedActive(k, src')
      BY <1>1, <2>1, <3>4 DEF JobInv, OwedActive, Job, IInv, TypeOK
    <3> QED BY <1>1, <3>1, <3>3, <3>5 DEF JobInv
  <2> QED BY <2>2, <2>3
<1>5. job' \in [Pushers -> Job] BY <1>1, <1>4, Zenon
<1> QED BY <1>1, <1>2, <1>3, <1>4, <1>5 DEF IInv, TypeOK, JobsInv

\* SelectAccounts.
LEMMA SelectAccountsInv ==
  ASSUME IInv, NEW S \in SUBSET Accounts, SelectAccounts(S)
  PROVE  IInv'
<1>1. scope' = S /\ UNCHANGED <<src, remote, cursor, runRow, job>> BY DEF SelectAccounts
<1>2. events' \in 0 .. MaxEvents BY EventCounted DEF SelectAccounts
<1>3. JobsInv' BY <1>1 DEF IInv, JobsInv
<1> QED BY <1>1, <1>2, <1>3 DEF IInv, TypeOK

\* ManualDelete: no push answers for what the user deletes.
LEMMA ManualDeleteInv ==
  ASSUME IInv, NEW t \in Txns, ManualDelete(t)
  PROVE  IInv'
<1>1. Remove(NONE, {t}, IdleJob) /\ UNCHANGED <<src, scope, cursor, runRow>> BY DEF ManualDelete
<1>2. events' \in 0 .. MaxEvents BY EventCounted DEF ManualDelete
<1>3. remote' \subseteq Txns /\ job' \in [Pushers -> Job] /\ JobsInv'
  BY <1>1, IdleOK, RemoveStep
<1> QED BY <1>1, <1>2, <1>3 DEF IInv, TypeOK

------------------------------------------------------------------------------
(* The theorems.                                                           *)

\* Every behaviour keeps the inductive invariant.
LEMMA Inductive == Spec => []IInv
<1>1. Init => IInv
  <2> SUFFICES ASSUME Init PROVE IInv OBVIOUS
  <2>1. 0 \in Places BY PushAssumption DEF Places
  <2>2. 0 \in 0 .. MaxEvents BY PushAssumption
  <2>3. TypeOK BY <2>1, <2>2, IdleOK DEF Init, TypeOK
  <2>4. JobsInv BY IdleOK DEF Init, JobsInv
  <2> QED BY <2>3, <2>4 DEF IInv
<1>2. IInv /\ [Next]_vars => IInv'
  <2> SUFFICES ASSUME IInv, [Next]_vars PROVE IInv' OBVIOUS
  <2>1. ASSUME NEW w \in Pushers, NEW mode \in Modes, Start(w, mode) PROVE IInv'
    BY <2>1, StartInv
  <2>2. ASSUME NEW w \in Pushers, PushStep(w) PROVE IInv'
    BY <2>2, PruneInv, NextAccountBeginsInv, ListStaleInv, DeleteStaleInv, FetchAndMapInv,
       PushChunkInv, UpdateCursorInv, CompareInv, RepairInv, CheckInv, AccountsDoneInv,
       CompleteRunInv DEF PushStep
  <2>3. ASSUME NEW w \in Pushers, Faults(w) PROVE IInv'
    <3>1. CASE \E C \in SUBSET job[w].batch : \E S \in SUBSET C :
                 (S # C /\ PushChunk(w, C, S)) \/ PushRejected(w, C, S)
      BY <3>1, PushChunkInv, PushRejectedInv, Zenon
    <3>2. CASE ~(\E C \in SUBSET job[w].batch : \E S \in SUBSET C :
                 (S # C /\ PushChunk(w, C, S)) \/ PushRejected(w, C, S))
      BY <2>3, <3>2, AccountFailsInv, HoldingsFindingInv, CrashInv, RepairInv,
         RunEndsEarlyInv, Zenon DEF Faults
    <3> QED BY <3>1, <3>2
  <2>4. ASSUME NEW t \in Txns, NEW kind \in Kinds, SourceChanges(t, kind) PROVE IInv'
    BY <2>4, SourceChangesInv
  <2>5. ASSUME NEW S \in SUBSET Accounts, SelectAccounts(S) PROVE IInv'
    BY <2>5, SelectAccountsInv
  <2>6. ASSUME NEW t \in Txns, ManualDelete(t) PROVE IInv'
    BY <2>6, ManualDeleteInv
  <2>7. CASE UNCHANGED vars
    BY <2>7 DEF vars, IInv, TypeOK, JobsInv
  <2> QED BY <2>1, <2>2, <2>3, <2>4, <2>5, <2>6, <2>7 DEF Next
<1> QED BY <1>1, <1>2, PTL DEF Spec

\* The variables keep their types: the cursor of an account is always one of
\* its positions, whatever the mapping loop ended on.
THEOREM TypeCorrect == Spec => []TypeOK
<1>1. IInv => TypeOK BY DEF IInv
<1> QED BY <1>1, Inductive, PTL

\* push_to_wealthfolio() records a run as completed only when all it fetched
\* is at the destination, save what somebody took back meanwhile.
THEOREM CompletedDelivered == Spec => []CompletedIsDelivered
<1>1. IInv => CompletedIsDelivered
  BY DEF IInv, JobsInv, JobInv, Answers, InHand, CompletedIsDelivered
<1> QED BY <1>1, Inductive, PTL

==============================================================================
