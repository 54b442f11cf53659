--------------------------- MODULE JobJournalProofs ---------------------------
(***************************************************************************)
(* Theorems about the execution-job journal, for any number of jobs,       *)
(* handler goroutines, program starts and clock ticks.                     *)
(***************************************************************************)
EXTENDS JobJournal, FiniteSetTheorems, TLAPS

-------------------------------------------------------------------------------
(* What cleanupLocked and the journal updates do to the records. *)

\* An absent record, and a journal without records, are well typed.
LEMMA NoRecordType == NoRecord \in Record /\ Empty \in [JobIds -> Record]
  BY DEF NoRecord, Record, Empty, KeyOrNone

\* So is the job of an idle handler.
LEMMA IdleType == Idle \in Job
  BY JobIdsAssumption DEF Idle, Job, KeyOrNone

\* cleanupLocked changes no record that it keeps.
LEMMA CleanUpKeepsOrDrops ==
  ASSUME NEW r \in [JobIds -> Record], NEW c \in CleanedUp(r)
  PROVE  /\ c \in [JobIds -> Record]
         /\ \A j \in JobIds : c[j] = r[j] \/ c[j] = NoRecord
  BY NoRecordType DEF CleanedUp

\* What a cleanup forgets is a set of identities.
LEMMA ForgetType ==
  ASSUME TypeOK, NEW r \in [JobIds -> Record], NEW c, Forget(r, c)
  PROVE  forgotten' \subseteq Identity /\ evicted' \subseteq Identity
<1>1. \A j \in JobIds : IdentityIn(r, j) \in Identity
  BY DEF IdentityIn, Identity, Record
<1>2. Dropped(r, c) \subseteq JobIds
  BY DEF Dropped, Present
<1> QED
  BY <1>1, <1>2 DEF Forget, TypeOK

\* saveLocked writes records, or leaves those that are there.
LEMMA SaveType ==
  ASSUME TypeOK, NEW r \in [JobIds -> Record], Save(r)
  PROVE  disk' \in [JobIds -> Record]
  BY DEF Save, TypeOK

\* A journal update keeps key and generation of every record.
LEMMA MarkType ==
  ASSUME TypeOK, NEW h \in Handlers, NEW s \in Terminal \cup Active, Mark(h, s)
  PROVE  /\ records' \in [JobIds -> Record] /\ disk' \in [JobIds -> Record]
         /\ \A j \in JobIds : records'[j].key = records[j].key
         /\ Present(records') = Present(records)
<1> DEFINE new == [records EXCEPT ![job[h].id].state = s,
                                  ![job[h].id].updated = now]
<1>1. job[h].id \in JobIds /\ now \in Nat
  BY BoundAssumption DEF TypeOK, Job
<1>2. new \in [JobIds -> Record]
  <2> DEFINE old == records[job[h].id]
  <2>1. records \in [JobIds -> Record] /\ old \in Record
    BY <1>1 DEF TypeOK
  <2>2. [old EXCEPT !.state = s, !.updated = now] \in Record
    BY <1>1, <2>1 DEF Record
  <2>3. new = [records EXCEPT ![job[h].id] = [old EXCEPT !.state = s, !.updated = now]]
    BY <1>1, <2>1
  <2> HIDE DEF old, new
  <2> QED
    BY <1>1, <2>1, <2>2, <2>3
<1>3. CASE UNCHANGED journal
  BY <1>3 DEF journal, TypeOK, Present
<1>4. CASE job[h].id \in Present(records) /\ records' = new /\ Save(records')
  <2>1. disk' \in [JobIds -> Record]
    BY <1>2, <1>4, SaveType
  <2>2. \A j \in JobIds : /\ new[j].key = records[j].key
                          /\ new[j].state = IF j = job[h].id THEN s ELSE records[j].state
    BY <1>1 DEF TypeOK, Record
  <2>3. s # "absent" /\ records[job[h].id].state # "absent"
    BY <1>4 DEF Present, Terminal, Active
  <2>4. \A j \in JobIds : new[j].state # "absent" <=> records[j].state # "absent"
    BY <2>2, <2>3
  <2>5. Present(new) = Present(records)
    BY <2>4 DEF Present
  <2> QED
    BY <1>2, <1>4, <2>1, <2>2, <2>5
<1> QED
  BY <1>3, <1>4 DEF Mark

-------------------------------------------------------------------------------
(* Type correctness *)

\* Every variable keeps its type, and a stopped program has neither records in
\* memory nor handlers.
THEOREM TypeCorrect == Spec => []TypeOK
<1>1. Init => TypeOK
  <2> SUFFICES ASSUME Init PROVE TypeOK
    OBVIOUS
  <2>1. records \in [JobIds -> Record] /\ disk \in [JobIds -> Record]
    BY NoRecordType DEF Init
  <2>2. job \in [Handlers -> Job]
    BY IdleType DEF Init
  <2>3. now \in 0..MaxTime /\ generation \in 0..MaxGeneration
    BY BoundAssumption DEF Init
  <2> QED
    BY <2>1, <2>2, <2>3 DEF Init, TypeOK, Busy
<1>2. TypeOK /\ [Next]_vars => TypeOK'
  <2> SUFFICES ASSUME TypeOK, [Next]_vars PROVE TypeOK'
    OBVIOUS
  <2>1. CASE NewJournal
    <3> DEFINE loaded == IF loadFailed' THEN Empty ELSE disk
    <3>1. PICK c \in CleanedUp(loaded) : records' = c /\ Save(c) /\ Forget(loaded, c)
      BY <2>1 DEF NewJournal
    <3>2. loaded \in [JobIds -> Record]
      BY NoRecordType DEF TypeOK
    <3>3. c \in [JobIds -> Record]
      BY <3>2, CleanUpKeepsOrDrops
    <3>4. disk' \in [JobIds -> Record]
      BY <3>1, <3>3, SaveType
    <3>5. forgotten' \subseteq Identity /\ evicted' \subseteq Identity
      BY <3>1, <3>2, ForgetType
    <3>6. loadFailed' \in BOOLEAN
      BY <2>1, OptionsAssumption DEF NewJournal
    <3>7. generation' \in 0..MaxGeneration
      BY <2>1, BoundAssumption DEF NewJournal, TypeOK
    <3> QED
      BY <2>1, <3>1, <3>3, <3>4, <3>5, <3>6, <3>7 DEF NewJournal, TypeOK, handlers, Busy
  <2>2. CASE Crash
    <3>1. records' \in [JobIds -> Record] /\ job' \in [Handlers -> Job]
      BY <2>2, NoRecordType, IdleType DEF Crash
    <3> QED
      BY <2>2, <3>1 DEF Crash, TypeOK, history, Busy
  <2>3. ASSUME NEW h \in Handlers, NEW e \in Envelopes, Accept(h, e)
        PROVE  TypeOK'
    <3>1. PICK c \in CleanedUp(records) :
            /\ records' = [c EXCEPT ![e.id] =
                 [key |-> e.key, generation |-> generation,
                  state |-> "accepted", updated |-> now]]
            /\ Save(records')
            /\ Forget(records, c)
      BY <2>3 DEF Accept
    <3>2. c \in [JobIds -> Record]
      BY CleanUpKeepsOrDrops DEF TypeOK
    <3>3. e \in Envelope
      BY EnvelopeAssumption
    <3>4. [key |-> e.key, generation |-> generation,
           state |-> "accepted", updated |-> now] \in Record
      BY <3>3, BoundAssumption DEF TypeOK, Record, Envelope, Active
    <3>5. records' \in [JobIds -> Record]
      BY <3>1, <3>2, <3>4
    <3>6. disk' \in [JobIds -> Record]
      BY <3>1, <3>5, SaveType
    <3>7. forgotten' \subseteq Identity /\ evicted' \subseteq Identity
      BY <3>1, ForgetType DEF TypeOK
    <3>8. job' \in [Handlers -> Job]
      BY <2>3, <3>3 DEF Accept, TypeOK, Job, Envelope
    <3> QED
      BY <2>3, <3>5, <3>6, <3>7, <3>8 DEF Accept, TypeOK, Busy
  <2>4. ASSUME NEW c \in CleanedUp(records), up, records' = c, Forget(records, c),
               UNCHANGED <<up, now, generation, loadFailed, disk, handlers, executed, reported>>
        PROVE  TypeOK'
    <3>1. c \in [JobIds -> Record]
      BY CleanUpKeepsOrDrops DEF TypeOK
    <3>2. forgotten' \subseteq Identity /\ evicted' \subseteq Identity
      BY <2>4, ForgetType DEF TypeOK
    <3> QED
      BY <2>4, <3>1, <3>2 DEF TypeOK, handlers, Busy
  <2>5. ASSUME NEW h \in Handlers, MarkProgress(h)
        PROVE  TypeOK'
    <3>1. records' \in [JobIds -> Record] /\ disk' \in [JobIds -> Record]
      BY <2>5, MarkType DEF MarkProgress, Active
    <3> QED
      BY <2>5, <3>1 DEF MarkProgress, TypeOK, history, Busy
  <2>6. ASSUME NEW h \in Handlers, Execute(h)
        PROVE  TypeOK'
    <3>1. IdentityOf(h) \in Identity
      BY DEF TypeOK, IdentityOf, Identity, Job
    <3> QED
      BY <2>6, <3>1 DEF Execute, TypeOK, journal, Busy
  <2>7. ASSUME NEW h \in Handlers, MarkResult(h)
        PROVE  TypeOK'
    <3>1. records' \in [JobIds -> Record] /\ disk' \in [JobIds -> Record]
      BY <2>7, MarkType DEF MarkResult
    <3>2. IdentityOf(h) \in Identity
      BY DEF TypeOK, IdentityOf, Identity, Job
    <3> QED
      BY <2>7, <3>1, <3>2, IdleType DEF MarkResult, FinishJob, TypeOK, Busy
  <2>8. ASSUME NEW id \in JobIds, NEW key \in KeyOrNone, Cancel(id, key)
        PROVE  TypeOK'
    <3>1. PICK j \in JobIds : records' = [records EXCEPT ![j].updated = now]
      BY <2>8 DEF Cancel, Found, Present
    <3>2. records' \in [JobIds -> Record]
      <4>1. now \in Nat /\ records[j] \in Record
        BY BoundAssumption DEF TypeOK
      <4>2. [records[j] EXCEPT !.updated = now] \in Record
        BY <4>1 DEF Record
      <4> QED
        BY <3>1, <4>2 DEF TypeOK
    <3>3. disk' \in [JobIds -> Record]
      BY <2>8, <3>2, SaveType DEF Cancel
    <3> QED
      BY <2>8, <3>2, <3>3 DEF Cancel, TypeOK, handlers, history, Busy
  <2>9. CASE Tick
    BY <2>9, BoundAssumption DEF Tick, TypeOK, journal, handlers, history, Busy
  <2>10. CASE UNCHANGED vars
    BY <2>10 DEF vars, TypeOK, journal, handlers, history, Busy
  <2>11. ASSUME NEW e \in Envelopes, Refuse(e)
         PROVE  TypeOK'
    BY <2>4, <2>11 DEF Refuse
  <2>12. CASE Reconcile
    BY <2>4, <2>12 DEF Reconcile, CleanUp
  <2> QED
    BY <2>1, <2>2, <2>3, <2>5, <2>6, <2>7, <2>8, <2>9, <2>10, <2>11, <2>12 DEF Next
<1>3. QED
  BY <1>1, <1>2, PTL DEF Spec

-------------------------------------------------------------------------------
(* At-most-once execution *)

BusyHandlers == {h \in Handlers : Busy(h)}

\* The records hold the identity p.
Known(r, p) == p.id \in Present(r) /\ r[p.id].key = p.key

\* With a journal file that can be read and written, every job that a handler
\* works on or has executed is recorded, in memory and on disk, until cleanup
\* drops its record.
Recorded ==
  /\ \A p \in executed \ forgotten : Known(disk, p) /\ (up => Known(records, p))
  /\ \A h \in BusyHandlers :
       \/ IdentityOf(h) \in forgotten
       \/ Known(disk, IdentityOf(h)) /\ Known(records, IdentityOf(h))

Claimed(h) == executed \cup {IdentityOf(g) : g \in BusyHandlers \ {h}}

NoRival(h) ==
  \A p \in Claimed(h) :
    SameJob(p, IdentityOf(h)) => p \in forgotten \/ IdentityOf(h) \in forgotten

OnceInv ==
  /\ Recorded
  /\ \A h \in Handlers : pc[h] \in {"accepted", "running"} => NoRival(h)

\* An identity the records hold survives a cleanup or is forgotten by it.
LEMMA KnownOrForgotten ==
  ASSUME NEW r \in [JobIds -> Record], NEW c \in CleanedUp(r), Forget(r, c),
         NEW p \in Identity, Known(r, p)
  PROVE  Known(c, p) \/ p \in forgotten'
<1>1. \A j \in JobIds : c[j] = r[j] \/ c[j] = NoRecord
  BY CleanUpKeepsOrDrops
<1>2. CASE p.id \in Present(c)
  BY <1>1, <1>2 DEF Known, Present, NoRecord, Identity
<1>3. CASE p.id \in Dropped(r, c)
  <2>1. IdentityIn(r, p.id) = p
    BY DEF Known, IdentityIn, Identity
  <2> QED
    BY <1>3, <2>1 DEF Forget
<1> QED
  BY <1>2, <1>3 DEF Known, Dropped

\* A journal update leaves every identity where it was.
LEMMA KnownAfterMark ==
  ASSUME TypeOK, Reliable, NEW h \in Handlers, NEW s \in Terminal \cup Active, Mark(h, s),
         NEW p \in Identity, Known(records, p), Known(disk, p)
  PROVE  Known(records', p) /\ Known(disk', p)
<1>1. Known(records', p)
  BY MarkType DEF Known, Identity
<1>2. disk' = records' \/ disk' = disk
  BY DEF Mark, Save, journal
<1> QED
  BY <1>1, <1>2

\* Handlers hold, and have executed, jobs with an identity.
LEMMA IdentitiesTyped ==
  ASSUME TypeOK
  PROVE  /\ \A h \in Handlers : IdentityOf(h) \in Identity
         /\ executed \subseteq Identity
  BY DEF TypeOK, IdentityOf, Identity, Job

\* Nothing that Found misses is the same job as an identity the records hold.
LEMMA FoundMatches ==
  ASSUME NEW c, NEW p \in Identity, Known(c, p), NEW q \in Identity, SameJob(p, q)
  PROVE  Found(c, q.id, q.key) # {}
<1>1. CASE q.id \in Present(c)
  BY <1>1 DEF Found
<1>2. CASE q.id \notin Present(c)
  <2>1. p.id # q.id /\ p.key = q.key /\ q.key # NoKey
    BY <1>2 DEF SameJob, Known
  <2>2. p.id \in {j \in Present(c) : q.key # NoKey /\ c[j].key = q.key}
    BY <2>1 DEF Known
  <2> QED
    BY <1>2, <2>2 DEF Found
<1> QED
  BY <1>1, <1>2

\* Executed and held jobs stay recorded, and have no rival, over a reliable file.
THEOREM OnceInvariant == ASSUME Reliable PROVE Spec => []OnceInv
<1>1. Init => OnceInv
  BY DEF Init, OnceInv, Recorded, BusyHandlers, Busy
<1>2. TypeOK /\ OnceInv /\ [Next]_vars => OnceInv'
  <2> SUFFICES ASSUME TypeOK, OnceInv, [Next]_vars PROVE OnceInv'
    OBVIOUS
  <2> USE IdentitiesTyped
  <2>1. CASE NewJournal
    <3>0. loadFailed' = FALSE
      BY <2>1, OptionsAssumption DEF NewJournal, Reliable
    <3>1. PICK c \in CleanedUp(disk) : records' = c /\ Save(c) /\ Forget(disk, c)
      BY <2>1, <3>0 DEF NewJournal
    <3>2. disk' = c
      BY <3>1 DEF Save, Reliable
    <3>3. \A p \in executed \ forgotten' : Known(c, p)
      BY <3>1, KnownOrForgotten DEF OnceInv, Recorded, TypeOK, Forget
    <3>4. BusyHandlers' = {}
      BY <2>1 DEF NewJournal, TypeOK, handlers, BusyHandlers, Busy
    <3>5. \A h \in Handlers : pc'[h] = "idle"
      BY <3>4 DEF BusyHandlers, Busy
    <3> QED
      BY <2>1, <3>1, <3>2, <3>3, <3>4, <3>5 DEF NewJournal, OnceInv, Recorded
  <2>2. CASE Crash
    BY <2>2 DEF Crash, history, OnceInv, Recorded, BusyHandlers, Busy
  <2>3. ASSUME NEW h \in Handlers, NEW e \in Envelopes, Accept(h, e)
        PROVE  OnceInv'
    <3> DEFINE q == [id |-> e.id, key |-> e.key]
    <3>1. PICK c \in CleanedUp(records) :
            /\ AcceptAnswer(c, e) = "accepted"
            /\ records' = [c EXCEPT ![e.id] =
                 [key |-> e.key, generation |-> generation,
                  state |-> "accepted", updated |-> now]]
            /\ Save(records')
            /\ Forget(records, c)
      BY <2>3 DEF Accept
    <3>2. /\ e.id \in JobIds /\ q \in Identity
          /\ c \in [JobIds -> Record]
      BY EnvelopeAssumption, CleanUpKeepsOrDrops DEF Envelope, Identity, TypeOK
    <3>3. Found(c, e.id, e.key) = {}
      BY <3>1 DEF AcceptAnswer
    <3>4. disk' = records'
      BY <3>1 DEF Save, Reliable
    <3>5. e.id \notin Present(c)
      BY <3>3 DEF Found
    <3>6. Known(records', q)
      BY <3>1, <3>2 DEF Known, Present
    <3>7. ASSUME NEW p \in Identity, Known(c, p) PROVE Known(records', p) /\ ~SameJob(p, q)
      <4>1. p.id # e.id
        BY <3>5, <3>7 DEF Known
      <4>2. Known(records', p)
        BY <4>1, <3>1, <3>2, <3>7 DEF Known, Present
      <4> QED
        BY <4>2, <3>2, <3>3, <3>7, FoundMatches
    <3>8. forgotten \subseteq forgotten' /\ executed' = executed /\ up /\ up'
      BY <2>3, <3>1 DEF Accept, Forget
    <3>9. \A p \in executed \ forgotten' : Known(c, p)
      BY <3>1, <3>8, KnownOrForgotten DEF OnceInv, Recorded, TypeOK
    <3>10. \A g \in BusyHandlers : IdentityOf(g) \in forgotten' \/ Known(c, IdentityOf(g))
      BY <3>1, <3>8, KnownOrForgotten DEF OnceInv, Recorded, TypeOK, BusyHandlers
    <3>11. /\ h \notin BusyHandlers
           /\ BusyHandlers' = BusyHandlers \cup {h}
           /\ IdentityOf(h)' = q
           /\ \A g \in BusyHandlers : IdentityOf(g)' = IdentityOf(g) /\ pc'[g] = pc[g]
      BY <2>3 DEF Accept, BusyHandlers, Busy, IdentityOf, TypeOK
    <3>12. Recorded'
      BY <3>4, <3>6, <3>7, <3>8, <3>9, <3>10, <3>11 DEF Recorded, BusyHandlers
    <3>13. NoRival(h)'
      BY <3>7, <3>8, <3>9, <3>10, <3>11 DEF NoRival, Claimed, BusyHandlers
    <3>14. ASSUME NEW g \in BusyHandlers, pc[g] \in {"accepted", "running"} PROVE NoRival(g)'
      <4>1. IdentityOf(g) \in forgotten' \/ ~SameJob(q, IdentityOf(g))
        BY <3>2, <3>7, <3>10 DEF SameJob, BusyHandlers
      <4>2. Claimed(g)' = Claimed(g) \cup {q}
        BY <3>8, <3>11 DEF Claimed
      <4>3. NoRival(g)
        BY <3>14 DEF OnceInv, BusyHandlers
      <4> QED
        BY <4>1, <4>2, <4>3, <3>8, <3>11 DEF NoRival
    <3> QED
      BY <3>11, <3>12, <3>13, <3>14 DEF OnceInv, BusyHandlers, Busy
  <2>4. ASSUME NEW c \in CleanedUp(records), up, records' = c, Forget(records, c),
               UNCHANGED <<up, now, generation, loadFailed, disk, handlers, executed, reported>>
        PROVE  OnceInv'
    <3>1. forgotten \subseteq forgotten'
      BY <2>4 DEF Forget
    <3>2. \A p \in Identity : Known(records, p) => Known(c, p) \/ p \in forgotten'
      BY <2>4, KnownOrForgotten DEF TypeOK
    <3>3. /\ BusyHandlers' = BusyHandlers
          /\ \A g \in Handlers : IdentityOf(g)' = IdentityOf(g) /\ Claimed(g)' = Claimed(g)
      BY <2>4 DEF BusyHandlers, Busy, IdentityOf, handlers, Claimed
    <3>4. Recorded'
      BY <2>4, <3>1, <3>2, <3>3 DEF OnceInv, Recorded, BusyHandlers
    <3> QED
      BY <2>4, <3>1, <3>3, <3>4 DEF OnceInv, NoRival, handlers
  <2>5. ASSUME NEW h \in Handlers, NEW s \in Terminal \cup Active, Mark(h, s),
               \/ /\ pc[h] = "accepted" /\ pc' = [pc EXCEPT ![h] = "running"]
                  /\ job' = job
               \/ /\ pc[h] = "executed" /\ pc' = [pc EXCEPT ![h] = "idle"]
                  /\ job' = [job EXCEPT ![h] = Idle],
               UNCHANGED <<up, executed, forgotten>>
        PROVE  OnceInv'
    <3>1. \A p \in Identity : Known(records, p) /\ Known(disk, p)
                                => Known(records', p) /\ Known(disk', p)
      BY <2>5, KnownAfterMark
    <3>2. BusyHandlers' \subseteq BusyHandlers
      BY <2>5 DEF BusyHandlers, Busy, TypeOK
    <3>3. \A g \in BusyHandlers' : IdentityOf(g)' = IdentityOf(g)
      BY <2>5 DEF BusyHandlers, Busy, IdentityOf, TypeOK
    <3>4. \A g \in Handlers : Claimed(g)' \subseteq Claimed(g)
      BY <2>5, <3>2, <3>3 DEF Claimed
    <3>5. \A g \in Handlers : pc'[g] \in {"accepted", "running"} =>
             pc[g] \in {"accepted", "running"} /\ g \in BusyHandlers'
      BY <2>5 DEF TypeOK, BusyHandlers, Busy
    <3>6. up
      BY <2>5 DEF TypeOK, Busy
    <3>7. Recorded'
      BY <2>5, <3>1, <3>2, <3>3, <3>6 DEF OnceInv, Recorded, BusyHandlers
    <3> QED
      BY <2>5, <3>3, <3>4, <3>5, <3>7 DEF OnceInv, NoRival
  <2>6. ASSUME NEW h \in Handlers, Execute(h)
        PROVE  OnceInv'
    <3>1. /\ BusyHandlers' = BusyHandlers /\ h \in BusyHandlers
          /\ \A g \in Handlers : IdentityOf(g)' = IdentityOf(g)
          /\ \A g \in Handlers : pc'[g] \in {"accepted", "running"} =>
                pc[g] \in {"accepted", "running"} /\ g # h
      BY <2>6 DEF Execute, TypeOK, BusyHandlers, Busy, IdentityOf
    <3>2. \A g \in Handlers \ {h} : Claimed(g)' = Claimed(g)
      <4>1. \A g \in Handlers \ {h} : IdentityOf(h) \in Claimed(g)
        BY <3>1 DEF Claimed
      <4>2. executed' = executed \cup {IdentityOf(h)}
        BY <2>6 DEF Execute
      <4>3. \A g \in Handlers : {IdentityOf(f) : f \in BusyHandlers \ {g}}'
                                  = {IdentityOf(f) : f \in BusyHandlers \ {g}}
        BY <3>1 DEF BusyHandlers
      <4> QED
        BY <4>1, <4>2, <4>3 DEF Claimed
    <3>3. Recorded'
      BY <2>6, <3>1 DEF Execute, OnceInv, Recorded, journal, BusyHandlers
    <3> QED
      BY <2>6, <3>1, <3>2, <3>3 DEF Execute, OnceInv, NoRival
  <2>7. ASSUME NEW id \in JobIds, NEW key \in KeyOrNone, Cancel(id, key)
        PROVE  OnceInv'
    <3>1. PICK j \in JobIds : records' = [records EXCEPT ![j].updated = now]
      BY <2>7 DEF Cancel, Found, Present
    <3>2. \A p \in Identity : Known(records, p) => Known(records', p)
      BY <3>1 DEF Known, Present, Identity, TypeOK, Record
    <3>3. disk' = records'
      BY <2>7 DEF Cancel, Save, Reliable
    <3>4. /\ BusyHandlers' = BusyHandlers
          /\ \A g \in Handlers : IdentityOf(g)' = IdentityOf(g) /\ Claimed(g)' = Claimed(g)
      BY <2>7 DEF Cancel, BusyHandlers, Busy, IdentityOf, handlers, history, Claimed
    <3> QED
      BY <2>7, <3>2, <3>3, <3>4 DEF Cancel, OnceInv, Recorded, NoRival, handlers, history,
                                    BusyHandlers
  <2>8. CASE Tick \/ UNCHANGED vars
    BY <2>8 DEF Tick, vars, OnceInv, Recorded, NoRival, Claimed, BusyHandlers, Busy,
                IdentityOf, journal, handlers, history, Known, Present
  <2>9. ASSUME NEW e \in Envelopes, Refuse(e)
        PROVE  OnceInv'
    BY <2>4, <2>9 DEF Refuse
  <2>10. CASE Reconcile
    BY <2>4, <2>10 DEF Reconcile, CleanUp
  <2>11. ASSUME NEW h \in Handlers, MarkProgress(h)
         PROVE  OnceInv'
    BY <2>5, <2>11 DEF MarkProgress, history, Active
  <2>12. ASSUME NEW h \in Handlers, MarkResult(h)
         PROVE  OnceInv'
    BY <2>5, <2>12 DEF MarkResult, FinishJob
  <2> QED
    BY <2>1, <2>2, <2>3, <2>6, <2>7, <2>8, <2>9, <2>10, <2>11, <2>12 DEF Next
<1>3. QED
  BY <1>1, <1>2, TypeCorrect, PTL DEF Spec

\* No job is executed twice, as long as its record is kept and the journal file
\* can be read and written: for any number of redeliveries, crashes and handlers.
THEOREM JobsRunAtMostOnce == Spec => []AtMostOnce
<1>1. CASE Reliable
  <2>1. OnceInv => AtMostOnce
    BY DEF OnceInv, NoRival, Claimed, BusyHandlers, AtMostOnce
  <2> QED
    BY <1>1, <2>1, OnceInvariant, PTL
<1>2. CASE ~Reliable
  <2>1. AtMostOnce
    BY <1>2 DEF AtMostOnce
  <2> QED
    BY <2>1, PTL
<1> QED
  BY <1>1, <1>2

-------------------------------------------------------------------------------
(* The capacity bound *)

\* While no active record was dropped, every handler holds an active record of
\* its own, and the active records, also those a restart would load, are at
\* most MaxActive.
CapacityInv ==
  evicted = {} =>
    /\ Cardinality(ActiveJobs(records)) <= MaxActive
    /\ Cardinality(ActiveJobs(disk)) <= MaxActive
    /\ \A h \in BusyHandlers : job[h].id \in ActiveJobs(records)
    /\ \A g, h \in BusyHandlers : job[g].id = job[h].id => g = h

\* The active jobs can be counted.
LEMMA ActiveFinite ==
  ASSUME NEW r
  PROVE  /\ IsFiniteSet(ActiveJobs(r))
         /\ Cardinality(ActiveJobs(r)) \in Nat
<1>1. ActiveJobs(r) \in SUBSET JobIds
  BY DEF ActiveJobs
<1> QED
  BY <1>1, JobIdsAssumption, FS_Subset, FS_CardinalityType

\* Fewer active jobs are within the limit, too.
LEMMA FewerActive ==
  ASSUME NEW r, NEW n, ActiveJobs(n) \subseteq ActiveJobs(r),
         Cardinality(ActiveJobs(r)) <= MaxActive
  PROVE  Cardinality(ActiveJobs(n)) <= MaxActive
<1>1. Cardinality(ActiveJobs(n)) <= Cardinality(ActiveJobs(r))
  BY ActiveFinite, FS_Subset
<1> QED
  BY <1>1, ActiveFinite, OptionsAssumption

\* A cleanup that drops no active record leaves the active jobs as they were.
LEMMA CleanUpKeepsActive ==
  ASSUME NEW r \in [JobIds -> Record], NEW c \in CleanedUp(r), Forget(r, c), evicted' = {}
  PROVE  evicted = {} /\ ActiveJobs(c) = ActiveJobs(r)
<1>1. \A j \in JobIds : c[j] = r[j] \/ c[j] = NoRecord
  BY CleanUpKeepsOrDrops
<1>2. evicted = {} /\ Dropped(r, c) \cap ActiveJobs(r) = {}
  BY DEF Forget
<1>3. ActiveJobs(r) \subseteq Present(c)
  BY <1>2 DEF Dropped, Present, ActiveJobs, Active
<1> QED
  BY <1>1, <1>2, <1>3 DEF ActiveJobs, Present, NoRecord, Active

\* saveLocked keeps the limit on disk.
LEMMA SavedActive ==
  ASSUME NEW r, Save(r), Cardinality(ActiveJobs(r)) <= MaxActive,
         Cardinality(ActiveJobs(disk)) <= MaxActive
  PROVE  Cardinality(ActiveJobs(disk')) <= MaxActive
  BY DEF Save

\* The limit holds in memory and on disk in every reachable state.
THEOREM CapacityInvariant == Spec => []CapacityInv
<1>0. Cardinality(ActiveJobs(Empty)) <= MaxActive
  <2>1. ActiveJobs(Empty) = {}
    BY DEF ActiveJobs, Empty, NoRecord, Active
  <2> QED
    BY <2>1, FS_EmptySet, OptionsAssumption
<1>1. Init => CapacityInv
  BY <1>0 DEF Init, CapacityInv, BusyHandlers, Busy
<1>2. TypeOK /\ CapacityInv /\ [Next]_vars => CapacityInv'
  <2> SUFFICES ASSUME TypeOK, CapacityInv, [Next]_vars, evicted' = {} PROVE CapacityInv'
    BY DEF CapacityInv
  <2>1. CASE NewJournal
    <3> DEFINE loaded == IF loadFailed' THEN Empty ELSE disk
    <3>1. PICK c \in CleanedUp(loaded) : records' = c /\ Save(c) /\ Forget(loaded, c)
      BY <2>1 DEF NewJournal
    <3>2. loaded \in [JobIds -> Record]
      BY NoRecordType DEF TypeOK
    <3>3. evicted = {} /\ ActiveJobs(c) = ActiveJobs(loaded)
      BY <3>1, <3>2, CleanUpKeepsActive
    <3>4. /\ Cardinality(ActiveJobs(c)) <= MaxActive
          /\ Cardinality(ActiveJobs(disk)) <= MaxActive
      BY <1>0, <3>3 DEF CapacityInv
    <3>5. Cardinality(ActiveJobs(disk')) <= MaxActive
      BY <3>1, <3>4, SavedActive
    <3>6. BusyHandlers' = {}
      BY <2>1 DEF NewJournal, TypeOK, handlers, BusyHandlers, Busy
    <3> QED
      BY <3>1, <3>4, <3>5, <3>6 DEF CapacityInv
  <2>2. CASE Crash
    BY <1>0, <2>2 DEF Crash, history, CapacityInv, BusyHandlers, Busy
  <2>3. ASSUME NEW h \in Handlers, NEW e \in Envelopes, Accept(h, e)
        PROVE  CapacityInv'
    <3>1. PICK c \in CleanedUp(records) :
            /\ AcceptAnswer(c, e) = "accepted"
            /\ records' = [c EXCEPT ![e.id] =
                 [key |-> e.key, generation |-> generation,
                  state |-> "accepted", updated |-> now]]
            /\ Save(records')
            /\ Forget(records, c)
      BY <2>3 DEF Accept
    <3>2. /\ e.id \in JobIds /\ c \in [JobIds -> Record]
          /\ evicted = {} /\ ActiveJobs(c) = ActiveJobs(records)
      BY <3>1, EnvelopeAssumption, CleanUpKeepsOrDrops, CleanUpKeepsActive DEF Envelope, TypeOK
    <3>3. /\ e.id \notin Present(c)
          /\ ~(Cardinality(ActiveJobs(c)) >= MaxActive)
      BY <3>1 DEF AcceptAnswer, Found
    <3>4. e.id \notin ActiveJobs(c)
      BY <3>3 DEF Present, ActiveJobs, Active
    <3>5. ActiveJobs(records') = ActiveJobs(c) \cup {e.id}
      BY <3>1, <3>2 DEF ActiveJobs, Active
    <3>6. Cardinality(ActiveJobs(records')) = Cardinality(ActiveJobs(c)) + 1
      BY <3>4, <3>5, ActiveFinite, FS_AddElement
    <3>7. Cardinality(ActiveJobs(records')) <= MaxActive
      BY <3>3, <3>6, ActiveFinite, OptionsAssumption
    <3>8. Cardinality(ActiveJobs(disk')) <= MaxActive
      BY <3>1, <3>2, <3>7, SavedActive DEF CapacityInv
    <3>9. /\ BusyHandlers' = BusyHandlers \cup {h}
          /\ job'[h].id = e.id
          /\ \A g \in BusyHandlers : job'[g] = job[g] /\ g # h
      BY <2>3 DEF Accept, BusyHandlers, Busy, TypeOK
    <3>10. \A g \in BusyHandlers : job[g].id \in ActiveJobs(c)
      BY <3>2 DEF CapacityInv
    <3>11. \A g \in BusyHandlers' : job'[g].id \in ActiveJobs(records')
      BY <3>5, <3>9, <3>10
    <3>12. \A f, g \in BusyHandlers' : job'[f].id = job'[g].id => f = g
      BY <3>2, <3>4, <3>9, <3>10 DEF CapacityInv
    <3> QED
      BY <3>7, <3>8, <3>11, <3>12 DEF CapacityInv
  <2>4. ASSUME NEW c \in CleanedUp(records), records' = c, Forget(records, c),
               UNCHANGED <<disk, handlers>>
        PROVE  CapacityInv'
    <3>1. evicted = {} /\ ActiveJobs(c) = ActiveJobs(records)
      BY <2>4, CleanUpKeepsActive DEF TypeOK
    <3>2. BusyHandlers' = BusyHandlers
      BY <2>4 DEF BusyHandlers, Busy, handlers
    <3> QED
      BY <2>4, <3>1, <3>2 DEF CapacityInv, handlers
  <2>5. ASSUME NEW h \in Handlers, MarkProgress(h)
        PROVE  CapacityInv'
    <3>1. evicted = {} /\ h \in BusyHandlers /\ BusyHandlers' = BusyHandlers /\ job' = job
      BY <2>5 DEF MarkProgress, history, BusyHandlers, Busy, TypeOK
    <3>2. job[h].id \in ActiveJobs(records)
      BY <3>1 DEF CapacityInv
    <3>3. ActiveJobs(records') = ActiveJobs(records)
      <4>1. CASE UNCHANGED journal
        BY <4>1 DEF journal
      <4>2. CASE records' = [records EXCEPT ![job[h].id].state = "running",
                                           ![job[h].id].updated = now]
        BY <3>2, <4>2 DEF ActiveJobs, Active, TypeOK, Record
      <4> QED
        BY <2>5, <4>1, <4>2 DEF MarkProgress, Mark
    <3>4. Cardinality(ActiveJobs(disk')) <= MaxActive
      BY <2>5, <3>1, <3>3, SavedActive DEF MarkProgress, Mark, journal, CapacityInv
    <3> QED
      BY <3>1, <3>3, <3>4 DEF CapacityInv
  <2>6. ASSUME NEW h \in Handlers, Execute(h)
        PROVE  CapacityInv'
    <3>1. BusyHandlers' = BusyHandlers
      BY <2>6 DEF Execute, BusyHandlers, Busy, TypeOK
    <3> QED
      BY <2>6, <3>1 DEF Execute, journal, CapacityInv
  <2>7. ASSUME NEW h \in Handlers, MarkResult(h)
        PROVE  CapacityInv'
    <3>1. /\ evicted = {} /\ h \in BusyHandlers /\ BusyHandlers' = BusyHandlers \ {h}
          /\ \A g \in BusyHandlers' : job'[g] = job[g]
      BY <2>7 DEF MarkResult, FinishJob, BusyHandlers, Busy, TypeOK
    <3>2. /\ job[h].id \in JobIds
          /\ \A g \in BusyHandlers' : job[g].id \in ActiveJobs(records) \ {job[h].id}
      BY <3>1 DEF CapacityInv, BusyHandlers, TypeOK, Job
    <3>3. /\ ActiveJobs(records') \subseteq ActiveJobs(records)
          /\ ActiveJobs(records) \ {job[h].id} \subseteq ActiveJobs(records')
      <4>1. CASE UNCHANGED journal
        BY <4>1 DEF journal
      <4>2. ASSUME NEW s \in Terminal,
                   records' = [records EXCEPT ![job[h].id].state = s,
                                              ![job[h].id].updated = now]
            PROVE  <3>3!1 /\ <3>3!2
        BY <3>2, <4>2 DEF ActiveJobs, Active, Terminal, TypeOK, Record
      <4> QED
        BY <2>7, <4>1, <4>2 DEF MarkResult, Mark
    <3>4. Cardinality(ActiveJobs(records')) <= MaxActive
      BY <3>1, <3>3, FewerActive DEF CapacityInv
    <3>5. Cardinality(ActiveJobs(disk')) <= MaxActive
      BY <2>7, <3>1, <3>4, SavedActive DEF MarkResult, Mark, journal, CapacityInv
    <3> QED
      BY <3>1, <3>2, <3>3, <3>4, <3>5 DEF CapacityInv
  <2>8. ASSUME NEW id \in JobIds, NEW key \in KeyOrNone, Cancel(id, key)
        PROVE  CapacityInv'
    <3>1. PICK j \in JobIds : records' = [records EXCEPT ![j].updated = now]
      BY <2>8 DEF Cancel, Found, Present
    <3>2. ActiveJobs(records') = ActiveJobs(records)
      BY <3>1 DEF ActiveJobs, TypeOK, Record
    <3>3. evicted = {} /\ BusyHandlers' = BusyHandlers /\ job' = job
      BY <2>8 DEF Cancel, history, handlers, BusyHandlers, Busy
    <3>4. Cardinality(ActiveJobs(disk')) <= MaxActive
      BY <2>8, <3>2, <3>3, SavedActive DEF Cancel, CapacityInv
    <3> QED
      BY <3>2, <3>3, <3>4 DEF CapacityInv
  <2>9. CASE Tick \/ UNCHANGED vars
    BY <2>9 DEF Tick, vars, journal, handlers, history, CapacityInv, BusyHandlers, Busy
  <2>10. ASSUME NEW e \in Envelopes, Refuse(e)
         PROVE  CapacityInv'
    BY <2>4, <2>10 DEF Refuse
  <2>11. CASE Reconcile
    BY <2>4, <2>11 DEF Reconcile, CleanUp
  <2> QED
    BY <2>1, <2>2, <2>3, <2>5, <2>6, <2>7, <2>8, <2>9, <2>10, <2>11 DEF Next
<1>3. QED
  BY <1>1, <1>2, TypeCorrect, PTL DEF Spec

\* At most MaxActive jobs run at a time, whatever the storage and the restarts
\* do, unless cleanupLocked dropped the record of an active job.
THEOREM AtMostMaxActiveJobs == Spec => []CapacityBound
<1>1. CapacityInv => CapacityBound
  <2> SUFFICES ASSUME CapacityInv, evicted = {}
               PROVE  Cardinality(BusyHandlers) <= MaxActive
    BY DEF CapacityBound, ActiveWithinMaxActive, BusyHandlers
  <2> DEFINE f == [h \in BusyHandlers |-> job[h].id]
  <2>1. f \in Injection(BusyHandlers, ActiveJobs(records))
    BY DEF CapacityInv, Injection, IsInjective
  <2>2. Cardinality(BusyHandlers) <= Cardinality(ActiveJobs(records))
    BY <2>1, ActiveFinite, FS_Injection
  <2>3. /\ Cardinality(ActiveJobs(records)) <= MaxActive
        /\ Cardinality(BusyHandlers) \in Nat
    <3>1. BusyHandlers \in SUBSET Handlers
      BY DEF BusyHandlers
    <3> QED
      BY <3>1, HandlersAssumption, FS_Subset, FS_CardinalityType DEF CapacityInv
  <2> QED
    BY <2>2, <2>3, ActiveFinite, OptionsAssumption
<1> QED
  BY <1>1, CapacityInvariant, PTL

-------------------------------------------------------------------------------
(* Results are final and can be replayed *)

\* While no active record was dropped, an update by a busy handler touches only
\* its own, active, record.
LEMMA MarkSparesTerminal ==
  ASSUME TypeOK, CapacityInv, evicted = {}, NEW h \in BusyHandlers, NEW s, Mark(h, s),
         NEW j \in JobIds, records[j].state \in Terminal
  PROVE  records'[j] = records[j]
<1>1. job[h].id \in ActiveJobs(records)
  BY DEF CapacityInv
<1>2. job[h].id # j
  BY <1>1 DEF ActiveJobs, Active, Terminal
<1>3. CASE UNCHANGED journal
  BY <1>3 DEF journal
<1>4. CASE records' = [records EXCEPT ![job[h].id].state = s, ![job[h].id].updated = now]
  BY <1>2, <1>4 DEF TypeOK
<1> QED
  BY <1>3, <1>4 DEF Mark

\* A cleanup keeps a record as it is, or its identity is forgotten.
LEMMA KeptOrForgotten ==
  ASSUME NEW r \in [JobIds -> Record], NEW c \in CleanedUp(r), Forget(r, c),
         NEW j \in Present(r)
  PROVE  c[j] = r[j] \/ IdentityIn(r, j) \in forgotten'
<1>1. c[j] = r[j] \/ c[j] = NoRecord
  BY CleanUpKeepsOrDrops DEF Present
<1>2. CASE c[j] = NoRecord
  <2>1. j \in Dropped(r, c)
    BY <1>2 DEF Dropped, Present, NoRecord
  <2> QED
    BY <2>1 DEF Forget
<1> QED
  BY <1>1, <1>2

\* What TerminalSticks says of one step.
OutcomeKept(j) ==
  /\ evicted = {} /\ up /\ up'
  /\ records[j].state \in Terminal /\ IdentityIn(records, j) \notin forgotten'
  => records'[j].state = records[j].state

\* The outcome of a finished job is final until cleanup drops its record: no late
\* progress report, second result or cancellation changes it, on any storage.
THEOREM OutcomesAreFinal == Spec => TerminalSticks
<1>1. TypeOK /\ CapacityInv /\ [Next]_vars => [\A j \in JobIds : OutcomeKept(j)]_vars
  <2> SUFFICES ASSUME TypeOK, CapacityInv, Next, NEW j \in JobIds,
                      evicted = {}, up, up',
                      records[j].state \in Terminal, IdentityIn(records, j) \notin forgotten'
               PROVE  records'[j].state = records[j].state
    BY DEF OutcomeKept
  <2>0. j \in Present(records) /\ records \in [JobIds -> Record]
    BY DEF Present, Terminal, TypeOK
  <2>1. CASE NewJournal \/ Crash
    BY <2>1 DEF NewJournal, Crash
  <2>2. ASSUME NEW h \in Handlers, NEW e \in Envelopes, Accept(h, e)
        PROVE  records'[j].state = records[j].state
    <3>1. PICK c \in CleanedUp(records) :
            /\ AcceptAnswer(c, e) = "accepted"
            /\ records' = [c EXCEPT ![e.id] =
                 [key |-> e.key, generation |-> generation,
                  state |-> "accepted", updated |-> now]]
            /\ Forget(records, c)
      BY <2>2 DEF Accept
    <3>2. c[j] = records[j] /\ c \in [JobIds -> Record]
      BY <2>0, <3>1, KeptOrForgotten, CleanUpKeepsOrDrops
    <3>3. e.id \notin Present(c)
      BY <3>1 DEF AcceptAnswer, Found
    <3>4. e.id # j
      BY <2>0, <3>2, <3>3 DEF Present
    <3> QED
      BY <3>1, <3>2, <3>4
  <2>3. ASSUME NEW c \in CleanedUp(records), records' = c, Forget(records, c)
        PROVE  records'[j].state = records[j].state
    BY <2>0, <2>3, KeptOrForgotten
  <2>4. ASSUME NEW h \in Handlers, MarkProgress(h)
        PROVE  records'[j].state = records[j].state
    <3>1. h \in BusyHandlers
      BY <2>4 DEF MarkProgress, BusyHandlers, Busy
    <3> QED
      BY <2>4, <3>1, MarkSparesTerminal DEF MarkProgress
  <2>5. ASSUME NEW h \in Handlers, MarkResult(h)
        PROVE  records'[j].state = records[j].state
    <3>1. h \in BusyHandlers
      BY <2>5 DEF MarkResult, BusyHandlers, Busy
    <3> QED
      BY <2>5, <3>1, MarkSparesTerminal DEF MarkResult
  <2>6. ASSUME NEW id \in JobIds, NEW key \in KeyOrNone, Cancel(id, key)
        PROVE  records'[j].state = records[j].state
    BY <2>0, <2>6 DEF Cancel, Record
  <2>7. ASSUME NEW h \in Handlers, Execute(h)
        PROVE  records'[j].state = records[j].state
    BY <2>7 DEF Execute, journal
  <2>8. CASE Tick
    BY <2>8 DEF Tick, journal
  <2>9. ASSUME NEW e \in Envelopes, Refuse(e)
        PROVE  records'[j].state = records[j].state
    BY <2>3, <2>9 DEF Refuse
  <2>10. CASE Reconcile
    BY <2>3, <2>10 DEF Reconcile, CleanUp
  <2> QED
    BY <2>1, <2>2, <2>4, <2>5, <2>6, <2>7, <2>8, <2>9, <2>10 DEF Next
<1>2. QED
  BY <1>1, TypeCorrect, CapacityInvariant, PTL DEF Spec, TerminalSticks, OutcomeKept

\* The records hold a terminal result of the identity p.
Settled(r, p) == Known(r, p) /\ r[p.id].state \in Terminal

\* With a journal file that can be read and written, a reported result is
\* terminal in memory and on disk until cleanup drops its record.
ReplayInv ==
  evicted = {} =>
    \A p \in reported \ forgotten : Settled(disk, p) /\ (up => Settled(records, p))

\* A result the records hold survives a cleanup or is forgotten by it.
LEMMA SettledOrForgotten ==
  ASSUME NEW r \in [JobIds -> Record], NEW c \in CleanedUp(r), Forget(r, c),
         NEW p \in Identity, Settled(r, p)
  PROVE  Settled(c, p) \/ p \in forgotten'
<1>1. p.id \in Present(r) /\ IdentityIn(r, p.id) = p
  BY DEF Settled, Known, IdentityIn, Identity
<1>2. c[p.id] = r[p.id] \/ p \in forgotten'
  BY <1>1, KeptOrForgotten
<1> QED
  BY <1>2 DEF Settled, Known, Present

\* Reported results stay terminal, over a reliable file.
THEOREM ReplayInvariant == ASSUME Reliable PROVE Spec => []ReplayInv
<1>1. Init => ReplayInv
  BY DEF Init, ReplayInv
<1>2. TypeOK /\ OnceInv /\ CapacityInv /\ ReplayInv /\ [Next]_vars => ReplayInv'
  <2> SUFFICES ASSUME TypeOK, OnceInv, CapacityInv, ReplayInv, [Next]_vars, evicted' = {}
               PROVE  ReplayInv'
    BY DEF ReplayInv
  <2>0. reported \subseteq Identity
    BY DEF TypeOK
  <2>1. CASE NewJournal
    <3>1. loadFailed' = FALSE
      BY <2>1, OptionsAssumption DEF NewJournal, Reliable
    <3>2. PICK c \in CleanedUp(disk) : records' = c /\ Save(c) /\ Forget(disk, c)
      BY <2>1, <3>1 DEF NewJournal
    <3>3. disk' = c /\ evicted = {} /\ forgotten \subseteq forgotten'
      BY <3>2 DEF Save, Reliable, Forget
    <3>4. \A p \in reported \ forgotten' : Settled(c, p)
      BY <2>0, <3>2, <3>3, SettledOrForgotten DEF ReplayInv, TypeOK
    <3> QED
      BY <2>1, <3>2, <3>3, <3>4 DEF NewJournal, ReplayInv
  <2>2. CASE Crash
    BY <2>2 DEF Crash, history, ReplayInv
  <2>3. ASSUME NEW h \in Handlers, NEW e \in Envelopes, Accept(h, e)
        PROVE  ReplayInv'
    <3>1. PICK c \in CleanedUp(records) :
            /\ AcceptAnswer(c, e) = "accepted"
            /\ records' = [c EXCEPT ![e.id] =
                 [key |-> e.key, generation |-> generation,
                  state |-> "accepted", updated |-> now]]
            /\ Save(records')
            /\ Forget(records, c)
      BY <2>3 DEF Accept
    <3>2. /\ disk' = records' /\ evicted = {} /\ forgotten \subseteq forgotten'
          /\ reported' = reported /\ up
      BY <2>3, <3>1 DEF Accept, Save, Reliable, Forget
    <3>3. e.id \notin Present(c) /\ e.id \in JobIds /\ c \in [JobIds -> Record]
      BY <3>1, EnvelopeAssumption, CleanUpKeepsOrDrops DEF AcceptAnswer, Found, Envelope, TypeOK
    <3>4. ASSUME NEW p \in reported \ forgotten' PROVE Settled(records', p)
      <4>1. Settled(c, p)
        BY <2>0, <3>1, <3>2, SettledOrForgotten DEF ReplayInv, TypeOK
      <4>2. p.id # e.id /\ p.id \in JobIds
        BY <3>3, <4>1, <2>0 DEF Settled, Known, Identity
      <4>3. records'[p.id] = c[p.id]
        BY <3>1, <3>3, <4>2
      <4> QED
        BY <4>1, <4>2, <4>3 DEF Settled, Known, Present
    <3> QED
      BY <3>2, <3>4 DEF ReplayInv
  <2>4. ASSUME NEW c \in CleanedUp(records), up, records' = c, Forget(records, c),
               UNCHANGED <<up, disk, reported>>
        PROVE  ReplayInv'
    <3>1. evicted = {} /\ forgotten \subseteq forgotten'
      BY <2>4 DEF Forget
    <3>2. \A p \in reported \ forgotten' : Settled(c, p)
      BY <2>0, <2>4, <3>1, SettledOrForgotten DEF ReplayInv, TypeOK
    <3> QED
      BY <2>4, <3>1, <3>2 DEF ReplayInv
  <2>5. ASSUME NEW h \in BusyHandlers, NEW s \in Terminal \cup Active, Mark(h, s),
               up, evicted = {}, NEW p \in reported \ forgotten
        PROVE  Settled(records', p) /\ Settled(disk', p)
    <3>1. Settled(records, p) /\ Settled(disk, p) /\ p.id \in JobIds
      BY <2>0, <2>5 DEF ReplayInv, Identity
    <3>2. records'[p.id] = records[p.id]
      BY <2>5, <3>1, MarkSparesTerminal DEF Settled
    <3>3. Settled(records', p)
      BY <3>1, <3>2 DEF Settled, Known, Present
    <3>4. disk' = records' \/ disk' = disk
      BY <2>5 DEF Mark, Save, journal
    <3> QED
      BY <3>1, <3>3, <3>4
  <2>6. ASSUME NEW h \in Handlers, MarkProgress(h)
        PROVE  ReplayInv'
    <3>1. h \in BusyHandlers /\ up /\ evicted = {} /\ UNCHANGED <<up, reported, forgotten>>
      BY <2>6 DEF MarkProgress, BusyHandlers, Busy, history
    <3> QED
      BY <2>5, <2>6, <3>1 DEF MarkProgress, Active, ReplayInv
  <2>7. ASSUME NEW h \in Handlers, MarkResult(h)
        PROVE  ReplayInv'
    <3>1. h \in BusyHandlers /\ up /\ evicted = {} /\ UNCHANGED <<up, forgotten>>
      BY <2>7 DEF MarkResult, FinishJob, BusyHandlers, Busy
    <3>2. PICK s \in Terminal : Mark(h, s)
      BY <2>7 DEF MarkResult
    <3>3. \A p \in reported \ forgotten : Settled(records', p) /\ Settled(disk', p)
      BY <2>5, <3>1, <3>2
    <3>4. CASE job[h].padded
      BY <2>7, <3>1, <3>3, <3>4 DEF MarkResult, FinishJob, ReplayInv
    <3>5. CASE ~job[h].padded
      <4> DEFINE p == IdentityOf(h)
      <4>1. /\ job[h].id \in ActiveJobs(records) /\ job[h].id \in JobIds
            /\ p.id = job[h].id /\ p.key = job[h].key
        BY <3>1 DEF CapacityInv, ActiveJobs, IdentityOf
      <4>2. p \in forgotten \/ Known(records, p)
        BY <3>1 DEF OnceInv, Recorded
      <4>3. records' = [records EXCEPT ![job[h].id].state = s, ![job[h].id].updated = now]
        BY <3>2, <3>5, <4>1 DEF Mark, Present, ActiveJobs, Active
      <4>4. disk' = records'
        BY <3>2, <3>5, <4>1 DEF Mark, Present, ActiveJobs, Active, Save, Reliable
      <4>5. Known(records, p) => Settled(records', p)
        BY <4>1, <4>3 DEF Settled, Known, Present, Terminal, TypeOK
      <4>6. reported' = reported \cup {p}
        BY <2>7, <3>5 DEF MarkResult, FinishJob
      <4> QED
        BY <3>1, <3>3, <4>2, <4>4, <4>5, <4>6 DEF ReplayInv
    <3> QED
      BY <3>4, <3>5
  <2>8. ASSUME NEW id \in JobIds, NEW key \in KeyOrNone, Cancel(id, key)
        PROVE  ReplayInv'
    <3>1. PICK j \in JobIds : records' = [records EXCEPT ![j].updated = now]
      BY <2>8 DEF Cancel, Found, Present
    <3>2. disk' = records' /\ up /\ UNCHANGED <<up, reported, forgotten, evicted>>
      BY <2>8 DEF Cancel, Save, Reliable, history
    <3>3. \A p \in Identity : Settled(records, p) => Settled(records', p)
      BY <3>1 DEF Settled, Known, Present, Identity, TypeOK, Record
    <3> QED
      BY <2>0, <3>2, <3>3 DEF ReplayInv
  <2>9. CASE Tick \/ UNCHANGED vars
    BY <2>9 DEF Tick, vars, journal, history, ReplayInv, Settled, Known, Present
  <2>10. ASSUME NEW h \in Handlers, Execute(h)
         PROVE  ReplayInv'
    BY <2>10 DEF Execute, journal, ReplayInv, Settled, Known, Present
  <2>11. ASSUME NEW e \in Envelopes, Refuse(e)
         PROVE  ReplayInv'
    BY <2>4, <2>11 DEF Refuse
  <2>12. CASE Reconcile
    BY <2>4, <2>12 DEF Reconcile, CleanUp
  <2> QED
    BY <2>1, <2>2, <2>3, <2>6, <2>7, <2>8, <2>9, <2>10, <2>11, <2>12 DEF Next
<1>3. QED
  BY <1>1, <1>2, TypeCorrect, OnceInvariant, CapacityInvariant, PTL DEF Spec

\* Once the journal took a result, scum_server can ask for it, after a crash too,
\* for any number of jobs, handlers and restarts over a reliable journal file.
THEOREM ResultsCanBeReplayed == Spec => []ResultReplayable
<1>1. CASE Reliable
  <2>1. TypeOK /\ ReplayInv => ResultReplayable
    <3> SUFFICES ASSUME TypeOK, ReplayInv, evicted = {}, up, NEW p \in reported \ forgotten
                 PROVE  /\ p.id \in Present(records)
                        /\ ReconcileAnswer(records, p.id, p.key, 0) \in {"terminal", "expired"}
      BY DEF ResultReplayable
    <3>1. p.id \in Present(records) /\ records[p.id].state \in Terminal
      BY DEF ReplayInv, Settled, Known
    <3>2. Found(records, p.id, p.key) = {p.id}
      BY <3>1 DEF Found
    <3>3. (CHOOSE j \in {p.id} : TRUE) = p.id
      OBVIOUS
    <3> QED
      BY <3>1, <3>2, <3>3 DEF ReconcileAnswer
  <2> QED
    BY <1>1, <2>1, TypeCorrect, ReplayInvariant, PTL
<1>2. CASE ~Reliable
  <2>1. ResultReplayable
    BY <1>2 DEF ResultReplayable
  <2> QED
    BY <2>1, PTL
<1> QED
  BY <1>1, <1>2

-------------------------------------------------------------------------------
(* A job that counts as active is in somebody's hands *)

\* No job id carries white space around it.  MarkProgress and MarkResult do not find the
\* record of one that does, which stays active for ever (journal.go: Accept trims the id).
NothingPadded == \A e \in Envelopes : ~e.padded

\* Records are not newer than the program run: those a start loads are of earlier runs.
HandlerInv ==
  /\ ActiveHasHandler
  /\ \A j \in JobIds : records[j].generation <= generation /\ disk[j].generation <= generation
  /\ \A h \in Handlers : ~job[h].padded

\* No step makes a record newer than the run, or a job padded.
LEMMA RecordsAreOld ==
  ASSUME NothingPadded, TypeOK, HandlerInv, [Next]_vars
  PROVE  /\ \A j \in JobIds : /\ records'[j].generation <= generation'
                              /\ disk'[j].generation <= generation'
         /\ \A h \in Handlers : ~job'[h].padded
PROOF
<1> DEFINE Old(r, n) == \A j \in JobIds : r[j].generation <= n
<1>0. /\ records \in [JobIds -> Record] /\ disk \in [JobIds -> Record]
      /\ generation \in Nat /\ job \in [Handlers -> Job]
      /\ Old(records, generation) /\ Old(disk, generation) /\ Old(Empty, generation)
      /\ NoRecord.generation = 0 /\ Empty \in [JobIds -> Record]
  BY BoundAssumption, NoRecordType DEF TypeOK, HandlerInv, Empty, NoRecord
<1>1. ASSUME NEW r \in [JobIds -> Record], Old(r, generation), NEW c \in CleanedUp(r)
      PROVE  Old(c, generation)
  <2>1. \A j \in JobIds : c[j] = r[j] \/ c[j] = NoRecord
    BY CleanUpKeepsOrDrops
  <2> QED BY <1>0, <1>1, <2>1
<1>2. ASSUME generation' = generation, Old(records', generation),
             disk' = records' \/ disk' = disk, \A h \in Handlers : ~job'[h].padded
      PROVE  Old(records', generation') /\ Old(disk', generation')
             /\ \A h \in Handlers : ~job'[h].padded
  BY <1>0, <1>2
<1>3. \A h \in Handlers : ~job[h].padded
  BY DEF HandlerInv
<1>4. CASE NewJournal
  <2>1. PICK r \in {Empty, disk} : \E c \in CleanedUp(r) : records' = c /\ Save(c)
    BY <1>4 DEF NewJournal
  <2>2. Old(records', generation) /\ (disk' = records' \/ disk' = disk)
    BY <1>0, <1>1, <2>1 DEF Save
  <2>3. Old(records', generation + 1) /\ Old(disk', generation + 1)
    <3>1. Old(disk', generation)
      BY <1>0, <2>2
    <3>2. \A q \in [JobIds -> Record] : Old(q, generation) => Old(q, generation + 1)
      BY <1>0 DEF Record
    <3>3. records' \in [JobIds -> Record] /\ disk' \in [JobIds -> Record]
      BY <1>0, <2>1, <2>2, CleanUpKeepsOrDrops
    <3> QED BY <2>2, <3>1, <3>2, <3>3
  <2> QED BY <1>3, <1>4, <2>3 DEF NewJournal, handlers
<1>5. CASE Crash
  BY <1>0, <1>2, <1>5 DEF Crash, Idle
<1>6. ASSUME NEW h \in Handlers, NEW e \in Envelopes, Accept(h, e)
      PROVE  Old(records', generation') /\ Old(disk', generation')
             /\ \A g \in Handlers : ~job'[g].padded
  <2>1. PICK c \in CleanedUp(records) :
          records' = [c EXCEPT ![e.id] = [key |-> e.key, generation |-> generation,
                                          state |-> "accepted", updated |-> now]]
          /\ Save(records')
    BY <1>6 DEF Accept
  <2>2. Old(c, generation) /\ c \in [JobIds -> Record] /\ e.id \in JobIds
    BY <1>0, <1>1, EnvelopeAssumption, CleanUpKeepsOrDrops DEF Envelope
  <2>3. Old(records', generation)
    BY <1>0, <2>1, <2>2
  <2>4. \A g \in Handlers : ~job'[g].padded
    BY <1>0, <1>3, <1>6 DEF Accept, NothingPadded
  <2> QED BY <1>2, <1>6, <2>1, <2>3, <2>4 DEF Accept, Save
<1>7. CASE (\E e \in Envelopes : Refuse(e)) \/ Reconcile
  <2>1. Old(records', generation)
    BY <1>0, <1>1, <1>7 DEF Refuse, Reconcile, CleanUp
  <2> QED BY <1>2, <1>3, <1>7, <2>1 DEF Refuse, Reconcile, handlers
<1>8. ASSUME NEW h \in Handlers, NEW s, Mark(h, s)
      PROVE  Old(records', generation) /\ (disk' = records' \/ disk' = disk)
  <2>1. job[h].id \in JobIds
    BY <1>0 DEF Job
  <2>2. CASE /\ records' = [records EXCEPT ![job[h].id].state = s, ![job[h].id].updated = now]
             /\ Save(records')
    BY <1>0, <2>1, <2>2 DEF Save, Record
  <2> QED BY <1>0, <1>8, <2>2 DEF Mark, journal
<1>9. ASSUME NEW h \in Handlers, MarkProgress(h) \/ MarkResult(h)
      PROVE  Old(records', generation') /\ Old(disk', generation')
             /\ \A g \in Handlers : ~job'[g].padded
  <2>1. \E s \in Terminal \cup Active : Mark(h, s)
    BY <1>9 DEF MarkProgress, MarkResult, Active
  <2>2. generation' = generation /\ (job' = job \/ job' = [job EXCEPT ![h] = Idle])
    BY <1>9 DEF MarkProgress, MarkResult, FinishJob
  <2>3. \A g \in Handlers : ~job'[g].padded
    BY <1>0, <1>3, <2>2 DEF Idle
  <2> QED BY <1>2, <1>8, <2>1, <2>2, <2>3
<1>10. ASSUME NEW id \in JobIds, NEW key \in KeyOrNone, Cancel(id, key)
       PROVE  Old(records', generation') /\ Old(disk', generation')
             /\ \A g \in Handlers : ~job'[g].padded
  <2>1. PICK j \in JobIds : records' = [records EXCEPT ![j].updated = now]
    BY <1>10 DEF Cancel, Found, Present
  <2>2. Old(records', generation)
    BY <1>0, <2>1 DEF Record
  <2> QED BY <1>2, <1>3, <1>10, <2>2 DEF Cancel, Save, handlers
<1>11. ASSUME UNCHANGED <<generation, journal, job>>
       PROVE  Old(records', generation') /\ Old(disk', generation')
             /\ \A g \in Handlers : ~job'[g].padded
  BY <1>0, <1>3, <1>11 DEF journal
<1>12. CASE Tick \/ UNCHANGED vars \/ \E h \in Handlers : Execute(h)
  BY <1>11, <1>12 DEF Tick, Execute, vars, handlers
<1> QED BY <1>4, <1>5, <1>6, <1>7, <1>9, <1>10, <1>12 DEF Next

\* An active record of this run stays with its handler, and leaves it terminal.
LEMMA HandlersKeepTheirRecords ==
  ASSUME NothingPadded, TypeOK, HandlerInv, [Next]_vars
  PROVE  ActiveHasHandler'
PROOF
<1>0. /\ records \in [JobIds -> Record] /\ disk \in [JobIds -> Record]
      /\ generation \in Nat /\ job \in [Handlers -> Job] /\ NoRecord.state \notin Active
      /\ pc \in [Handlers -> {"idle", "accepted", "running", "executed"}]
  BY BoundAssumption DEF TypeOK, NoRecord, Active
<1> DEFINE Ours(r, j) == j \in ActiveJobs(r) /\ r[j].generation = generation
           Held(j) == \E h \in Handlers : Busy(h) /\ job[h].id = j
<1>1. SUFFICES ASSUME NEW j \in JobIds, j \in ActiveJobs(records'),
                      records'[j].generation = generation'
               PROVE  \E h \in Handlers : Busy(h)' /\ job'[h].id = j
  BY DEF ActiveHasHandler, ActiveJobs
<1>2. Ours(records, j) => Held(j)
  BY DEF HandlerInv, ActiveHasHandler
<1>3. ASSUME Held(j), UNCHANGED handlers
      PROVE  \E h \in Handlers : Busy(h)' /\ job'[h].id = j
  BY <1>3 DEF handlers, Busy
<1>4. CASE NewJournal
  <2>1. PICK r \in {Empty, disk} : records' \in CleanedUp(r)
    BY <1>4 DEF NewJournal
  <2>2. records'[j] = Empty[j] \/ records'[j] = disk[j] \/ records'[j] = NoRecord
    <3>1. r \in [JobIds -> Record]
      BY <1>0, NoRecordType
    <3> QED BY <2>1, <3>1, CleanUpKeepsOrDrops
  <2>3. records'[j].generation <= generation
    BY <1>0, <2>2 DEF HandlerInv, Empty, NoRecord
  <2> QED BY <1>0, <1>1, <1>4, <2>3 DEF NewJournal
<1>5. CASE Crash
  BY <1>0, <1>1, <1>5 DEF Crash, Empty, ActiveJobs
<1>6. ASSUME NEW h \in Handlers, NEW e \in Envelopes, Accept(h, e)
      PROVE  \E g \in Handlers : Busy(g)' /\ job'[g].id = j
  <2>1. PICK c \in CleanedUp(records) :
          records' = [c EXCEPT ![e.id] = [key |-> e.key, generation |-> generation,
                                          state |-> "accepted", updated |-> now]]
    BY <1>6 DEF Accept
  <2>2. /\ pc' = [pc EXCEPT ![h] = "accepted"] /\ ~Busy(h) /\ generation' = generation
        /\ job' = [job EXCEPT ![h] = [id |-> e.id, key |-> e.key, padded |-> e.padded]]
    BY <1>6 DEF Accept
  <2>3. CASE e.id = j
    BY <1>0, <2>2, <2>3 DEF Busy
  <2>4. CASE e.id # j
    <3>1. records'[j] = records[j] \/ records'[j] = NoRecord
      <4>1. records'[j] = c[j]
        BY <1>0, <2>1, <2>4, CleanUpKeepsOrDrops
      <4> QED BY <1>0, <4>1, CleanUpKeepsOrDrops
    <3>2. Held(j)
      BY <1>0, <1>1, <1>2, <2>2, <3>1 DEF ActiveJobs
    <3>3. PICK g \in Handlers : Busy(g) /\ job[g].id = j
      BY <3>2
    <3>4. g # h
      BY <2>2, <3>3
    <3> QED BY <1>0, <2>2, <3>3, <3>4 DEF Busy
  <2> QED BY <2>3, <2>4
<1>7. CASE (\E e \in Envelopes : Refuse(e)) \/ Reconcile
  <2>1. records' \in CleanedUp(records) /\ generation' = generation /\ UNCHANGED handlers
    BY <1>7 DEF Refuse, Reconcile, CleanUp
  <2>2. records'[j] = records[j] \/ records'[j] = NoRecord
    BY <1>0, <2>1, CleanUpKeepsOrDrops
  <2>3. Ours(records, j)
    BY <1>0, <1>1, <2>1, <2>2 DEF ActiveJobs
  <2> QED BY <1>2, <1>3, <2>1, <2>3
<1>8. ASSUME NEW h \in Handlers, Busy(h), NEW s \in Terminal \cup Active, Mark(h, s),
             generation' = generation
      PROVE  job[h].id # j => Held(j)
  <2>1. CASE job[h].id # j
    <3>1. records'[j] = records[j]
      BY <1>0, <1>8, <2>1 DEF Mark, journal
    <3> QED BY <1>1, <1>2, <1>8, <3>1 DEF ActiveJobs
  <2> QED BY <2>1
<1>9. ASSUME NEW h \in Handlers, MarkProgress(h)
      PROVE  \E g \in Handlers : Busy(g)' /\ job'[g].id = j
  <2>1. /\ Busy(h) /\ Mark(h, "running") /\ generation' = generation
        /\ pc' = [pc EXCEPT ![h] = "running"] /\ job' = job
    BY <1>9 DEF MarkProgress, Busy
  <2>2. Held(j)
    BY <1>8, <2>1 DEF Active
  <2> QED BY <1>0, <2>1, <2>2 DEF Busy
<1>10. ASSUME NEW h \in Handlers, MarkResult(h)
       PROVE  \E g \in Handlers : Busy(g)' /\ job'[g].id = j
  <2>1. PICK s \in Terminal : Mark(h, s)
    BY <1>10 DEF MarkResult
  <2>2. /\ Busy(h) /\ generation' = generation
        /\ pc' = [pc EXCEPT ![h] = "idle"] /\ job' = [job EXCEPT ![h] = Idle]
    BY <1>10 DEF MarkResult, FinishJob, Busy
  <2>3. job[h].id # j
    <3>1. SUFFICES ASSUME job[h].id = j
                   PROVE  FALSE
      OBVIOUS
    <3>2. CASE j \in Present(records)
      <4>1. records'[j].state = s
        BY <1>0, <2>1, <3>1, <3>2 DEF Mark, HandlerInv, Record
      <4> QED BY <1>1, <2>1, <4>1 DEF ActiveJobs, Active, Terminal
    <3>3. CASE j \notin Present(records)
      <4>1. records' = records
        BY <2>1, <3>1, <3>3 DEF Mark, journal
      <4> QED BY <1>1, <3>3, <4>1 DEF ActiveJobs, Active, Present
    <3> QED BY <3>2, <3>3
  <2>4. PICK g \in Handlers : Busy(g) /\ job[g].id = j
    BY <1>8, <2>1, <2>2, <2>3
  <2>5. g # h
    BY <2>3, <2>4
  <2> QED BY <1>0, <2>2, <2>4, <2>5 DEF Busy
<1>11. ASSUME NEW id \in JobIds, NEW key \in KeyOrNone, Cancel(id, key)
       PROVE  \E g \in Handlers : Busy(g)' /\ job'[g].id = j
  <2>1. PICK i \in JobIds : records' = [records EXCEPT ![i].updated = now]
    BY <1>11 DEF Cancel, Found, Present
  <2>2. generation' = generation /\ UNCHANGED handlers
    BY <1>11 DEF Cancel
  <2>3. Ours(records, j)
    BY <1>0, <1>1, <2>1, <2>2 DEF ActiveJobs, Record
  <2> QED BY <1>2, <1>3, <2>2, <2>3
<1>12. ASSUME NEW h \in Handlers, Execute(h)
       PROVE  \E g \in Handlers : Busy(g)' /\ job'[g].id = j
  <2>1. /\ UNCHANGED <<records, generation, job>> /\ pc' = [pc EXCEPT ![h] = "executed"]
    BY <1>12 DEF Execute, journal
  <2>2. Held(j)
    BY <1>1, <1>2, <2>1 DEF ActiveJobs
  <2> QED BY <1>0, <2>1, <2>2 DEF Busy
<1>13. CASE Tick \/ UNCHANGED vars
  <2>1. UNCHANGED <<records, generation, handlers>>
    BY <1>13 DEF Tick, vars, journal
  <2> QED BY <1>1, <1>2, <1>3, <2>1 DEF ActiveJobs
<1> QED BY <1>4, <1>5, <1>6, <1>7, <1>9, <1>10, <1>11, <1>12, <1>13 DEF Next

\* Capacity is not lost: while no job id is padded, every job of this run that the
\* journal counts as active has a handler that will mark its result, whatever the storage,
\* the clean-ups and the restarts do (Accept, MarkProgress, MarkResult).
THEOREM CapacityIsNotLost == ASSUME NothingPadded PROVE Spec => []ActiveHasHandler
<1>1. Init => HandlerInv
  BY DEF Init, HandlerInv, ActiveHasHandler, ActiveJobs, Active, Empty, NoRecord, Idle
<1>2. TypeOK /\ HandlerInv /\ [Next]_vars => HandlerInv'
  BY RecordsAreOld, HandlersKeepTheirRecords DEF HandlerInv
<1>3. HandlerInv => ActiveHasHandler
  BY DEF HandlerInv
<1> QED BY <1>1, <1>2, <1>3, TypeCorrect, PTL DEF Spec

===============================================================================
