------------------------------ MODULE JobJournal ------------------------------
(***************************************************************************)
(* The execution-job journal of scum_run (internal/jobprotocol/journal.go) *)
(* and the goroutines that run jobs over it                                *)
(* (internal/client/job_protocol.go).                                      *)
(*                                                                         *)
(* scum_server sends execution_job messages at least once, in any order.   *)
(* handleMessage starts one goroutine per message; it accepts the job in   *)
(* the journal, marks it running, executes the capability and marks its    *)
(* result.  Every journal method holds Journal.mu, so each is one step.    *)
(* Between two steps the program can crash; what saveLocked wrote survives.*)
(***************************************************************************)
EXTENDS Integers, FiniteSets

CONSTANTS
  JobIds,        \* trimmed job ids
  Keys,          \* non-empty idempotency keys
  NoKey,         \* the empty idempotency key
  Envelopes,     \* the execution jobs scum_server may send
  Handlers,      \* goroutines that run handleExecutionJob
  Retention,     \* retention of a terminal record, in clock ticks
  MaxRecords,    \* JournalOptions.MaxRecords
  MaxActive,     \* JournalOptions.MaxActive
  MaySaveFail,   \* saveLocked may return an error
  MayLoadFail,   \* load may return an error although the file holds records
  MaxTime,       \* bound on the clock
  MaxGeneration  \* bound on the number of program starts

KeyOrNone == Keys \cup {NoKey}

\* The identity of a job: how findLocked recognises it.
Identity == [id : JobIds, key : KeyOrNone]

\* padded: the raw job id carries white space that TrimSpace removes.
Envelope == [id : JobIds, key : KeyOrNone, padded : BOOLEAN, generation : Nat]

ASSUME NoKeyAssumption == NoKey \notin Keys
ASSUME EnvelopeAssumption == Envelopes \subseteq Envelope
ASSUME JobIdsAssumption == IsFiniteSet(JobIds) /\ JobIds # {}
ASSUME HandlersAssumption == IsFiniteSet(Handlers)
ASSUME OptionsAssumption ==
  /\ Retention \in Nat
  /\ MaxRecords \in Nat \ {0}
  /\ MaxActive \in Nat \ {0}
  /\ MaySaveFail \in BOOLEAN
  /\ MayLoadFail \in BOOLEAN
ASSUME BoundAssumption == MaxTime \in Nat /\ MaxGeneration \in Nat \ {0}

VARIABLES
  up,          \* the program is running
  now,         \* time.Now
  generation,  \* Client.jobGeneration
  records,     \* Journal.records, NoRecord where the map has no entry
  disk,        \* the records in the journal file
  loadFailed,  \* NewJournal returned the error of load
  pc,          \* where each handler goroutine stands
  job,         \* the job each handler goroutine works on
  executed,    \* history: the jobs whose capability has been executed
  reported,    \* history: the jobs whose terminal result the journal took
  forgotten,   \* history: the jobs whose record cleanupLocked dropped
  evicted      \* history: those it dropped while they were not terminal

journal == <<records, disk>>
handlers == <<pc, job>>
history == <<executed, reported, forgotten, evicted>>
vars == <<up, now, generation, journal, loadFailed, handlers, history>>

Terminal == {"succeeded", "failed"}
Active == {"accepted", "running"}
Record == [key : KeyOrNone, generation : Nat,
           state : Terminal \cup Active \cup {"absent"}, updated : Nat]
NoRecord == [key |-> NoKey, generation |-> 0, state |-> "absent", updated |-> 0]
Empty == [j \in JobIds |-> NoRecord]

Job == [id : JobIds, key : KeyOrNone, padded : BOOLEAN]
Idle == [id |-> CHOOSE j \in JobIds : TRUE, key |-> NoKey, padded |-> FALSE]

Present(r) == {j \in JobIds : r[j].state # "absent"}
ActiveJobs(r) == {j \in JobIds : r[j].state \in Active}
IdentityIn(r, j) == [id |-> j, key |-> r[j].key]
IdentityOf(h) == [id |-> job[h].id, key |-> job[h].key]
Busy(h) == pc[h] # "idle"

-------------------------------------------------------------------------------
(* Journal operations *)

Expired(r, j) == r[j].state \in Terminal /\ now - r[j].updated > Retention

\* What cleanupLocked may leave of r: expired terminal records go, then the
\* least recently updated ones beyond MaxRecords; sort.Slice breaks ties freely.
CleanedUp(r) ==
  LET live == {j \in Present(r) : ~Expired(r, j)}
      kept == {K \in SUBSET live :
                 /\ Cardinality(K) <= MaxRecords
                 /\ K # live => Cardinality(K) = MaxRecords
                 /\ \A j \in K, k \in live \ K : r[k].updated <= r[j].updated}
  IN  {[j \in JobIds |-> IF j \in K THEN r[j] ELSE NoRecord] : K \in kept}

Dropped(r, c) == Present(r) \ Present(c)

Forget(r, c) ==
  /\ forgotten' = forgotten \cup {IdentityIn(r, j) : j \in Dropped(r, c)}
  /\ evicted' = evicted \cup {IdentityIn(r, j) : j \in Dropped(r, c) \cap ActiveJobs(r)}

\* Mutant of Found: the idempotency key is not consulted.
FoundById(r, id, key) == {id} \cap Present(r)

\* The records that match a job id, or failing that a non-empty key.
Found(r, id, key) ==
  IF id \in Present(r) THEN {id}
  ELSE {j \in Present(r) : key # NoKey /\ r[j].key = key}

\* saveLocked: a failure is remembered in recentErrs and otherwise ignored.
Save(r) == disk' = r \/ (MaySaveFail /\ disk' = disk)

\* Mutant of AcceptAnswer: one job too many.
AnswerOffByOne(c, e) ==
  CASE e.generation > 0 /\ e.generation # generation -> "generation_mismatch"
    [] Found(c, e.id, e.key) # {} -> "duplicate"
    [] Cardinality(ActiveJobs(c)) > MaxActive -> "busy"
    [] OTHER -> "accepted"

AcceptAnswer(c, e) ==
  CASE e.generation > 0 /\ e.generation # generation -> "generation_mismatch"
    [] Found(c, e.id, e.key) # {} -> "duplicate"
    [] Cardinality(ActiveJobs(c)) >= MaxActive -> "busy"
    [] OTHER -> "accepted"

ReconcileAnswer(c, id, key, g) ==
  LET found == Found(c, id, key)
      r == c[CHOOSE j \in found : TRUE]
  IN  CASE found = {} -> "unknown"
        [] g > 0 /\ g # r.generation -> "generation_mismatch"
        [] now - r.updated > Retention -> "expired"
        [] r.state \in Terminal -> "terminal"
        [] OTHER -> "running"

-------------------------------------------------------------------------------
(* The program's steps *)

Init ==
  /\ up = FALSE
  /\ now = 0
  /\ generation = 0
  /\ records = Empty
  /\ disk = Empty
  /\ loadFailed = FALSE
  /\ pc = [h \in Handlers |-> "idle"]
  /\ job = [h \in Handlers |-> Idle]
  /\ executed = {} /\ reported = {} /\ forgotten = {} /\ evicted = {}

\* NewJournal: load, clean up, save.  A failed load leaves no records.
NewJournal ==
  /\ ~up
  /\ generation < MaxGeneration
  /\ up' = TRUE
  /\ generation' = generation + 1
  /\ loadFailed' \in {FALSE, MayLoadFail}
  /\ LET loaded == IF loadFailed' THEN Empty ELSE disk
     IN  \E c \in CleanedUp(loaded) :
           /\ records' = c
           /\ Save(c)
           /\ Forget(loaded, c)
  /\ UNCHANGED <<now, handlers, executed, reported>>

\* The program dies; only the journal file survives.
Crash ==
  /\ up
  /\ up' = FALSE
  /\ records' = Empty
  /\ pc' = [h \in Handlers |-> "idle"]
  /\ job' = [h \in Handlers |-> Idle]
  /\ UNCHANGED <<now, generation, loadFailed, disk, history>>

\* Accept answers "accepted": the job is recorded before it runs.
Accept(h, e) ==
  /\ up /\ ~Busy(h)
  /\ \E c \in CleanedUp(records) :
       /\ AcceptAnswer(c, e) = "accepted"
       /\ records' = [c EXCEPT ![e.id] =
                        [key |-> e.key, generation |-> generation,
                         state |-> "accepted", updated |-> now]]
       /\ Save(records')
       /\ Forget(records, c)
  /\ pc' = [pc EXCEPT ![h] = "accepted"]
  /\ job' = [job EXCEPT ![h] = [id |-> e.id, key |-> e.key, padded |-> e.padded]]
  /\ UNCHANGED <<up, now, generation, loadFailed, executed, reported>>

\* Calls that only clean up in memory: nothing is saved.
CleanUp ==
  \E c \in CleanedUp(records) :
    /\ records' = c
    /\ Forget(records, c)

\* Accept answers duplicate, busy or generation_mismatch.
Refuse(e) ==
  /\ up
  /\ \E c \in CleanedUp(records) :
       /\ AcceptAnswer(c, e) # "accepted"
       /\ records' = c
       /\ Forget(records, c)
  /\ UNCHANGED <<up, now, generation, loadFailed, disk, handlers, executed, reported>>

Reconcile ==
  /\ up
  /\ CleanUp
  /\ UNCHANGED <<up, now, generation, loadFailed, disk, handlers, executed, reported>>

\* Mutant of Mark: the update stays in memory.
MarkUnsaved(h, s) ==
  IF ~job[h].padded /\ job[h].id \in Present(records)
  THEN /\ records' = [records EXCEPT ![job[h].id].state = s,
                                     ![job[h].id].updated = now]
       /\ UNCHANGED disk
  ELSE UNCHANGED journal

\* A job-journal update under the raw job id: MarkProgress and MarkResult look
\* the record up without trimming, and return an error when it is not there.
Mark(h, s) ==
  IF ~job[h].padded /\ job[h].id \in Present(records)
  THEN /\ records' = [records EXCEPT ![job[h].id].state = s,
                                     ![job[h].id].updated = now]
       /\ Save(records')
  ELSE UNCHANGED journal

MarkProgress(h) ==
  /\ up /\ pc[h] = "accepted"
  /\ Mark(h, "running")
  /\ pc' = [pc EXCEPT ![h] = "running"]
  /\ UNCHANGED <<up, now, generation, loadFailed, job, history>>

\* executeJobCapability: the side effect of the job.
Execute(h) ==
  /\ up /\ pc[h] = "running"
  /\ executed' = executed \cup {IdentityOf(h)}
  /\ pc' = [pc EXCEPT ![h] = "executed"]
  /\ UNCHANGED <<up, now, generation, loadFailed, journal, job, reported, forgotten, evicted>>

FinishJob(h) ==
  /\ pc' = [pc EXCEPT ![h] = "idle"]
  /\ job' = [job EXCEPT ![h] = Idle]
  /\ reported' = IF job[h].padded THEN reported ELSE reported \cup {IdentityOf(h)}
  /\ UNCHANGED <<up, now, generation, loadFailed, executed, forgotten, evicted>>

\* Mutants of MarkResult: a failed job's result is not marked; an empty status
\* is not replaced by "succeeded".
LoseFailure(h) ==
  /\ up /\ pc[h] = "executed"
  /\ \E s \in Terminal : IF s = "failed" THEN UNCHANGED journal ELSE Mark(h, s)
  /\ FinishJob(h)

KeepEmptyStatus(h) ==
  /\ up /\ pc[h] = "executed"
  /\ \E s \in Terminal \cup {""} : Mark(h, s)
  /\ FinishJob(h)

MarkResult(h) ==
  /\ up /\ pc[h] = "executed"
  /\ \E s \in Terminal : Mark(h, s)
  /\ FinishJob(h)

\* Mutant of Cancel: it overwrites the state of a finished job.
CancelOverwrites(id, key) ==
  /\ up
  /\ \E j \in Found(records, id, key) :
       records' = [records EXCEPT ![j].updated = now, ![j].state = "failed"]
  /\ Save(records')
  /\ UNCHANGED <<up, now, generation, loadFailed, handlers, history>>

\* Cancel never stops a job; it refreshes updatedAt of the record it finds.
Cancel(id, key) ==
  /\ up
  /\ \E j \in Found(records, id, key) :
       records' = [records EXCEPT ![j].updated = now]
  /\ Save(records')
  /\ UNCHANGED <<up, now, generation, loadFailed, handlers, history>>

Tick ==
  /\ now < MaxTime
  /\ now' = now + 1
  /\ UNCHANGED <<up, generation, loadFailed, journal, handlers, history>>

HandlerStep(h) == MarkProgress(h) \/ Execute(h) \/ MarkResult(h)

Next ==
  \/ NewJournal
  \/ Crash
  \/ \E h \in Handlers, e \in Envelopes : Accept(h, e)
  \/ \E e \in Envelopes : Refuse(e)
  \/ Reconcile
  \/ \E h \in Handlers : MarkProgress(h)
  \/ \E h \in Handlers : Execute(h)
  \/ \E h \in Handlers : MarkResult(h)
  \/ \E id \in JobIds, key \in KeyOrNone : Cancel(id, key)
  \/ Tick

Spec == Init /\ [][Next]_vars

\* A handler goroutine that can run does run, and the program is restarted.
Fairness == WF_vars(NewJournal) /\ \A h \in Handlers : WF_vars(HandlerStep(h))
FairSpec == Spec /\ Fairness

-------------------------------------------------------------------------------
(* Properties *)

TypeOK ==
  /\ up \in BOOLEAN
  /\ now \in 0..MaxTime
  /\ generation \in 0..MaxGeneration
  /\ records \in [JobIds -> Record] /\ disk \in [JobIds -> Record]
  /\ loadFailed \in BOOLEAN
  /\ pc \in [Handlers -> {"idle", "accepted", "running", "executed"}]
  /\ job \in [Handlers -> Job]
  /\ executed \subseteq Identity /\ reported \subseteq Identity
  /\ forgotten \subseteq Identity /\ evicted \subseteq Identity
  /\ ~up => records = Empty /\ \A h \in Handlers : ~Busy(h)

Reliable == ~MaySaveFail /\ ~MayLoadFail
SameJob(p, q) == p.id = q.id \/ (p.key = q.key /\ p.key # NoKey)

\* A job is not executed twice, not even across a crash and a redelivery under
\* another job id: neither a job that was executed nor one that another handler
\* holds is about to be executed, unless cleanupLocked dropped its record.
\* (Accept's duplicate check, and the save that precedes execution.)
AtMostOnce ==
  Reliable =>
    \A h \in Handlers : pc[h] \in {"accepted", "running"} =>
      \A p \in executed \cup {IdentityOf(g) : g \in {g \in Handlers \ {h} : Busy(g)}} :
        SameJob(p, IdentityOf(h)) => p \in forgotten \/ IdentityOf(h) \in forgotten

\* Number of jobs that handler goroutines work on (JournalOptions.MaxActive:
\* how many non-terminal jobs may be accepted at a time).
ActiveWithinMaxActive == Cardinality({h \in Handlers : Busy(h)}) <= MaxActive

\* The same bound as long as cleanupLocked drops no record of an active job.
CapacityBound == evicted = {} => ActiveWithinMaxActive

\* A job of this program run that the journal counts as active is in the hands
\* of a handler that will mark its result: nothing else frees its capacity.
ActiveHasHandler ==
  \A j \in ActiveJobs(records) :
    records[j].generation = generation => \E h \in Handlers : Busy(h) /\ job[h].id = j

\* Once the journal took a result, scum_server can ask for it: until cleanup
\* drops the record, Reconcile answers with the terminal result, after a crash too.
ResultReplayable ==
  Reliable /\ evicted = {} /\ up =>
    \A p \in reported \ forgotten :
      /\ p.id \in Present(records)
      /\ ReconcileAnswer(records, p.id, p.key, 0) \in {"terminal", "expired"}

\* A terminal record keeps its outcome until cleanup drops it: no late progress
\* report, second result or cancellation changes what was decided.
TerminalSticks ==
  [][\A j \in JobIds :
       /\ evicted = {} /\ up /\ up'
       /\ records[j].state \in Terminal /\ IdentityIn(records, j) \notin forgotten'
       => records'[j].state = records[j].state]_vars

\* An ack "busy" advises to retry after a second (Ack.RetryAfterMS): a journal
\* at capacity does not stay there while the program runs.
BusyIsTransient ==
  (up /\ Cardinality(ActiveJobs(records)) >= MaxActive)
    ~> (~up \/ Cardinality(ActiveJobs(records)) < MaxActive)

===============================================================================
