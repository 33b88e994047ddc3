-------------------------------- MODULE Jobs --------------------------------
(***************************************************************************)
(* The periodic tasks of a Celery worker (workers/tasks/batch.py): ledger  *)
(* entries classified batch by batch under row locks, the fitting of the   *)
(* watchdog's models, the purge of old conversations.  Tasks of one kind   *)
(* overlap: beat fires them, agents ask for them, failed ones are retried. *)
(***************************************************************************)
EXTENDS Naturals, Sequences, SequencesExt

CONSTANTS
    Entries,        \* identities of ledger entries, in the order they were created
    Workers,        \* runs of a task that may overlap
    BatchSize,      \* _BATCH_SIZE
    VcEnforced,     \* TASK_VC_ENFORCEMENT_ENABLED
    Customers,
    MinSamples,     \* ISOLATION_MIN_SAMPLES
    MaxSamples,     \* bound on the debits of a customer
    MaxSaves,       \* bound on the models stored
    Threads,
    MaxCheckpoints  \* bound on the checkpoints of a thread

ASSUME JobsAssumption ==
    /\ Entries \subseteq Nat /\ IsFiniteSet(Entries)
    /\ MinSamples \in Nat \ {0}

VARIABLES
    category,       \* of an entry; "none" before, "purged" once its row is deleted
    batch,          \* of each worker: where it is, its rows, the updates left and done
    announced,      \* entries in the published events
    rewritten,      \* history: entries stored a second time
    strays,         \* history: entries stored by a worker that had not locked them
    debits,         \* of each customer, categorised and within the window
    fit,            \* of each worker: the customers left, the samples and the row it read
    models,         \* agent_e_models: samples and version, or NoModel
    saves,          \* history: of each customer, models stored
    raced,          \* history: customers whose stored row was read by two fits at once
    thread,         \* of each thread: its rows, and whether its newest one is old
    sweep,          \* the purge: where it is, the threads it listed, the rows it marked
    resumed         \* history: threads that were written to during a sweep that listed them

batchVars == <<category, batch, announced, rewritten, strays>>
modelVars == <<debits, fit, models, saves, raced>>
threadVars == <<thread, sweep, resumed>>
jobVars == <<batchVars, modelVars, threadVars>>

IdleBatch == [at |-> "idle", rows |-> {}, updates |-> <<>>, done |-> <<>>]
IdleFit == [at |-> "idle", left |-> {}, customer |-> "none", samples |-> 0, row |-> 0]
NoModel == [samples |-> 0, version |-> 0]
NoRows == [writes |-> {}, blobs |-> {}, checkpoints |-> {}]
IdleSweep == [at |-> "idle", threads |-> {}]

JobsInit ==
    /\ category = [e \in Entries |-> "none"]
    /\ batch = [w \in Workers |-> IdleBatch]
    /\ announced = {} /\ rewritten = {} /\ strays = {}
    /\ debits \in [Customers -> {MinSamples - 1, MinSamples}]
    /\ fit = [w \in Workers |-> IdleFit]
    /\ models = [c \in Customers |-> NoModel]
    /\ saves = [c \in Customers |-> 0]
    /\ raced = {}
    /\ thread = [t \in Threads |-> [rows |-> [writes |-> {1}, blobs |-> {1}, checkpoints |-> {1}],
                                    old |-> FALSE, marked |-> NoRows]]
    /\ sweep = IdleSweep
    /\ resumed = {}

\* require_task_vc: what fails to mint or to verify stops a write only when enforced.
VcPasses(checked) == checked \/ ~VcEnforced

-----------------------------------------------------------------------------
(* classify_unclassified_ledger_entries *)

Updated(w) == {batch[w].done[i].id : i \in DOMAIN batch[w].done}

\* Mutant: the rows are selected without a lock, as the agent's own query selects them.
LocksUpdatedOnly(w) == IF batch[w].at = "announcing" THEN {} ELSE Updated(w)

\* FOR UPDATE: until it commits, a worker holds the rows that it selected, and those
\* that it updated since.
Locks(w) == IF batch[w].at = "announcing" THEN {} ELSE batch[w].rows \cup Updated(w)
LockedByOthers(w) == UNION {Locks(v) : v \in Workers \ {w}}

\* SKIP LOCKED
Unclassified(w) == {e \in Entries : category[e] = "none"} \ LockedByOthers(w)

Oldest(n, S) == {e \in S : Cardinality({f \in S : f < e}) < n}

FetchBatch(w) ==
    /\ batch[w].at = "idle" /\ Unclassified(w) # {}
    /\ batch' = [batch EXCEPT ![w] = [IdleBatch EXCEPT
            !.at = "classifying", !.rows = Oldest(BatchSize, Unclassified(w))]]
    /\ UNCHANGED <<category, announced, rewritten, strays>>

Classification(id, c) == [id |-> id, category |-> c]

\* _classify_batch_async: what the model returned, categories outside the taxonomy made
\* "other"; then the entries that it forgot.  An identity outside the batch passes.
Classified(w, returned) ==
    LET given == SetToSeq(returned)
        forgotten == SetToSeq(batch[w].rows \ {c.id : c \in returned})
    IN [i \in DOMAIN given |->
            IF given[i].category = "invented" THEN Classification(given[i].id, "other") ELSE given[i]]
       \o [i \in DOMAIN forgotten |-> Classification(forgotten[i], "other")]

\* The model's answer: of its own batch what it likes, at most one identity more.
Answers(w) ==
    {{Classification(e, "fees") : e \in kept} \cup stray :
        kept \in SUBSET batch[w].rows,
        stray \in {{}} \cup {{Classification(e, "invented")} : e \in Entries \ batch[w].rows}}

\* One answer, then the credential of the whole batch.
Classify(w) ==
    /\ batch[w].at = "classifying"
    /\ \E returned \in Answers(w), checked \in BOOLEAN :
        batch' = [batch EXCEPT ![w] =
            IF VcPasses(checked)
            THEN [@ EXCEPT !.at = "persisting", !.updates = Classified(w, returned)]
            ELSE IdleBatch]
    /\ UNCHANGED <<category, announced, rewritten, strays>>

\* UPDATE ... WHERE id = :id, which waits for another worker's lock.
PersistOne(w) ==
    /\ batch[w].at = "persisting" /\ batch[w].updates # <<>>
    /\ LET c == Head(batch[w].updates) IN
        /\ c.id \notin LockedByOthers(w)
        /\ batch' = [batch EXCEPT ![w].updates = Tail(@), ![w].done = Append(@, c)]
    /\ UNCHANGED <<category, announced, rewritten, strays>>

\* The batch becomes visible at once, but for rows that were gone; every identity of the
\* answer is announced next.
CommitBatch(w) ==
    LET done == batch[w].done
        stored == {e \in Updated(w) : category[e] # "purged"}
        answer(e) == CHOOSE i \in DOMAIN done : done[i].id = e
    IN
    /\ batch[w].at = "persisting" /\ batch[w].updates = <<>>
    /\ category' = [e \in Entries |-> IF e \in stored THEN done[answer(e)].category ELSE category[e]]
    /\ rewritten' = rewritten \cup {e \in stored : category[e] # "none"}
    /\ strays' = strays \cup (stored \ batch[w].rows)
    /\ batch' = [batch EXCEPT ![w] = [IdleBatch EXCEPT !.at = "announcing", !.done = done]]
    /\ UNCHANGED announced

\* The broker may refuse; nothing is tried again.
Announce(w) ==
    /\ batch[w].at = "announcing"
    /\ \E published \in BOOLEAN :
        announced' = IF published THEN announced \cup Updated(w) ELSE announced
    /\ batch' = [batch EXCEPT ![w] = IdleBatch]
    /\ UNCHANGED <<category, rewritten, strays>>

\* A silent model, a crash, or the database breaking a cycle of waiting workers: the
\* transaction is rolled back, the rows are free, the task comes again.
BatchFails(w) ==
    /\ batch[w].at # "idle"
    /\ batch' = [batch EXCEPT ![w] = IdleBatch]
    /\ UNCHANGED <<category, announced, rewritten, strays>>

\* enforce_data_retention: the DELETE takes the rows older than seven years, whatever
\* their category, and waits for the workers that hold one of them.
PurgeEntries ==
    \E n \in 1..Cardinality(Entries) :
        LET old == {e \in Oldest(n, Entries) : category[e] # "purged"} IN
        /\ old # {} /\ \A w \in Workers : old \cap Locks(w) = {}
        /\ category' = [e \in Entries |-> IF e \in old THEN "purged" ELSE category[e]]
        /\ UNCHANGED <<batch, announced, rewritten, strays>>

BatchStep(w) ==
    \/ FetchBatch(w) \/ Classify(w) \/ PersistOne(w) \/ CommitBatch(w) \/ Announce(w)
    \/ BatchFails(w)

BatchNext == (\E w \in Workers : BatchStep(w)) \/ PurgeEntries

-----------------------------------------------------------------------------
(* retrain_agent_e_models and fit_agent_e_model *)

\* A weekly run takes every customer with a debit, a run on demand one.
StartFit(w) ==
    /\ fit[w].at = "idle"
    /\ \E chosen \in {{c \in Customers : debits[c] > 0}} \cup {{c} : c \in Customers} :
        /\ chosen # {}
        /\ fit' = [fit EXCEPT ![w] = [IdleFit EXCEPT !.at = "choosing", !.left = chosen]]
    /\ UNCHANGED <<debits, models, saves, raced>>

\* _train_and_upsert_customer: too few debits or no credential, and the customer is
\* skipped; else the row is read.
ReadDebits(w) ==
    /\ fit[w].at = "choosing"
    /\ \E c \in fit[w].left, checked \in BOOLEAN :
        LET left == fit[w].left \ {c} IN
        IF debits[c] >= MinSamples /\ VcPasses(checked)
        THEN fit' = [fit EXCEPT ![w] = [IdleFit EXCEPT !.at = "trained", !.left = left,
                         !.customer = c, !.samples = debits[c]]]
        ELSE fit' = [fit EXCEPT ![w] = [IdleFit EXCEPT
                         !.at = IF left = {} THEN "idle" ELSE "choosing", !.left = left]]
    /\ UNCHANGED <<debits, models, saves, raced>>

Competing(w) == {v \in Workers \ {w} :
    fit[v].at = "saving" /\ fit[v].customer = fit[w].customer}

ReadModel(w) ==
    /\ fit[w].at = "trained"
    /\ fit' = [fit EXCEPT ![w].at = "saving", ![w].row = models[fit[w].customer].version]
    /\ raced' = IF Competing(w) = {} \/ models[fit[w].customer] = NoModel THEN raced
                ELSE raced \cup {fit[w].customer}
    /\ UNCHANGED <<debits, models, saves>>

\* Mutant: an insert over a row that is there passes, as an upsert would.
InsertableAlways(w) == TRUE

\* The customer is the key: the second of two inserts fails, and its task is retried.
Insertable(w) == fit[w].row # 0 \/ models[fit[w].customer].version = 0

SaveModel(w) ==
    /\ fit[w].at = "saving"
    /\ LET c == fit[w].customer IN
        IF Insertable(w) /\ saves[c] < MaxSaves
        THEN /\ models' = [models EXCEPT ![c] = [samples |-> fit[w].samples, version |-> fit[w].row + 1]]
             /\ saves' = [saves EXCEPT ![c] = @ + 1]
             /\ fit' = [fit EXCEPT ![w] = [IdleFit EXCEPT
                    !.at = IF fit[w].left = {} THEN "idle" ELSE "choosing", !.left = fit[w].left]]
        ELSE /\ fit' = [fit EXCEPT ![w] = IdleFit]
             /\ UNCHANGED <<models, saves>>
    /\ UNCHANGED <<debits, raced>>

FitFails(w) ==
    /\ fit[w].at # "idle"
    /\ fit' = [fit EXCEPT ![w] = IdleFit]
    /\ UNCHANGED <<debits, models, saves, raced>>

\* External: the classifier categorises another debit of the customer.
DebitCategorised(c) ==
    /\ debits[c] < MaxSamples
    /\ debits' = [debits EXCEPT ![c] = @ + 1]
    /\ UNCHANGED <<fit, models, saves, raced>>

ModelNext ==
    \/ \E w \in Workers : StartFit(w) \/ ReadDebits(w) \/ ReadModel(w) \/ SaveModel(w) \/ FitFails(w)
    \/ \E c \in Customers : DebitCategorised(c)

-----------------------------------------------------------------------------
(* enforce_checkpoint_retention *)

\* External, the checkpointer: a turn adds a checkpoint, what changed of its channels and
\* the writes of its tasks.  Channels that did not change stay in the blobs of before.
Checkpoint(t) ==
    LET rows == thread[t].rows
        n == Cardinality(rows.checkpoints \cup rows.blobs) + 1
        added == [writes |-> rows.writes \cup {n}, blobs |-> rows.blobs \cup {n},
                  checkpoints |-> rows.checkpoints \cup {n}]
    IN
    /\ n <= MaxCheckpoints
    /\ thread' = [thread EXCEPT ![t] = [@ EXCEPT !.rows = added, !.old = FALSE]]
    /\ resumed' = IF t \in sweep.threads THEN resumed \cup {t} ELSE resumed
    /\ UNCHANGED sweep

\* CHECKPOINT_RETENTION_DAYS go by.
Forgotten(t) ==
    /\ thread[t].rows.checkpoints # {} /\ ~thread[t].old
    /\ thread' = [thread EXCEPT ![t].old = TRUE]
    /\ UNCHANGED <<sweep, resumed>>

\* Mutant: a thread with any old checkpoint is listed.
ExpiredOnce(t) == thread[t].rows.checkpoints # {}

\* HAVING MAX(ts) < NOW() - ...
Expired(t) == thread[t].rows.checkpoints # {} /\ thread[t].old

ListThreads ==
    /\ sweep.at = "idle"
    /\ \E t \in Threads : Expired(t)
    /\ sweep' = [at |-> "writes", threads |-> {t \in Threads : Expired(t)}]
    /\ UNCHANGED <<thread, resumed>>

Tables == <<"writes", "blobs", "checkpoints">>
After == [writes |-> "blobs", blobs |-> "checkpoints", checkpoints |-> "committing"]

\* A DELETE marks the rows that are committed when it starts.
DeleteFrom(table) ==
    /\ sweep.at = table
    /\ thread' = [t \in Threads |-> IF t \in sweep.threads
                    THEN [thread[t] EXCEPT !.marked[table] = thread[t].rows[table]]
                    ELSE thread[t]]
    /\ sweep' = [sweep EXCEPT !.at = After[table]]
    /\ UNCHANGED resumed

Unmarked(r) == [table \in DOMAIN r.rows |-> r.rows[table] \ r.marked[table]]

CommitSweep ==
    /\ sweep.at = "committing"
    /\ thread' = [t \in Threads |-> [thread[t] EXCEPT !.rows = Unmarked(thread[t]), !.marked = NoRows]]
    /\ sweep' = IdleSweep
    /\ UNCHANGED resumed

SweepFails ==
    /\ sweep.at # "idle"
    /\ thread' = [t \in Threads |-> [thread[t] EXCEPT !.marked = NoRows]]
    /\ sweep' = IdleSweep
    /\ UNCHANGED resumed

ThreadNext ==
    \/ \E t \in Threads : Checkpoint(t) \/ Forgotten(t)
    \/ ListThreads \/ CommitSweep \/ SweepFails
    \/ \E i \in DOMAIN Tables : DeleteFrom(Tables[i])

-----------------------------------------------------------------------------
(* Properties *)

\* Two runs of the classifier never store the same entry: only an answer that names an
\* entry of somebody else's batch overwrites a category, and what an event announces is
\* stored by the time it is announced.
EntriesAreStoredOnce ==
    /\ rewritten \subseteq strays
    /\ \A e \in announced : category[e] # "none"

\* A stored model was fitted on enough debits, and its version counts the fits, except
\* where two of them read the same stored row; two first fits never both pass.
VersionsCountFits ==
    \A c \in Customers :
        /\ saves[c] > 0 => models[c].samples >= MinSamples
        /\ c \notin raced => models[c].version = saves[c]

\* A conversation is purged as a whole, and only after its last checkpoint grew old,
\* unless it was taken up during the very sweep that had listed it: every checkpoint
\* still finds the channels of before.
ConversationsStayWhole ==
    \A t \in Threads \ resumed :
        LET r == thread[t].rows IN
        /\ r.writes = r.checkpoints /\ r.blobs = r.checkpoints
        /\ IF r = NoRows THEN thread[t].old ELSE 1 \in r.checkpoints

\* What runs at night, several times over and beside the day's work, loses nothing.
JobsLoseNothing == EntriesAreStoredOnce /\ VersionsCountFits /\ ConversationsStayWhole
=============================================================================
