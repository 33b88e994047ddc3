------------------------------- MODULE Outbox -------------------------------
(***************************************************************************)
(* The transactional outbox: handlers write events in their own            *)
(* transaction, projector processes lock batches of pending rows, publish  *)
(* them one at a time to RabbitMQ and commit the outcome of the batch at   *)
(* its end (workers/outbox/projector.py).  A projector may die at any      *)
(* moment, the broker may go away and come back, and a publish may reach   *)
(* the broker without its confirm reaching the projector.                  *)
(***************************************************************************)
EXTENDS Naturals, Sequences, FiniteSets, FiniteSetsExt

CONSTANTS
    Events,       \* outbox events, numbered by created_at
    Poison,       \* events whose publish always raises
    Projectors,   \* projector processes
    BatchSize,    \* LIMIT of the batch query
    MaxRetries,   \* OUTBOX_MAX_RETRIES
    MaxFaults     \* bound on crashes and lost confirms

ASSUME OutboxAssumption ==
    /\ Events \subseteq Nat /\ Poison \subseteq Events
    /\ BatchSize \in Nat \ {0} /\ MaxRetries \in Nat \ {0} /\ MaxFaults \in Nat

VARIABLES
    rowOf,       \* "absent", "pending" or "published" in outbox_events, or "moved"
    retryCount,  \* outbox_events.retry_count
    deadLetters, \* rows of outbox_dead_letters per event
    held,        \* rows each projector has locked
    outcome,     \* uncommitted outcome of the rows it has tried
    brokerUp,    \* is_rabbitmq_connected
    delivered,   \* copies the broker has accepted
    faults       \* crashes and lost confirms so far

vars == <<rowOf, retryCount, deadLetters, held, outcome, brokerUp, delivered, faults>>

Pending == {e \in Events : rowOf[e] = "pending"}

LockedBy(ps) == UNION {held[p] : p \in ps}

\* Mutant: the batch query takes no row locks.
BatchUnlocked == {e \in Pending : Cardinality({f \in Pending : f < e}) < BatchSize}

\* ORDER BY created_at LIMIT BatchSize over the rows nobody has locked.
Batch ==
    LET free == Pending \ LockedBy(Projectors)
    IN {e \in free : Cardinality({f \in free : f < e}) < BatchSize}

Untried(p) == {e \in held[p] : outcome[p][e] = "none"}

\* The loop is at e: the oldest row of the batch not yet tried.
AtRow(p, e) == e \in Untried(p) /\ \A f \in Untried(p) : e <= f

NoOutcome == [e \in Events |-> "none"]

-----------------------------------------------------------------------------

Init ==
    /\ rowOf = [e \in Events |-> "absent"]
    /\ retryCount = [e \in Events |-> 0]
    /\ deadLetters = [e \in Events |-> 0]
    /\ held = [p \in Projectors |-> {}]
    /\ outcome = [p \in Projectors |-> NoOutcome]
    /\ brokerUp = TRUE
    /\ delivered = [e \in Events |-> 0]
    /\ faults = 0

\* A handler commits the event with its own writes.  Transactions commit in any
\* order, whatever their created_at.
Emit(e) ==
    /\ rowOf[e] = "absent"
    /\ rowOf' = [rowOf EXCEPT ![e] = "pending"]
    /\ UNCHANGED <<retryCount, deadLetters, held, outcome, brokerUp, delivered, faults>>

\* SELECT ... FOR UPDATE SKIP LOCKED
LockBatch(p) ==
    /\ held[p] = {}
    /\ Batch # {}
    /\ held' = [held EXCEPT ![p] = Batch]
    /\ UNCHANGED <<rowOf, retryCount, deadLetters, outcome, brokerUp, delivered, faults>>

\* publish returns: the broker confirmed the message.
PublishConfirmed(p, e) ==
    /\ AtRow(p, e)
    /\ brokerUp
    /\ e \notin Poison
    /\ delivered' = [delivered EXCEPT ![e] = @ + 1]
    /\ outcome' = [outcome EXCEPT ![p][e] = "published"]
    /\ UNCHANGED <<rowOf, retryCount, deadLetters, held, brokerUp, faults>>

\* Mutant: an unavailable broker is logged and skipped.
PublishSkipped(p, e) ==
    /\ AtRow(p, e)
    /\ ~brokerUp \/ e \in Poison
    /\ outcome' = [outcome EXCEPT ![p][e] = "published"]
    /\ UNCHANGED <<rowOf, retryCount, deadLetters, held, brokerUp, delivered, faults>>

\* publish raises: no connection, or an event that cannot be sent.  The
\* exception is caught and the loop goes on with the next row.
PublishRaised(p, e) ==
    /\ AtRow(p, e)
    /\ ~brokerUp \/ e \in Poison
    /\ outcome' = [outcome EXCEPT ![p][e] = "failed"]
    /\ UNCHANGED <<rowOf, retryCount, deadLetters, held, brokerUp, delivered, faults>>

\* publish raises although the broker has the message: the confirm was lost.
ConfirmLost(p, e) ==
    /\ AtRow(p, e)
    /\ brokerUp
    /\ e \notin Poison
    /\ faults < MaxFaults
    /\ delivered' = [delivered EXCEPT ![e] = @ + 1]
    /\ outcome' = [outcome EXCEPT ![p][e] = "failed"]
    /\ faults' = faults + 1
    /\ UNCHANGED <<rowOf, retryCount, deadLetters, held, brokerUp>>

\* A failed row that has used up its retries, this failure included.
Exhausted(e) == retryCount[e] + 1 >= MaxRetries

\* Mutant: a failure is not counted.
CommitWithoutCount(p) ==
    LET done   == {e \in held[p] : outcome[p][e] = "published"}
        failed == {e \in held[p] : outcome[p][e] = "failed"}
        buried == {e \in failed : Exhausted(e)}
    IN /\ held[p] # {} /\ Untried(p) = {}
       /\ rowOf' = [e \in Events |-> IF e \in done THEN "published"
                                     ELSE IF e \in buried THEN "moved" ELSE rowOf[e]]
       /\ retryCount' = retryCount
       /\ deadLetters' = [e \in Events |-> IF e \in buried THEN deadLetters[e] + 1
                                           ELSE deadLetters[e]]
       /\ held' = [held EXCEPT ![p] = {}]
       /\ outcome' = [outcome EXCEPT ![p] = NoOutcome]
       /\ UNCHANGED <<brokerUp, delivered, faults>>

\* session.begin() commits: published flags, retry bumps, dead-letter moves.
CommitBatch(p) ==
    LET done   == {e \in held[p] : outcome[p][e] = "published"}
        failed == {e \in held[p] : outcome[p][e] = "failed"}
        buried == {e \in failed : Exhausted(e)}
    IN /\ held[p] # {} /\ Untried(p) = {}
       /\ rowOf' = [e \in Events |-> IF e \in done THEN "published"
                                     ELSE IF e \in buried THEN "moved" ELSE rowOf[e]]
       /\ retryCount' = [e \in Events |-> IF e \in failed THEN retryCount[e] + 1
                                          ELSE retryCount[e]]
       /\ deadLetters' = [e \in Events |-> IF e \in buried THEN deadLetters[e] + 1
                                           ELSE deadLetters[e]]
       /\ held' = [held EXCEPT ![p] = {}]
       /\ outcome' = [outcome EXCEPT ![p] = NoOutcome]
       /\ UNCHANGED <<brokerUp, delivered, faults>>

\* The process dies: its transaction rolls back and its row locks go.
Crash(p) ==
    /\ held[p] # {}
    /\ faults < MaxFaults
    /\ held' = [held EXCEPT ![p] = {}]
    /\ outcome' = [outcome EXCEPT ![p] = NoOutcome]
    /\ faults' = faults + 1
    /\ UNCHANGED <<rowOf, retryCount, deadLetters, brokerUp, delivered>>

\* The robust connection drops, and reconnects in the background.
BrokerFlips ==
    /\ brokerUp' = ~brokerUp
    /\ UNCHANGED <<rowOf, retryCount, deadLetters, held, outcome, delivered, faults>>

ProjectorStep(p) ==
    \/ LockBatch(p) \/ CommitBatch(p)
    \/ \E e \in Events : PublishConfirmed(p, e) \/ PublishRaised(p, e)

Next ==
    \/ \E e \in Events : Emit(e)
    \/ \E p \in Projectors :
        ProjectorStep(p) \/ Crash(p) \/ \E e \in Events : ConfirmLost(p, e)
    \/ BrokerFlips

Spec == Init /\ [][Next]_vars

\* run_projector polls for ever; a process that died is restarted.
FairSpec == Spec /\ \A p \in Projectors : WF_vars(ProjectorStep(p))

-----------------------------------------------------------------------------
(* Properties *)

\* The tables and what the projectors hold in memory.
TypeOK ==
    /\ rowOf \in [Events -> {"absent", "pending", "published", "moved"}]
    /\ retryCount \in [Events -> 0 .. MaxRetries]
    /\ deadLetters \in [Events -> Nat]
    /\ held \in [Projectors -> SUBSET Events]
    /\ outcome \in [Projectors -> [Events -> {"none", "published", "failed"}]]
    /\ brokerUp \in BOOLEAN /\ delivered \in [Events -> Nat] /\ faults \in 0 .. MaxFaults

\* Two projectors never work on the same row, and a locked row is pending.
BatchesAreDisjoint ==
    /\ \A p, q \in Projectors : p # q => held[p] \cap held[q] = {}
    /\ \A p \in Projectors : held[p] \subseteq Pending

\* A row flagged published has reached the broker: no event is marked delivered
\* that the broker never saw.
PublishedWasDelivered ==
    \A e \in Events : rowOf[e] = "published" => delivered[e] > 0

\* An event is copied to the dead letters exactly when it is deleted from the
\* outbox, once, and only after MaxRetries failed publishes.
MovedExactlyOnce ==
    \A e \in Events :
        /\ deadLetters[e] = IF rowOf[e] = "moved" THEN 1 ELSE 0
        /\ rowOf[e] = "moved" <=> retryCount[e] >= MaxRetries

\* An extra copy of a message is always paid for by a crash after a publish or
\* by a lost confirm: concurrent projectors never duplicate by themselves.
DuplicatesNeedFaults ==
    \A e \in Events : delivered[e] <= 1 + faults

\* A pending event is eventually published or dead-lettered, even while the
\* broker flips for ever and poison events sit in the same batches.
PendingIsSettled ==
    \A e \in Events : rowOf[e] = "pending" ~> rowOf[e] \in {"published", "moved"}

\* What an at-least-once channel sees of an event.
Seen(e) == IF rowOf[e] = "published" THEN "done"
           ELSE IF rowOf[e] = "moved" THEN "buried" ELSE rowOf[e]

\* The refinement: the outbox is an at-least-once channel.
Promise == INSTANCE AtLeastOnce WITH
    Items <- Events, copies <- delivered, state <- [e \in Events |-> Seen(e)]

\* Every step of the projectors is a step of the at-least-once channel.
ImplementsAtLeastOnce == Promise!AloSpec
=============================================================================
