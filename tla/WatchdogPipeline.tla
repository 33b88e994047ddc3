-------------------------- MODULE WatchdogPipeline --------------------------
(***************************************************************************)
(* The consuming end of expenses.created: every application process runs a *)
(* watchdog consumer (workers/consumers/watchdog_consumer.py) that takes   *)
(* one message at a time, analyses the expense, raises an alert and marks  *)
(* the expense in Redis; what it cannot process is dead-lettered, and a    *)
(* periodic sweep (workers/tasks/dlq_tasks.py) sends dead letters back to  *)
(* the queue.  Queues are first in, first out; an unacknowledged message   *)
(* goes back to the head of its queue when its reader dies.                *)
(***************************************************************************)
EXTENDS Naturals, Sequences, FiniteSets, SequencesExt

CONSTANTS
    Expenses,       \* expense ids
    Junk,           \* bodies without a readable expense_id, which always fail
    Consumers,      \* processes running run_watchdog_consumer
    MaxDeathCount,  \* MAX_DEATH_COUNT
    MaxMishaps      \* bound on crashes, duplicates, expiries and failed calls

ASSUME PipelineAssumption ==
    /\ Expenses \cap Junk = {}
    /\ IsFiniteSet(Consumers)
    /\ MaxDeathCount \in Nat /\ MaxMishaps \in Nat

Bodies == Expenses \cup Junk

VARIABLES
    mainQ,      \* finguard.agent_e.events
    dlq,        \* finguard.agent_e.events.dlq
    at,         \* where each consumer is in _process_message
    msg,        \* the message it has not yet acknowledged, <<>> or <<m>>
    sweep,      \* "idle", "got" or "sent": where _drain_dlq is with a message
    swept,      \* the message it has not yet acknowledged
    processed,  \* processed:expenses:* keys in Redis
    analyses,   \* completed analyses per expense (intelligence_hub)
    active,     \* ACTIVE alerts per expense
    emitted,    \* bodies the outbox has published
    discarded,  \* bodies acknowledged by the poison guard
    mishaps

watchdogVars == <<mainQ, dlq, at, msg, sweep, swept, processed, analyses, active,
                  emitted, discarded, mishaps>>

broker == <<mainQ, dlq>>
sweeper == <<sweep, swept>>
effects == <<processed, analyses, active>>

\* A message: its body, the death count its x-death header adds up to, and (a
\* history value, counted up to one past the limit) how often it really died.
Message(b, x, n) == [body |-> b, xDeath |-> x, died |-> n]
Messages == [body : Bodies, xDeath : 0 .. MaxDeathCount + 1,
             died : 0 .. MaxDeathCount + 1]

UpTo(n) == IF n > MaxDeathCount THEN MaxDeathCount + 1 ELSE n

\* RabbitMQ adds a death to the header of what it dead-letters.
Died(m) == Message(m.body, UpTo(m.xDeath + 1), UpTo(m.died + 1))

Body(c) == msg[c][1].body

Mishap == mishaps < MaxMishaps /\ mishaps' = mishaps + 1

-----------------------------------------------------------------------------

WatchdogInit ==
    /\ mainQ = <<>> /\ dlq = <<>>
    /\ at = [c \in Consumers |-> "idle"]
    /\ msg = [c \in Consumers |-> <<>>]
    /\ sweep = "idle" /\ swept = <<>>
    /\ processed = {}
    /\ analyses = [e \in Expenses |-> 0]
    /\ active = [e \in Expenses |-> 0]
    /\ emitted = {} /\ discarded = {} /\ mishaps = 0

\* The outbox publishes an event, and may publish it again (see Outbox).
Publish(b) ==
    /\ IF b \in emitted THEN Mishap ELSE UNCHANGED mishaps
    /\ emitted' = emitted \cup {b}
    /\ mainQ' = Append(mainQ, Message(b, 0, 0))
    /\ UNCHANGED <<dlq, at, msg, sweeper, effects, discarded>>

\* x-message-ttl: a message grows too old in the main queue.
Expire ==
    /\ mainQ # <<>>
    /\ Mishap
    /\ mainQ' = Tail(mainQ)
    /\ dlq' = Append(dlq, Died(Head(mainQ)))
    /\ UNCHANGED <<at, msg, sweeper, effects, emitted, discarded>>

\* IDEMPOTENCY_TTL: the Redis key of an expense runs out.
KeyExpires(e) ==
    /\ e \in processed
    /\ Mishap
    /\ processed' = processed \ {e}
    /\ UNCHANGED <<broker, at, msg, sweeper, analyses, active, emitted, discarded>>

-----------------------------------------------------------------------------
(* _process_message; prefetch_count is 1. *)

Receive(c) ==
    /\ at[c] = "idle" /\ mainQ # <<>>
    /\ msg' = [msg EXCEPT ![c] = <<Head(mainQ)>>]
    /\ mainQ' = Tail(mainQ)
    /\ at' = [at EXCEPT ![c] = "received"]
    /\ UNCHANGED <<dlq, sweeper, effects, emitted, discarded, mishaps>>

\* message.ack(), and message.nack(requeue=False)
Ack(c) ==
    /\ msg' = [msg EXCEPT ![c] = <<>>]
    /\ at' = [at EXCEPT ![c] = "idle"]
    /\ UNCHANGED dlq

Nack(c) ==
    /\ msg' = [msg EXCEPT ![c] = <<>>]
    /\ at' = [at EXCEPT ![c] = "idle"]
    /\ dlq' = Append(dlq, Died(msg[c][1]))

\* Malformed JSON or no expense_id.  (A body that is JSON but no object would raise
\* instead; nothing in the source publishes one.)
RejectJunk(c) ==
    /\ at[c] = "received" /\ Body(c) \in Junk
    /\ Nack(c)
    /\ UNCHANGED <<mainQ, sweeper, effects, emitted, discarded, mishaps>>

\* _is_processed: skip and acknowledge, or go on.
CheckProcessed(c) ==
    /\ at[c] = "received" /\ Body(c) \in Expenses
    /\ IF Body(c) \in processed
       THEN Ack(c)
       ELSE at' = [at EXCEPT ![c] = "handle"] /\ UNCHANGED <<msg, dlq>>
    /\ UNCHANGED <<mainQ, sweeper, effects, emitted, discarded, mishaps>>

\* run_watchdog_for_expense returns; alert_from_watchdog finds something to raise, or
\* not (the models and the history it reads change between two analyses).
Analyse(c) ==
    /\ at[c] = "handle"
    /\ analyses' = [analyses EXCEPT ![Body(c)] = @ + 1]
    /\ \E next \in {"alert", "mark"} : at' = [at EXCEPT ![c] = next]
    /\ UNCHANGED <<broker, msg, sweeper, processed, active, emitted, discarded, mishaps>>

\* Mutant: the error path acknowledges instead of dead-lettering.
FailAndAck(c) ==
    /\ at[c] = "handle"
    /\ Mishap
    /\ Ack(c)
    /\ UNCHANGED <<mainQ, sweeper, effects, emitted, discarded>>

\* It raises.
AnalysisFails(c) ==
    /\ at[c] = "handle"
    /\ Mishap
    /\ Nack(c)
    /\ UNCHANGED <<mainQ, sweeper, effects, emitted, discarded>>

\* Mutant: every analysis raises its own alert.
FindNoAlert(c) ==
    /\ at[c] = "alert"
    /\ at' = [at EXCEPT ![c] = "insert"]
    /\ UNCHANGED <<broker, msg, sweeper, effects, emitted, discarded, mishaps>>

\* create_alert_idempotent looks for an ACTIVE alert with the expense's key ...
FindAlert(c) ==
    /\ at[c] = "alert"
    /\ at' = [at EXCEPT ![c] = IF active[Body(c)] > 0 THEN "mark" ELSE "insert"]
    /\ UNCHANGED <<broker, msg, sweeper, effects, emitted, discarded, mishaps>>

\* ... and inserts one in a transaction of its own.
InsertAlert(c) ==
    /\ at[c] = "insert"
    /\ active' = [active EXCEPT ![Body(c)] = @ + 1]
    /\ at' = [at EXCEPT ![c] = "mark"]
    /\ UNCHANGED <<broker, msg, sweeper, processed, analyses, emitted, discarded, mishaps>>

\* _raise_watchdog_alert swallows what goes wrong in either.
AlertFails(c) ==
    /\ at[c] \in {"alert", "insert"}
    /\ Mishap
    /\ at' = [at EXCEPT ![c] = "mark"]
    /\ UNCHANGED <<broker, msg, sweeper, effects, emitted, discarded>>

MarkProcessed(c) ==
    /\ at[c] = "mark"
    /\ processed' = processed \cup {Body(c)}
    /\ at' = [at EXCEPT ![c] = "ack"]
    /\ UNCHANGED <<broker, msg, sweeper, analyses, active, emitted, discarded, mishaps>>

\* _mark_processed raises: the message is dead-lettered after its analysis.
MarkFails(c) ==
    /\ at[c] = "mark"
    /\ Mishap
    /\ Nack(c)
    /\ UNCHANGED <<mainQ, sweeper, effects, emitted, discarded>>

AckProcessed(c) ==
    /\ at[c] = "ack"
    /\ Ack(c)
    /\ UNCHANGED <<mainQ, sweeper, effects, emitted, discarded, mishaps>>

\* The process dies and comes back: the broker requeues what it held.
ConsumerDies(c) ==
    /\ msg[c] # <<>>
    /\ Mishap
    /\ mainQ' = msg[c] \o mainQ
    /\ msg' = [msg EXCEPT ![c] = <<>>]
    /\ at' = [at EXCEPT ![c] = "idle"]
    /\ UNCHANGED <<dlq, sweeper, effects, emitted, discarded>>

\* _is_processed raises (Redis is away).  The call is outside the try block, so
\* the exception ends run_watchdog_consumer and its connection; nothing in the
\* application starts the task again.
ConsumerEnds(c) ==
    /\ at[c] = "received" /\ Body(c) \in Expenses
    /\ Mishap
    /\ mainQ' = msg[c] \o mainQ
    /\ msg' = [msg EXCEPT ![c] = <<>>]
    /\ at' = [at EXCEPT ![c] = "ended"]
    /\ UNCHANGED <<dlq, sweeper, effects, emitted, discarded>>

\* An operator restarts the application.
Restart(c) ==
    /\ at[c] = "ended"
    /\ at' = [at EXCEPT ![c] = "idle"]
    /\ UNCHANGED <<broker, msg, sweeper, effects, emitted, discarded, mishaps>>

-----------------------------------------------------------------------------
(* _drain_dlq, one message at a time. *)

Get ==
    /\ sweep = "idle" /\ dlq # <<>>
    /\ swept' = <<Head(dlq)>>
    /\ dlq' = Tail(dlq)
    /\ sweep' = "got"
    /\ UNCHANGED <<mainQ, at, msg, effects, emitted, discarded, mishaps>>

\* death_count > MAX_DEATH_COUNT
Poisonous(m) == m.xDeath > MaxDeathCount

\* The poison guard acknowledges; anything else is republished to the primary
\* exchange as a new message without x-death.
Republish ==
    /\ sweep = "got"
    /\ IF Poisonous(swept[1])
       THEN /\ discarded' = discarded \cup {swept[1].body}
            /\ swept' = <<>> /\ sweep' = "idle"
            /\ UNCHANGED mainQ
       ELSE /\ mainQ' = Append(mainQ, Message(swept[1].body, 0, swept[1].died))
            /\ sweep' = "sent"
            /\ UNCHANGED <<swept, discarded>>
    /\ UNCHANGED <<dlq, at, msg, effects, emitted, mishaps>>

\* publish raises, before or after the broker took the message: nack(requeue=True).
RepublishFails ==
    /\ sweep = "got" /\ ~Poisonous(swept[1])
    /\ Mishap
    /\ \E taken \in BOOLEAN :
        mainQ' = IF taken THEN Append(mainQ, Message(swept[1].body, 0, swept[1].died))
                 ELSE mainQ
    /\ dlq' = swept \o dlq
    /\ swept' = <<>> /\ sweep' = "idle"
    /\ UNCHANGED <<at, msg, effects, emitted, discarded>>

AckSwept ==
    /\ sweep = "sent"
    /\ swept' = <<>> /\ sweep' = "idle"
    /\ UNCHANGED <<broker, at, msg, effects, emitted, discarded, mishaps>>

\* Mutant of the order: the dead letter is acknowledged when it is fetched.
SweepLoses ==
    /\ swept # <<>>
    /\ Mishap
    /\ swept' = <<>> /\ sweep' = "idle"
    /\ UNCHANGED <<broker, at, msg, effects, emitted, discarded>>

\* The sweep dies; its channel closes and the broker requeues its message.
SweepDies ==
    /\ swept # <<>>
    /\ Mishap
    /\ dlq' = swept \o dlq
    /\ swept' = <<>> /\ sweep' = "idle"
    /\ UNCHANGED <<mainQ, at, msg, effects, emitted, discarded>>

-----------------------------------------------------------------------------

\* The alert page: a person resolves an alert (AlertService.resolve_alert).
ResolveAlert(e) ==
    /\ active[e] > 0
    /\ active' = [active EXCEPT ![e] = @ - 1]
    /\ UNCHANGED <<broker, at, msg, sweeper, processed, analyses, emitted, discarded, mishaps>>

ConsumerStep(c) ==
    \/ Receive(c) \/ RejectJunk(c) \/ CheckProcessed(c)
    \/ Analyse(c) \/ FindAlert(c) \/ InsertAlert(c) \/ MarkProcessed(c) \/ AckProcessed(c)

SweepStep == Get \/ Republish \/ AckSwept

WatchdogNext ==
    \/ \E b \in Bodies : Publish(b)
    \/ \E e \in Expenses : KeyExpires(e) \/ ResolveAlert(e)
    \/ \E c \in Consumers :
        ConsumerStep(c) \/ AnalysisFails(c) \/ AlertFails(c) \/ MarkFails(c)
        \/ ConsumerDies(c) \/ ConsumerEnds(c) \/ Restart(c)
    \/ SweepStep \/ RepublishFails \/ SweepDies \/ Expire

WatchdogSpec == WatchdogInit /\ [][WatchdogNext]_watchdogVars

\* Consumers read for ever until they end, Celery beat sweeps every 15 minutes.
\* Nothing obliges an operator to restart an ended consumer.
FairWatchdogSpec == WatchdogSpec /\ WF_watchdogVars(SweepStep)
            /\ \A c \in Consumers : WF_watchdogVars(ConsumerStep(c))

-----------------------------------------------------------------------------
(* Properties *)

AtMostOne == {<<>>} \cup {<<m>> : m \in Messages}

\* Queues hold messages; a consumer past "idle" and a sweep past "idle" hold one.
WatchdogTypeOK ==
    /\ mainQ \in Seq(Messages) /\ dlq \in Seq(Messages)
    /\ at \in [Consumers -> {"idle", "received", "handle", "alert", "insert",
                             "mark", "ack", "ended"}]
    /\ msg \in [Consumers -> AtMostOne]
    /\ \A c \in Consumers : msg[c] = <<>> <=> at[c] \in {"idle", "ended"}
    /\ sweep \in {"idle", "got", "sent"} /\ swept \in AtMostOne
    /\ swept = <<>> <=> sweep = "idle"
    /\ processed \subseteq Expenses
    /\ analyses \in [Expenses -> Nat] /\ active \in [Expenses -> Nat]
    /\ emitted \subseteq Bodies /\ discarded \subseteq Bodies /\ mishaps \in 0 .. MaxMishaps

\* The bodies the broker or one of its readers still has.
InBroker ==
    {m.body : m \in ToSet(mainQ) \cup ToSet(dlq) \cup ToSet(swept)
                    \cup UNION {ToSet(msg[c]) : c \in Consumers}}

\* The safety contract of the dead-letter sweep and of the consumer's
\* acknowledgements: an event is analysed or still in a queue, whoever dies at
\* whatever moment.  None is dropped without an analysis.
NothingIsDropped ==
    \A b \in emitted : \/ b \in InBroker
                       \/ b \in discarded
                       \/ b \in Expenses /\ analyses[b] > 0

\* The look-up of create_alert_idempotent leaves at most one alert per consumer
\* process that was past its look-up at the time, however often an expense comes
\* back through crashes, duplicates, expired keys and replays.
AlertsAreBounded == \A e \in Expenses : active[e] <= Cardinality(Consumers)

\* Every event that can be analysed is, although junk circulates for ever
\* between the two queues; unless every consumer has ended.
EventuallyAnalysed ==
    \A e \in Expenses :
        (e \in emitted) ~> (analyses[e] > 0 \/ \A c \in Consumers : at[c] = "ended")
=============================================================================
