----------------------------- MODULE EmailOutbox -----------------------------
(***************************************************************************)
(* Transactional e-mail (domains/notifications, workers/email/flusher.py,  *)
(* workers/tasks/email_tasks.py): business transactions and the daily      *)
(* reminder sweep enqueue under an idempotency key, flushers send batches  *)
(* over SMTP and record the outcome in one commit, mails that keep failing *)
(* become dead letters that operators may replay.                          *)
(***************************************************************************)
EXTENDS Integers, FiniteSets, Sequences, SequencesExt

CONSTANTS
    MailEvents,   \* business events that trigger a mail, each with a key of its own
    Invoices,     \* sent invoices, which the reminder sweep looks at
    Mandatory,    \* the events of a category that nobody can opt out of
    TwoIds,       \* the events whose key already holds two ids
    Flushers, Operators,
    MailBatch, MailRetries,   \* _BATCH_SIZE, EMAIL_MAX_RETRIES
    DueSoonDays, OverdueDays, \* REMINDER_DUE_SOON_DAYS, REMINDER_OVERDUE_DAYS
    DueDay, LastDay,          \* the day the invoices fall due, and the last one looked at
    MaxMails, MaxDeaths   \* bounds: rows ever written, flushers that die

ASSUME EmailAssumption ==
    /\ IsFiniteSet(Invoices)
    /\ Mandatory \subseteq MailEvents /\ TwoIds \subseteq MailEvents
    /\ MailBatch \in Nat \ {0} /\ MailRetries \in Nat \ {0}
    /\ DueSoonDays \in Nat /\ OverdueDays \subseteq Nat \ {0} /\ IsFiniteSet(OverdueDays)
    /\ DueDay \in Nat /\ LastDay \in Nat /\ MaxMails \in Nat /\ MaxDeaths \in Nat

VARIABLES
    mail,      \* the rows of email_outbox ever written, oldest first: key, copies (the
               \* suffixes of replays and resends), status, attempts; "dead" are those
               \* moved to email_dead_letters, "gone" replayed
    accepted,  \* per row: how often the SMTP server has accepted it
    optedOut,  \* the recipient opted out of approvals and reminders
    unpaid,    \* invoices with a balance
    day,       \* today
    batch,     \* per flusher: the rows it has locked and what became of them so far
    replaying, \* per operator: the dead letter on the screen
    deaths

emailVars == <<mail, accepted, optedOut, unpaid, day, batch, replaying, deaths>>

NoBatch == [rows |-> {}, sent |-> {}, failed |-> {}]

EmailInit ==
    /\ mail = <<>> /\ accepted = <<>>
    /\ optedOut = FALSE /\ unpaid = Invoices /\ day = 0
    /\ batch = [f \in Flushers |-> NoBatch]
    /\ replaying = [o \in Operators |-> 0]
    /\ deaths = 0

-----------------------------------------------------------------------------
(* Enqueueing, in the transaction of the business write *)

InOutbox(k) == mail[k].status \in {"pending", "failed", "sent"}

\* Mutant: the key does not name the event.
KeyIsFree(key) == TRUE

\* The unique idempotency_key: ON CONFLICT DO NOTHING.
KeyFree(key) == \A k \in DOMAIN mail : mail[k].key = key /\ mail[k].copies = 0 => ~InOutbox(k)

Row(key, copies) == [key |-> key, copies |-> copies, status |-> "pending", attempts |-> 0]

\* idempotency_key has 120 characters: room for two ids, so a key with one takes one
\* suffix more and a key with two takes none.
KeyFits(key, copies) == copies + (IF key[2] \in TwoIds THEN 2 ELSE 1) <= 2

\* Insert rows under the keys, as far as they are free.
Enqueue(keys) ==
    LET new == SetToSeq({k \in keys : KeyFree(k)}) IN
    /\ Len(mail) + Len(new) <= MaxMails
    /\ mail' = mail \o [i \in DOMAIN new |-> Row(new[i], 0)]
    /\ accepted' = accepted \o [i \in DOMAIN new |-> 0]

\* A registration, an approval, a payment, a sent invoice, ... or the same once more.
Trigger(e) ==
    /\ optedOut => e \in Mandatory
    /\ Enqueue({<<"event", e>>})
    /\ UNCHANGED <<optedOut, unpaid, day, batch, replaying, deaths>>

\* _reminder_tier: nothing on the due date itself, then the highest threshold crossed.
Tier(overdue) ==
    LET crossed == {t \in OverdueDays : overdue >= t} IN
    IF overdue < 0 /\ -overdue <= DueSoonDays THEN 0
    ELSE IF crossed = {} THEN -1
    ELSE CHOOSE t \in crossed : \A u \in crossed : u <= t

\* _dispatch_payment_reminders, any number of times a day
SweepReminders ==
    /\ Tier(day - DueDay) >= 0 /\ ~optedOut
    /\ Enqueue({<<"reminder", i, Tier(day - DueDay)>> : i \in unpaid})
    /\ UNCHANGED <<optedOut, unpaid, day, batch, replaying, deaths>>

NextDay ==
    /\ day < LastDay /\ day' = day + 1
    /\ UNCHANGED <<mail, accepted, optedOut, unpaid, batch, replaying, deaths>>

Paid(i) ==
    /\ i \in unpaid /\ unpaid' = unpaid \ {i}
    /\ UNCHANGED <<mail, accepted, optedOut, day, batch, replaying, deaths>>

\* The preferences page turns mails off and on, an unsubscribe link only off.
SetOptOut ==
    /\ optedOut' \in BOOLEAN
    /\ UNCHANGED <<mail, accepted, unpaid, day, batch, replaying, deaths>>

-----------------------------------------------------------------------------
(* Flushing *)

Waiting(k) == mail[k].status \in {"pending", "failed"}
Locked(k) == \E f \in Flushers : k \in batch[f].rows

\* The oldest waiting rows among those, MailBatch of them
OldestWaiting(among) ==
    LET rows == {k \in among : Waiting(k)}
    IN {k \in rows : Cardinality({j \in rows : j < k}) < MailBatch}

\* Mutant: rows are taken without a lock.
TakeUnlocked(f) ==
    LET rows == OldestWaiting(DOMAIN mail) IN
    /\ batch[f].rows = {} /\ rows # {}
    /\ batch' = [batch EXCEPT ![f] = [NoBatch EXCEPT !.rows = rows]]
    /\ UNCHANGED <<mail, accepted, optedOut, unpaid, day, replaying, deaths>>

\* FOR UPDATE SKIP LOCKED
TakeBatch(f) ==
    LET rows == OldestWaiting({k \in DOMAIN mail : ~Locked(k)}) IN
    /\ batch[f].rows = {} /\ rows # {}
    /\ batch' = [batch EXCEPT ![f] = [NoBatch EXCEPT !.rows = rows]]
    /\ UNCHANGED <<mail, accepted, optedOut, unpaid, day, replaying, deaths>>

Tried(f) == batch[f].sent \cup batch[f].failed

\* send_email renders the mail and its attachment and hands it to the SMTP server.
Deliver(k) == accepted' = [accepted EXCEPT ![k] = @ + 1]

\* The oldest mail of the batch not yet tried.  Whatever raises makes the attempt a failed
\* one: before the server has taken the mail, or after it, when its reply is late or lost
\* or closing the session fails.
Send(f) ==
    /\ \E k \in batch[f].rows \ Tried(f) :
        /\ \A j \in batch[f].rows \ Tried(f) : k <= j
        /\ \/ /\ batch' = [batch EXCEPT ![f].sent = @ \cup {k}]
              /\ Deliver(k)
           \/ /\ batch' = [batch EXCEPT ![f].failed = @ \cup {k}]
              /\ UNCHANGED accepted \/ Deliver(k)
    /\ UNCHANGED <<mail, optedOut, unpaid, day, replaying, deaths>>

\* Mutant: a failed attempt is not counted.
OutcomeUncounted(f, k) ==
    IF k \in batch[f].sent THEN [mail[k] EXCEPT !.status = "sent"]
    ELSE IF k \in batch[f].failed THEN [mail[k] EXCEPT !.status = "failed"]
    ELSE mail[k]

\* A failure counts, and the MailRetries-th moves the row to the dead letters.
Outcome(f, k) ==
    LET tries == mail[k].attempts + 1 IN
    IF k \in batch[f].sent THEN [mail[k] EXCEPT !.status = "sent"]
    ELSE IF k \in batch[f].failed
    THEN [mail[k] EXCEPT !.attempts = tries,
                         !.status = IF tries >= MailRetries THEN "dead" ELSE "failed"]
    ELSE mail[k]

\* The whole batch commits at once.
CommitMails(f) ==
    /\ batch[f].rows # {} /\ Tried(f) = batch[f].rows
    /\ mail' = [k \in DOMAIN mail |-> Outcome(f, k)]
    /\ batch' = [batch EXCEPT ![f] = NoBatch]
    /\ UNCHANGED <<accepted, optedOut, unpaid, day, replaying, deaths>>

\* The process or the database connection is lost and the locks with it; the loop, or
\* the next task, polls again.
FlusherDies(f) ==
    /\ batch[f].rows # {} /\ deaths < MaxDeaths
    /\ deaths' = deaths + 1
    /\ batch' = [batch EXCEPT ![f] = NoBatch]
    /\ UNCHANGED <<mail, accepted, optedOut, unpaid, day, replaying>>

-----------------------------------------------------------------------------
(* Operators *)

ReplayRead(o, k) ==
    /\ replaying[o] = 0 /\ mail[k].status = "dead"
    /\ replaying' = [replaying EXCEPT ![o] = k]
    /\ UNCHANGED <<mail, accepted, optedOut, unpaid, day, batch, deaths>>

\* A copy of a row under a fresh key; one too long for the column fails the request.
AppendCopy(k, rows) ==
    /\ Len(mail) < MaxMails /\ KeyFits(mail[k].key, mail[k].copies + 1)
    /\ mail' = Append(rows, Row(mail[k].key, mail[k].copies + 1))
    /\ accepted' = Append(accepted, 0)

\* A dead letter that another replay has deleted meanwhile is no obstacle.
ReplayWrite(o) ==
    LET k == replaying[o] IN
    /\ k # 0
    /\ replaying' = [replaying EXCEPT ![o] = 0]
    /\ \/ AppendCopy(k, [mail EXCEPT ![k].status = "gone"])
       \/ ~KeyFits(mail[k].key, mail[k].copies + 1) /\ UNCHANGED <<mail, accepted>>
    /\ UNCHANGED <<optedOut, unpaid, day, batch, deaths>>

Resend(k) ==
    /\ InOutbox(k) /\ AppendCopy(k, mail)
    /\ UNCHANGED <<optedOut, unpaid, day, batch, replaying, deaths>>

EmailNext ==
    \/ \E e \in MailEvents : Trigger(e)
    \/ SweepReminders \/ NextDay \/ SetOptOut
    \/ \E i \in Invoices : Paid(i)
    \/ \E f \in Flushers : TakeBatch(f) \/ Send(f) \/ CommitMails(f) \/ FlusherDies(f)
    \/ \E k \in DOMAIN mail : Resend(k) \/ \E o \in Operators : ReplayRead(o, k)
    \/ \E o \in Operators : ReplayWrite(o)

\* The poll loop and the beat schedule run for ever, and SMTP calls time out.
EmailFairness ==
    \A f \in Flushers :
        WF_emailVars(TakeBatch(f)) /\ WF_emailVars(Send(f)) /\ WF_emailVars(CommitMails(f))

EmailSpec == EmailInit /\ [][EmailNext]_emailVars /\ EmailFairness

-----------------------------------------------------------------------------
(* Properties *)

Keys == ({"event"} \X MailEvents) \cup ({"reminder"} \X Invoices \X Nat)

MailRow == [key : Keys, copies : Nat, attempts : Nat,
            status : {"pending", "failed", "sent", "dead", "gone"}]

Batches == [rows : SUBSET DOMAIN mail, sent : SUBSET DOMAIN mail, failed : SUBSET DOMAIN mail]

\* Every row written has its count of deliveries; flushers hold rows, and have tried
\* some of them; operators look at dead letters.
EmailTypeOK ==
    /\ mail \in Seq(MailRow)
    /\ accepted \in [DOMAIN mail -> Nat]
    /\ optedOut \in BOOLEAN /\ unpaid \subseteq Invoices /\ day \in Nat /\ deaths \in Nat
    /\ batch \in [Flushers -> Batches]
    /\ \A f \in Flushers : Tried(f) \subseteq batch[f].rows
    /\ replaying \in [Operators -> {0} \cup DOMAIN mail]

\* At-least-once delivery: every further time that the server takes a mail is paid for by
\* a failed attempt on record or by the death of a flusher, so EMAIL_MAX_RETRIES bounds
\* the copies while no flusher dies, and two flushers never send one row.
RepeatsNeedFaults ==
    \A k \in DOMAIN mail :
        /\ accepted[k] <= 1 + mail[k].attempts + deaths
        /\ accepted[k] <= MailRetries + deaths

\* The ladder of reminders is climbed: the sweep never goes back to a tier, and repeats
\* one only after its mail was dead-lettered.
Reminders == {k \in DOMAIN mail : mail[k].key[1] = "reminder" /\ mail[k].copies = 0}
LadderClimbs ==
    \A j, k \in Reminders :
        j < k /\ mail[j].key[2] = mail[k].key[2] =>
            \/ mail[j].key[3] < mail[k].key[3]
            \/ mail[j].key[3] = mail[k].key[3] /\ mail[j].status \in {"dead", "gone"}

\* Nothing blocks the pipeline: every row is sent or dead-lettered in the end.
EventuallySettled ==
    \A k \in 1 .. MaxMails : (k \in DOMAIN mail) ~> (k \in DOMAIN mail /\ ~Waiting(k))
=============================================================================
