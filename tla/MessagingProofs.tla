--------------------------- MODULE MessagingProofs ---------------------------
(***************************************************************************)
(* What the asynchronous half of the system promises, for any number of    *)
(* events, processes and faults: the outbox that publishes events, the     *)
(* consumer and the sweep at the other end of the queue, and the outbox of *)
(* the e-mails.  Each part has its own specification and its own variables.*)
(***************************************************************************)
EXTENDS Outbox, WatchdogPipeline, EmailOutbox,
        FiniteSetTheorems, SequenceTheorems, WellFoundedInduction, TLAPS

-----------------------------------------------------------------------------
(* Outbox: an at-least-once channel *)

\* An outcome belongs to a row its projector holds.
OutcomesAreHeld ==
    \A p \in Projectors, e \in Events : outcome[p][e] # "none" => e \in held[p]

\* A publish a projector counts as done has reached the broker.
DoneWasDelivered ==
    \A p \in Projectors, e \in Events : outcome[p][e] = "published" => delivered[e] > 0

\* The one copy that needs no fault: the one that is, or is about to be, settled.
Credited(e) ==
    rowOf[e] = "published" \/ \E p \in Projectors : outcome[p][e] = "published"

CopiesAreAccounted ==
    \A e \in Events : /\ ~Credited(e) => delivered[e] <= faults
                      /\ delivered[e] <= faults + 1

OutboxInv ==
    /\ TypeOK /\ BatchesAreDisjoint /\ PublishedWasDelivered /\ MovedExactlyOnce
    /\ OutcomesAreHeld /\ DoneWasDelivered /\ CopiesAreAccounted

\* Nothing is emitted, held or delivered at first.
LEMMA OutboxInitInv == Init => OutboxInv
  BY OutboxAssumption
     DEF Init, OutboxInv, TypeOK, BatchesAreDisjoint, PublishedWasDelivered,
         MovedExactlyOnce, OutcomesAreHeld, DoneWasDelivered, CopiesAreAccounted,
         Credited, Pending, NoOutcome

\* A handler's commit adds a row nobody holds.
LEMMA EmitInv ==
    ASSUME OutboxInv, NEW e \in Events, Emit(e)
    PROVE  OutboxInv'
  BY OutboxAssumption
     DEF Emit, OutboxInv, TypeOK, BatchesAreDisjoint, PublishedWasDelivered,
         MovedExactlyOnce, OutcomesAreHeld, DoneWasDelivered, CopiesAreAccounted,
         Credited, Pending

\* A batch is taken from the rows no projector holds.
LEMMA LockBatchInv ==
    ASSUME OutboxInv, NEW p \in Projectors, LockBatch(p)
    PROVE  OutboxInv'
<1>1. /\ Batch \subseteq Pending
      /\ \A q \in Projectors : Batch \cap held[q] = {}
  BY DEF Batch, LockedBy, Pending
<1>2. BatchesAreDisjoint' /\ TypeOK'
  BY <1>1 DEF LockBatch, OutboxInv, TypeOK, BatchesAreDisjoint, Pending
<1>3. OutcomesAreHeld'
  BY DEF LockBatch, OutboxInv, TypeOK, OutcomesAreHeld
<1>4. QED
  BY <1>2, <1>3
     DEF LockBatch, OutboxInv, PublishedWasDelivered, MovedExactlyOnce,
         DoneWasDelivered, CopiesAreAccounted, Credited

\* A confirmed publish hands over the one copy that needs no fault: the row is
\* pending and no other projector holds it, so none was credited before.
LEMMA PublishConfirmedInv ==
    ASSUME OutboxInv, NEW p \in Projectors, NEW e \in Events, PublishConfirmed(p, e)
    PROVE  OutboxInv'
<1>1. e \in held[p] /\ outcome[p][e] = "none" /\ rowOf[e] = "pending"
  BY DEF PublishConfirmed, AtRow, Untried, OutboxInv, BatchesAreDisjoint, Pending
<1>2. ~Credited(e)
  BY <1>1 DEF OutboxInv, Credited, BatchesAreDisjoint, OutcomesAreHeld
<1>3. TypeOK' /\ BatchesAreDisjoint' /\ OutcomesAreHeld'
  BY <1>1 DEF PublishConfirmed, OutboxInv, TypeOK, BatchesAreDisjoint, OutcomesAreHeld, Pending
<1>4. PublishedWasDelivered' /\ MovedExactlyOnce' /\ DoneWasDelivered'
  BY DEF PublishConfirmed, OutboxInv, TypeOK, PublishedWasDelivered, MovedExactlyOnce,
         DoneWasDelivered
<1>5. CopiesAreAccounted'
  <2>1. Credited(e)'
    BY DEF PublishConfirmed, OutboxInv, TypeOK, Credited
  <2>2. \A f \in Events \ {e} : Credited(f)' = Credited(f)
    BY DEF PublishConfirmed, OutboxInv, TypeOK, Credited
  <2>3. QED
    BY <1>2, <2>1, <2>2 DEF PublishConfirmed, OutboxInv, TypeOK, CopiesAreAccounted
<1>6. QED  BY <1>3, <1>4, <1>5 DEF OutboxInv

\* A publish that raises changes only what its own projector will commit.
LEMMA PublishRaisedInv ==
    ASSUME OutboxInv, NEW p \in Projectors, NEW e \in Events, PublishRaised(p, e)
    PROVE  OutboxInv'
<1>1. e \in held[p] /\ outcome[p][e] = "none"
  BY DEF PublishRaised, AtRow, Untried
<1>2. \A f \in Events : Credited(f)' = Credited(f)
  BY <1>1 DEF PublishRaised, OutboxInv, TypeOK, Credited
<1>3. TypeOK' /\ BatchesAreDisjoint' /\ OutcomesAreHeld'
  BY <1>1 DEF PublishRaised, OutboxInv, TypeOK, BatchesAreDisjoint, OutcomesAreHeld, Pending
<1>4. PublishedWasDelivered' /\ MovedExactlyOnce' /\ DoneWasDelivered'
  BY DEF PublishRaised, OutboxInv, TypeOK, PublishedWasDelivered, MovedExactlyOnce,
         DoneWasDelivered
<1>5. CopiesAreAccounted'
  BY <1>2 DEF PublishRaised, OutboxInv, CopiesAreAccounted
<1>6. QED  BY <1>3, <1>4, <1>5 DEF OutboxInv

\* A lost confirm is a fault, and pays for the copy the broker kept.
LEMMA ConfirmLostInv ==
    ASSUME OutboxInv, NEW p \in Projectors, NEW e \in Events, ConfirmLost(p, e)
    PROVE  OutboxInv'
<1>1. e \in held[p] /\ outcome[p][e] = "none"
  BY DEF ConfirmLost, AtRow, Untried
<1>2. \A f \in Events : Credited(f)' = Credited(f)
  BY <1>1 DEF ConfirmLost, OutboxInv, TypeOK, Credited
<1>3. TypeOK' /\ BatchesAreDisjoint' /\ OutcomesAreHeld'
  BY <1>1, OutboxAssumption
     DEF ConfirmLost, OutboxInv, TypeOK, BatchesAreDisjoint, OutcomesAreHeld, Pending
<1>4. PublishedWasDelivered' /\ MovedExactlyOnce' /\ DoneWasDelivered'
  BY DEF ConfirmLost, OutboxInv, TypeOK, PublishedWasDelivered, MovedExactlyOnce,
         DoneWasDelivered
<1>5. CopiesAreAccounted'
  BY <1>2 DEF ConfirmLost, OutboxInv, TypeOK, CopiesAreAccounted
<1>6. QED  BY <1>3, <1>4, <1>5 DEF OutboxInv

\* A crash takes the credit of every row of the batch, and is the fault that
\* pays for the copies already handed over.
LEMMA CrashInv ==
    ASSUME OutboxInv, NEW p \in Projectors, Crash(p)
    PROVE  OutboxInv'
<1>1. TypeOK' /\ BatchesAreDisjoint' /\ OutcomesAreHeld'
  BY OutboxAssumption
     DEF Crash, NoOutcome, OutboxInv, TypeOK, BatchesAreDisjoint, OutcomesAreHeld, Pending
<1>2. PublishedWasDelivered' /\ MovedExactlyOnce' /\ DoneWasDelivered'
  BY DEF Crash, NoOutcome, OutboxInv, TypeOK, PublishedWasDelivered, MovedExactlyOnce,
         DoneWasDelivered
<1>3. CopiesAreAccounted'
  BY DEF Crash, OutboxInv, TypeOK, CopiesAreAccounted
<1>4. QED  BY <1>1, <1>2, <1>3 DEF OutboxInv

\* The commit turns the outcomes of one batch into rows; a credit moves from the
\* outcome to the published flag.
LEMMA CommitBatchInv ==
    ASSUME OutboxInv, NEW p \in Projectors, CommitBatch(p)
    PROVE  OutboxInv'
<1> DEFINE done   == {e \in held[p] : outcome[p][e] = "published"}
           failed == {e \in held[p] : outcome[p][e] = "failed"}
           buried == {e \in failed : Exhausted(e)}
<1>1. \A e \in held[p] : e \in Events /\ rowOf[e] = "pending"
  BY DEF OutboxInv, TypeOK, BatchesAreDisjoint, Pending
<1>2. \A e \in Events \ held[p] :
        rowOf'[e] = rowOf[e] /\ retryCount'[e] = retryCount[e] /\ deadLetters'[e] = deadLetters[e]
  BY DEF CommitBatch
<1>3. \A e \in held[p] : retryCount[e] < MaxRetries /\ deadLetters[e] = 0
  BY <1>1, OutboxAssumption DEF OutboxInv, TypeOK, MovedExactlyOnce
<1>4. TypeOK'
  BY <1>1, <1>3, OutboxAssumption DEF CommitBatch, NoOutcome, OutboxInv, TypeOK
<1>5. BatchesAreDisjoint' /\ OutcomesAreHeld'
  <2>1. ASSUME NEW q \in Projectors, q # p
        PROVE  held'[q] \subseteq Pending'
    BY <1>2, <2>1 DEF CommitBatch, OutboxInv, TypeOK, BatchesAreDisjoint, Pending
  <2>2. QED
    BY <2>1 DEF CommitBatch, NoOutcome, OutboxInv, TypeOK, BatchesAreDisjoint, OutcomesAreHeld
<1>6. PublishedWasDelivered' /\ DoneWasDelivered'
  BY DEF CommitBatch, NoOutcome, OutboxInv, TypeOK, PublishedWasDelivered, DoneWasDelivered
<1>7. MovedExactlyOnce'
  <2>1. ASSUME NEW e \in held[p]
        PROVE  /\ deadLetters'[e] = IF rowOf'[e] = "moved" THEN 1 ELSE 0
               /\ rowOf'[e] = "moved" <=> retryCount'[e] >= MaxRetries
    BY <1>1, <1>3, <2>1, OutboxAssumption DEF CommitBatch, Exhausted, OutboxInv, TypeOK
  <2>2. QED  BY <1>2, <2>1 DEF OutboxInv, MovedExactlyOnce
<1>8. CopiesAreAccounted'
  <2>1. ASSUME NEW e \in Events, Credited(e)
        PROVE  Credited(e)'
    <3>1. CASE rowOf[e] = "published"
      BY <1>1, <1>2, <3>1 DEF Credited
    <3>2. CASE outcome[p][e] = "published"
      BY <3>2 DEF CommitBatch, Credited, OutboxInv, OutcomesAreHeld
    <3>3. CASE \E q \in Projectors \ {p} : outcome[q][e] = "published"
      BY <3>3 DEF CommitBatch, Credited, OutboxInv, TypeOK
    <3>4. QED  BY <2>1, <3>1, <3>2, <3>3 DEF Credited
  <2>2. QED  BY <2>1 DEF CommitBatch, OutboxInv, CopiesAreAccounted
<1>9. QED  BY <1>4, <1>5, <1>6, <1>7, <1>8 DEF OutboxInv

\* Every step of the outbox keeps the invariant.
LEMMA OutboxStepInv == OutboxInv /\ [Next]_vars => OutboxInv'
<1> SUFFICES ASSUME OutboxInv, [Next]_vars
             PROVE  OutboxInv'
  OBVIOUS
<1>1. CASE BrokerFlips
  BY <1>1
     DEF BrokerFlips, OutboxInv, TypeOK, BatchesAreDisjoint, PublishedWasDelivered,
         MovedExactlyOnce, OutcomesAreHeld, DoneWasDelivered, CopiesAreAccounted,
         Credited, Pending
<1>2. CASE UNCHANGED vars
  BY <1>2
     DEF vars, OutboxInv, TypeOK, BatchesAreDisjoint, PublishedWasDelivered,
         MovedExactlyOnce, OutcomesAreHeld, DoneWasDelivered, CopiesAreAccounted,
         Credited, Pending
<1>3. QED
  BY <1>1, <1>2, EmitInv, LockBatchInv, PublishConfirmedInv, PublishRaisedInv,
     ConfirmLostInv, CrashInv, CommitBatchInv
     DEF Next, ProjectorStep

\* No event is marked published that the broker never accepted, dead-lettering
\* moves an event exactly once, projectors never share a row and every duplicate
\* is paid for by a fault, for any number of events, projectors and faults.
THEOREM OutboxIsSafe ==
    Spec => [](/\ TypeOK /\ BatchesAreDisjoint /\ PublishedWasDelivered
               /\ MovedExactlyOnce /\ DuplicatesNeedFaults)
<1>1. Init => OutboxInv  BY OutboxInitInv
<1>2. OutboxInv /\ [Next]_vars => OutboxInv'  BY OutboxStepInv
<1>3. OutboxInv => /\ TypeOK /\ BatchesAreDisjoint /\ PublishedWasDelivered
                   /\ MovedExactlyOnce /\ DuplicatesNeedFaults
  BY DEF OutboxInv, TypeOK, CopiesAreAccounted, DuplicatesNeedFaults
<1>4. QED  BY <1>1, <1>2, <1>3, PTL DEF Spec

-----------------------------------------------------------------------------

\* A commit settles its batch: what it publishes was delivered, and everything
\* it settles was pending.
LEMMA CommitSettles ==
    ASSUME OutboxInv, NEW p \in Projectors, CommitBatch(p)
    PROVE  Promise!AloNext
<1> DEFINE done   == {e \in held[p] : outcome[p][e] = "published"}
           failed == {e \in held[p] : outcome[p][e] = "failed"}
           buried == {e \in failed : Exhausted(e)}
<1>1. /\ done \in SUBSET Events /\ buried \in SUBSET Events
      /\ \A e \in done : rowOf[e] = "pending" /\ delivered[e] > 0
      /\ \A e \in buried : rowOf[e] = "pending"
      /\ done \cap buried = {}
  BY DEF OutboxInv, TypeOK, BatchesAreDisjoint, Pending, DoneWasDelivered
<1>2. /\ rowOf' = [e \in Events |-> IF e \in done THEN "published"
                                   ELSE IF e \in buried THEN "moved" ELSE rowOf[e]]
      /\ UNCHANGED delivered
  BY DEF CommitBatch
<1> HIDE DEF done, buried
<1>3. Promise!Settle(done, buried)
  <2>1. \A e \in Events : Seen(e)' = IF e \in done THEN "done"
                                     ELSE IF e \in buried THEN "buried" ELSE Seen(e)
    BY <1>1, <1>2 DEF Seen, OutboxInv, TypeOK
  <2>2. \A e \in done \cup buried : e \in Events /\ Seen(e) = "pending"
    BY <1>1 DEF Seen
  <2>3. QED  BY <1>1, <1>2, <2>1, <2>2 DEF Promise!Settle
<1>4. \E d, b \in SUBSET Events : Promise!Settle(d, b)
  BY <1>1, <1>3
<1>5. QED  BY <1>4 DEF Promise!AloNext

\* The projectors, their crashes and the broker's outages implement the
\* at-least-once channel.
THEOREM OutboxIsAtLeastOnce == Spec => ImplementsAtLeastOnce
<1>1. Init => Promise!AloInit
  BY DEF Init, Seen, Promise!AloInit
<1>2. OutboxInv /\ [Next]_vars => [Promise!AloNext]_(Promise!aloVars)
  <2> SUFFICES ASSUME OutboxInv, [Next]_vars
               PROVE  Promise!AloNext \/ UNCHANGED (Promise!aloVars)
    OBVIOUS
  <2>1. ASSUME NEW e \in Events, Emit(e)
        PROVE  Promise!Submit(e)
    BY <2>1 DEF Emit, Seen, Promise!Submit, OutboxInv, TypeOK
  <2>2. ASSUME NEW p \in Projectors, NEW e \in Events,
               PublishConfirmed(p, e) \/ ConfirmLost(p, e)
        PROVE  Promise!Transmit(e)
    <3>1. rowOf[e] = "pending"
      BY <2>2 DEF PublishConfirmed, ConfirmLost, AtRow, Untried, OutboxInv,
                  BatchesAreDisjoint, Pending
    <3>2. QED  BY <2>2, <3>1 DEF PublishConfirmed, ConfirmLost, Seen, Promise!Transmit
  <2>3. ASSUME UNCHANGED <<rowOf, delivered>>
        PROVE  UNCHANGED (Promise!aloVars)
    BY <2>3 DEF Seen, Promise!aloVars
  <2>4. ASSUME NEW p \in Projectors, NEW e \in Events,
               LockBatch(p) \/ PublishRaised(p, e) \/ Crash(p)
        PROVE  UNCHANGED <<rowOf, delivered>>
    BY <2>4 DEF LockBatch, PublishRaised, Crash
  <2>5. ASSUME NEW p \in Projectors, LockBatch(p) \/ Crash(p)
        PROVE  UNCHANGED <<rowOf, delivered>>
    BY <2>5 DEF LockBatch, Crash
  <2>6. CASE BrokerFlips \/ UNCHANGED vars
    BY <2>3, <2>6 DEF BrokerFlips, vars
  <2>7. CASE Next /\ ~BrokerFlips
    BY <2>1, <2>2, <2>3, <2>4, <2>5, <2>7, CommitSettles
       DEF Next, ProjectorStep, Promise!AloNext
  <2>8. QED  BY <2>6, <2>7
<1>3. QED
  BY <1>1, <1>2, OutboxInitInv, OutboxStepInv, PTL
     DEF Spec, ImplementsAtLeastOnce, Promise!AloSpec

-----------------------------------------------------------------------------
(* WatchdogPipeline: nothing is lost between the queues *)

\* The bodies in a queue.
BodiesIn(q) == {m.body : m \in ToSet(q)}

\* A body is in a queue or in the hands of a consumer ...
InPlay(b) ==
    \/ b \in BodiesIn(mainQ) \/ b \in BodiesIn(dlq)
    \/ \E c \in Consumers : msg[c] # <<>> /\ Body(c) = b

\* ... or of the sweep.
Swept(b) == swept # <<>> /\ swept[1].body = b

Settled(b) == b \in discarded \/ (b \in Expenses /\ analyses[b] > 0)

\* An event is somewhere or done with; and what the sweep has sent back and not yet
\* acknowledged is so without its copy.
EventsAreKept ==
    /\ \A b \in emitted : InPlay(b) \/ Swept(b) \/ Settled(b)
    /\ sweep = "sent" => InPlay(swept[1].body) \/ Settled(swept[1].body)

\* What is past the idempotency check is an expense, what is past the analysis was
\* analysed, and so was what Redis remembers.
WorkIsOnExpenses ==
    /\ \A c \in Consumers : at[c] \in {"handle", "alert", "insert", "mark", "ack"} =>
                                Body(c) \in Expenses
    /\ \A c \in Consumers : at[c] \in {"alert", "insert", "mark", "ack"} =>
                                analyses[Body(c)] > 0
    /\ \A e \in processed : analyses[e] > 0

\* The consumers that looked for an alert on the expense, found none and have yet to
\* insert theirs.
Inserting(e) == {c \in Consumers : at[c] = "insert" /\ Body(c) = e}

\* An alert costs a consumer that was past its look-up.
AlertsAreCounted ==
    \A e \in Expenses : active[e] + Cardinality(Inserting(e)) <= Cardinality(Consumers)

WatchdogInv == WatchdogTypeOK /\ WorkIsOnExpenses /\ EventsAreKept /\ AlertsAreCounted

(* Queues *)

LEMMA Enqueued ==
    ASSUME NEW q \in Seq(Messages), NEW m \in Messages
    PROVE  /\ Append(q, m) \in Seq(Messages) /\ <<m>> \o q \in Seq(Messages)
           /\ BodiesIn(Append(q, m)) = BodiesIn(q) \cup {m.body}
           /\ BodiesIn(<<m>> \o q) = BodiesIn(q) \cup {m.body}
<1>1. Append(q, m) \in Seq(Messages) /\ <<m>> \o q \in Seq(Messages)
  OBVIOUS
<1>2. ToSet(Append(q, m)) = ToSet(q) \cup {m}
  <2> DEFINE s == Append(q, m)
  <2>1. Len(s) = Len(q) + 1 /\ s[Len(q) + 1] = m /\ \A i \in 1 .. Len(q) : s[i] = q[i]
    OBVIOUS
  <2>2. DOMAIN s = 1 .. Len(q) + 1 /\ DOMAIN q = 1 .. Len(q) /\ Len(q) \in Nat
    BY <1>1, <2>1
  <2>3. QED  BY <2>1, <2>2 DEF ToSet
<1>3. ToSet(<<m>> \o q) = ToSet(q) \cup {m}
  <2>1. PICK s : s = <<m>> \o q
    OBVIOUS
  <2>2. Len(s) = Len(q) + 1 /\ s[1] = m /\ \A i \in 1 .. Len(q) : s[i + 1] = q[i]
    BY <2>1
  <2>3. DOMAIN s = 1 .. Len(q) + 1 /\ DOMAIN q = 1 .. Len(q) /\ Len(q) \in Nat
    BY <1>1, <2>1, <2>2
  <2>4. ASSUME NEW i \in 1 .. Len(q) + 1  PROVE s[i] \in ToSet(q) \cup {m}
    <3>1. CASE i = 1  BY <2>2, <3>1
    <3>2. CASE i # 1
      <4>1. i - 1 \in 1 .. Len(q) /\ (i - 1) + 1 = i
        BY <2>3, <3>2
      <4>2. s[i] = q[i - 1]
        BY <2>2, <4>1
      <4>3. QED  BY <2>3, <4>1, <4>2 DEF ToSet
    <3>3. QED  BY <3>1, <3>2
  <2>5. ASSUME NEW i \in 1 .. Len(q)  PROVE i + 1 \in 1 .. Len(q) + 1 /\ s[i + 1] = q[i]
    BY <2>2, <2>3
  <2>6. 1 \in 1 .. Len(q) + 1
    BY <2>3
  <2>7. \A x : x \in ToSet(s) <=> \E i \in 1 .. Len(q) + 1 : x = s[i]
    BY <2>3 DEF ToSet
  <2>8. \A x : x \in ToSet(q) <=> \E i \in 1 .. Len(q) : x = q[i]
    BY <2>3 DEF ToSet
  <2>9. \A x : x \in ToSet(s) <=> x \in ToSet(q) \cup {m}
    BY <2>2, <2>4, <2>5, <2>6, <2>7, <2>8
  <2>10. QED  BY <2>1, <2>9
<1>4. QED  BY <1>1, <1>2, <1>3 DEF BodiesIn

LEMMA Dequeued ==
    ASSUME NEW q \in Seq(Messages), q # <<>>
    PROVE  /\ Head(q) \in Messages /\ Tail(q) \in Seq(Messages)
           /\ BodiesIn(q) = BodiesIn(Tail(q)) \cup {Head(q).body}
<1>1. Head(q) \in Messages /\ Tail(q) \in Seq(Messages)
  OBVIOUS
<1>2. q = <<Head(q)>> \o Tail(q)
  OBVIOUS
<1>3. QED  BY <1>1, <1>2, Enqueued

LEMMA DiedIsMessage ==
    ASSUME NEW m \in Messages
    PROVE  Died(m) \in Messages /\ Died(m).body = m.body
  BY PipelineAssumption DEF Died, Message, Messages, UpTo

\* A reader holds its message, and nothing else.
LEMMA InHand ==
    ASSUME NEW h \in AtMostOne, h # <<>>
    PROVE  h[1] \in Messages /\ h = <<h[1]>> /\ h[1].body \in Bodies
  BY DEF AtMostOne, Messages

-----------------------------------------------------------------------------
(* The invariant is kept *)

LEMMA WatchdogTypes ==
    ASSUME WatchdogTypeOK, WorkIsOnExpenses, WatchdogNext
    PROVE  WatchdogTypeOK'
<1>1. <<>> \in AtMostOne
  BY DEF AtMostOne
<1>2. Mishap => mishaps' \in 0 .. MaxMishaps
  BY PipelineAssumption DEF Mishap, WatchdogTypeOK
<1>3. \A c \in Consumers : at[c] \in {"handle", "alert", "insert", "mark", "ack"} =>
                                Body(c) \in Expenses
  BY DEF WorkIsOnExpenses
<1>4. ASSUME NEW b \in Bodies, Publish(b)  PROVE WatchdogTypeOK'
  <2>1. Message(b, 0, 0) \in Messages
    BY PipelineAssumption DEF Message, Messages
  <2>2. Append(mainQ, Message(b, 0, 0)) \in Seq(Messages)
    BY <2>1, Enqueued DEF WatchdogTypeOK
  <2>3. QED
    BY <1>4, <1>1, <1>2, <2>2 DEF Publish, WatchdogTypeOK, sweeper, effects
<1>5. ASSUME NEW e \in Expenses, KeyExpires(e)  PROVE WatchdogTypeOK'
  BY <1>5, <1>2 DEF KeyExpires, WatchdogTypeOK, broker, sweeper, effects
<1>6. ASSUME NEW e \in Expenses, ResolveAlert(e)  PROVE WatchdogTypeOK'
  BY <1>6 DEF ResolveAlert, WatchdogTypeOK, broker, sweeper, effects
<1>7. ASSUME NEW c \in Consumers, Receive(c)  PROVE WatchdogTypeOK'
  <2>1. Head(mainQ) \in Messages /\ Tail(mainQ) \in Seq(Messages)
    BY <1>7, Dequeued DEF Receive, WatchdogTypeOK
  <2>2. <<Head(mainQ)>> \in AtMostOne /\ <<Head(mainQ)>> # <<>>
    BY <2>1 DEF AtMostOne
  <2>3. QED
    BY <1>7, <1>1, <1>2, <2>1, <2>2 DEF Receive, WatchdogTypeOK, sweeper, effects
<1>8. ASSUME NEW c \in Consumers, RejectJunk(c)  PROVE WatchdogTypeOK'
  <2>1. msg[c] # <<>> /\ msg[c][1] \in Messages
    BY <1>8, InHand DEF RejectJunk, WatchdogTypeOK
  <2>2. Append(dlq, Died(msg[c][1])) \in Seq(Messages)
    BY <2>1, DiedIsMessage, Enqueued DEF WatchdogTypeOK
  <2>3. QED
    BY <1>8, <1>1, <1>2, <2>2 DEF RejectJunk, Nack, WatchdogTypeOK, sweeper, effects
<1>9. ASSUME NEW c \in Consumers, CheckProcessed(c)  PROVE WatchdogTypeOK'
  BY <1>9, <1>1 DEF CheckProcessed, Ack, WatchdogTypeOK, broker, sweeper, effects
<1>10. ASSUME NEW c \in Consumers, Analyse(c)  PROVE WatchdogTypeOK'
  BY <1>10, <1>3 DEF Analyse, WatchdogTypeOK, broker, sweeper, effects
<1>11. ASSUME NEW c \in Consumers, FindAlert(c)  PROVE WatchdogTypeOK'
  BY <1>11 DEF FindAlert, WatchdogTypeOK, broker, sweeper, effects
<1>12. ASSUME NEW c \in Consumers, InsertAlert(c)  PROVE WatchdogTypeOK'
  BY <1>12, <1>3 DEF InsertAlert, WatchdogTypeOK, broker, sweeper, effects
<1>13. ASSUME NEW c \in Consumers, MarkProcessed(c)  PROVE WatchdogTypeOK'
  BY <1>13, <1>3 DEF MarkProcessed, WatchdogTypeOK, broker, sweeper, effects
<1>14. ASSUME NEW c \in Consumers, AckProcessed(c)  PROVE WatchdogTypeOK'
  BY <1>14, <1>1 DEF AckProcessed, Ack, WatchdogTypeOK, broker, sweeper, effects
<1>15. ASSUME NEW c \in Consumers, AnalysisFails(c)  PROVE WatchdogTypeOK'
  <2>1. msg[c] # <<>> /\ msg[c][1] \in Messages
    BY <1>15, InHand DEF AnalysisFails, WatchdogTypeOK
  <2>2. Append(dlq, Died(msg[c][1])) \in Seq(Messages)
    BY <2>1, DiedIsMessage, Enqueued DEF WatchdogTypeOK
  <2>3. QED
    BY <1>15, <1>1, <1>2, <2>2 DEF AnalysisFails, Nack, WatchdogTypeOK, sweeper, effects
<1>16. ASSUME NEW c \in Consumers, AlertFails(c)  PROVE WatchdogTypeOK'
  BY <1>16, <1>2 DEF AlertFails, WatchdogTypeOK, broker, sweeper, effects
<1>17. ASSUME NEW c \in Consumers, MarkFails(c)  PROVE WatchdogTypeOK'
  <2>1. msg[c] # <<>> /\ msg[c][1] \in Messages
    BY <1>17, InHand DEF MarkFails, WatchdogTypeOK
  <2>2. Append(dlq, Died(msg[c][1])) \in Seq(Messages)
    BY <2>1, DiedIsMessage, Enqueued DEF WatchdogTypeOK
  <2>3. QED
    BY <1>17, <1>1, <1>2, <2>2 DEF MarkFails, Nack, WatchdogTypeOK, sweeper, effects
<1>18. ASSUME NEW c \in Consumers, ConsumerDies(c)  PROVE WatchdogTypeOK'
  <2>1. msg[c] # <<>> /\ msg[c][1] \in Messages /\ msg[c] = <<msg[c][1]>>
    BY <1>18, InHand DEF ConsumerDies, WatchdogTypeOK
  <2>2. msg[c] \o mainQ \in Seq(Messages)
    BY <2>1, Enqueued DEF WatchdogTypeOK
  <2>3. QED
    BY <1>18, <1>1, <1>2, <2>2 DEF ConsumerDies, WatchdogTypeOK, sweeper, effects
<1>19. ASSUME NEW c \in Consumers, ConsumerEnds(c)  PROVE WatchdogTypeOK'
  <2>1. msg[c] # <<>> /\ msg[c][1] \in Messages /\ msg[c] = <<msg[c][1]>>
    BY <1>19, InHand DEF ConsumerEnds, WatchdogTypeOK
  <2>2. msg[c] \o mainQ \in Seq(Messages)
    BY <2>1, Enqueued DEF WatchdogTypeOK
  <2>3. QED
    BY <1>19, <1>1, <1>2, <2>2 DEF ConsumerEnds, WatchdogTypeOK, sweeper, effects
<1>20. ASSUME NEW c \in Consumers, Restart(c)  PROVE WatchdogTypeOK'
  BY <1>20 DEF Restart, WatchdogTypeOK, broker, sweeper, effects
<1>21. CASE Get
  <2>1. Head(dlq) \in Messages /\ Tail(dlq) \in Seq(Messages)
    BY <1>21, Dequeued DEF Get, WatchdogTypeOK
  <2>2. <<Head(dlq)>> \in AtMostOne /\ <<Head(dlq)>> # <<>>
    BY <2>1 DEF AtMostOne
  <2>3. QED
    BY <1>21, <1>1, <1>2, <2>1, <2>2 DEF Get, WatchdogTypeOK, effects
<1>22. CASE Republish
  <2>1. swept # <<>> /\ swept[1] \in Messages /\ swept = <<swept[1]>>
    BY <1>22, InHand DEF Republish, WatchdogTypeOK
  <2>2. Message(swept[1].body, 0, swept[1].died) \in Messages
    BY <2>1, PipelineAssumption DEF Message, Messages
  <2>3. Append(mainQ, Message(swept[1].body, 0, swept[1].died)) \in Seq(Messages)
    BY <2>2, Enqueued DEF WatchdogTypeOK
  <2>4. swept[1].body \in Bodies
    BY <2>1 DEF Messages
  <2>5. CASE Poisonous(swept[1])
    BY <1>22, <1>1, <2>4, <2>5 DEF Republish, WatchdogTypeOK, effects
  <2>6. CASE ~Poisonous(swept[1])
    BY <1>22, <2>1, <2>3, <2>6 DEF Republish, WatchdogTypeOK, effects
  <2>7. QED  BY <2>5, <2>6
<1>23. CASE AckSwept
  BY <1>23, <1>1 DEF AckSwept, WatchdogTypeOK, broker, sweeper, effects
<1>24. CASE RepublishFails
  <2>1. swept # <<>> /\ swept[1] \in Messages /\ swept = <<swept[1]>>
    BY <1>24, InHand DEF RepublishFails, WatchdogTypeOK
  <2>2. Message(swept[1].body, 0, swept[1].died) \in Messages
    BY <2>1, PipelineAssumption DEF Message, Messages
  <2>3. Append(mainQ, Message(swept[1].body, 0, swept[1].died)) \in Seq(Messages)
    BY <2>2, Enqueued DEF WatchdogTypeOK
  <2>4. swept \o dlq \in Seq(Messages)
    BY <2>1, Enqueued DEF WatchdogTypeOK
  <2>5. mainQ' \in Seq(Messages)
    BY <1>24, <2>3 DEF RepublishFails, WatchdogTypeOK
  <2>6. QED
    BY <1>24, <1>1, <1>2, <2>4, <2>5 DEF RepublishFails, WatchdogTypeOK, effects
<1>25. CASE SweepDies
  <2>1. swept \o dlq \in Seq(Messages)
    BY <1>25, InHand, Enqueued DEF SweepDies, WatchdogTypeOK
  <2>2. QED
    BY <1>25, <1>1, <1>2, <2>1 DEF SweepDies, WatchdogTypeOK, effects
<1>26. CASE Expire
  <2>1. Head(mainQ) \in Messages /\ Tail(mainQ) \in Seq(Messages)
    BY <1>26, Dequeued DEF Expire, WatchdogTypeOK
  <2>2. Append(dlq, Died(Head(mainQ))) \in Seq(Messages)
    BY <2>1, DiedIsMessage, Enqueued DEF WatchdogTypeOK
  <2>3. QED
    BY <1>26, <1>1, <1>2, <2>1, <2>2 DEF Expire, WatchdogTypeOK, sweeper, effects
<1>27. QED
  BY <1>4, <1>5, <1>6, <1>7, <1>8, <1>9, <1>10, <1>11, <1>12, <1>13, <1>14, <1>15, <1>16, <1>17, <1>18, <1>19, <1>20, <1>21, <1>22, <1>23, <1>24, <1>25, <1>26
     DEF WatchdogNext, ConsumerStep, SweepStep

LEMMA WorkStaysOnExpenses ==
    ASSUME WatchdogTypeOK, WorkIsOnExpenses, WatchdogNext
    PROVE  WorkIsOnExpenses'
<1>1. ASSUME NEW b \in Bodies, Publish(b)  PROVE WorkIsOnExpenses'
  BY <1>1 DEF Publish, WatchdogTypeOK, WorkIsOnExpenses, Body, broker, sweeper, effects
<1>2. ASSUME NEW e \in Expenses, KeyExpires(e)  PROVE WorkIsOnExpenses'
  BY <1>2 DEF KeyExpires, WatchdogTypeOK, WorkIsOnExpenses, Body, broker, sweeper, effects
<1>3. ASSUME NEW e \in Expenses, ResolveAlert(e)  PROVE WorkIsOnExpenses'
  BY <1>3 DEF ResolveAlert, WatchdogTypeOK, WorkIsOnExpenses, Body, broker, sweeper, effects
<1>4. ASSUME NEW c \in Consumers, Receive(c)  PROVE WorkIsOnExpenses'
  BY <1>4 DEF Receive, WatchdogTypeOK, WorkIsOnExpenses, Body, broker, sweeper, effects
<1>5. ASSUME NEW c \in Consumers, RejectJunk(c)  PROVE WorkIsOnExpenses'
  BY <1>5 DEF RejectJunk, Nack, WatchdogTypeOK, WorkIsOnExpenses, Body, broker, sweeper, effects
<1>6. ASSUME NEW c \in Consumers, CheckProcessed(c)  PROVE WorkIsOnExpenses'
  BY <1>6 DEF CheckProcessed, Ack, WatchdogTypeOK, WorkIsOnExpenses, Body, broker, sweeper, effects
<1>7. ASSUME NEW c \in Consumers, Analyse(c)  PROVE WorkIsOnExpenses'
  BY <1>7 DEF Analyse, WatchdogTypeOK, WorkIsOnExpenses, Body, broker, sweeper, effects
<1>8. ASSUME NEW c \in Consumers, FindAlert(c)  PROVE WorkIsOnExpenses'
  BY <1>8 DEF FindAlert, WatchdogTypeOK, WorkIsOnExpenses, Body, broker, sweeper, effects
<1>9. ASSUME NEW c \in Consumers, InsertAlert(c)  PROVE WorkIsOnExpenses'
  BY <1>9 DEF InsertAlert, WatchdogTypeOK, WorkIsOnExpenses, Body, broker, sweeper, effects
<1>10. ASSUME NEW c \in Consumers, MarkProcessed(c)  PROVE WorkIsOnExpenses'
  BY <1>10 DEF MarkProcessed, WatchdogTypeOK, WorkIsOnExpenses, Body, broker, sweeper, effects
<1>11. ASSUME NEW c \in Consumers, AckProcessed(c)  PROVE WorkIsOnExpenses'
  BY <1>11 DEF AckProcessed, Ack, WatchdogTypeOK, WorkIsOnExpenses, Body, broker, sweeper, effects
<1>12. ASSUME NEW c \in Consumers, AnalysisFails(c)  PROVE WorkIsOnExpenses'
  BY <1>12 DEF AnalysisFails, Nack, WatchdogTypeOK, WorkIsOnExpenses, Body, broker, sweeper, effects
<1>13. ASSUME NEW c \in Consumers, AlertFails(c)  PROVE WorkIsOnExpenses'
  BY <1>13 DEF AlertFails, WatchdogTypeOK, WorkIsOnExpenses, Body, broker, sweeper, effects
<1>14. ASSUME NEW c \in Consumers, MarkFails(c)  PROVE WorkIsOnExpenses'
  BY <1>14 DEF MarkFails, Nack, WatchdogTypeOK, WorkIsOnExpenses, Body, broker, sweeper, effects
<1>15. ASSUME NEW c \in Consumers, ConsumerDies(c)  PROVE WorkIsOnExpenses'
  BY <1>15 DEF ConsumerDies, WatchdogTypeOK, WorkIsOnExpenses, Body, broker, sweeper, effects
<1>16. ASSUME NEW c \in Consumers, ConsumerEnds(c)  PROVE WorkIsOnExpenses'
  BY <1>16 DEF ConsumerEnds, WatchdogTypeOK, WorkIsOnExpenses, Body, broker, sweeper, effects
<1>17. ASSUME NEW c \in Consumers, Restart(c)  PROVE WorkIsOnExpenses'
  BY <1>17 DEF Restart, WatchdogTypeOK, WorkIsOnExpenses, Body, broker, sweeper, effects
<1>18. CASE Get
  BY <1>18 DEF Get, WatchdogTypeOK, WorkIsOnExpenses, Body, broker, sweeper, effects
<1>19. CASE Republish
  BY <1>19 DEF Republish, WatchdogTypeOK, WorkIsOnExpenses, Body, broker, sweeper, effects
<1>20. CASE AckSwept
  BY <1>20 DEF AckSwept, WatchdogTypeOK, WorkIsOnExpenses, Body, broker, sweeper, effects
<1>21. CASE RepublishFails
  BY <1>21 DEF RepublishFails, WatchdogTypeOK, WorkIsOnExpenses, Body, broker, sweeper, effects
<1>22. CASE SweepDies
  BY <1>22 DEF SweepDies, WatchdogTypeOK, WorkIsOnExpenses, Body, broker, sweeper, effects
<1>23. CASE Expire
  BY <1>23 DEF Expire, WatchdogTypeOK, WorkIsOnExpenses, Body, broker, sweeper, effects
<1>24. QED
  BY <1>1, <1>2, <1>3, <1>4, <1>5, <1>6, <1>7, <1>8, <1>9, <1>10, <1>11, <1>12, <1>13, <1>14, <1>15, <1>16, <1>17, <1>18, <1>19, <1>20, <1>21, <1>22, <1>23
     DEF WatchdogNext, ConsumerStep, SweepStep

\* What is accounted for stays so; the emitted bodies are those of Publish.
LEMMA NothingGetsLost ==
    ASSUME WatchdogTypeOK, WorkIsOnExpenses, EventsAreKept, WatchdogNext
    PROVE  EventsAreKept'
<1>1. ASSUME NEW b \in Bodies, Publish(b)  PROVE EventsAreKept'
  <2>1. Message(b, 0, 0) \in Messages /\ Message(b, 0, 0).body = b
    BY PipelineAssumption DEF Message, Messages
  <2>2. BodiesIn(mainQ') = BodiesIn(mainQ) \cup {b}
    BY <1>1, <2>1, Enqueued DEF Publish, WatchdogTypeOK
  <2>3. QED
    BY <1>1, <2>2 DEF Publish, EventsAreKept, InPlay, Swept, Settled, Body, broker, sweeper, effects
<1>2. ASSUME NEW e \in Expenses, KeyExpires(e)  PROVE EventsAreKept'
  BY <1>2 DEF KeyExpires, WatchdogTypeOK, EventsAreKept, InPlay, Swept, Settled, Body, broker, sweeper, effects
<1>3. ASSUME NEW e \in Expenses, ResolveAlert(e)  PROVE EventsAreKept'
  BY <1>3 DEF ResolveAlert, WatchdogTypeOK, EventsAreKept, InPlay, Swept, Settled, Body, broker, sweeper, effects
<1>4. ASSUME NEW c \in Consumers, Receive(c)  PROVE EventsAreKept'
  <2>1. BodiesIn(mainQ) = BodiesIn(mainQ') \cup {Head(mainQ).body}
    BY <1>4, Dequeued DEF Receive, WatchdogTypeOK
  <2>2. msg[c] = <<>> /\ msg'[c] # <<>> /\ Body(c)' = Head(mainQ).body
    BY <1>4 DEF Receive, Body, WatchdogTypeOK
  <2>3. \A d \in Consumers : msg[d] # <<>> => msg'[d] = msg[d]
    BY <1>4, <2>2 DEF Receive, WatchdogTypeOK
  <2>4. QED
    BY <1>4, <2>1, <2>2, <2>3 DEF Receive, EventsAreKept, InPlay, Swept, Settled, Body, broker, sweeper, effects
<1>5. ASSUME NEW c \in Consumers, RejectJunk(c)  PROVE EventsAreKept'
  <2>1. msg[c] # <<>> /\ msg[c][1] \in Messages
    BY <1>5, InHand DEF RejectJunk, WatchdogTypeOK
  <2>2. Died(msg[c][1]) \in Messages /\ Died(msg[c][1]).body = Body(c)
    BY <2>1, DiedIsMessage DEF Body
  <2>3. BodiesIn(dlq') = BodiesIn(dlq) \cup {Body(c)}
    BY <1>5, <2>2, Enqueued DEF RejectJunk, Nack, WatchdogTypeOK
  <2>4. QED
    BY <1>5, <2>3 DEF RejectJunk, Nack, WatchdogTypeOK, EventsAreKept, InPlay, Swept, Settled, Body, broker, sweeper, effects
<1>6. ASSUME NEW c \in Consumers, CheckProcessed(c)  PROVE EventsAreKept'
  BY <1>6, InHand DEF CheckProcessed, Ack, WorkIsOnExpenses, WatchdogTypeOK, EventsAreKept, InPlay, Swept, Settled, Body, broker, sweeper, effects
<1>7. ASSUME NEW c \in Consumers, Analyse(c)  PROVE EventsAreKept'
  BY <1>7 DEF Analyse, WatchdogTypeOK, EventsAreKept, InPlay, Swept, Settled, Body, broker, sweeper, effects
<1>8. ASSUME NEW c \in Consumers, FindAlert(c)  PROVE EventsAreKept'
  BY <1>8 DEF FindAlert, WatchdogTypeOK, EventsAreKept, InPlay, Swept, Settled, Body, broker, sweeper, effects
<1>9. ASSUME NEW c \in Consumers, InsertAlert(c)  PROVE EventsAreKept'
  BY <1>9 DEF InsertAlert, WatchdogTypeOK, EventsAreKept, InPlay, Swept, Settled, Body, broker, sweeper, effects
<1>10. ASSUME NEW c \in Consumers, MarkProcessed(c)  PROVE EventsAreKept'
  BY <1>10 DEF MarkProcessed, WatchdogTypeOK, EventsAreKept, InPlay, Swept, Settled, Body, broker, sweeper, effects
<1>11. ASSUME NEW c \in Consumers, AckProcessed(c)  PROVE EventsAreKept'
  BY <1>11, InHand DEF AckProcessed, Ack, WorkIsOnExpenses, WatchdogTypeOK, EventsAreKept, InPlay, Swept, Settled, Body, broker, sweeper, effects
<1>12. ASSUME NEW c \in Consumers, AnalysisFails(c)  PROVE EventsAreKept'
  <2>1. msg[c] # <<>> /\ msg[c][1] \in Messages
    BY <1>12, InHand DEF AnalysisFails, WatchdogTypeOK
  <2>2. Died(msg[c][1]) \in Messages /\ Died(msg[c][1]).body = Body(c)
    BY <2>1, DiedIsMessage DEF Body
  <2>3. BodiesIn(dlq') = BodiesIn(dlq) \cup {Body(c)}
    BY <1>12, <2>2, Enqueued DEF AnalysisFails, Nack, WatchdogTypeOK
  <2>4. QED
    BY <1>12, <2>3 DEF AnalysisFails, Nack, WatchdogTypeOK, EventsAreKept, InPlay, Swept, Settled, Body, broker, sweeper, effects
<1>13. ASSUME NEW c \in Consumers, AlertFails(c)  PROVE EventsAreKept'
  BY <1>13 DEF AlertFails, WatchdogTypeOK, EventsAreKept, InPlay, Swept, Settled, Body, broker, sweeper, effects
<1>14. ASSUME NEW c \in Consumers, MarkFails(c)  PROVE EventsAreKept'
  <2>1. msg[c] # <<>> /\ msg[c][1] \in Messages
    BY <1>14, InHand DEF MarkFails, WatchdogTypeOK
  <2>2. Died(msg[c][1]) \in Messages /\ Died(msg[c][1]).body = Body(c)
    BY <2>1, DiedIsMessage DEF Body
  <2>3. BodiesIn(dlq') = BodiesIn(dlq) \cup {Body(c)}
    BY <1>14, <2>2, Enqueued DEF MarkFails, Nack, WatchdogTypeOK
  <2>4. QED
    BY <1>14, <2>3 DEF MarkFails, Nack, WatchdogTypeOK, EventsAreKept, InPlay, Swept, Settled, Body, broker, sweeper, effects
<1>15. ASSUME NEW c \in Consumers, ConsumerDies(c)  PROVE EventsAreKept'
  <2>1. msg[c] # <<>> /\ msg[c][1] \in Messages /\ msg[c] = <<msg[c][1]>>
    BY <1>15, InHand DEF ConsumerDies, WatchdogTypeOK
  <2>2. BodiesIn(mainQ') = BodiesIn(mainQ) \cup {Body(c)}
    BY <1>15, <2>1, Enqueued DEF ConsumerDies, Body, WatchdogTypeOK
  <2>3. QED
    BY <1>15, <2>2 DEF ConsumerDies, WatchdogTypeOK, EventsAreKept, InPlay, Swept, Settled, Body, broker, sweeper, effects
<1>16. ASSUME NEW c \in Consumers, ConsumerEnds(c)  PROVE EventsAreKept'
  <2>1. msg[c] # <<>> /\ msg[c][1] \in Messages /\ msg[c] = <<msg[c][1]>>
    BY <1>16, InHand DEF ConsumerEnds, WatchdogTypeOK
  <2>2. BodiesIn(mainQ') = BodiesIn(mainQ) \cup {Body(c)}
    BY <1>16, <2>1, Enqueued DEF ConsumerEnds, Body, WatchdogTypeOK
  <2>3. QED
    BY <1>16, <2>2 DEF ConsumerEnds, WatchdogTypeOK, EventsAreKept, InPlay, Swept, Settled, Body, broker, sweeper, effects
<1>17. ASSUME NEW c \in Consumers, Restart(c)  PROVE EventsAreKept'
  BY <1>17 DEF Restart, WatchdogTypeOK, EventsAreKept, InPlay, Swept, Settled, Body, broker, sweeper, effects
<1>18. CASE Get
  <2>1. BodiesIn(dlq) = BodiesIn(dlq') \cup {Head(dlq).body}
    BY <1>18, Dequeued DEF Get, WatchdogTypeOK
  <2>2. swept = <<>> /\ swept' # <<>> /\ swept'[1] = Head(dlq)
    BY <1>18 DEF Get, WatchdogTypeOK
  <2>3. QED
    BY <1>18, <2>1, <2>2 DEF Get, EventsAreKept, InPlay, Swept, Settled, Body, broker, sweeper, effects
<1>19. CASE Republish
  <2>1. swept # <<>> /\ swept[1] \in Messages /\ swept = <<swept[1]>>
    BY <1>19, InHand DEF Republish, WatchdogTypeOK
  <2>2. CASE Poisonous(swept[1])
    BY <1>19, <2>2 DEF Republish, EventsAreKept, InPlay, Swept, Settled, Body, broker, sweeper, effects
  <2>3. CASE ~Poisonous(swept[1])
    <3>1. Message(swept[1].body, 0, swept[1].died) \in Messages
          /\ Message(swept[1].body, 0, swept[1].died).body = swept[1].body
      BY <2>1, PipelineAssumption DEF Message, Messages
    <3>2. BodiesIn(mainQ') = BodiesIn(mainQ) \cup {swept[1].body}
      BY <1>19, <2>3, <3>1, Enqueued DEF Republish, WatchdogTypeOK
    <3>3. QED
      BY <1>19, <2>3, <3>2 DEF Republish, EventsAreKept, InPlay, Swept, Settled, Body, broker, sweeper, effects
  <2>4. QED  BY <2>2, <2>3
<1>20. CASE AckSwept
  BY <1>20 DEF AckSwept, WatchdogTypeOK, EventsAreKept, InPlay, Swept, Settled, Body, broker, sweeper, effects
<1>21. CASE RepublishFails
  <2>1. swept # <<>> /\ swept[1] \in Messages /\ swept = <<swept[1]>>
    BY <1>21, InHand DEF RepublishFails, WatchdogTypeOK
  <2>2. BodiesIn(dlq') = BodiesIn(dlq) \cup {swept[1].body}
    BY <1>21, <2>1, Enqueued DEF RepublishFails, WatchdogTypeOK
  <2>3. Message(swept[1].body, 0, swept[1].died) \in Messages
    BY <2>1, PipelineAssumption DEF Message, Messages
  <2>4. BodiesIn(mainQ) \subseteq BodiesIn(mainQ')
    BY <1>21, <2>3, Enqueued DEF RepublishFails, WatchdogTypeOK
  <2>5. QED
    BY <1>21, <2>2, <2>4 DEF RepublishFails, EventsAreKept, InPlay, Swept, Settled, Body, broker, sweeper, effects
<1>22. CASE SweepDies
  <2>1. swept # <<>> /\ swept[1] \in Messages /\ swept = <<swept[1]>>
    BY <1>22, InHand DEF SweepDies, WatchdogTypeOK
  <2>2. BodiesIn(dlq') = BodiesIn(dlq) \cup {swept[1].body}
    BY <1>22, <2>1, Enqueued DEF SweepDies, WatchdogTypeOK
  <2>3. QED
    BY <1>22, <2>2 DEF SweepDies, EventsAreKept, InPlay, Swept, Settled, Body, broker, sweeper, effects
<1>23. CASE Expire
  <2>1. Head(mainQ) \in Messages /\ BodiesIn(mainQ) = BodiesIn(mainQ') \cup {Head(mainQ).body}
    BY <1>23, Dequeued DEF Expire, WatchdogTypeOK
  <2>2. Died(Head(mainQ)) \in Messages /\ Died(Head(mainQ)).body = Head(mainQ).body
    BY <2>1, DiedIsMessage
  <2>3. BodiesIn(dlq') = BodiesIn(dlq) \cup {Head(mainQ).body}
    BY <1>23, <2>2, Enqueued DEF Expire, WatchdogTypeOK
  <2>4. QED
    BY <1>23, <2>1, <2>3 DEF Expire, EventsAreKept, InPlay, Swept, Settled, Body, broker, sweeper, effects
<1>24. QED
  BY <1>1, <1>2, <1>3, <1>4, <1>5, <1>6, <1>7, <1>8, <1>9, <1>10, <1>11, <1>12, <1>13, <1>14, <1>15, <1>16, <1>17, <1>18, <1>19, <1>20, <1>21, <1>22, <1>23
     DEF WatchdogNext, ConsumerStep, SweepStep

LEMMA AlertsStayCounted ==
    ASSUME WatchdogTypeOK, WorkIsOnExpenses, AlertsAreCounted, WatchdogNext
    PROVE  AlertsAreCounted'
<1>1. /\ Cardinality(Consumers) \in Nat
      /\ \A e \in Expenses : /\ IsFiniteSet(Inserting(e)) /\ Cardinality(Inserting(e)) \in Nat
                             /\ Cardinality(Inserting(e)') \in Nat
                             /\ Cardinality(Inserting(e)') <= Cardinality(Consumers)
  <2>1. \A e \in Expenses : Inserting(e) \subseteq Consumers /\ Inserting(e)' \subseteq Consumers
    BY DEF Inserting
  <2>2. QED
    BY <2>1, PipelineAssumption, FS_Subset, FS_CardinalityType
\* No more active alerts and no more consumers about to insert one
<1>2. ASSUME NEW e \in Expenses, Inserting(e)' \subseteq Inserting(e),
             active'[e] \in Nat, active'[e] <= active[e]
      PROVE  active'[e] + Cardinality(Inserting(e)') <= Cardinality(Consumers)
  <2>1. Cardinality(Inserting(e)') <= Cardinality(Inserting(e))
    BY <1>2, <1>1, FS_Subset
  <2>2. active[e] \in Nat /\ active[e] + Cardinality(Inserting(e)) <= Cardinality(Consumers)
    BY DEF AlertsAreCounted, WatchdogTypeOK
  <2>3. QED  BY <1>2, <1>1, <2>1, <2>2
<1>3. ASSUME NEW b \in Bodies, Publish(b)  PROVE AlertsAreCounted'
  BY <1>3, <1>2 DEF Publish, AlertsAreCounted, WatchdogTypeOK, Inserting, Body, broker, sweeper, effects
<1>4. ASSUME NEW e \in Expenses, KeyExpires(e)  PROVE AlertsAreCounted'
  BY <1>4, <1>2 DEF KeyExpires, AlertsAreCounted, WatchdogTypeOK, Inserting, Body, broker, sweeper, effects
<1>5. ASSUME NEW e \in Expenses, ResolveAlert(e)  PROVE AlertsAreCounted'
  <2>1. \A d \in Expenses : Inserting(d)' = Inserting(d)
    BY <1>5 DEF ResolveAlert, Inserting, Body
  <2>2. \A d \in Expenses : active'[d] \in Nat /\ active'[d] <= active[d]
    BY <1>5 DEF ResolveAlert, WatchdogTypeOK
  <2>3. QED  BY <1>2, <2>1, <2>2 DEF AlertsAreCounted
<1>6. ASSUME NEW c \in Consumers, Receive(c)  PROVE AlertsAreCounted'
  BY <1>6, <1>2 DEF Receive, AlertsAreCounted, WatchdogTypeOK, Inserting, Body, broker, sweeper, effects
<1>7. ASSUME NEW c \in Consumers, RejectJunk(c)  PROVE AlertsAreCounted'
  BY <1>7, <1>2 DEF RejectJunk, Nack, AlertsAreCounted, WatchdogTypeOK, Inserting, Body, broker, sweeper, effects
<1>8. ASSUME NEW c \in Consumers, CheckProcessed(c)  PROVE AlertsAreCounted'
  <2>1. \A d \in Expenses : Inserting(d)' \subseteq Inserting(d)
    BY <1>8 DEF CheckProcessed, Ack, WatchdogTypeOK, Inserting, Body
  <2>2. \A d \in Expenses : active'[d] \in Nat /\ active'[d] <= active[d]
    BY <1>8 DEF CheckProcessed, WatchdogTypeOK, effects
  <2>3. QED
    BY <1>2, <2>1, <2>2 DEF AlertsAreCounted
<1>9. ASSUME NEW c \in Consumers, Analyse(c)  PROVE AlertsAreCounted'
  BY <1>9, <1>2 DEF Analyse, AlertsAreCounted, WatchdogTypeOK, Inserting, Body, broker, sweeper, effects
<1>10. ASSUME NEW c \in Consumers, FindAlert(c)  PROVE AlertsAreCounted'
  <2>1. CASE active[Body(c)] > 0
    <3>1. \A d \in Expenses : Inserting(d)' \subseteq Inserting(d)
      BY <1>10, <2>1 DEF FindAlert, WatchdogTypeOK, Inserting, Body, broker, sweeper, effects
    <3>2. \A d \in Expenses : active'[d] \in Nat /\ active'[d] <= active[d]
      BY <1>10 DEF FindAlert, WatchdogTypeOK, effects
    <3>3. QED
      BY <1>2, <3>1, <3>2 DEF AlertsAreCounted
  <2>2. CASE ~(active[Body(c)] > 0)
    <3>1. \A d \in Expenses : d # Body(c) => Inserting(d)' \subseteq Inserting(d)
      BY <1>10, <2>2 DEF FindAlert, WatchdogTypeOK, Inserting, Body, broker, sweeper, effects
    <3>2. \A d \in Expenses : d = Body(c) => active'[d] = 0
      BY <1>10, <2>2 DEF FindAlert, WatchdogTypeOK, effects
    <3>3. \A d \in Expenses : active'[d] \in Nat /\ active'[d] <= active[d]
      BY <1>10 DEF FindAlert, WatchdogTypeOK, effects
    <3>4. \A d \in Expenses : d # Body(c) =>
            active'[d] + Cardinality(Inserting(d)') <= Cardinality(Consumers)
      BY <1>2, <3>1, <3>3
    <3>5. \A d \in Expenses : d = Body(c) =>
            active'[d] + Cardinality(Inserting(d)') <= Cardinality(Consumers)
      BY <1>1, <3>2
    <3>6. QED
      BY <3>4, <3>5 DEF AlertsAreCounted
  <2>3. QED  BY <2>1, <2>2
<1>11. ASSUME NEW c \in Consumers, InsertAlert(c)  PROVE AlertsAreCounted'
  <2>1. PICK e \in Expenses : e = Body(c)
    BY <1>11 DEF InsertAlert, WorkIsOnExpenses
  <2>2. c \in Inserting(e)
    BY <1>11, <2>1 DEF InsertAlert, Inserting
  <2>3. Inserting(e)' = Inserting(e) \ {c}
    BY <1>11, <2>1 DEF InsertAlert, WatchdogTypeOK, Inserting, Body
  <2>4. Cardinality(Inserting(e)') = Cardinality(Inserting(e)) - 1
    BY <1>1, <2>2, <2>3, FS_RemoveElement
  <2>5. active' = [active EXCEPT ![e] = @ + 1]
    BY <1>11, <2>1 DEF InsertAlert
  <2>6. \A d \in Expenses : d # e => Inserting(d)' \subseteq Inserting(d) /\ active'[d] = active[d]
    BY <1>11, <2>5 DEF InsertAlert, WatchdogTypeOK, Inserting, Body
  <2>7. active'[e] + Cardinality(Inserting(e)') <= Cardinality(Consumers)
    BY <1>1, <2>2, <2>4, <2>5 DEF AlertsAreCounted, WatchdogTypeOK
  <2>8. ASSUME NEW d \in Expenses, d # e
        PROVE  active'[d] + Cardinality(Inserting(d)') <= Cardinality(Consumers)
    <3>1. active[d] \in Nat /\ active[d] <= active[d]
      BY DEF WatchdogTypeOK
    <3>2. Inserting(d)' \subseteq Inserting(d) /\ active'[d] = active[d]
      BY <2>6, <2>8
    <3>3. QED  BY <1>2, <3>1, <3>2
  <2>9. QED  BY <2>7, <2>8 DEF AlertsAreCounted
<1>12. ASSUME NEW c \in Consumers, MarkProcessed(c)  PROVE AlertsAreCounted'
  BY <1>12, <1>2 DEF MarkProcessed, AlertsAreCounted, WatchdogTypeOK, Inserting, Body, broker, sweeper, effects
<1>13. ASSUME NEW c \in Consumers, AckProcessed(c)  PROVE AlertsAreCounted'
  BY <1>13, <1>2 DEF AckProcessed, Ack, AlertsAreCounted, WatchdogTypeOK, Inserting, Body, broker, sweeper, effects
<1>14. ASSUME NEW c \in Consumers, AnalysisFails(c)  PROVE AlertsAreCounted'
  BY <1>14, <1>2 DEF AnalysisFails, Nack, AlertsAreCounted, WatchdogTypeOK, Inserting, Body, broker, sweeper, effects
<1>15. ASSUME NEW c \in Consumers, AlertFails(c)  PROVE AlertsAreCounted'
  BY <1>15, <1>2 DEF AlertFails, AlertsAreCounted, WatchdogTypeOK, Inserting, Body, broker, sweeper, effects
<1>16. ASSUME NEW c \in Consumers, MarkFails(c)  PROVE AlertsAreCounted'
  BY <1>16, <1>2 DEF MarkFails, Nack, AlertsAreCounted, WatchdogTypeOK, Inserting, Body, broker, sweeper, effects
<1>17. ASSUME NEW c \in Consumers, ConsumerDies(c)  PROVE AlertsAreCounted'
  <2>1. \A d \in Expenses : Inserting(d)' \subseteq Inserting(d)
    BY <1>17 DEF ConsumerDies, WatchdogTypeOK, Inserting, Body
  <2>2. \A d \in Expenses : active'[d] \in Nat /\ active'[d] <= active[d]
    BY <1>17 DEF ConsumerDies, WatchdogTypeOK, effects
  <2>3. QED
    BY <1>2, <2>1, <2>2 DEF AlertsAreCounted
<1>18. ASSUME NEW c \in Consumers, ConsumerEnds(c)  PROVE AlertsAreCounted'
  BY <1>18, <1>2 DEF ConsumerEnds, AlertsAreCounted, WatchdogTypeOK, Inserting, Body, broker, sweeper, effects
<1>19. ASSUME NEW c \in Consumers, Restart(c)  PROVE AlertsAreCounted'
  BY <1>19, <1>2 DEF Restart, AlertsAreCounted, WatchdogTypeOK, Inserting, Body, broker, sweeper, effects
<1>20. CASE Get
  BY <1>20, <1>2 DEF Get, AlertsAreCounted, WatchdogTypeOK, Inserting, Body, broker, sweeper, effects
<1>21. CASE Republish
  BY <1>21, <1>2 DEF Republish, AlertsAreCounted, WatchdogTypeOK, Inserting, Body, broker, sweeper, effects
<1>22. CASE AckSwept
  BY <1>22, <1>2 DEF AckSwept, AlertsAreCounted, WatchdogTypeOK, Inserting, Body, broker, sweeper, effects
<1>23. CASE RepublishFails
  BY <1>23, <1>2 DEF RepublishFails, AlertsAreCounted, WatchdogTypeOK, Inserting, Body, broker, sweeper, effects
<1>24. CASE SweepDies
  BY <1>24, <1>2 DEF SweepDies, AlertsAreCounted, WatchdogTypeOK, Inserting, Body, broker, sweeper, effects
<1>25. CASE Expire
  BY <1>25, <1>2 DEF Expire, AlertsAreCounted, WatchdogTypeOK, Inserting, Body, broker, sweeper, effects
<1>26. QED
  BY <1>3, <1>4, <1>5, <1>6, <1>7, <1>8, <1>9, <1>10, <1>11, <1>12, <1>13, <1>14, <1>15, <1>16, <1>17, <1>18, <1>19, <1>20, <1>21, <1>22, <1>23, <1>24, <1>25
     DEF WatchdogNext, ConsumerStep, SweepStep

LEMMA WatchdogInitInv == WatchdogInit => WatchdogInv
<1> SUFFICES ASSUME WatchdogInit  PROVE WatchdogInv
  OBVIOUS
<1>1. WatchdogTypeOK
  BY PipelineAssumption DEF WatchdogInit, WatchdogTypeOK, AtMostOne
<1>2. WorkIsOnExpenses /\ EventsAreKept
  BY DEF WatchdogInit, WorkIsOnExpenses, EventsAreKept
<1>3. AlertsAreCounted
  <2>1. \A e \in Expenses : Inserting(e) = {}
    BY DEF WatchdogInit, Inserting
  <2>2. QED
    BY <2>1, PipelineAssumption, FS_EmptySet, FS_CardinalityType DEF WatchdogInit, AlertsAreCounted
<1>4. QED  BY <1>1, <1>2, <1>3 DEF WatchdogInv

LEMMA WatchdogStepInv == WatchdogInv /\ [WatchdogNext]_watchdogVars => WatchdogInv'
<1> SUFFICES ASSUME WatchdogInv, [WatchdogNext]_watchdogVars  PROVE WatchdogInv'
  OBVIOUS
<1>1. CASE WatchdogNext
  BY <1>1, WatchdogTypes, WorkStaysOnExpenses, NothingGetsLost, AlertsStayCounted
     DEF WatchdogInv
<1>2. CASE UNCHANGED watchdogVars
  BY <1>2 DEF watchdogVars, WatchdogInv, WatchdogTypeOK, WorkIsOnExpenses, EventsAreKept,
              InPlay, Swept, Settled, AlertsAreCounted, Inserting, Body
<1>3. QED  BY <1>1, <1>2

\* Whoever dies at whatever moment, and however often a message is replayed, an event is
\* in a queue, in somebody's hands, analysed, or past the limit of deaths
\* (_process_message, _drain_dlq).
THEOREM EventsAreNotLost == WatchdogSpec => []NothingIsDropped
<1>1. WatchdogInv => NothingIsDropped
  <2> SUFFICES ASSUME WatchdogInv, NEW b \in emitted
               PROVE  b \in InBroker \/ b \in discarded \/ (b \in Expenses /\ analyses[b] > 0)
    BY DEF NothingIsDropped
  <2>1. ASSUME NEW h \in AtMostOne, h # <<>>  PROVE h[1] \in ToSet(h)
    BY <2>1 DEF AtMostOne, ToSet
  <2>2. CASE InPlay(b)
    <3>1. ASSUME NEW c \in Consumers, msg[c] # <<>>  PROVE msg[c][1] \in ToSet(msg[c])
      BY <2>1, <3>1 DEF WatchdogInv, WatchdogTypeOK
    <3>2. QED  BY <2>2, <3>1 DEF InPlay, BodiesIn, Body, InBroker
  <2>3. CASE Swept(b)
    <3>1. swept[1] \in ToSet(swept)
      BY <2>1, <2>3 DEF Swept, WatchdogInv, WatchdogTypeOK
    <3>2. QED  BY <2>3, <3>1 DEF Swept, InBroker
  <2>4. QED  BY <2>2, <2>3 DEF WatchdogInv, EventsAreKept, Settled
<1>2. QED  BY <1>1, WatchdogInitInv, WatchdogStepInv, PTL DEF WatchdogSpec

\* However often an expense comes back, its active alerts never outnumber the consumer
\* processes (create_alert_idempotent).
THEOREM AlertsNeverOutnumberConsumers == WatchdogSpec => []AlertsAreBounded
<1>1. WatchdogInv => AlertsAreBounded
  <2> SUFFICES ASSUME WatchdogInv, NEW e \in Expenses
               PROVE  active[e] <= Cardinality(Consumers)
    BY DEF AlertsAreBounded
  <2>1. Cardinality(Inserting(e)) \in Nat /\ Cardinality(Consumers) \in Nat
    BY PipelineAssumption, FS_Subset, FS_CardinalityType DEF Inserting
  <2>2. QED
    BY <2>1 DEF WatchdogInv, WatchdogTypeOK, AlertsAreCounted
<1>2. QED  BY <1>1, WatchdogInitInv, WatchdogStepInv, PTL DEF WatchdogSpec

-----------------------------------------------------------------------------
(* EmailOutbox: repeats are counted, reminders climb *)

Spent(k) == mail[k].status \in {"dead", "gone"}

\* A locked row waits and has one flusher; what an operator looks at is a dead letter.
LocksHold ==
    /\ \A f \in Flushers : \A k \in batch[f].rows : Waiting(k)
    /\ \A f, g \in Flushers : f # g => batch[f].rows \cap batch[g].rows = {}
    /\ \A o \in Operators : replaying[o] # 0 => Spent(replaying[o])

\* A waiting mail that no flusher has just tried was taken by the server once per failed
\* attempt on record and per death at most; any mail at most once more.
Counted(k) ==
    LET paid == mail[k].attempts + deaths IN
    /\ mail[k].attempts <= MailRetries
    /\ Waiting(k) => mail[k].attempts < MailRetries
    /\ Waiting(k) /\ (\A f \in Flushers : k \notin Tried(f)) => accepted[k] <= paid
    /\ accepted[k] <= 1 + paid
    /\ accepted[k] <= MailRetries + deaths

DeliveriesAreCounted == \A k \in DOMAIN mail : Counted(k)

\* A reminder is of the tier of some day.
RemindersAreDated ==
    \A k \in Reminders : \E d \in 0 .. day : mail[k].key[3] = Tier(d - DueDay)

EmailInv ==
    /\ EmailTypeOK /\ LocksHold /\ DeliveriesAreCounted
    /\ RemindersAreDated /\ LadderClimbs

\* The table grows; of the rows it had, a dead letter may be gone.
RowsAreAdded ==
    /\ mail' \in Seq(MailRow) /\ accepted' \in [DOMAIN mail' -> Nat]
    /\ Len(mail) <= Len(mail')
    /\ \A k \in DOMAIN mail :
        /\ mail'[k] = mail[k] \/ (Spent(k) /\ mail'[k] = [mail[k] EXCEPT !.status = "gone"])
        /\ accepted'[k] = accepted[k]
    /\ \A k \in DOMAIN mail' \ DOMAIN mail :
        mail'[k].status = "pending" /\ mail'[k].attempts = 0 /\ accepted'[k] = 0

-----------------------------------------------------------------------------
(* Tiers *)

LEMMA LargestExists ==
    ASSUME NEW S \in SUBSET Nat, S # {}, NEW b \in Int, \A x \in S : x <= b
    PROVE  \E x \in S : \A y \in S : y <= x
<1> DEFINE T == {b - x : x \in S}
           R == OpToRel(<, Nat)
<1>1. T \subseteq Nat /\ T # {}
  <2>1. ASSUME NEW x \in S  PROVE b - x \in Nat
    <3>1. x \in Nat /\ x <= b
      OBVIOUS
    <3>2. QED  BY <3>1
  <2>2. QED  BY <2>1
<1>2. \A x, y \in Nat : y < x => <<y, x>> \in R
  BY DEF OpToRel
<1>3. \E t \in T : \A u \in T : ~(<<u, t>> \in R)
  BY <1>1, NatLessThanWellFounded, WFMin
<1> HIDE DEF R
<1>4. PICK t \in T : \A u \in T : ~(<<u, t>> \in R)
  BY <1>3
<1>5. PICK x \in S : t = b - x
  OBVIOUS
<1>6. ASSUME NEW y \in S  PROVE y <= x
  <2>1. b - y \in T /\ b - y \in Nat /\ t \in Nat
    BY <1>1
  <2>2. ~(b - y < t)
    BY <1>2, <1>4, <2>1
  <2>3. QED  BY <1>5, <2>2
<1>7. QED  BY <1>6

\* _reminder_tier as a function of the days overdue
LEMMA TierRises ==
    ASSUME NEW a \in Int, NEW b \in Int, a <= b
    PROVE  /\ Tier(b) \in Nat \cup {-1}
           /\ Tier(a) >= 0 /\ Tier(b) >= 0 => Tier(a) <= Tier(b)
<1> DEFINE crossed(x) == {t \in OverdueDays : x >= t}
<1>1. ASSUME NEW x \in Int
      PROVE  \/ x < 0 /\ Tier(x) \in {0, -1}
             \/ x >= 0 /\ crossed(x) = {} /\ Tier(x) = -1
             \/ /\ x >= 0 /\ Tier(x) \in crossed(x)
                /\ \A u \in crossed(x) : u <= Tier(x)
  <2>1. OverdueDays \subseteq Nat \ {0} /\ DueSoonDays \in Nat
    BY EmailAssumption
  <2>2. CASE crossed(x) = {}
    BY <2>1, <2>2 DEF Tier
  <2>3. CASE crossed(x) # {}
    <3>1. x >= 0
      <4>1. PICK t \in OverdueDays : x >= t
        BY <2>3
      <4>2. QED  BY <2>1, <4>1
    <3>2. \E t \in crossed(x) : \A u \in crossed(x) : u <= t
      BY <2>1, <2>3, LargestExists
    <3>3. Tier(x) = CHOOSE t \in crossed(x) : \A u \in crossed(x) : u <= t
      BY <2>3, <3>1 DEF Tier
    <3>4. QED  BY <3>1, <3>2, <3>3
  <2>4. QED  BY <2>2, <2>3
<1>2. \A t \in OverdueDays : t \in Nat /\ (a >= t => b >= t)
  BY EmailAssumption
<1>3. QED  BY <1>1, <1>2

-----------------------------------------------------------------------------
(* Rows *)

LEMMA ReminderKey ==
    ASSUME NEW key \in Keys, key[1] = "reminder"
    PROVE  key[2] \in Invoices /\ key[3] \in Nat /\ key = <<"reminder", key[2], key[3]>>
  BY DEF Keys

LEMMA Enumerated ==
    ASSUME NEW S, IsFiniteSet(S)
    PROVE  /\ SetToSeq(S) \in Seq(S)
           /\ \A i, j \in DOMAIN SetToSeq(S) : SetToSeq(S)[i] = SetToSeq(S)[j] => i = j
<1>1. PICK f \in [1..Cardinality(S) -> S] : IsInjective(f)
  BY FS_CardinalityType DEF ExistsBijection, Bijection, Injection, IsInjective
<1>2. SetToSeq(S) \in [1..Cardinality(S) -> S] /\ IsInjective(SetToSeq(S))
      /\ Cardinality(S) \in Nat
  BY <1>1, FS_CardinalityType DEF SetToSeq
<1>3. QED  BY <1>2 DEF IsInjective

LEMMA Concatenated ==
    ASSUME NEW S, NEW s \in Seq(S), NEW t \in Seq(S)
    PROVE  s \o t \in Seq(S) /\ Len(s \o t) = Len(s) + Len(t)
  OBVIOUS

\* enqueue_email: what it adds, under free keys, each of them once
LEMMA EnqueueAdds ==
    ASSUME EmailTypeOK, NEW keys \in SUBSET Keys, IsFiniteSet(keys), Enqueue(keys)
    PROVE  /\ RowsAreAdded /\ \A k \in DOMAIN mail : mail'[k] = mail[k]
           /\ \A k \in DOMAIN mail' \ DOMAIN mail :
                \E key \in keys : KeyFree(key) /\ mail'[k] = Row(key, 0)
           /\ \A j, k \in DOMAIN mail' \ DOMAIN mail : mail'[j].key = mail'[k].key => j = k
<1>1. PICK new : new = SetToSeq({k \in keys : KeyFree(k)})
  OBVIOUS
<1>2. /\ new \in Seq({k \in keys : KeyFree(k)})
      /\ \A i, j \in DOMAIN new : new[i] = new[j] => i = j
  <2>1. IsFiniteSet({k \in keys : KeyFree(k)})
    BY FS_Subset
  <2>2. QED  BY <1>1, <2>1, Enumerated
<1>3. PICK n \in Nat : n = Len(new) /\ DOMAIN new = 1 .. n
                    /\ \A i \in 1 .. n : new[i] \in keys /\ KeyFree(new[i])
  BY <1>2
<1>4. PICK rows, zeros : rows = [i \in 1 .. n |-> Row(new[i], 0)] /\ zeros = [i \in 1 .. n |-> 0]
  OBVIOUS
<1>5. /\ rows \in Seq(MailRow) /\ Len(rows) = n
      /\ zeros \in Seq(Nat) /\ Len(zeros) = n
  <2>1. \A i \in 1 .. n : Row(new[i], 0) \in MailRow
    BY <1>3 DEF Row, MailRow
  <2>2. rows \in [1 .. n -> MailRow] /\ zeros \in [1 .. n -> Nat]
    BY <1>4, <2>1
  <2>3. QED  BY <2>2
<1>6. mail' = mail \o rows /\ accepted' = accepted \o zeros
  BY <1>1, <1>3, <1>4 DEF Enqueue
<1>7. mail \in Seq(MailRow) /\ accepted \in Seq(Nat) /\ Len(accepted) = Len(mail)
  BY DEF EmailTypeOK
<1>8. /\ mail' \in Seq(MailRow) /\ Len(mail') = Len(mail) + n
      /\ accepted' \in Seq(Nat) /\ Len(accepted') = Len(mail) + n
  <2>1. mail' \in Seq(MailRow) /\ Len(mail') = Len(mail) + n
    BY <1>5, <1>6, <1>7
  <2>2. accepted \o zeros \in Seq(Nat) /\ Len(accepted \o zeros) = Len(accepted) + Len(zeros)
    BY <1>5, <1>7, Concatenated
  <2>3. QED  BY <1>5, <1>6, <1>7, <2>1, <2>2
<1>9. \A k \in 1 .. Len(mail) : mail'[k] = mail[k] /\ accepted'[k] = accepted[k]
  BY <1>5, <1>6, <1>7
<1>10. \A k \in 1 .. Len(mail') : k > Len(mail) =>
          /\ k - Len(mail) \in 1 .. n
          /\ mail'[k] = Row(new[k - Len(mail)], 0) /\ accepted'[k] = 0
  BY <1>4, <1>5, <1>6, <1>7, <1>8
<1>11. DOMAIN mail = 1 .. Len(mail) /\ DOMAIN mail' = 1 .. Len(mail') /\ Len(mail) \in Nat
  BY <1>7, <1>8
<1>12. RowsAreAdded
  BY <1>8, <1>9, <1>10, <1>11 DEF RowsAreAdded, Row
<1>13. ASSUME NEW k \in DOMAIN mail' \ DOMAIN mail
       PROVE  /\ k - Len(mail) \in 1 .. n
              /\ mail'[k] = Row(new[k - Len(mail)], 0) /\ mail'[k].key = new[k - Len(mail)]
  BY <1>10, <1>11 DEF Row
<1>14. \A k \in DOMAIN mail' \ DOMAIN mail :
            \E key \in keys : KeyFree(key) /\ mail'[k] = Row(key, 0)
  BY <1>3, <1>13
<1>15. ASSUME NEW j \in DOMAIN mail' \ DOMAIN mail, NEW k \in DOMAIN mail' \ DOMAIN mail,
              mail'[j].key = mail'[k].key
       PROVE  j = k
  <2>1. new[j - Len(mail)] = new[k - Len(mail)]
    BY <1>13, <1>15
  <2>2. j - Len(mail) = k - Len(mail)
    BY <1>2, <1>3, <1>13, <2>1
  <2>3. QED  BY <1>11, <2>2
<1>16. QED
  BY <1>9, <1>11, <1>12, <1>14, <1>15

\* replay_dead_letter and resend: one copy more
LEMMA CopyAdds ==
    ASSUME EmailTypeOK, NEW k \in DOMAIN mail, NEW rows \in Seq(MailRow),
           Len(rows) = Len(mail),
           \A j \in DOMAIN mail :
                rows[j] = mail[j] \/ (Spent(j) /\ rows[j] = [mail[j] EXCEPT !.status = "gone"]),
           AppendCopy(k, rows)
    PROVE  /\ RowsAreAdded
           /\ \A j \in DOMAIN mail' \ DOMAIN mail : mail'[j].copies > 0
<1>1. mail[k] \in MailRow
  BY DEF EmailTypeOK
<1>2. PICK row \in MailRow : row = Row(mail[k].key, mail[k].copies + 1)
  <2>1. mail[k].key \in Keys /\ mail[k].copies + 1 \in Nat
    BY <1>1 DEF MailRow
  <2>2. QED  BY <2>1 DEF Row, MailRow
<1>3. mail' = Append(rows, row) /\ accepted' = Append(accepted, 0)
  BY <1>2 DEF AppendCopy
<1>4. mail \in Seq(MailRow) /\ accepted \in Seq(Nat) /\ Len(accepted) = Len(mail)
  BY DEF EmailTypeOK
<1>5. /\ mail' \in Seq(MailRow) /\ Len(mail') = Len(mail) + 1
      /\ accepted' \in Seq(Nat) /\ Len(accepted') = Len(mail) + 1
  BY <1>3, <1>4
<1>6. /\ \A j \in 1 .. Len(mail) : mail'[j] = rows[j] /\ accepted'[j] = accepted[j]
      /\ mail'[Len(mail) + 1] = row /\ accepted'[Len(mail) + 1] = 0
  BY <1>3, <1>4
<1>7. DOMAIN mail = 1 .. Len(mail) /\ DOMAIN mail' = 1 .. Len(mail) + 1 /\ Len(mail) \in Nat
  BY <1>4, <1>5
<1>8. row.status = "pending" /\ row.attempts = 0 /\ row.copies > 0
  BY <1>1, <1>2 DEF Row, MailRow
<1>9. accepted' \in [DOMAIN mail' -> Nat]
  BY <1>5, <1>7
<1>10. Len(mail) <= Len(mail') /\ DOMAIN mail' \ DOMAIN mail = {Len(mail) + 1}
  BY <1>5, <1>7
<1>11. \A j \in DOMAIN mail' \ DOMAIN mail :
            /\ mail'[j].status = "pending" /\ mail'[j].attempts = 0
            /\ mail'[j].copies > 0 /\ accepted'[j] = 0
  BY <1>6, <1>8, <1>10
<1>12. \A j \in DOMAIN mail :
        /\ mail'[j] = mail[j] \/ (Spent(j) /\ mail'[j] = [mail[j] EXCEPT !.status = "gone"])
        /\ accepted'[j] = accepted[j]
  BY <1>6, <1>7
<1>13. QED
  BY <1>5, <1>9, <1>10, <1>11, <1>12 DEF RowsAreAdded

LEMMA OldRows ==
    ASSUME EmailTypeOK, RowsAreAdded, NEW k \in DOMAIN mail
    PROVE  /\ k \in DOMAIN mail' /\ accepted'[k] = accepted[k]
           /\ mail'[k].key = mail[k].key /\ mail'[k].copies = mail[k].copies
           /\ mail'[k].attempts = mail[k].attempts
           /\ Waiting(k)' = Waiting(k) /\ (Spent(k) => Spent(k)')
<1>1. mail[k] \in MailRow /\ Len(mail) \in Nat /\ DOMAIN mail = 1 .. Len(mail)
  BY DEF EmailTypeOK
<1>2. DOMAIN mail \subseteq DOMAIN mail'
  BY <1>1 DEF RowsAreAdded
<1>3. CASE mail'[k] = mail[k]
  BY <1>2, <1>3 DEF RowsAreAdded, Waiting, Spent
<1>4. CASE Spent(k) /\ mail'[k] = [mail[k] EXCEPT !.status = "gone"]
  <2>1. /\ mail'[k].key = mail[k].key /\ mail'[k].copies = mail[k].copies
        /\ mail'[k].attempts = mail[k].attempts /\ mail'[k].status = "gone"
    BY <1>1, <1>4 DEF MailRow
  <2>2. QED
    BY <1>2, <1>4, <2>1 DEF RowsAreAdded, Waiting, Spent
<1>5. QED  BY <1>3, <1>4 DEF RowsAreAdded

LEMMA TriggerAdds ==
    ASSUME EmailTypeOK, NEW e \in MailEvents, Trigger(e)
    PROVE  /\ RowsAreAdded /\ \A k \in DOMAIN mail : mail'[k] = mail[k]
           /\ \A k \in DOMAIN mail' \ DOMAIN mail : mail'[k].key[1] = "event"
<1>1. {<<"event", e>>} \in SUBSET Keys
  BY DEF Keys
<1>2. IsFiniteSet({<<"event", e>>})
  BY FS_Singleton
<1>3. Enqueue({<<"event", e>>})
  BY DEF Trigger
<1>4. QED  BY <1>1, <1>2, <1>3, EnqueueAdds DEF Row

LEMMA SweepAdds ==
    ASSUME EmailTypeOK, SweepReminders
    PROVE  LET tier == Tier(day - DueDay) IN
           /\ tier \in Nat
           /\ RowsAreAdded /\ \A k \in DOMAIN mail : mail'[k] = mail[k]
           /\ \A k \in DOMAIN mail' \ DOMAIN mail :
                \E i \in Invoices : KeyFree(<<"reminder", i, tier>>)
                                   /\ mail'[k] = Row(<<"reminder", i, tier>>, 0)
           /\ \A j, k \in DOMAIN mail' \ DOMAIN mail : mail'[j].key = mail'[k].key => j = k
<1>1. PICK tier : tier = Tier(day - DueDay)
  OBVIOUS
<1>2. tier \in Nat
  <2>1. day - DueDay \in Int
    BY EmailAssumption DEF EmailTypeOK
  <2>2. tier \in Nat \cup {-1}
    BY <1>1, <2>1, TierRises
  <2>3. QED  BY <1>1, <2>2 DEF SweepReminders
<1>3. PICK f : f = [i \in unpaid |-> <<"reminder", i, tier>>]
  OBVIOUS
<1>4. PICK keys : keys = {<<"reminder", i, tier>> : i \in unpaid}
  OBVIOUS
<1>5. keys \in SUBSET Keys
  BY <1>2, <1>4 DEF Keys, EmailTypeOK
<1>6. IsFiniteSet(keys)
  <2>1. IsFiniteSet(unpaid)
    BY EmailAssumption, FS_Subset DEF EmailTypeOK
  <2>2. f \in Surjection(unpaid, keys)
    BY <1>3, <1>4 DEF Surjection
  <2>3. QED  BY <2>1, <2>2, FS_Surjection
<1>7. Enqueue(keys)
  BY <1>1, <1>4 DEF SweepReminders
<1>8. /\ RowsAreAdded /\ \A k \in DOMAIN mail : mail'[k] = mail[k]
      /\ \A k \in DOMAIN mail' \ DOMAIN mail :
                \E key \in keys : KeyFree(key) /\ mail'[k] = Row(key, 0)
      /\ \A j, k \in DOMAIN mail' \ DOMAIN mail : mail'[j].key = mail'[k].key => j = k
  BY <1>5, <1>6, <1>7, EnqueueAdds
<1>9. \A key \in keys : \E i \in Invoices : key = <<"reminder", i, tier>>
  BY <1>4 DEF EmailTypeOK
<1>10. QED  BY <1>1, <1>2, <1>8, <1>9

LEMMA ResendAdds ==
    ASSUME EmailTypeOK, NEW k \in DOMAIN mail, Resend(k)
    PROVE  /\ RowsAreAdded
           /\ \A j \in DOMAIN mail' \ DOMAIN mail : mail'[j].copies > 0
<1>1. mail \in Seq(MailRow)
  BY DEF EmailTypeOK
<1>2. QED  BY <1>1, CopyAdds DEF Resend

LEMMA ReplayAdds ==
    ASSUME EmailTypeOK, LocksHold, NEW o \in Operators, ReplayWrite(o)
    PROVE  \/ UNCHANGED <<mail, accepted>>
           \/ /\ RowsAreAdded
              /\ \A j \in DOMAIN mail' \ DOMAIN mail : mail'[j].copies > 0
<1>1. PICK k : k = replaying[o]
  OBVIOUS
<1>2. k \in DOMAIN mail /\ Spent(k)
  BY <1>1 DEF ReplayWrite, EmailTypeOK, LocksHold
<1>3. PICK rows : rows = [mail EXCEPT ![k].status = "gone"]
  OBVIOUS
<1>4. mail \in Seq(MailRow) /\ mail[k] \in MailRow
  BY <1>2 DEF EmailTypeOK
<1>5. [mail[k] EXCEPT !.status = "gone"] \in MailRow
  BY <1>4 DEF MailRow
<1>6. /\ rows \in Seq(MailRow) /\ Len(rows) = Len(mail)
      /\ \A j \in DOMAIN mail :
            rows[j] = mail[j] \/ (Spent(j) /\ rows[j] = [mail[j] EXCEPT !.status = "gone"])
  BY <1>2, <1>3, <1>4, <1>5
<1>7. CASE AppendCopy(k, rows)
  BY <1>2, <1>6, <1>7, CopyAdds
<1>8. QED  BY <1>1, <1>3, <1>7 DEF ReplayWrite

\* What a commit does to the rows: those of the batch get their outcome.
LEMMA CommitRows ==
    ASSUME EmailTypeOK, NEW f \in Flushers, CommitMails(f)
    PROVE  /\ mail' \in Seq(MailRow) /\ DOMAIN mail' = DOMAIN mail
           /\ \A k \in DOMAIN mail :
                /\ mail'[k].key = mail[k].key /\ mail'[k].copies = mail[k].copies
                /\ k \notin batch[f].rows => mail'[k] = mail[k]
                /\ k \in batch[f].sent =>
                      mail'[k].status = "sent" /\ mail'[k].attempts = mail[k].attempts
                /\ k \in batch[f].rows \ batch[f].sent =>
                      /\ mail'[k].attempts = mail[k].attempts + 1
                      /\ mail'[k].attempts >= MailRetries => mail'[k].status = "dead"
<1>1. /\ mail \in Seq(MailRow) /\ DOMAIN mail = 1 .. Len(mail) /\ Len(mail) \in Nat
      /\ \A k \in DOMAIN mail : mail[k] \in MailRow
  BY DEF EmailTypeOK
<1>2. mail' = [k \in DOMAIN mail |-> Outcome(f, k)]
  BY DEF CommitMails
<1>3. ASSUME NEW k \in DOMAIN mail
      PROVE  /\ Outcome(f, k) \in MailRow
             /\ Outcome(f, k).key = mail[k].key /\ Outcome(f, k).copies = mail[k].copies
             /\ k \notin batch[f].rows => Outcome(f, k) = mail[k]
             /\ k \in batch[f].sent =>
                   Outcome(f, k).status = "sent" /\ Outcome(f, k).attempts = mail[k].attempts
             /\ k \in batch[f].rows \ batch[f].sent =>
                   /\ Outcome(f, k).attempts = mail[k].attempts + 1
                   /\ Outcome(f, k).attempts >= MailRetries => Outcome(f, k).status = "dead"
  <2>1. mail[k] \in MailRow /\ mail[k].attempts + 1 \in Nat
    BY <1>1 DEF MailRow
  <2>2. batch[f].sent \cup batch[f].failed = batch[f].rows
    BY DEF CommitMails, Tried
  <2>3. CASE k \in batch[f].sent
    BY <2>1, <2>2, <2>3 DEF Outcome, MailRow
  <2>4. CASE k \notin batch[f].sent /\ k \in batch[f].failed
    <3>1. PICK s \in {"dead", "failed"} :
            /\ Outcome(f, k) = [mail[k] EXCEPT !.attempts = mail[k].attempts + 1, !.status = s]
            /\ mail[k].attempts + 1 >= MailRetries => s = "dead"
      BY <2>4 DEF Outcome
    <3>2. QED
      BY <2>1, <2>2, <2>4, <3>1 DEF MailRow
  <2>5. CASE k \notin batch[f].sent /\ k \notin batch[f].failed
    BY <2>1, <2>2, <2>5 DEF Outcome
  <2>6. QED  BY <2>3, <2>4, <2>5
<1>4. mail' \in [1 .. Len(mail) -> MailRow]
  BY <1>1, <1>2, <1>3
<1>5. mail' \in Seq(MailRow)
  BY <1>1, <1>4
<1>6. QED  BY <1>1, <1>2, <1>3, <1>5

\* An attempt tries one row more, which may be delivered.
LEMMA SendTries ==
    ASSUME EmailTypeOK, NEW f \in Flushers, Send(f)
    PROVE  \E k \in batch[f].rows \ Tried(f), new \in Batches :
            /\ batch' = [batch EXCEPT ![f] = new]
            /\ new.rows = batch[f].rows /\ new.sent \cup new.failed = Tried(f) \cup {k}
            /\ Deliver(k) \/ UNCHANGED accepted
<1>1. PICK k \in batch[f].rows \ Tried(f) :
            \/ /\ batch' = [batch EXCEPT ![f].sent = @ \cup {k}]
               /\ Deliver(k)
            \/ /\ batch' = [batch EXCEPT ![f].failed = @ \cup {k}]
               /\ UNCHANGED accepted \/ Deliver(k)
  BY DEF Send
<1>2. batch[f] \in Batches /\ k \in DOMAIN mail
  BY DEF EmailTypeOK, Batches
<1>3. CASE batch' = [batch EXCEPT ![f].sent = @ \cup {k}] /\ Deliver(k)
  <2>1. PICK new : new = [batch[f] EXCEPT !.sent = @ \cup {k}]
    OBVIOUS
  <2>2. /\ new \in Batches /\ new.rows = batch[f].rows /\ new.failed = batch[f].failed
        /\ new.sent = batch[f].sent \cup {k}
    BY <1>2, <2>1 DEF Batches
  <2>3. batch' = [batch EXCEPT ![f] = new]
    BY <1>3, <2>1
  <2>4. QED  BY <1>1, <1>3, <2>2, <2>3 DEF Tried
<1>4. CASE /\ batch' = [batch EXCEPT ![f].failed = @ \cup {k}]
           /\ UNCHANGED accepted \/ Deliver(k)
  <2>1. PICK new : new = [batch[f] EXCEPT !.failed = @ \cup {k}]
    OBVIOUS
  <2>2. /\ new \in Batches /\ new.rows = batch[f].rows /\ new.sent = batch[f].sent
        /\ new.failed = batch[f].failed \cup {k}
    BY <1>2, <2>1 DEF Batches
  <2>3. batch' = [batch EXCEPT ![f] = new]
    BY <1>4, <2>1
  <2>4. QED  BY <1>1, <1>4, <2>2, <2>3 DEF Tried
<1>5. QED  BY <1>1, <1>3, <1>4

-----------------------------------------------------------------------------
(* The invariant is kept *)

LEMMA GrownTableTypes ==
    ASSUME EmailTypeOK, RowsAreAdded, UNCHANGED <<optedOut, unpaid, day, batch, deaths>>,
           \A o \in Operators : replaying'[o] \in {0, replaying[o]},
           DOMAIN replaying' = Operators, replaying' = [o \in Operators |-> replaying'[o]]
    PROVE  EmailTypeOK'
<1>1. DOMAIN mail \subseteq DOMAIN mail'
  <2>1. DOMAIN mail = 1 .. Len(mail) /\ DOMAIN mail' = 1 .. Len(mail')
        /\ Len(mail) \in Nat /\ Len(mail') \in Nat
    BY DEF EmailTypeOK, RowsAreAdded
  <2>2. QED  BY <2>1 DEF RowsAreAdded
<1>2. mail' \in Seq(MailRow) /\ accepted' \in [DOMAIN mail' -> Nat]
  BY DEF RowsAreAdded
<1>3. batch' \in [Flushers -> Batches']
  BY <1>1 DEF EmailTypeOK, Batches
<1>4. replaying' \in [Operators -> {0} \cup DOMAIN mail']
  BY <1>1 DEF EmailTypeOK
<1>5. QED
  BY <1>2, <1>3, <1>4 DEF EmailTypeOK, Tried

LEMMA EmailTypes ==
    ASSUME EmailTypeOK, LocksHold, EmailNext
    PROVE  EmailTypeOK'
<1>1. ASSUME NEW e \in MailEvents, Trigger(e)  PROVE EmailTypeOK'
  BY <1>1, TriggerAdds, GrownTableTypes DEF Trigger, EmailTypeOK
<1>2. CASE SweepReminders
  BY <1>2, SweepAdds, GrownTableTypes DEF SweepReminders, EmailTypeOK
<1>3. CASE NextDay
  BY <1>3 DEF NextDay, EmailTypeOK, Tried, Batches
<1>4. CASE SetOptOut
  BY <1>4 DEF SetOptOut, EmailTypeOK, Tried, Batches
<1>5. ASSUME NEW i \in Invoices, Paid(i)  PROVE EmailTypeOK'
  BY <1>5 DEF Paid, EmailTypeOK, Tried, Batches
<1>6. ASSUME NEW f \in Flushers, TakeBatch(f)  PROVE EmailTypeOK'
  <2>1. PICK rows \in SUBSET DOMAIN mail :
            batch' = [batch EXCEPT ![f] = [NoBatch EXCEPT !.rows = rows]]
    BY <1>6 DEF TakeBatch, OldestWaiting
  <2>2. PICK new : new = [NoBatch EXCEPT !.rows = rows]
    OBVIOUS
  <2>3. new \in Batches /\ new.sent = {} /\ new.failed = {}
    BY <2>1, <2>2 DEF NoBatch, Batches
  <2>4. /\ batch' \in [Flushers -> Batches]
        /\ \A g \in Flushers : Tried(g)' \subseteq batch'[g].rows
    BY <2>1, <2>2, <2>3 DEF EmailTypeOK, Tried
  <2>5. QED
    BY <1>6, <2>4 DEF TakeBatch, EmailTypeOK, Batches
<1>7. ASSUME NEW f \in Flushers, Send(f)  PROVE EmailTypeOK'
  <2>1. PICK k \in batch[f].rows \ Tried(f), new \in Batches :
            /\ batch' = [batch EXCEPT ![f] = new]
            /\ new.rows = batch[f].rows /\ new.sent \cup new.failed = Tried(f) \cup {k}
            /\ Deliver(k) \/ UNCHANGED accepted
    BY <1>7, SendTries
  <2>2. accepted' \in [DOMAIN mail -> Nat]
    <3>1. batch[f] \in Batches /\ accepted \in [DOMAIN mail -> Nat]
      BY DEF EmailTypeOK
    <3>2. k \in DOMAIN mail
      BY <2>1, <3>1 DEF Batches
    <3>3. QED  BY <2>1, <3>1, <3>2 DEF Deliver
  <2>3. /\ batch' \in [Flushers -> Batches]
        /\ \A g \in Flushers : Tried(g)' \subseteq batch'[g].rows
    BY <2>1 DEF EmailTypeOK, Tried
  <2>4. QED
    BY <1>7, <2>2, <2>3 DEF Send, EmailTypeOK, Batches
<1>8. ASSUME NEW f \in Flushers, CommitMails(f)  PROVE EmailTypeOK'
  BY <1>8, CommitRows DEF CommitMails, NoBatch, EmailTypeOK, Tried, Batches
<1>9. ASSUME NEW f \in Flushers, FlusherDies(f)  PROVE EmailTypeOK'
  BY <1>9 DEF FlusherDies, NoBatch, EmailTypeOK, Tried, Batches
<1>10. ASSUME NEW k \in DOMAIN mail, Resend(k)  PROVE EmailTypeOK'
  BY <1>10, ResendAdds, GrownTableTypes DEF Resend, EmailTypeOK
<1>11. ASSUME NEW k \in DOMAIN mail, NEW o \in Operators, ReplayRead(o, k)  PROVE EmailTypeOK'
  BY <1>11 DEF ReplayRead, EmailTypeOK, Tried, Batches
<1>12. ASSUME NEW o \in Operators, ReplayWrite(o)  PROVE EmailTypeOK'
  <2>1. CASE UNCHANGED <<mail, accepted>>
    BY <1>12, <2>1 DEF ReplayWrite, EmailTypeOK, Tried, Batches
  <2>2. CASE RowsAreAdded
    BY <1>12, <2>2, GrownTableTypes DEF ReplayWrite, EmailTypeOK
  <2>3. QED  BY <1>12, <2>1, <2>2, ReplayAdds
<1>13. QED
  BY <1>1, <1>2, <1>3, <1>4, <1>5, <1>6, <1>7, <1>8, <1>9, <1>10, <1>11, <1>12 DEF EmailNext

LEMMA GrownTableLocks ==
    ASSUME EmailTypeOK, LocksHold, RowsAreAdded, UNCHANGED batch,
           \A o \in Operators : replaying'[o] \in {0, replaying[o]}
    PROVE  LocksHold'
<1>1. \A f \in Flushers : \A k \in batch[f].rows : k \in DOMAIN mail /\ Waiting(k)
  BY DEF EmailTypeOK, Batches, LocksHold
<1>2. \A f \in Flushers : \A k \in batch'[f].rows : Waiting(k)'
  BY <1>1, OldRows
<1>3. ASSUME NEW o \in Operators, replaying'[o] # 0  PROVE Spent(replaying[o])'
  <2>1. PICK k \in DOMAIN mail : k = replaying[o] /\ k = replaying'[o] /\ Spent(k)
    BY <1>3 DEF EmailTypeOK, LocksHold
  <2>2. Spent(k)'
    BY <2>1, OldRows
  <2>3. mail'[replaying'[o]].status = mail'[k].status
    BY <2>1
  <2>4. QED  BY <2>2, <2>3 DEF Spent
<1>4. QED  BY <1>2, <1>3 DEF LocksHold

LEMMA LocksStay ==
    ASSUME EmailTypeOK, LocksHold, EmailNext
    PROVE  LocksHold'
<1>1. ASSUME NEW e \in MailEvents, Trigger(e)  PROVE LocksHold'
  BY <1>1, TriggerAdds, GrownTableLocks DEF Trigger
<1>2. CASE SweepReminders
  BY <1>2, SweepAdds, GrownTableLocks DEF SweepReminders
<1>3. CASE NextDay
  BY <1>3 DEF NextDay, LocksHold, Waiting, Spent
<1>4. CASE SetOptOut
  BY <1>4 DEF SetOptOut, LocksHold, Waiting, Spent
<1>5. ASSUME NEW i \in Invoices, Paid(i)  PROVE LocksHold'
  BY <1>5 DEF Paid, LocksHold, Waiting, Spent
<1>6. ASSUME NEW f \in Flushers, TakeBatch(f)  PROVE LocksHold'
  <2>1. PICK new : batch' = [batch EXCEPT ![f] = new] /\ \A k \in new.rows : Waiting(k) /\ ~Locked(k)
    <3>1. PICK rows : /\ batch' = [batch EXCEPT ![f] = [NoBatch EXCEPT !.rows = rows]]
                      /\ \A k \in rows : Waiting(k) /\ ~Locked(k)
      BY <1>6 DEF TakeBatch, OldestWaiting
    <3>2. [NoBatch EXCEPT !.rows = rows].rows = rows
      BY DEF NoBatch
    <3>3. QED  BY <3>1, <3>2
  <2>2. \A g \in Flushers : \A k \in batch'[g].rows : Waiting(k)'
    BY <1>6, <2>1 DEF TakeBatch, EmailTypeOK, LocksHold, Waiting
  <2>3. \A g, h \in Flushers : g # h => batch'[g].rows \cap batch'[h].rows = {}
    BY <2>1 DEF EmailTypeOK, LocksHold, Locked
  <2>4. QED
    BY <1>6, <2>2, <2>3 DEF TakeBatch, LocksHold, Spent
<1>7. ASSUME NEW f \in Flushers, Send(f)  PROVE LocksHold'
  <2>1. \A g \in Flushers : batch'[g].rows = batch[g].rows
    BY <1>7, SendTries DEF EmailTypeOK
  <2>2. QED
    BY <1>7, <2>1 DEF Send, LocksHold, Waiting, Spent
<1>8. ASSUME NEW f \in Flushers, CommitMails(f)  PROVE LocksHold'
  <2>1. batch' = [batch EXCEPT ![f] = NoBatch] /\ NoBatch.rows = {}
    BY <1>8 DEF CommitMails, NoBatch
  <2>2. \A k \in DOMAIN mail : k \notin batch[f].rows => mail'[k] = mail[k]
    BY <1>8, CommitRows
  <2>3. \A g \in Flushers : g # f =>
            batch'[g].rows = batch[g].rows /\ batch[g].rows \cap batch[f].rows = {}
    BY <2>1 DEF EmailTypeOK, LocksHold
  <2>4. \A g \in Flushers : \A k \in batch'[g].rows : Waiting(k)'
    BY <2>1, <2>2, <2>3 DEF EmailTypeOK, Batches, LocksHold, Waiting
  <2>5. \A g, h \in Flushers : g # h => batch'[g].rows \cap batch'[h].rows = {}
    BY <2>1, <2>3 DEF EmailTypeOK, LocksHold
  <2>6. ASSUME NEW o \in Operators, replaying[o] # 0  PROVE Spent(replaying[o])'
    <3>1. PICK k \in DOMAIN mail : k = replaying[o] /\ Spent(k)
      BY <2>6 DEF EmailTypeOK, LocksHold
    <3>2. k \notin batch[f].rows
      BY <3>1 DEF LocksHold, Spent, Waiting
    <3>3. mail'[k] = mail[k] /\ replaying'[o] = k
      BY <1>8, <2>2, <3>1, <3>2 DEF CommitMails
    <3>4. QED
      BY <1>8, <3>1, <3>3 DEF CommitMails, Spent
  <2>7. QED
    BY <1>8, <2>4, <2>5, <2>6 DEF CommitMails, LocksHold
<1>9. ASSUME NEW f \in Flushers, FlusherDies(f)  PROVE LocksHold'
  BY <1>9 DEF FlusherDies, NoBatch, EmailTypeOK, LocksHold, Waiting, Spent
<1>10. ASSUME NEW k \in DOMAIN mail, Resend(k)  PROVE LocksHold'
  BY <1>10, ResendAdds, GrownTableLocks DEF Resend
<1>11. ASSUME NEW k \in DOMAIN mail, NEW o \in Operators, ReplayRead(o, k)  PROVE LocksHold'
  BY <1>11 DEF ReplayRead, EmailTypeOK, LocksHold, Waiting, Spent
<1>12. ASSUME NEW o \in Operators, ReplayWrite(o)  PROVE LocksHold'
  <2>1. \A p \in Operators : replaying'[p] \in {0, replaying[p]}
    BY <1>12 DEF ReplayWrite, EmailTypeOK
  <2>2. CASE UNCHANGED <<mail, accepted>>
    BY <1>12, <2>1, <2>2 DEF ReplayWrite, LocksHold, Waiting, Spent
  <2>3. CASE RowsAreAdded
    BY <1>12, <2>1, <2>3, GrownTableLocks DEF ReplayWrite
  <2>4. QED  BY <1>12, <2>2, <2>3, ReplayAdds
<1>13. QED
  BY <1>1, <1>2, <1>3, <1>4, <1>5, <1>6, <1>7, <1>8, <1>9, <1>10, <1>11, <1>12 DEF EmailNext

LEMMA RowNumbers ==
    ASSUME EmailTypeOK, NEW k \in DOMAIN mail
    PROVE  /\ mail[k].attempts \in Nat /\ accepted[k] \in Nat /\ deaths \in Nat
           /\ MailRetries \in Nat \ {0}
<1>1. mail[k] \in MailRow /\ accepted[k] \in Nat /\ deaths \in Nat
  BY DEF EmailTypeOK
<1>2. QED  BY <1>1, EmailAssumption DEF MailRow

\* A row that no step has tried, counted or opened again
LEMMA StaysCounted ==
    ASSUME EmailTypeOK, NEW k \in DOMAIN mail, Counted(k), deaths' \in Nat, deaths <= deaths',
           accepted'[k] = accepted[k], mail'[k].attempts = mail[k].attempts,
           Waiting(k)' => Waiting(k),
           \/ deaths < deaths'
           \/ \A f \in Flushers : k \in Tried(f) => k \in Tried(f)'
           \/ ~Waiting(k)'
    PROVE  Counted(k)'
<1>1. mail[k].attempts \in Nat /\ accepted[k] \in Nat /\ deaths \in Nat /\ MailRetries \in Nat
  BY RowNumbers
<1>2. CASE deaths < deaths'
  BY <1>1, <1>2 DEF Counted
<1>3. CASE \A f \in Flushers : k \in Tried(f) => k \in Tried(f)'
  <2>1. (\A f \in Flushers : k \notin Tried(f)') => \A f \in Flushers : k \notin Tried(f)
    BY <1>3
  <2>2. QED  BY <1>1, <2>1 DEF Counted
<1>4. CASE ~Waiting(k)'
  BY <1>1, <1>4 DEF Counted
<1>5. QED  BY <1>2, <1>3, <1>4

LEMMA GrownTableDeliveries ==
    ASSUME EmailTypeOK, DeliveriesAreCounted, RowsAreAdded, UNCHANGED <<batch, deaths>>
    PROVE  DeliveriesAreCounted'
<1>1. ASSUME NEW k \in DOMAIN mail  PROVE Counted(k)'
  <2>1. /\ accepted'[k] = accepted[k] /\ mail'[k].attempts = mail[k].attempts
        /\ Waiting(k)' = Waiting(k)
    BY OldRows
  <2>2. \A f \in Flushers : Tried(f)' = Tried(f)
    BY DEF Tried
  <2>3. deaths \in Nat /\ deaths' \in Nat /\ deaths <= deaths' /\ Counted(k)
    BY DEF EmailTypeOK, DeliveriesAreCounted
  <2>4. QED  BY <2>1, <2>2, <2>3, StaysCounted
<1>2. ASSUME NEW k \in DOMAIN mail' \ DOMAIN mail  PROVE Counted(k)'
  <2>1. mail'[k].attempts = 0 /\ accepted'[k] = 0 /\ deaths' \in Nat
    BY DEF RowsAreAdded, EmailTypeOK
  <2>2. QED  BY <2>1, EmailAssumption DEF Counted
<1>3. QED  BY <1>1, <1>2 DEF DeliveriesAreCounted

\* A step that leaves the rows, their deliveries and the batches alone
LEMMA SameDeliveries ==
    ASSUME DeliveriesAreCounted, UNCHANGED <<mail, accepted, batch, deaths>>
    PROVE  DeliveriesAreCounted'
  BY DEF DeliveriesAreCounted, Counted, Waiting, Tried

LEMMA SendStaysCounted ==
    ASSUME EmailTypeOK, LocksHold, DeliveriesAreCounted, NEW f \in Flushers, Send(f)
    PROVE  DeliveriesAreCounted'
<1>1. PICK k \in batch[f].rows \ Tried(f), new \in Batches :
            /\ batch' = [batch EXCEPT ![f] = new]
            /\ new.sent \cup new.failed = Tried(f) \cup {k}
            /\ Deliver(k) \/ UNCHANGED accepted
  BY SendTries
<1>2. UNCHANGED <<mail, deaths>>
  BY DEF Send
<1>3. k \in Tried(f)' /\ \A g \in Flushers : Tried(g) \subseteq Tried(g)'
  BY <1>1 DEF EmailTypeOK, Tried
<1>4. k \in DOMAIN mail /\ Waiting(k) /\ \A g \in Flushers : k \notin Tried(g)
  BY <1>1 DEF EmailTypeOK, Batches, LocksHold
<1>5. Counted(k)'
  <2>1. /\ mail[k].attempts \in Nat /\ accepted[k] \in Nat /\ deaths \in Nat
        /\ MailRetries \in Nat
    BY <1>4, RowNumbers
  <2>2. accepted[k] <= mail[k].attempts + deaths /\ mail[k].attempts < MailRetries
    BY <1>4 DEF DeliveriesAreCounted, Counted
  <2>3. accepted'[k] \in {accepted[k], accepted[k] + 1}
    BY <1>1, <1>4 DEF Deliver, EmailTypeOK
  <2>4. accepted'[k] <= 1 + (mail[k].attempts + deaths) /\ accepted'[k] <= MailRetries + deaths
    BY <2>1, <2>2, <2>3
  <2>5. QED
    BY <1>2, <1>3, <2>1, <2>2, <2>4 DEF Counted
<1>6. ASSUME NEW j \in DOMAIN mail, j # k  PROVE Counted(j)'
  <2>1. accepted'[j] = accepted[j]
    BY <1>1, <1>6 DEF Deliver, EmailTypeOK
  <2>2. Waiting(j)' => Waiting(j)
    BY <1>2 DEF Waiting
  <2>3. deaths \in Nat /\ Counted(j)
    BY DEF EmailTypeOK, DeliveriesAreCounted
  <2>4. QED  BY <1>2, <1>3, <2>1, <2>2, <2>3, StaysCounted
<1>7. QED  BY <1>2, <1>5, <1>6 DEF DeliveriesAreCounted

LEMMA CommitStaysCounted ==
    ASSUME EmailTypeOK, LocksHold, DeliveriesAreCounted, NEW f \in Flushers, CommitMails(f)
    PROVE  DeliveriesAreCounted'
<1>1. batch' = [batch EXCEPT ![f] = NoBatch] /\ UNCHANGED <<accepted, deaths>>
  BY DEF CommitMails
<1>2. DOMAIN mail' = DOMAIN mail
  BY CommitRows
<1>3. ASSUME NEW k \in DOMAIN mail  PROVE Counted(k)'
  <2>1. /\ mail[k].attempts \in Nat /\ accepted[k] \in Nat /\ deaths \in Nat
        /\ MailRetries \in Nat /\ Counted(k)
    BY RowNumbers DEF DeliveriesAreCounted
  <2>2. CASE k \notin batch[f].rows
    <3>1. mail'[k] = mail[k]
      BY <2>2, CommitRows
    <3>2. \A g \in Flushers : k \in Tried(g) => k \in Tried(g)'
      BY <1>1, <2>2 DEF EmailTypeOK, Tried
    <3>3. QED  BY <1>1, <2>1, <3>1, <3>2, StaysCounted DEF Waiting
  <2>3. CASE k \in batch[f].sent
    <3>1. mail'[k].status = "sent" /\ mail'[k].attempts = mail[k].attempts
      BY <2>3, CommitRows
    <3>2. QED  BY <1>1, <2>1, <3>1, StaysCounted DEF Waiting
  <2>4. CASE k \in batch[f].rows \ batch[f].sent
    <3>1. /\ mail'[k].attempts = mail[k].attempts + 1
          /\ mail'[k].attempts >= MailRetries => mail'[k].status = "dead"
      BY <2>4, CommitRows
    <3>2. mail[k].attempts < MailRetries
      BY <2>1, <2>4 DEF LocksHold, Counted
    <3>3. Waiting(k)' => mail'[k].attempts < MailRetries
      BY <2>1, <3>1 DEF Waiting
    <3>4. QED
      BY <1>1, <2>1, <3>1, <3>2, <3>3 DEF Counted
  <2>5. QED  BY <2>2, <2>3, <2>4 DEF EmailTypeOK, Tried
<1>4. QED  BY <1>2, <1>3 DEF DeliveriesAreCounted

LEMMA DeliveriesStayCounted ==
    ASSUME EmailTypeOK, LocksHold, DeliveriesAreCounted, EmailNext
    PROVE  DeliveriesAreCounted'
<1>1. ASSUME NEW e \in MailEvents, Trigger(e)  PROVE DeliveriesAreCounted'
  BY <1>1, TriggerAdds, GrownTableDeliveries DEF Trigger
<1>2. CASE SweepReminders
  BY <1>2, SweepAdds, GrownTableDeliveries DEF SweepReminders
<1>3. CASE NextDay
  BY <1>3, SameDeliveries DEF NextDay
<1>4. CASE SetOptOut
  BY <1>4, SameDeliveries DEF SetOptOut
<1>5. ASSUME NEW i \in Invoices, Paid(i)  PROVE DeliveriesAreCounted'
  BY <1>5, SameDeliveries DEF Paid
<1>6. ASSUME NEW f \in Flushers, TakeBatch(f)  PROVE DeliveriesAreCounted'
  <2>1. Tried(f) = {}
    BY <1>6 DEF TakeBatch, EmailTypeOK
  <2>2. \A g \in Flushers : Tried(g)' = Tried(g)
    BY <1>6, <2>1 DEF TakeBatch, NoBatch, EmailTypeOK, Tried
  <2>3. QED
    BY <1>6, <2>2 DEF TakeBatch, DeliveriesAreCounted, Counted, Waiting
<1>7. ASSUME NEW f \in Flushers, Send(f)  PROVE DeliveriesAreCounted'
  BY <1>7, SendStaysCounted
<1>8. ASSUME NEW f \in Flushers, CommitMails(f)  PROVE DeliveriesAreCounted'
  BY <1>8, CommitStaysCounted
<1>9. ASSUME NEW f \in Flushers, FlusherDies(f)  PROVE DeliveriesAreCounted'
  <2>1. UNCHANGED <<mail, accepted>> /\ deaths \in Nat /\ deaths' = deaths + 1
    BY <1>9 DEF FlusherDies, EmailTypeOK
  <2>2. ASSUME NEW k \in DOMAIN mail  PROVE Counted(k)'
    BY <2>1, StaysCounted DEF DeliveriesAreCounted, Waiting
  <2>3. QED  BY <2>1, <2>2 DEF DeliveriesAreCounted
<1>10. ASSUME NEW k \in DOMAIN mail, Resend(k)  PROVE DeliveriesAreCounted'
  BY <1>10, ResendAdds, GrownTableDeliveries DEF Resend
<1>11. ASSUME NEW k \in DOMAIN mail, NEW o \in Operators, ReplayRead(o, k)  PROVE DeliveriesAreCounted'
  BY <1>11, SameDeliveries DEF ReplayRead
<1>12. ASSUME NEW o \in Operators, ReplayWrite(o)  PROVE DeliveriesAreCounted'
  BY <1>12, SameDeliveries, GrownTableDeliveries, ReplayAdds DEF ReplayWrite
<1>13. QED
  BY <1>1, <1>2, <1>3, <1>4, <1>5, <1>6, <1>7, <1>8, <1>9, <1>10, <1>11, <1>12 DEF EmailNext

\* A step that adds no reminder of the sweep
LEMMA NoNewReminders ==
    ASSUME RemindersAreDated, LadderClimbs, day \in Nat, day' \in Nat, day <= day',
           \A k \in DOMAIN mail' : mail'[k].key[1] = "reminder" /\ mail'[k].copies = 0 =>
                /\ k \in DOMAIN mail /\ mail'[k].key = mail[k].key /\ mail[k].copies = 0
                /\ Spent(k) => Spent(k)'
    PROVE  RemindersAreDated' /\ LadderClimbs'
<1>1. \A k \in Reminders' : /\ k \in Reminders /\ mail'[k].key = mail[k].key
                            /\ Spent(k) => Spent(k)'
  BY DEF Reminders
<1>2. \A d \in 0 .. day : d \in 0 .. day'
  OBVIOUS
<1>3. RemindersAreDated'
  <2>1. ASSUME NEW k \in Reminders'  PROVE \E d \in 0 .. day' : mail'[k].key[3] = Tier(d - DueDay)
    <3>1. PICK d \in 0 .. day : mail[k].key[3] = Tier(d - DueDay)
      BY <1>1 DEF RemindersAreDated
    <3>2. QED  BY <1>1, <1>2, <3>1
  <2>2. QED  BY <2>1 DEF RemindersAreDated, Tier
<1>4. LadderClimbs'
  BY <1>1 DEF LadderClimbs, Spent
<1>5. QED  BY <1>3, <1>4

\* _dispatch_payment_reminders: of the tiers of today, above those that were enqueued
LEMMA SweepClimbs ==
    ASSUME EmailTypeOK, RemindersAreDated, LadderClimbs, SweepReminders
    PROVE  RemindersAreDated' /\ LadderClimbs'
<1>1. PICK tier \in Nat :
        /\ tier = Tier(day - DueDay)
        /\ RowsAreAdded /\ \A k \in DOMAIN mail : mail'[k] = mail[k]
        /\ \A k \in DOMAIN mail' \ DOMAIN mail :
                \E i \in Invoices : KeyFree(<<"reminder", i, tier>>)
                                   /\ mail'[k] = Row(<<"reminder", i, tier>>, 0)
        /\ \A j, k \in DOMAIN mail' \ DOMAIN mail : mail'[j].key = mail'[k].key => j = k
  BY SweepAdds
<1>2. UNCHANGED day /\ day \in Nat /\ DueDay \in Nat
  BY EmailAssumption DEF SweepReminders, EmailTypeOK
<1>3. \A k \in DOMAIN mail : mail[k] \in MailRow /\ mail[k].key \in Keys
  <2>1. \A k \in DOMAIN mail : mail[k] \in MailRow
    BY DEF EmailTypeOK
  <2>2. QED  BY <2>1 DEF MailRow
<1>4. ASSUME NEW k \in DOMAIN mail' \ DOMAIN mail
      PROVE  \E i \in Invoices : /\ KeyFree(<<"reminder", i, tier>>)
                                 /\ mail'[k].key = <<"reminder", i, tier>>
                                 /\ mail'[k].key[2] = i /\ mail'[k].key[3] = tier
  <2>1. PICK i \in Invoices : /\ KeyFree(<<"reminder", i, tier>>)
                             /\ mail'[k] = Row(<<"reminder", i, tier>>, 0)
    BY <1>1
  <2>2. mail'[k].key = <<"reminder", i, tier>>
    BY <2>1 DEF Row
  <2>3. QED  BY <2>1, <2>2
<1>5. \A k \in Reminders' : k \in DOMAIN mail => k \in Reminders /\ mail'[k] = mail[k]
  BY <1>1 DEF Reminders
<1>6. RemindersAreDated'
  <2>1. ASSUME NEW k \in Reminders'  PROVE \E d \in 0 .. day' : mail'[k].key[3] = Tier(d - DueDay)
    <3>1. CASE k \in DOMAIN mail
      BY <1>2, <1>5, <3>1 DEF RemindersAreDated
    <3>2. CASE k \notin DOMAIN mail
      <4>1. k \in DOMAIN mail' \ DOMAIN mail
        BY <3>2 DEF Reminders
      <4>2. mail'[k].key[3] = tier
        BY <1>4, <4>1
      <4>3. QED  BY <1>1, <1>2, <4>2
    <3>3. QED  BY <3>1, <3>2
  <2>2. QED  BY <2>1 DEF RemindersAreDated, Tier
<1>7. ASSUME NEW j \in Reminders', NEW k \in Reminders', j < k,
             mail'[j].key[2] = mail'[k].key[2]
      PROVE  \/ mail'[j].key[3] < mail'[k].key[3]
             \/ mail'[j].key[3] = mail'[k].key[3] /\ mail'[j].status \in {"dead", "gone"}
  <2>1. CASE j \in DOMAIN mail /\ k \in DOMAIN mail
    BY <1>5, <1>7, <2>1 DEF LadderClimbs
  <2>2. CASE j \in DOMAIN mail /\ k \notin DOMAIN mail
    <3>1. PICK i \in Invoices : /\ KeyFree(<<"reminder", i, tier>>)
                               /\ mail'[k].key[2] = i /\ mail'[k].key[3] = tier
      BY <1>4, <2>2 DEF Reminders
    <3>2. j \in Reminders /\ mail'[j] = mail[j]
      BY <1>5, <2>2
    <3>3. mail[j].key = <<"reminder", i, mail[j].key[3]>> /\ mail[j].key[3] \in Nat
      BY <1>3, <1>7, <3>1, <3>2, ReminderKey DEF Reminders
    <3>4. PICK d \in 0 .. day : mail[j].key[3] = Tier(d - DueDay)
      BY <3>2 DEF RemindersAreDated
    <3>5. mail[j].key[3] <= tier
      <4>1. d - DueDay \in Int /\ day - DueDay \in Int /\ d - DueDay <= day - DueDay
        BY <1>2
      <4>2. QED  BY <1>1, <3>3, <3>4, <4>1, TierRises
    <3>6. CASE mail[j].key[3] = tier
      <4>1. ~InOutbox(j)
        BY <3>1, <3>2, <3>3, <3>6 DEF KeyFree, Reminders
      <4>2. mail[j].status \in {"dead", "gone"}
        BY <1>3, <2>2, <4>1 DEF InOutbox, MailRow
      <4>3. QED  BY <3>1, <3>2, <3>6, <4>2
    <3>7. QED  BY <3>1, <3>2, <3>3, <3>5, <3>6
  <2>3. CASE j \notin DOMAIN mail /\ k \in DOMAIN mail
    <3>1. /\ DOMAIN mail = 1 .. Len(mail) /\ DOMAIN mail' = 1 .. Len(mail')
          /\ Len(mail) \in Nat /\ Len(mail') \in Nat
      BY <1>1 DEF EmailTypeOK, RowsAreAdded
    <3>2. QED  BY <1>7, <2>3, <3>1 DEF Reminders
  <2>4. CASE j \notin DOMAIN mail /\ k \notin DOMAIN mail
    <3>1. j \in DOMAIN mail' \ DOMAIN mail /\ k \in DOMAIN mail' \ DOMAIN mail
      BY <2>4 DEF Reminders
    <3>2. mail'[j].key = mail'[k].key
      BY <1>4, <1>7, <3>1
    <3>3. j = k
      BY <1>1, <3>1, <3>2
    <3>4. j \in Nat
      BY <1>1, <3>1 DEF RowsAreAdded
    <3>5. QED  BY <1>7, <3>3, <3>4
  <2>5. QED  BY <2>1, <2>2, <2>3, <2>4
<1>8. QED  BY <1>6, <1>7 DEF LadderClimbs

LEMMA LadderStays ==
    ASSUME EmailTypeOK, LocksHold, RemindersAreDated, LadderClimbs, EmailNext
    PROVE  RemindersAreDated' /\ LadderClimbs'
<1>1. ASSUME NEW e \in MailEvents, Trigger(e)  PROVE RemindersAreDated' /\ LadderClimbs'
  <2>1. \A j \in DOMAIN mail' : mail'[j].key[1] = "reminder" => j \in DOMAIN mail
    BY <1>1, TriggerAdds
  <2>2. QED
    BY <1>1, <2>1, TriggerAdds, NoNewReminders DEF Trigger, EmailTypeOK, Spent
<1>2. CASE SweepReminders
  BY <1>2, SweepClimbs
<1>3. CASE NextDay
  BY <1>3, NoNewReminders DEF NextDay, EmailTypeOK, Spent
<1>4. CASE SetOptOut
  BY <1>4, NoNewReminders DEF SetOptOut, EmailTypeOK, Spent
<1>5. ASSUME NEW i \in Invoices, Paid(i)  PROVE RemindersAreDated' /\ LadderClimbs'
  BY <1>5, NoNewReminders DEF Paid, EmailTypeOK, Spent
<1>6. ASSUME NEW f \in Flushers, TakeBatch(f)  PROVE RemindersAreDated' /\ LadderClimbs'
  BY <1>6, NoNewReminders DEF TakeBatch, EmailTypeOK, Spent
<1>7. ASSUME NEW f \in Flushers, Send(f)  PROVE RemindersAreDated' /\ LadderClimbs'
  BY <1>7, NoNewReminders DEF Send, EmailTypeOK, Spent
<1>8. ASSUME NEW f \in Flushers, CommitMails(f)  PROVE RemindersAreDated' /\ LadderClimbs'
  <2>1. ASSUME NEW k \in DOMAIN mail, Spent(k)  PROVE Spent(k)'
    BY <1>8, <2>1, CommitRows DEF LocksHold, Waiting, Spent
  <2>2. DOMAIN mail' = DOMAIN mail /\ \A k \in DOMAIN mail :
            mail'[k].key = mail[k].key /\ mail'[k].copies = mail[k].copies
    BY <1>8, CommitRows
  <2>3. UNCHANGED day /\ day \in Nat
    BY <1>8 DEF CommitMails, EmailTypeOK
  <2>4. QED  BY <2>1, <2>2, <2>3, NoNewReminders
<1>9. ASSUME NEW f \in Flushers, FlusherDies(f)  PROVE RemindersAreDated' /\ LadderClimbs'
  BY <1>9, NoNewReminders DEF FlusherDies, EmailTypeOK, Spent
<1>10. ASSUME NEW k \in DOMAIN mail, Resend(k)  PROVE RemindersAreDated' /\ LadderClimbs'
  <2>1. RowsAreAdded /\ \A j \in DOMAIN mail' \ DOMAIN mail : mail'[j].copies > 0
    BY <1>10, ResendAdds
  <2>2. UNCHANGED day /\ day \in Nat
    BY <1>10 DEF Resend, EmailTypeOK
  <2>3. QED
    BY <2>1, <2>2, OldRows, NoNewReminders
<1>11. ASSUME NEW k \in DOMAIN mail, NEW o \in Operators, ReplayRead(o, k)  PROVE RemindersAreDated' /\ LadderClimbs'
  BY <1>11, NoNewReminders DEF ReplayRead, EmailTypeOK, Spent
<1>12. ASSUME NEW o \in Operators, ReplayWrite(o)  PROVE RemindersAreDated' /\ LadderClimbs'
  <2>1. UNCHANGED day /\ day \in Nat
    BY <1>12 DEF ReplayWrite, EmailTypeOK
  <2>2. CASE UNCHANGED <<mail, accepted>>
    BY <2>1, <2>2, NoNewReminders DEF Spent
  <2>3. CASE RowsAreAdded /\ \A j \in DOMAIN mail' \ DOMAIN mail : mail'[j].copies > 0
    BY <2>1, <2>3, OldRows, NoNewReminders
  <2>4. QED  BY <1>12, <2>2, <2>3, ReplayAdds
<1>13. QED
  BY <1>1, <1>2, <1>3, <1>4, <1>5, <1>6, <1>7, <1>8, <1>9, <1>10, <1>11, <1>12 DEF EmailNext

LEMMA EmailInitInv == EmailInit => EmailInv
<1> SUFFICES ASSUME EmailInit  PROVE EmailInv
  OBVIOUS
<1>1. mail \in Seq(MailRow) /\ DOMAIN mail = {} /\ accepted \in [DOMAIN mail -> Nat]
  BY DEF EmailInit
<1>2. EmailTypeOK
  BY <1>1 DEF EmailInit, NoBatch, EmailTypeOK, Tried, Batches
<1>3. LocksHold
  BY DEF EmailInit, NoBatch, LocksHold
<1>4. DeliveriesAreCounted /\ RemindersAreDated /\ LadderClimbs
  BY <1>1 DEF DeliveriesAreCounted, RemindersAreDated, LadderClimbs, Reminders
<1>5. QED  BY <1>2, <1>3, <1>4 DEF EmailInv

LEMMA EmailStepInv == EmailInv /\ [EmailNext]_emailVars => EmailInv'
<1> SUFFICES ASSUME EmailInv, [EmailNext]_emailVars  PROVE EmailInv'
  OBVIOUS
<1>1. CASE EmailNext
  BY <1>1, EmailTypes, LocksStay, DeliveriesStayCounted, LadderStays DEF EmailInv
<1>2. CASE UNCHANGED emailVars
  BY <1>2 DEF emailVars, EmailInv, EmailTypeOK, Batches, Tried, LocksHold, Waiting, Spent,
              DeliveriesAreCounted, Counted, RemindersAreDated, LadderClimbs, Reminders
<1>3. QED  BY <1>1, <1>2

\* Two flushers never send one row: what the server took more than once was paid for by
\* attempts that flush_once recorded as failed, fewer than EMAIL_MAX_RETRIES of them, or by
\* flushers that died.
THEOREM RepeatsAreCounted == EmailSpec => []RepeatsNeedFaults
<1>1. EmailInv => RepeatsNeedFaults
  <2> SUFFICES ASSUME EmailInv, NEW k \in DOMAIN mail
               PROVE  /\ accepted[k] <= 1 + mail[k].attempts + deaths
                      /\ accepted[k] <= MailRetries + deaths
    BY DEF RepeatsNeedFaults
  <2>1. Counted(k) /\ mail[k].attempts \in Nat /\ accepted[k] \in Nat /\ deaths \in Nat
    BY RowNumbers DEF EmailInv, DeliveriesAreCounted
  <2>2. QED  BY <2>1 DEF Counted
<1>2. QED  BY <1>1, EmailInitInv, EmailStepInv, PTL DEF EmailSpec

\* Whatever days the sweep runs on, and however often, an invoice's reminders climb from
\* tier to tier; only a dead-lettered one comes again (_dispatch_payment_reminders).
THEOREM RemindersClimb == EmailSpec => []LadderClimbs
<1>1. EmailInv => LadderClimbs
  BY DEF EmailInv
<1>2. QED  BY <1>1, EmailInitInv, EmailStepInv, PTL DEF EmailSpec
=============================================================================
