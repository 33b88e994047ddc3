---------------------------- MODULE ServicesProofs ----------------------------
(***************************************************************************)
(* Services that share no state: the owner's role and the gates of the     *)
(* login, failover between the providers of a language model, the tuning   *)
(* in force, the periodic tasks, and what the agents may change.  A step   *)
(* is a step of one of them and leaves the others alone, so each has an    *)
(* inductive invariant of its own.  Last, the figures the agents report:   *)
(* the states decoded from a budget are the likeliest, the sums agree, the *)
(* rates are those of their day when the schedule can be read.             *)
(***************************************************************************)
EXTENDS Services, FiniteSetTheorems, SequenceTheorems, NaturalsInduction,
        WellFoundedInduction, TLAPS

RunsNext ==
    \/ Watch \/ Strategise \/ ForecastCash \/ Integrate \/ Keep \/ AdviceStep
    \/ AuditInForce

\* What a step of the whole is to each part.
LEMMA AccountsApart == [Next]_vars => [AccountsNext]_accountVars
BY DEF Next, vars, accountVars

LEMMA TuningApart == [Next]_vars => [TuningNext \/ RatesNext]_tuningVars
<1>1. RefreshNext \/ StoreNext("auditor") => TuningNext
  BY TuningAssumption DEF TuningNext
<1>2. QED  BY <1>1 DEF Next, vars, tuningVars

LEMMA ProvidersApart == [Next]_vars => [ProvidersNext]_providerVars
BY DEF Next, vars, providerVars

LEMMA RunsApart == [Next]_vars => [RunsNext]_runVars
BY DEF Next, vars, runVars, RunsNext

LEMMA BatchApart == [Next]_vars => [BatchNext]_batchVars
BY DEF Next, vars, jobVars, batchVars

LEMMA ModelApart == [Next]_vars => [ModelNext]_modelVars
BY DEF Next, vars, jobVars, modelVars

LEMMA ThreadApart == [Next]_vars => [ThreadNext]_threadVars
BY DEF Next, vars, jobVars, threadVars

-----------------------------------------------------------------------------
(* Accounts *)

AccountRow == [role : {"none", "viewer", "admin", "owner"}, active : BOOLEAN,
               approved : BOOLEAN, confirmed : BOOLEAN]

\* Registrations that counted no user, and will insert an owner.
Claiming == {r \in Registrations : registering[r] # NoRegistration /\ registering[r].owner}

\* An owner in the making counts as one; the first row of the table ends the claims.
AccountsInv ==
    /\ account \in [Emails -> AccountRow] /\ DOMAIN registering = Registrations
    /\ \A r \in Registrations : registering[r] # NoRegistration =>
            registering[r].email \in Emails /\ registering[r].owner \in BOOLEAN
    /\ IsFiniteSet(claimed)
    /\ Cardinality(claimed) + Cardinality(Claiming) <= Cardinality(Registrations)
    /\ claimed # {} => Registered # {}
    /\ \A e \in Emails : account[e].approved => e \in claimed \/ <<"approved", e>> \in mailed

LEMMA ClaimingFinite ==
    /\ IsFiniteSet(Claiming) /\ Cardinality(Claiming) \in Nat
    /\ IsFiniteSet(Claiming') /\ Cardinality(Claiming') \in Nat
    /\ Cardinality(Registrations) \in Nat
    /\ Cardinality(Claiming') <= Cardinality(Registrations)
<1>1. Claiming \subseteq Registrations /\ Claiming' \subseteq Registrations
  BY DEF Claiming
<1>2. QED  BY <1>1, AccountsAssumption, FS_Subset, FS_CardinalityType

LEMMA AccountsStart == AccountsInit => AccountsInv
<1> SUFFICES ASSUME AccountsInit PROVE AccountsInv
  OBVIOUS
<1>1. Claiming = {}
  BY DEF AccountsInit, Claiming
<1>2. Cardinality(claimed) + Cardinality(Claiming) <= Cardinality(Registrations)
  BY <1>1, FS_EmptySet, ClaimingFinite DEF AccountsInit
<1>3. IsFiniteSet(claimed)
  BY FS_EmptySet DEF AccountsInit
<1>4. QED  BY <1>2, <1>3 DEF AccountsInit, AccountsInv, AccountRow, NoAccount

\* Whoever has a row keeps one.
LEMMA RowsStay ==
    ASSUME AccountsInv, [AccountsNext]_accountVars, NEW e \in Registered
    PROVE  e \in Registered'
<1> USE DEF AccountsInv, Registered, NoAccount
<1>1. ASSUME NEW r \in Registrations, RegisterWrite(r) PROVE e \in Registered'
  BY <1>1 DEF RegisterWrite
<1>2. ASSUME NEW f \in Emails, NEW header, VerifyEmail(f, header) PROVE e \in Registered'
  BY <1>2 DEF VerifyEmail, AccountRow
<1>3. ASSUME NEW admin, NEW f \in Emails, NEW row \in Rows, UpdateUser(admin, f, row)
      PROVE  e \in Registered'
  BY <1>3 DEF UpdateUser, Rows
<1>4. CASE UNCHANGED account
  BY <1>4
<1>5. QED
  BY <1>1, <1>2, <1>3, <1>4
  DEF AccountsNext, RegisterRead, ResendVerification, accountVars

LEMMA AccountsStep == AccountsInv /\ [AccountsNext]_accountVars => AccountsInv'
<1> SUFFICES ASSUME AccountsInv, [AccountsNext]_accountVars PROVE AccountsInv'
  OBVIOUS
<1> USE DEF AccountsInv
<1>1. ASSUME NEW r \in Registrations, NEW e \in Emails, NEW key, RegisterRead(r, e, key)
      PROVE  AccountsInv'
  <2>1. /\ registering' = [registering EXCEPT ![r] =
              [email |-> e, owner |-> ClaimsOwner(key, Registered = {})]]
        /\ UNCHANGED <<account, claimed, mailed>>
    BY <1>1 DEF RegisterRead
  <2>2. Cardinality(claimed) + Cardinality(Claiming') <= Cardinality(Registrations)
    <3>1. CASE ClaimsOwner(key, Registered = {})
      <4>1. claimed = {}
        BY <3>1 DEF ClaimsOwner
      <4>2. QED  BY <4>1, FS_EmptySet, ClaimingFinite
    <3>2. CASE ~ClaimsOwner(key, Registered = {})
      <4>1. Claiming' \subseteq Claiming
        BY <2>1, <3>2 DEF Claiming
      <4>2. Cardinality(Claiming') <= Cardinality(Claiming)
        BY <4>1, ClaimingFinite, FS_Subset
      <4>3. QED  BY <4>2, ClaimingFinite, FS_CardinalityType
    <3>3. QED  BY <3>1, <3>2
  <2>3. \A x \in Registrations : registering'[x] # NoRegistration =>
           registering'[x].email \in Emails /\ registering'[x].owner \in BOOLEAN
    BY <2>1 DEF ClaimsOwner
  <2>4. Registered' = Registered
    BY <2>1 DEF Registered
  <2>5. QED  BY <2>1, <2>2, <2>3, <2>4
<1>2. ASSUME NEW r \in Registrations, RegisterWrite(r) PROVE AccountsInv'
  <2>1. PICK e \in Emails : e = registering[r].email
    BY <1>2 DEF RegisterWrite
  <2>2. /\ registering[r] # NoRegistration
        /\ registering' = [registering EXCEPT ![r] = NoRegistration]
    BY <1>2 DEF RegisterWrite
  <2>3. Claiming' = Claiming \ {r}
    BY <2>2 DEF Claiming
  <2>4. Cardinality(Claiming') <= Cardinality(Claiming)
    BY <2>3, ClaimingFinite, FS_Subset
  <2>5. \A x \in Registrations : registering'[x] # NoRegistration =>
           registering'[x].email \in Emails /\ registering'[x].owner \in BOOLEAN
    BY <2>2
  <2>6. CASE e \in Registered
    <3>1. UNCHANGED <<account, claimed, mailed>>
      BY <1>2, <2>1, <2>6 DEF RegisterWrite
    <3>2. QED
      BY <2>2, <2>4, <2>5, <3>1, ClaimingFinite, FS_CardinalityType DEF Registered
  <2>7. CASE e \notin Registered
    <3> DEFINE owner == registering[r].owner
               row == [role |-> IF owner THEN "owner" ELSE "viewer", active |-> TRUE,
                       approved |-> owner, confirmed |-> owner]
    <3>1. /\ account' = [account EXCEPT ![e] = row]
          /\ claimed' = IF owner THEN claimed \cup {e} ELSE claimed
          /\ mailed \subseteq mailed'
      BY <1>2, <2>1, <2>7 DEF RegisterWrite
    <3>2. owner \in BOOLEAN
      BY <2>2
    <3>3. Cardinality(claimed') + Cardinality(Claiming') <= Cardinality(Registrations)
      <4>1. CASE owner
        <5>1. Cardinality(Claiming') = Cardinality(Claiming) - 1
          <6>1. r \in Claiming
            BY <2>2, <4>1 DEF Claiming
          <6>2. QED  BY <6>1, <2>3, ClaimingFinite, FS_RemoveElement
        <5>2. Cardinality(claimed') <= Cardinality(claimed) + 1
          <6>1. Cardinality(claimed \cup {e}) \in {Cardinality(claimed), Cardinality(claimed) + 1}
            BY FS_AddElement
          <6>2. QED  BY <6>1, <3>1, <4>1, FS_CardinalityType
        <5>3. IsFiniteSet(claimed')
          BY <3>1, <4>1, FS_AddElement
        <5>4. QED  BY <5>1, <5>2, <5>3, ClaimingFinite, FS_CardinalityType
      <4>2. CASE ~owner
        BY <2>4, <3>1, <4>2, ClaimingFinite, FS_CardinalityType
      <4>3. QED  BY <4>1, <4>2
    <3>4. IsFiniteSet(claimed')
      BY <3>1, FS_AddElement
    <3>5. e \in Registered'
      BY <3>1 DEF Registered, NoAccount
    <3>6. account' \in [Emails -> AccountRow]
      BY <3>1, <3>2 DEF AccountRow
    <3>7. \A f \in Emails : account'[f].approved => f \in claimed' \/ <<"approved", f>> \in mailed'
      BY <3>1
    <3>8. DOMAIN registering' = Registrations
      BY <2>2
    <3>9. QED  BY <2>5, <3>3, <3>4, <3>5, <3>6, <3>7, <3>8
  <2>8. QED  BY <2>6, <2>7
<1>3. ASSUME NEW e \in Emails, NEW header, VerifyEmail(e, header) PROVE AccountsInv'
  <2>1. /\ account' = [account EXCEPT ![e].confirmed = TRUE]
        /\ UNCHANGED <<claimed, mailed, registering>>
    BY <1>3 DEF VerifyEmail
  <2>2. account' \in [Emails -> AccountRow]
    BY <2>1 DEF AccountRow
  <2>3. \A f \in Emails : account'[f].approved = account[f].approved
    BY <2>1 DEF AccountRow
  <2>4. claimed' # {} => Registered' # {}
    BY <2>1, <1>3, RowsStay DEF AccountsNext
  <2>5. Claiming' = Claiming
    BY <2>1 DEF Claiming
  <2>6. QED  BY <2>1, <2>2, <2>3, <2>4, <2>5
<1>4. ASSUME NEW e \in Emails, NEW header, ResendVerification(e, header) PROVE AccountsInv'
  <2>1. mailed \subseteq mailed' /\ UNCHANGED <<account, claimed, registering>>
    BY <1>4 DEF ResendVerification
  <2>2. Claiming' = Claiming /\ Registered' = Registered
    BY <2>1 DEF Claiming, Registered
  <2>3. QED  BY <2>1, <2>2
<1>5. ASSUME NEW admin \in Emails, NEW e \in Emails, NEW row \in Rows, UpdateUser(admin, e, row)
      PROVE  AccountsInv'
  <2>1. /\ account' = [account EXCEPT ![e] = row]
        /\ mailed' = IF row.approved /\ ~account[e].approved
                     THEN mailed \cup {<<"approved", e>>} ELSE mailed
        /\ UNCHANGED <<claimed, registering>>
    BY <1>5 DEF UpdateUser
  <2>2. account' \in [Emails -> AccountRow]
    BY <2>1 DEF AccountRow, Rows
  <2>3. \A f \in Emails : account'[f].approved => f \in claimed' \/ <<"approved", f>> \in mailed'
    BY <2>1
  <2>4. claimed' # {} => Registered' # {}
    BY <2>1, <1>5, RowsStay DEF AccountsNext
  <2>5. Claiming' = Claiming
    BY <2>1 DEF Claiming
  <2>6. QED  BY <2>1, <2>2, <2>3, <2>4, <2>5
<1>6. CASE UNCHANGED accountVars
  <2>1. UNCHANGED <<account, claimed, mailed, registering>>
    BY <1>6 DEF accountVars
  <2>2. Claiming' = Claiming /\ Registered' = Registered
    BY <2>1 DEF Claiming, Registered
  <2>3. QED  BY <2>1, <2>2
<1>7. QED
  BY <1>1, <1>2, <1>3, <1>4, <1>5, <1>6 DEF AccountsNext

\* Everybody who may log in claimed the owner's role, which can happen no more often than
\* there were registrations under way, or was let in by somebody entitled
\* (identity/service.py: register, login, update_user).
THEOREM NobodyLetsThemselvesIn == Spec => []EveryoneWasLetIn
<1>1. Init => AccountsInv
  BY AccountsStart DEF Init
<1>2. AccountsInv /\ [Next]_vars => AccountsInv'
  BY AccountsStep, AccountsApart
<1>3. AccountsInv => EveryoneWasLetIn
  BY ClaimingFinite, FS_CardinalityType DEF AccountsInv, EveryoneWasLetIn, MayLogIn
<1>4. QED  BY <1>1, <1>2, <1>3, PTL DEF Spec

-----------------------------------------------------------------------------
(* Failover *)

\* An attempt that left no answer.
Failed(outcome) == outcome \in Outcomes \ {"ok", "malformed"}

\* A provider that was tried to the end of its retries.
Finished(provider) ==
    \E last \in Attempts(provider) :
        /\ \A i \in Attempts(provider) : last >= i
        /\ Failed(asked[last].outcome)
        /\ asked[last].outcome = "transient" => Cardinality(Attempts(provider)) = MaxAttempts

CallRecord == [status : {"running", "answer", "invalid", "unavailable"}, capability : Capabilities,
               override : {"none", "gemma-large"}, provider : {"fireworks", "gemini", "featherless"},
               attempts : Nat]
AskedRecord == [provider : {"fireworks", "gemini", "featherless"}, 
                model : Models \cup {"none", "gemma-large"}, outcome : Outcomes]

\* The providers that a call may reach.
Chain(c) == IF c.capability = "embed" THEN {EmbeddingClient} ELSE {Primary, Backup} \ {"none"}

\* While a call runs, its provider has been asked once per attempt counted, all in vain;
\* the backup is asked after the primary is finished, and not before.
Running ==
    /\ call.provider \in Chain(call)
    /\ call.attempts < MaxAttempts /\ Cardinality(Attempts(call.provider)) = call.attempts
    /\ \A i \in DOMAIN asked : Failed(asked[i].outcome)
    /\ call.capability # "embed" =>
        IF call.provider = Primary THEN Attempts(Backup) = {} ELSE Finished(Primary)

ProvidersInv ==
    /\ asked \in Seq(AskedRecord)
    /\ call # NoCall => call \in CallRecord
    /\ call = NoCall => asked = <<>>
    /\ call.status = "running" => Running
    /\ call.status = "unavailable" => \A p \in Chain(call) : Finished(p)
    /\ \A i \in 1..(Len(asked) - 1) : Failed(asked[i].outcome)
    /\ call.status # "none" /\ call.capability = "embed" =>
        \A i \in DOMAIN asked : asked[i].provider = "fireworks" /\ asked[i].model = "nomic"

LEMMA MaxIs ==
    ASSUME NEW S \in SUBSET Int, NEW x \in S, \A y \in S : x >= y
    PROVE  Max(S) = x
<1>1. Max(S) \in S /\ \A y \in S : Max(S) >= y
  BY DEF Max
<1>2. PICK m \in Int : m = Max(S)
  BY <1>1
<1>3. m >= x /\ x >= m
  BY <1>1, <1>2
<1>4. QED  BY <1>2, <1>3

LEMMA ProvidersStart == ProvidersInit => ProvidersInv
BY DEF ProvidersInit, ProvidersInv, NoCall

\* Of the attempts so far, a step adds one, the last.
LEMMA AttemptsGrow ==
    ASSUME NEW outcome \in Outcomes, Attempt(outcome), asked \in Seq(AskedRecord),
           call \in CallRecord, NEW p
    PROVE  /\ asked' \in Seq(AskedRecord)
           /\ Len(asked') = Len(asked) + 1
           /\ asked'[Len(asked')] = [provider |-> call.provider,
                                     model |-> ModelAsked(call.provider, call), outcome |-> outcome]
           /\ \A i \in DOMAIN asked : asked'[i] = asked[i]
           /\ Attempts(p)' = Attempts(p) \cup (IF p = call.provider THEN {Len(asked')} ELSE {})
           /\ Len(asked') \notin Attempts(p)
           /\ IsFiniteSet(Attempts(p)) /\ Attempts(p) \subseteq 1..Len(asked)
<1> USE DEF Attempt
<1>1. [provider |-> call.provider, model |-> ModelAsked(call.provider, call), outcome |-> outcome]
        \in AskedRecord
  BY DEF AskedRecord, CallRecord, ModelAsked, Models, ProviderSpec
<1>2. /\ asked' \in Seq(AskedRecord) /\ Len(asked') = Len(asked) + 1
      /\ asked'[Len(asked')] = [provider |-> call.provider,
                                model |-> ModelAsked(call.provider, call), outcome |-> outcome]
      /\ \A i \in DOMAIN asked : asked'[i] = asked[i]
  BY <1>1
<1>3. Attempts(p) \subseteq 1..Len(asked) /\ Len(asked) \in Nat
  BY DEF Attempts
<1>4. IsFiniteSet(Attempts(p))
  BY <1>3, FS_Interval, FS_Subset
<1>5. Attempts(p)' = Attempts(p) \cup (IF p = call.provider THEN {Len(asked')} ELSE {})
  BY <1>2 DEF Attempts
<1>6. QED  BY <1>2, <1>3, <1>4, <1>5

\* What was finished with stays so while another provider is asked, and a provider whose
\* last attempt fails without a retry is finished with.
LEMMA FinishedStays ==
    ASSUME ProvidersInv, NEW outcome \in Outcomes, Attempt(outcome),
           NEW p, Finished(p), p # call.provider
    PROVE  Finished(p)'
<1>1. call \in CallRecord /\ asked \in Seq(AskedRecord)
  BY DEF ProvidersInv, Attempt, NoCall
<1>2. Attempts(p)' = Attempts(p) /\ \A i \in Attempts(p) : asked'[i] = asked[i]
  BY <1>1, AttemptsGrow DEF Attempts
<1>3. QED  BY <1>2 DEF Finished, Failed

LEMMA NowFinished ==
    ASSUME ProvidersInv, NEW outcome \in Outcomes, Attempt(outcome),
           Failed(outcome), ~Retries(call, outcome)
    PROVE  \A p : p = call.provider => Finished(p)'
<1> SUFFICES ASSUME NEW p, p = call.provider PROVE Finished(p)'
  OBVIOUS
<1>1. call \in CallRecord /\ asked \in Seq(AskedRecord) /\ Running
  BY DEF ProvidersInv, Attempt, NoCall
<1> DEFINE last == Len(asked')
<1>2. /\ last = Len(asked) + 1 /\ asked'[last].outcome = outcome
      /\ Attempts(p)' = Attempts(p) \cup {last} /\ last \notin Attempts(p)
      /\ IsFiniteSet(Attempts(p)) /\ Attempts(p) \subseteq 1..Len(asked)
  <2>1. /\ Len(asked') = Len(asked) + 1
        /\ asked'[Len(asked')] = [provider |-> call.provider,
                                  model |-> ModelAsked(call.provider, call), outcome |-> outcome]
    BY <1>1, AttemptsGrow
  <2>2. /\ Attempts(p)' = Attempts(p) \cup {last} /\ last \notin Attempts(p)
        /\ IsFiniteSet(Attempts(p)) /\ Attempts(p) \subseteq 1..Len(asked)
    BY <1>1, AttemptsGrow
  <2>3. QED  BY <2>1, <2>2
<1>3. Cardinality(Attempts(p)') = call.attempts + 1
  BY <1>1, <1>2, FS_AddElement DEF Running
<1>4. \A i \in Attempts(p)' : last >= i
  BY <1>1, <1>2
<1>5. outcome = "transient" => Cardinality(Attempts(p)') = MaxAttempts
  BY <1>1, <1>3, ProvidersAssumption DEF Retries, Retryable, ScalingUp, Running, CallRecord
<1>6. QED  BY <1>2, <1>4, <1>5 DEF Finished, Failed

LEMMA ProvidersStep ==
    ProvidersInv /\ [ProvidersNext]_providerVars => ProvidersInv'
<1> SUFFICES ASSUME ProvidersInv, [ProvidersNext]_providerVars PROVE ProvidersInv'
  OBVIOUS
<1>1. ASSUME NEW capability \in Capabilities, NEW override \in {"none", "gemma-large"},
             Begin(capability, override)
      PROVE  ProvidersInv'
  <2>1. asked = <<>> /\ UNCHANGED <<keys, asked>>
    BY <1>1 DEF Begin, ProvidersInv
  <2>2. call' = [status |-> "running", capability |-> capability, override |-> override,
                 provider |-> IF capability = "embed" THEN EmbeddingClient ELSE Primary,
                 attempts |-> 0]
    BY <1>1 DEF Begin
  <2>3. call' \in CallRecord /\ call' # NoCall
    BY <2>2 DEF CallRecord, EmbeddingClient, Primary, NoCall
  <2>4. \A p : Attempts(p)' = {}
    BY <2>1 DEF Attempts
  <2>5. Running'
    <3>1. PICK p : p = call'.provider
      OBVIOUS
    <3>2. Cardinality(Attempts(p)') = 0 /\ call'.attempts = 0 /\ 0 < MaxAttempts
      BY <2>2, <2>4, FS_EmptySet, ProvidersAssumption
    <3>3. PICK b : b = Backup'
      OBVIOUS
    <3>4. Attempts(b)' = {}
      BY <2>4
    <3>5. asked' = <<>>
      BY <2>1
    <3>6. call'.provider \in Chain(call)' /\ (call'.capability # "embed" => call'.provider = Primary')
      BY <2>1, <2>2 DEF Chain, EmbeddingClient, Primary, Backup
    <3>7. QED  BY <3>1, <3>2, <3>3, <3>4, <3>5, <3>6 DEF Running, Chain, EmbeddingClient, Primary, Backup
  <2>6. QED  BY <2>1, <2>2, <2>3, <2>5 DEF ProvidersInv
<1>2. ASSUME NEW outcome \in Outcomes, Attempt(outcome) PROVE ProvidersInv'
  <2>1. call \in CallRecord /\ asked \in Seq(AskedRecord) /\ Running /\ call.status = "running"
    BY <1>2 DEF ProvidersInv, Attempt, NoCall
  <2>2. /\ asked' \in Seq(AskedRecord) /\ Len(asked') = Len(asked) + 1
        /\ asked'[Len(asked')] = [provider |-> call.provider,
                                  model |-> ModelAsked(call.provider, call), outcome |-> outcome]
        /\ \A i \in DOMAIN asked : asked'[i] = asked[i]
    BY <1>2, <2>1, AttemptsGrow
  <2>3. /\ keys' = keys /\ Primary' = Primary /\ Backup' = Backup
        /\ Primary # Backup /\ Primary # "none"
    BY <1>2 DEF Attempt, Primary, Backup
  <2>4. \A i \in 1..(Len(asked') - 1) : Failed(asked'[i].outcome)
    BY <2>1, <2>2 DEF Running
  <2>5. call.capability = "embed" => call.provider = "fireworks"
    BY <2>1 DEF Running, Chain, EmbeddingClient
  <2>6. call.capability = "embed" =>
            \A i \in DOMAIN asked' : asked'[i].provider = "fireworks" /\ asked'[i].model = "nomic"
    BY <2>1, <2>2, <2>5 DEF ProvidersInv, ModelAsked
  <2>7. CASE Retries(call, outcome)
    <3>1. call' = [call EXCEPT !.attempts = @ + 1]
      BY <1>2, <2>7 DEF Attempt
    <3>2. Failed(outcome) /\ call.attempts + 1 < MaxAttempts
      BY <2>7 DEF Retries, Retryable, Failed, Outcomes
    <3>3. call' \in CallRecord /\ call' # NoCall /\ call'.status = "running"
      BY <2>1, <3>1 DEF CallRecord, NoCall
    <3>4. Cardinality(Attempts(call.provider)') = call.attempts + 1
      <4>1. PICK p : p = call.provider
        OBVIOUS
      <4>2. Attempts(p)' = Attempts(p) \cup {Len(asked')} /\ Len(asked') \notin Attempts(p)
        BY <1>2, <2>1, <4>1, AttemptsGrow
      <4>3. IsFiniteSet(Attempts(p)) /\ Cardinality(Attempts(p)) = call.attempts
        BY <1>2, <2>1, <4>1, AttemptsGrow DEF Running
      <4>4. Cardinality(Attempts(p)') = call.attempts + 1
        BY <4>2, <4>3, FS_AddElement
      <4>5. call'.provider = p
        BY <2>1, <3>1, <4>1 DEF CallRecord
      <4>6. QED  BY <4>4, <4>5
    <3>5. call.capability # "embed" =>
              IF call.provider = Primary THEN Attempts(Backup)' = {} ELSE Finished(Primary)'
      BY <1>2, <2>1, <2>3, AttemptsGrow, FinishedStays DEF Running
    <3>6. Running'
      BY <2>1, <2>2, <2>3, <3>1, <3>2, <3>4, <3>5 DEF Running, Chain, CallRecord
    <3>7. QED  BY <2>2, <2>4, <2>6, <3>1, <3>3, <3>6, <2>1 DEF ProvidersInv, CallRecord
  <2>8. CASE /\ ~Retries(call, outcome) /\ Guarded(outcome) = "unavailable"
             /\ FailsOverTo(call, outcome) # "none"
    <3>1. call' = [call EXCEPT !.provider = Backup, !.attempts = 0]
      BY <1>2, <2>8 DEF Attempt, FailsOverTo
    <3>2. call.capability # "embed" /\ call.provider = Primary /\ Backup # "none"
      BY <2>8 DEF FailsOverTo
    <3>3. call' \in CallRecord /\ call' # NoCall /\ call'.status = "running"
      BY <2>1, <3>1, <3>2 DEF CallRecord, NoCall, Backup
    <3>4. Failed(outcome)
      BY <2>8 DEF Guarded, Failed
    <3>5. Finished(Primary)'
      BY <1>2, <2>8, <2>3, <3>2, <3>4, NowFinished
    <3>6. Attempts(Backup)' = {}
      BY <1>2, <2>1, <2>3, <3>2, AttemptsGrow DEF Running
    <3>7. Running'
      <4>1. call'.provider = Backup' /\ call'.attempts = 0 /\ call'.capability = call.capability
        BY <2>1, <2>3, <3>1 DEF CallRecord
      <4>2. PICK b : b = Backup
        OBVIOUS
      <4>3. Attempts(b)' = {}
        BY <2>3, <3>6, <4>2
      <4>4. Cardinality(Attempts(b)') = 0
        BY <4>3, FS_EmptySet
      <4>5. Cardinality(Attempts(call.provider)') = 0
        BY <4>1, <4>2, <4>4, <2>3
      <4>6. \A i \in DOMAIN asked' : Failed(asked'[i].outcome)
        BY <2>1, <2>2, <2>4, <3>4
      <4>7. call'.provider \in Chain(call)' /\ call'.provider # Primary'
        BY <2>3, <3>2, <4>1 DEF Chain
      <4>8. QED  BY <3>5, <4>1, <4>5, <4>6, <4>7, ProvidersAssumption DEF Running
    <3>8. QED  BY <2>2, <2>4, <2>6, <3>1, <3>3, <3>7, <2>1 DEF ProvidersInv, CallRecord
  <2>9. CASE /\ ~Retries(call, outcome)
             /\ ~(Guarded(outcome) = "unavailable" /\ FailsOverTo(call, outcome) # "none")
    <3>1. call' = [call EXCEPT !.status = Guarded(outcome)]
      BY <1>2, <2>9 DEF Attempt
    <3>2. call' \in CallRecord /\ call' # NoCall /\ call'.status # "running"
      BY <2>1, <3>1 DEF CallRecord, NoCall, Guarded
    <3>3. ASSUME call'.status = "unavailable", NEW p \in Chain(call)' PROVE Finished(p)'
      <4>1. Failed(outcome)
        BY <2>1, <3>1, <3>3 DEF Guarded, Failed, CallRecord
      <4>2. p \in Chain(call)
        BY <2>1, <2>3, <3>1, <3>3 DEF Chain, CallRecord
      <4>3. CASE p = call.provider
        BY <1>2, <2>9, <4>1, <4>3, NowFinished
      <4>4. CASE p # call.provider
        <5>1. Finished(p)
          BY <2>1, <2>3, <2>9, <3>1, <3>3, <4>2, <4>4
          DEF Running, Chain, FailsOverTo, CallRecord
        <5>2. QED  BY <1>2, <4>4, <5>1, FinishedStays
      <4>5. QED  BY <4>3, <4>4
    <3>4. QED  BY <2>2, <2>4, <2>6, <3>1, <3>2, <3>3, <2>1 DEF ProvidersInv, CallRecord
  <2>10. QED  BY <2>7, <2>8, <2>9
<1>3. CASE UNCHANGED providerVars
  <2>1. keys' = keys /\ call' = call /\ asked' = asked
    BY <1>3 DEF providerVars
  <2>2. Primary' = Primary /\ Backup' = Backup /\ Chain(call)' = Chain(call)
    BY <2>1 DEF Primary, Backup, Chain
  <2>3. \A p : Attempts(p)' = Attempts(p)
    BY <2>1 DEF Attempts
  <2>4. \A p : Finished(p) => Finished(p)'
    BY <2>1, <2>3 DEF Finished, Failed
  <2>5. PICK p, q, b : p = Primary /\ q = call.provider /\ b = Backup
    OBVIOUS
  <2>6. Running => Running'
    <3>1. Attempts(q)' = Attempts(q) /\ Attempts(b)' = Attempts(b) /\ (Finished(p) => Finished(p)')
      BY <2>3, <2>4
    <3>2. QED  BY <2>1, <2>2, <2>5, <3>1 DEF Running, Failed
  <2>7. QED  BY <2>1, <2>2, <2>4, <2>6 DEF ProvidersInv, Failed
<1>4. QED  BY <1>1, <1>2, <1>3 DEF ProvidersNext

\* Nobody is told that no model is available before every provider that could have answered
\* was tried to the end of its retries, nor is anybody asked after an answer
\* (llm_client.py: _with_failover; llm/client.py: _retrying, _guard).
THEOREM FailoverIsExhaustive == Spec => []UnavailableMeansAllFailed
<1>1. Init => ProvidersInv
  BY ProvidersStart DEF Init
<1>2. ProvidersInv /\ [Next]_vars => ProvidersInv'
  BY ProvidersStep, ProvidersApart
<1>3. ASSUME NEW p, ProvidersInv, Finished(p)
      PROVE  LET tries == Attempts(p) IN
             /\ tries # {} /\ asked[Max(tries)].outcome \notin {"ok", "malformed"}
             /\ asked[Max(tries)].outcome = "transient" => Cardinality(tries) = MaxAttempts
  <2>1. Attempts(p) \subseteq Int
    BY <1>3 DEF Attempts, ProvidersInv
  <2>2. QED  BY <1>3, <2>1, MaxIs DEF Finished, Failed
<1>4. ProvidersInv => UnavailableMeansAllFailed
  BY <1>3 DEF ProvidersInv, UnavailableMeansAllFailed, Failed, Chain
<1>5. QED  BY <1>1, <1>2, <1>4, PTL DEF Spec

-----------------------------------------------------------------------------
(* Tuning in force *)

\* What a refresh read is a state that the table has had.
TuningInv ==
    /\ \E S : tables \in Seq(S)
    /\ Len(tables) > 0
    /\ DOMAIN overlay = Processes /\ DOMAIN view = Processes /\ DOMAIN refresh = Refreshers
    /\ \A r \in Refreshers : refresh[r] # Idle =>
            refresh[r].process \in Processes /\ refresh[r].read \in ToSet(tables)
    /\ InForceIsOneTable

LEMMA TuningStart == TuningInit => TuningInv
<1> SUFFICES ASSUME TuningInit PROVE TuningInv
  OBVIOUS
<1>1. tables \in Seq({Nothing}) /\ Len(tables) = 1 /\ Nothing \in ToSet(tables)
  BY DEF TuningInit, ToSet
<1>2. DOMAIN Nothing = {}
  BY DEF Nothing
<1>3. \A p \in Processes : overlay[p] = Nothing /\ view[p] = Nothing
  BY DEF TuningInit
<1>4. InForceIsOneTable
  BY <1>1, <1>2, <1>3 DEF InForceIsOneTable
<1>5. QED  BY <1>1, <1>4 DEF TuningInv, TuningInit

\* A process's overlay still is what it was, of a table that only gains states.
LEMMA OverlayStays ==
    ASSUME TuningInv, ToSet(tables) \subseteq ToSet(tables)', UNCHANGED overlay,
           NEW p \in Processes,
           view'[p] # Nothing => view'[p] = Merged(overlay[p])
    PROVE  /\ view'[p] # Nothing => view'[p] = Merged(overlay'[p])
           /\ \A s \in DOMAIN overlay'[p] : Sane(s, overlay'[p][s])
           /\ \E t \in ToSet(tables)' :
                /\ \A s \in DOMAIN overlay'[p] : s \in DOMAIN t /\ overlay'[p][s] = t[s].values
                /\ \A s \in DOMAIN t \ DOMAIN overlay'[p] : ~(Coerces(s, t[s]) /\ Sane(s, t[s].values))
BY DEF TuningInv, InForceIsOneTable

\* What the valid rows of a table leave out is not valid.
LEMMA InstalledIsValid ==
    ASSUME NEW t, {s \in DOMAIN t : Coerces(s, t[s]) /\ ~Comparable(t[s])} = {}
    PROVE  /\ \A s \in DOMAIN Installed(t) : Sane(s, Installed(t)[s])
           /\ \A s \in DOMAIN Installed(t) : s \in DOMAIN t /\ Installed(t)[s] = t[s].values
           /\ \A s \in DOMAIN t \ DOMAIN Installed(t) : ~(Coerces(s, t[s]) /\ Sane(s, t[s].values))
BY DEF Installed, Accepted

LEMMA TuningStep == TuningInv /\ [TuningNext \/ RatesNext]_tuningVars => TuningInv'
<1> SUFFICES ASSUME TuningInv, [TuningNext \/ RatesNext]_tuningVars PROVE TuningInv'
  OBVIOUS
<1>1. ASSUME NEW p \in Processes, ReadTuning(p) PROVE TuningInv'
  <2>1. /\ view' = [view EXCEPT ![p] = Merged(overlay[p])]
        /\ UNCHANGED <<tables, overlay, refresh>>
    BY <1>1 DEF ReadTuning
  <2>2. \A q \in Processes : view'[q] # Nothing => view'[q] = Merged(overlay[q])
    BY <2>1 DEF TuningInv, InForceIsOneTable
  <2>3. InForceIsOneTable'
    BY <2>1, <2>2, OverlayStays DEF InForceIsOneTable
  <2>4. QED  BY <2>1, <2>3 DEF TuningInv
<1>2. ASSUME NEW r \in Refreshers, NEW p \in Processes, NEW force, RefreshRead(r, p, force)
      PROVE  TuningInv'
  <2>1. /\ refresh' = [refresh EXCEPT ![r] = [process |-> p, read |-> Table]]
        /\ UNCHANGED <<tables, overlay, view>>
    BY <1>2 DEF RefreshRead
  <2>2. Table \in ToSet(tables)
    BY DEF Table, Last, ToSet, TuningInv
  <2>3. InForceIsOneTable'
    BY <2>1 DEF TuningInv, InForceIsOneTable
  <2>4. QED  BY <2>1, <2>2, <2>3 DEF TuningInv
<1>3. ASSUME NEW r \in Refreshers, RefreshFails(r) PROVE TuningInv'
  <2>1. refresh' = [refresh EXCEPT ![r] = Idle] /\ UNCHANGED <<tables, overlay, view>>
    BY <1>3 DEF RefreshFails
  <2>2. InForceIsOneTable'
    BY <2>1 DEF TuningInv, InForceIsOneTable
  <2>3. QED  BY <2>1, <2>2 DEF TuningInv
<1>4. ASSUME NEW r \in Refreshers, RefreshInstall(r) PROVE TuningInv'
  <2>1. PICK p, rows : p = refresh[r].process /\ rows = refresh[r].read
    OBVIOUS
  <2>2. p \in Processes /\ rows \in ToSet(tables)
    BY <1>4, <2>1 DEF RefreshInstall, TuningInv
  <2>3. refresh' = [refresh EXCEPT ![r] = Idle] /\ UNCHANGED tables
    BY <1>4 DEF RefreshInstall
  <2>4. CASE {s \in DOMAIN rows : Coerces(s, rows[s]) /\ ~Comparable(rows[s])} # {}
    <3>1. UNCHANGED <<overlay, view>>
      BY <1>4, <2>1, <2>4 DEF RefreshInstall
    <3>2. InForceIsOneTable'
      BY <2>3, <3>1 DEF TuningInv, InForceIsOneTable
    <3>3. QED  BY <2>3, <3>1, <3>2 DEF TuningInv
  <2>5. CASE {s \in DOMAIN rows : Coerces(s, rows[s]) /\ ~Comparable(rows[s])} = {}
    <3>1. /\ overlay' = [overlay EXCEPT ![p] = Installed(rows)]
          /\ view' = [view EXCEPT ![p] = Nothing]
      BY <1>4, <2>1, <2>5 DEF RefreshInstall, SetOverlay
    <3>2. overlay'[p] = Installed(rows) /\ view'[p] = Nothing
      BY <2>2, <3>1 DEF TuningInv
    <3>3. ASSUME NEW q \in Processes
          PROVE  /\ view'[q] # Nothing => view'[q] = Merged(overlay'[q])
                 /\ \A s \in DOMAIN overlay'[q] : Sane(s, overlay'[q][s])
                 /\ \E t \in ToSet(tables)' :
                      /\ \A s \in DOMAIN overlay'[q] : s \in DOMAIN t /\ overlay'[q][s] = t[s].values
                      /\ \A s \in DOMAIN t \ DOMAIN overlay'[q] :
                            ~(Coerces(s, t[s]) /\ Sane(s, t[s].values))
      <4>1. CASE q = p
        BY <2>2, <2>3, <2>5, <3>2, <4>1, InstalledIsValid
      <4>2. CASE q # p
        <5>1. overlay'[q] = overlay[q] /\ view'[q] = view[q]
          BY <3>1, <4>2 DEF TuningInv
        <5>2. QED  BY <2>3, <5>1 DEF TuningInv, InForceIsOneTable
      <4>3. QED  BY <4>1, <4>2
    <3>4. InForceIsOneTable'
      BY <3>3 DEF InForceIsOneTable
    <3>5. QED  BY <2>3, <3>1, <3>4 DEF TuningInv
  <2>6. QED  BY <2>4, <2>5
\* A new state of the table comes after all the earlier ones.
<1>5. ASSUME NEW row, tables' = Append(tables, row), UNCHANGED <<overlay, view>>,
             \/ UNCHANGED refresh
             \/ \E r \in Refreshers, p \in Processes :
                    refresh' = [refresh EXCEPT ![r] = [process |-> p, read |-> Last(tables')]]
      PROVE  TuningInv'
  <2>1. PICK S : tables \in Seq(S)
    BY DEF TuningInv
  <2>2. tables' \in Seq(S \cup {row}) /\ Len(tables') = Len(tables) + 1
        /\ Last(tables') = row
    BY <1>5, <2>1 DEF Last
  <2>3. ToSet(tables) \subseteq ToSet(tables)' /\ row \in ToSet(tables)'
    BY <1>5, <2>1, <2>2 DEF ToSet
  <2>4. InForceIsOneTable'
    BY <1>5, <2>3 DEF TuningInv, InForceIsOneTable
  <2>5. /\ DOMAIN refresh' = Refreshers
        /\ \A r \in Refreshers : refresh'[r] # Idle =>
               refresh'[r].process \in Processes /\ refresh'[r].read \in ToSet(tables)'
    BY <1>5, <2>2, <2>3 DEF TuningInv
  <2>6. Len(tables') > 0
    BY <2>1, <2>2
  <2>7. QED  BY <1>5, <2>2, <2>4, <2>5, <2>6 DEF TuningInv
<1>6. ASSUME UNCHANGED <<tables, overlay, view, refresh>> PROVE TuningInv'
  BY <1>6 DEF TuningInv, InForceIsOneTable
<1>7. QED
  <2>1. CASE TuningNext
    BY <2>1, <1>1, <1>2, <1>3, <1>4, <1>5, <1>6
    DEF TuningNext, RefreshNext, StoreNext, TimeToLiveEnds, UpdateTuning, WriteRow
  <2>2. CASE RatesNext
    BY <2>2, <1>6 DEF RatesNext, SetTaxRate
  <2>3. CASE UNCHANGED tuningVars
    BY <2>3, <1>6 DEF tuningVars
  <2>4. QED  BY <2>1, <2>2, <2>3

\* What an agent reads is the environment over the valid rows of one state that the table
\* has had (tuning.py: refresh_agent_tuning_from_db, get_agent_tuning, set_db_overlay).
THEOREM TuningIsNeverMixed == Spec => []InForceIsOneTable
<1>1. Init => TuningInv
  BY TuningStart DEF Init
<1>2. TuningInv /\ [Next]_vars => TuningInv'
  BY TuningStep, TuningApart
<1>3. TuningInv => InForceIsOneTable
  BY DEF TuningInv
<1>4. QED  BY <1>1, <1>2, <1>3, PTL DEF Spec

-----------------------------------------------------------------------------
(* Classification in batches *)

Answer == [id : Entries, category : {"fees", "other"}]
BatchRecord == [at : {"idle", "classifying", "persisting", "announcing"}, rows : SUBSET Entries,
                updates : Seq(Answer), done : Seq(Answer)]

\* No row is in the hands of two workers; who holds a row that it selected finds it without
\* a category; and what is about to be announced is stored.
BatchInv ==
    /\ category \in [Entries -> {"none", "fees", "other", "purged"}]
    /\ batch \in [Workers -> BatchRecord]
    /\ \A w \in Workers : batch[w].at \in {"idle", "classifying"} => batch[w].done = <<>>
    /\ \A v, w \in Workers : v # w => Locks(v) \cap Locks(w) = {}
    /\ \A w \in Workers : \A e \in batch[w].rows : category[e] = "none"
    /\ \A w \in Workers : batch[w].at = "announcing" =>
            batch[w].rows = {} /\ \A e \in Updated(w) : category[e] # "none"
    /\ announced \subseteq Entries
    /\ EntriesAreStoredOnce

LEMMA SetToSeqType ==
    ASSUME NEW S, IsFiniteSet(S)
    PROVE  SetToSeq(S) \in Seq(S)
<1>1. PICK f \in [1..Cardinality(S) -> S] : IsInjective(f)
  BY FS_CardinalityType DEF ExistsBijection, Bijection, Injection, IsInjective
<1>2. SetToSeq(S) \in [1..Cardinality(S) -> S] /\ Cardinality(S) \in Nat
  BY <1>1, FS_CardinalityType DEF SetToSeq
<1>3. QED  BY <1>2

\* Whatever the model returns, the answers are about entries, with categories of the taxonomy.
LEMMA ClassifiedType ==
    ASSUME BatchInv, NEW w \in Workers, NEW returned \in Answers(w)
    PROVE  Classified(w, returned) \in Seq(Answer)
<1>1. batch[w].rows \subseteq Entries /\ IsFiniteSet(Entries)
  BY JobsAssumption DEF BatchInv, BatchRecord
<1> DEFINE Returned == [id : Entries, category : {"fees", "invented"}]
           forgotten == batch[w].rows \ {c.id : c \in returned}
<1>2. returned \subseteq Returned
  BY <1>1 DEF Answers, Classification
<1>3. IsFiniteSet(returned)
  <2>1. PICK kept \in SUBSET batch[w].rows,
             stray \in {{}} \cup {{Classification(e, "invented")} : e \in Entries \ batch[w].rows} :
                returned = {Classification(e, "fees") : e \in kept} \cup stray
    BY DEF Answers
  <2>2. IsFiniteSet({Classification(e, "fees") : e \in kept})
    <3>1. IsFiniteSet(kept)
      BY <1>1, FS_Subset
    <3>2. PICK f : f = [e \in kept |-> Classification(e, "fees")]
      OBVIOUS
    <3>3. f \in [kept -> Range(f)] /\ f \in Surjection(kept, Range(f))
      BY <3>2 DEF Range, Surjection
    <3>4. IsFiniteSet(Range(f))
      BY <3>1, <3>3, FS_Surjection
    <3>5. QED  BY <3>2, <3>4 DEF Range
  <2>3. IsFiniteSet(stray)
    BY FS_EmptySet, FS_Singleton
  <2>4. QED  BY <2>1, <2>2, <2>3, FS_Union
<1>4. IsFiniteSet(forgotten)
  BY <1>1, FS_Subset
<1>5. PICK given : given = SetToSeq(returned)
  OBVIOUS
<1>6. PICK rest : rest = SetToSeq(forgotten)
  OBVIOUS
<1>7. /\ Len(given) \in Nat /\ DOMAIN given = 1..Len(given)
      /\ \A i \in 1..Len(given) : given[i] \in Returned
  <2>1. given \in Seq(returned)
    BY <1>3, <1>5, SetToSeqType
  <2>2. QED  BY <1>2, <2>1
<1>8. /\ Len(rest) \in Nat /\ DOMAIN rest = 1..Len(rest)
      /\ \A i \in 1..Len(rest) : rest[i] \in Entries
  <2>1. rest \in Seq(forgotten)
    BY <1>4, <1>6, SetToSeqType
  <2>2. forgotten \subseteq Entries
    BY <1>1
  <2>3. QED  BY <2>1, <2>2
<1>9. [i \in DOMAIN given |->
            IF given[i].category = "invented" THEN Classification(given[i].id, "other") ELSE given[i]]
        \in [1..Len(given) -> Answer]
  BY <1>7 DEF Answer, Classification
<1>10. [i \in DOMAIN rest |-> Classification(rest[i], "other")] \in [1..Len(rest) -> Answer]
  BY <1>8 DEF Answer, Classification
<1>11. \A n \in Nat : \A f \in [1..n -> Answer] : f \in Seq(Answer)
  OBVIOUS
<1>12. PICK first, second :
        /\ first = [i \in DOMAIN given |->
            IF given[i].category = "invented" THEN Classification(given[i].id, "other") ELSE given[i]]
        /\ second = [i \in DOMAIN rest |-> Classification(rest[i], "other")]
  OBVIOUS
<1>13. Classified(w, returned) = first \o second
  BY <1>5, <1>6, <1>12 DEF Classified
<1>14. first \in Seq(Answer) /\ second \in Seq(Answer)
  BY <1>9, <1>10, <1>11, <1>12, <1>7, <1>8
<1>15. QED  BY <1>13, <1>14

LEMMA BatchStart == JobsInit => BatchInv
BY DEF JobsInit, BatchInv, BatchRecord, IdleBatch, Locks, Updated, EntriesAreStoredOnce

\* What a step of one worker leaves to the others.
LEMMA OneWorker ==
    ASSUME BatchInv, NEW w \in Workers, NEW b \in BatchRecord, batch' = [batch EXCEPT ![w] = b]
    PROVE  /\ batch' \in [Workers -> BatchRecord] /\ batch'[w] = b
           /\ \A v \in Workers \ {w} :
                batch'[v] = batch[v] /\ Locks(v)' = Locks(v) /\ Updated(v)' = Updated(v)
           /\ Updated(w)' = {b.done[i].id : i \in DOMAIN b.done}
           /\ Locks(w)' = IF b.at = "announcing" THEN {} ELSE b.rows \cup Updated(w)'
<1>1. /\ batch' \in [Workers -> BatchRecord] /\ batch'[w] = b
      /\ \A v \in Workers \ {w} : batch'[v] = batch[v]
  BY DEF BatchInv
<1>2. QED  BY <1>1 DEF Locks, Updated

LEMMA BatchFields ==
    ASSUME NEW b \in BatchRecord
    PROVE  /\ b.at \in {"idle", "classifying", "persisting", "announcing"}
           /\ b.rows \subseteq Entries /\ b.updates \in Seq(Answer) /\ b.done \in Seq(Answer)
           /\ {b.done[i].id : i \in DOMAIN b.done} \subseteq Entries
<1>1. b.done \in Seq(Answer)
  BY DEF BatchRecord
<1>2. \A i \in DOMAIN b.done : b.done[i] \in Answer
  BY <1>1
<1>3. \A a \in Answer : a.id \in Entries
  BY DEF Answer
<1>4. {b.done[i].id : i \in DOMAIN b.done} \subseteq Entries
  BY <1>2, <1>3
<1>5. b.updates \in Seq(Answer)
  BY DEF BatchRecord
<1>6. QED  BY <1>1, <1>4, <1>5 DEF BatchRecord

\* A worker that lets everything go.
LEMMA BatchIdles ==
    ASSUME BatchInv, NEW w \in Workers, batch' = [batch EXCEPT ![w] = IdleBatch],
           UNCHANGED <<category, rewritten, strays>>,
           announced' \subseteq announced \cup (IF batch[w].at = "announcing" THEN Updated(w) ELSE {})
    PROVE  BatchInv'
<1>1. IdleBatch \in BatchRecord
  BY DEF IdleBatch, BatchRecord
<1>2. /\ batch' \in [Workers -> BatchRecord] /\ batch'[w] = IdleBatch
      /\ \A v \in Workers \ {w} :
           batch'[v] = batch[v] /\ Locks(v)' = Locks(v) /\ Updated(v)' = Updated(v)
      /\ Locks(w)' = {}
  <2>1. {IdleBatch.done[i].id : i \in DOMAIN IdleBatch.done} = {}
    BY DEF IdleBatch
  <2>2. QED  BY <1>1, <2>1, OneWorker DEF IdleBatch
<1>3. Updated(w) \subseteq Entries
  BY BatchFields DEF BatchInv, Updated
<1>4. announced' \subseteq Entries /\ EntriesAreStoredOnce'
  BY <1>3 DEF BatchInv, EntriesAreStoredOnce
<1>5. \A v \in Workers : batch'[v].at \in {"idle", "classifying"} => batch'[v].done = <<>>
  BY <1>2 DEF BatchInv, IdleBatch
<1>6. \A u, v \in Workers : u # v => Locks(u)' \cap Locks(v)' = {}
  BY <1>2 DEF BatchInv
<1>7. \A v \in Workers : \A e \in batch'[v].rows : category'[e] = "none"
  BY <1>2 DEF BatchInv, IdleBatch
<1>8. \A v \in Workers : batch'[v].at = "announcing" =>
            batch'[v].rows = {} /\ \A e \in Updated(v)' : category'[e] # "none"
  BY <1>2 DEF BatchInv, IdleBatch
<1>9. QED  BY <1>2, <1>4, <1>5, <1>6, <1>7, <1>8 DEF BatchInv

LEMMA BatchFetched ==
    ASSUME BatchInv, NEW w \in Workers, FetchBatch(w) PROVE BatchInv'
<1>1. PICK rows : rows = Oldest(BatchSize, Unclassified(w))
  OBVIOUS
<1>2. PICK b : b = [IdleBatch EXCEPT !.at = "classifying", !.rows = rows]
  OBVIOUS
<1>3. batch' = [batch EXCEPT ![w] = b] /\ UNCHANGED <<category, announced, rewritten, strays>>
  BY <1>1, <1>2 DEF FetchBatch
<1>4. b.at = "classifying" /\ b.rows = rows /\ b.updates = <<>> /\ b.done = <<>>
  BY <1>2 DEF IdleBatch
<1>5. /\ rows \subseteq Entries /\ \A e \in rows : category[e] = "none"
      /\ \A v \in Workers \ {w} : rows \cap Locks(v) = {}
  BY <1>1 DEF Oldest, Unclassified, LockedByOthers
<1>6. b \in BatchRecord
  <2>1. IdleBatch \in BatchRecord
    BY DEF IdleBatch, BatchRecord
  <2>2. QED  BY <1>2, <1>5, <2>1 DEF BatchRecord
<1>7. /\ batch' \in [Workers -> BatchRecord] /\ batch'[w] = b
      /\ \A v \in Workers \ {w} :
           batch'[v] = batch[v] /\ Locks(v)' = Locks(v) /\ Updated(v)' = Updated(v)
      /\ Locks(w)' = rows
  <2>1. {b.done[i].id : i \in DOMAIN b.done} = {}
    BY <1>4
  <2>2. Updated(w)' = {}
    BY <1>3, <1>6, <2>1, OneWorker
  <2>3. Locks(w)' = rows \cup {}
    BY <1>4, <1>3, <1>6, <2>2, OneWorker
  <2>4. Locks(w)' = rows
    BY <2>3
  <2>5. QED  BY <1>3, <1>6, <2>4, OneWorker
<1>8. \A u, v \in Workers : u # v => Locks(u)' \cap Locks(v)' = {}
  BY <1>5, <1>7 DEF BatchInv
<1>9. \A v \in Workers : \A e \in batch'[v].rows : category'[e] = "none"
  BY <1>4, <1>3, <1>5, <1>7 DEF BatchInv
<1>10. \A v \in Workers : batch'[v].at = "announcing" =>
            batch'[v].rows = {} /\ \A e \in Updated(v)' : category'[e] # "none"
  BY <1>4, <1>3, <1>7 DEF BatchInv
<1>11. \A v \in Workers : batch'[v].at \in {"idle", "classifying"} => batch'[v].done = <<>>
  BY <1>4, <1>7 DEF BatchInv
<1>12. QED
  BY <1>3, <1>7, <1>8, <1>9, <1>10, <1>11 DEF BatchInv, EntriesAreStoredOnce

LEMMA BatchClassified ==
    ASSUME BatchInv, NEW w \in Workers, Classify(w) PROVE BatchInv'
<1>1. PICK returned \in Answers(w), checked \in BOOLEAN :
        batch' = [batch EXCEPT ![w] =
            IF VcPasses(checked)
            THEN [@ EXCEPT !.at = "persisting", !.updates = Classified(w, returned)]
            ELSE IdleBatch]
  BY DEF Classify
<1>2. batch[w].at = "classifying" /\ UNCHANGED <<category, announced, rewritten, strays>>
  BY DEF Classify
<1>3. CASE ~VcPasses(checked)
  <2>1. batch' = [batch EXCEPT ![w] = IdleBatch]
    BY <1>1, <1>3
  <2>2. QED  BY <1>2, <2>1, BatchIdles
<1>4. CASE VcPasses(checked)
  <2>1. PICK b : b = [batch[w] EXCEPT !.at = "persisting", !.updates = Classified(w, returned)]
    OBVIOUS
  <2>2. batch' = [batch EXCEPT ![w] = b]
    BY <1>1, <1>4, <2>1
  <2>3. /\ b \in BatchRecord /\ b.rows = batch[w].rows /\ b.done = batch[w].done
        /\ b.at = "persisting"
    BY <2>1, ClassifiedType DEF BatchInv, BatchRecord
  <2>4. /\ batch' \in [Workers -> BatchRecord] /\ batch'[w] = b
        /\ \A v \in Workers \ {w} :
             batch'[v] = batch[v] /\ Locks(v)' = Locks(v) /\ Updated(v)' = Updated(v)
        /\ Locks(w)' = b.rows \cup {b.done[i].id : i \in DOMAIN b.done}
    BY <2>2, <2>3, OneWorker
  <2>5. \A v \in Workers : Locks(v)' = Locks(v)
    <3>1. Locks(w) = batch[w].rows \cup {batch[w].done[i].id : i \in DOMAIN batch[w].done}
      BY <1>2 DEF Locks, Updated
    <3>2. QED  BY <2>3, <2>4, <3>1
  <2>6. \A u, v \in Workers : u # v => Locks(u)' \cap Locks(v)' = {}
    BY <2>5 DEF BatchInv
  <2>7. \A v \in Workers : \A e \in batch'[v].rows : category'[e] = "none"
    BY <1>2, <2>3, <2>4 DEF BatchInv
  <2>8. \A v \in Workers : batch'[v].at = "announcing" =>
            batch'[v].rows = {} /\ \A e \in Updated(v)' : category'[e] # "none"
    BY <1>2, <2>3, <2>4 DEF BatchInv
  <2>9. \A v \in Workers : batch'[v].at \in {"idle", "classifying"} => batch'[v].done = <<>>
    BY <2>3, <2>4 DEF BatchInv
  <2>10. QED
    BY <1>2, <2>4, <2>6, <2>7, <2>8, <2>9 DEF BatchInv, EntriesAreStoredOnce
<1>5. QED  BY <1>3, <1>4

LEMMA BatchPersisted ==
    ASSUME BatchInv, NEW w \in Workers, PersistOne(w) PROVE BatchInv'
<1>1. PICK c : c = Head(batch[w].updates)
  OBVIOUS
<1>2. /\ batch[w].at = "persisting" /\ batch[w].updates # <<>> /\ c.id \notin LockedByOthers(w)
      /\ batch' = [batch EXCEPT ![w].updates = Tail(@), ![w].done = Append(@, c)]
      /\ UNCHANGED <<category, announced, rewritten, strays>>
  BY <1>1 DEF PersistOne
<1>3. PICK b : b = [batch[w] EXCEPT !.updates = Tail(batch[w].updates), !.done = Append(batch[w].done, c)]
  OBVIOUS
<1>4. batch[w] \in BatchRecord
  BY DEF BatchInv
<1>5. c \in Answer /\ Tail(batch[w].updates) \in Seq(Answer) /\ Append(batch[w].done, c) \in Seq(Answer)
  BY <1>1, <1>2, <1>4, BatchFields
<1>6. /\ b \in BatchRecord /\ b.at = "persisting" /\ b.rows = batch[w].rows
      /\ b.done = Append(batch[w].done, c)
  BY <1>2, <1>3, <1>4, <1>5 DEF BatchRecord
<1>7. batch' = [batch EXCEPT ![w] = b]
  BY <1>2, <1>3, <1>4 DEF BatchInv, BatchRecord
<1>8. /\ batch' \in [Workers -> BatchRecord] /\ batch'[w] = b
      /\ \A v \in Workers \ {w} :
           batch'[v] = batch[v] /\ Locks(v)' = Locks(v) /\ Updated(v)' = Updated(v)
      /\ Updated(w)' = {b.done[i].id : i \in DOMAIN b.done}
      /\ Locks(w)' = b.rows \cup Updated(w)'
  BY <1>6, <1>7, OneWorker
<1>9. Updated(w)' = Updated(w) \cup {c.id}
  <2>1. PICK done : done = batch[w].done
    OBVIOUS
  <2>2. done \in Seq(Answer)
    BY <1>4, <2>1, BatchFields
  <2>3. {Append(done, c)[i].id : i \in DOMAIN Append(done, c)}
          = {done[i].id : i \in DOMAIN done} \cup {c.id}
    <3>1. DOMAIN Append(done, c) = DOMAIN done \cup {Len(done) + 1}
      BY <1>5, <2>2
    <3>2. /\ \A i \in DOMAIN done : Append(done, c)[i] = done[i]
          /\ Append(done, c)[Len(done) + 1] = c
      BY <1>5, <2>2
    <3>3. QED  BY <3>1, <3>2
  <2>4. Updated(w) = {done[i].id : i \in DOMAIN done}
    BY <2>1 DEF Updated
  <2>5. QED  BY <1>6, <1>8, <2>1, <2>3, <2>4
<1>10. Locks(w)' = Locks(w) \cup {c.id}
  BY <1>2, <1>6, <1>8, <1>9 DEF Locks
<1>11. \A v \in Workers \ {w} : c.id \notin Locks(v)
  BY <1>2 DEF LockedByOthers
<1>12. \A u, v \in Workers : u # v => Locks(u)' \cap Locks(v)' = {}
  BY <1>8, <1>10, <1>11 DEF BatchInv
<1>13. \A v \in Workers : \A e \in batch'[v].rows : category'[e] = "none"
  BY <1>2, <1>6, <1>8 DEF BatchInv
<1>14. \A v \in Workers : batch'[v].at = "announcing" =>
            batch'[v].rows = {} /\ \A e \in Updated(v)' : category'[e] # "none"
  BY <1>2, <1>6, <1>8 DEF BatchInv
<1>15. \A v \in Workers : batch'[v].at \in {"idle", "classifying"} => batch'[v].done = <<>>
  BY <1>6, <1>8 DEF BatchInv
<1>16. QED
  BY <1>2, <1>8, <1>12, <1>13, <1>14, <1>15 DEF BatchInv, EntriesAreStoredOnce

\* A commit stores what the worker had locked, and among it a second time only what was
\* never its own.
LEMMA BatchCommitted ==
    ASSUME BatchInv, NEW w \in Workers, CommitBatch(w) PROVE BatchInv'
<1>1. PICK done : done = batch[w].done
  OBVIOUS
<1> DEFINE answer(e) == CHOOSE i \in DOMAIN done : done[i].id = e
<1>2. PICK stored : stored = {e \in Updated(w) : category[e] # "purged"}
  OBVIOUS
<1>3. PICK b : b = [IdleBatch EXCEPT !.at = "announcing", !.done = done]
  OBVIOUS
<1>4. b.at = "announcing" /\ b.rows = {} /\ b.updates = <<>> /\ b.done = done
  BY <1>3 DEF IdleBatch
<1>5. /\ batch[w].at = "persisting"
      /\ category' = [e \in Entries |-> IF e \in stored THEN done[answer(e)].category ELSE category[e]]
      /\ rewritten' = rewritten \cup {e \in stored : category[e] # "none"}
      /\ strays' = strays \cup (stored \ batch[w].rows)
      /\ batch' = [batch EXCEPT ![w] = b]
      /\ announced' = announced
  BY <1>1, <1>2, <1>3 DEF CommitBatch
<1>6. done \in Seq(Answer) /\ Updated(w) = {done[i].id : i \in DOMAIN done} /\ Updated(w) \subseteq Entries
  BY <1>1, BatchFields DEF BatchInv, Updated
<1>7. \A e \in Updated(w) : done[answer(e)].category \in {"fees", "other"}
  <2> TAKE e \in Updated(w)
  <2>1. answer(e) \in DOMAIN done
    BY <1>6
  <2>2. done[answer(e)] \in Answer
    BY <1>6, <2>1
  <2>3. QED  BY <2>2 DEF Answer
<1> HIDE DEF answer
<1>8. /\ category' \in [Entries -> {"none", "fees", "other", "purged"}]
      /\ \A e \in Entries : category[e] # "none" => category'[e] # "none"
      /\ \A e \in Updated(w) : category'[e] # "none"
      /\ \A e \in Entries \ Updated(w) : category'[e] = category[e]
  BY <1>2, <1>5, <1>6, <1>7 DEF BatchInv
<1>9. b \in BatchRecord
  <2>1. IdleBatch \in BatchRecord
    BY DEF IdleBatch, BatchRecord
  <2>2. QED  BY <1>3, <1>6, <2>1 DEF BatchRecord
<1>10. /\ batch' \in [Workers -> BatchRecord] /\ batch'[w] = b
       /\ \A v \in Workers \ {w} :
            batch'[v] = batch[v] /\ Locks(v)' = Locks(v) /\ Updated(v)' = Updated(v)
       /\ Updated(w)' = Updated(w) /\ Locks(w)' = {}
  <2>1. Updated(w)' = {b.done[i].id : i \in DOMAIN b.done}
    BY <1>5, <1>9, OneWorker
  <2>2. Updated(w)' = Updated(w)
    BY <1>4, <1>6, <2>1
  <2>3. QED  BY <1>4, <1>5, <1>9, <2>2, OneWorker
<1>11. \A u, v \in Workers : u # v => Locks(u)' \cap Locks(v)' = {}
  BY <1>10 DEF BatchInv
<1>12. ASSUME NEW v \in Workers \ {w}, NEW e \in batch[v].rows PROVE category'[e] = "none"
  <2>1. e \in Entries /\ category[e] = "none" /\ batch[v].at # "announcing"
    BY <1>12, BatchFields DEF BatchInv
  <2>2. e \in Locks(v) /\ Locks(v) \cap Locks(w) = {}
    BY <1>12, <2>1 DEF BatchInv, Locks
  <2>3. e \notin Updated(w)
    BY <1>5, <2>2 DEF Locks
  <2>4. QED  BY <1>8, <2>1, <2>3
<1>13. \A v \in Workers : \A e \in batch'[v].rows : category'[e] = "none"
  BY <1>4, <1>10, <1>12
<1>14. ASSUME NEW v \in Workers, batch'[v].at = "announcing"
       PROVE  batch'[v].rows = {} /\ \A e \in Updated(v)' : category'[e] # "none"
  <2>1. CASE v = w
    <3>1. batch'[w].rows = {} /\ Updated(w)' = Updated(w)
      BY <1>4, <1>10
    <3>2. \A e \in Updated(w)' : category'[e] # "none"
      BY <1>8, <3>1
    <3>3. QED  BY <2>1, <3>1, <3>2
  <2>2. CASE v # w
    <3>1. batch[v].rows = {} /\ \A e \in Updated(v) : category[e] # "none" /\ e \in Entries
      BY <1>10, <1>14, <2>2, BatchFields DEF BatchInv, Updated
    <3>2. QED  BY <1>8, <1>10, <2>2, <3>1
  <2>3. QED  BY <2>1, <2>2
<1>15. \A v \in Workers : batch'[v].at \in {"idle", "classifying"} => batch'[v].done = <<>>
  BY <1>4, <1>10 DEF BatchInv
<1>16. rewritten' \subseteq strays'
  BY <1>5 DEF BatchInv, EntriesAreStoredOnce
<1>17. EntriesAreStoredOnce'
  BY <1>5, <1>8, <1>16 DEF BatchInv, EntriesAreStoredOnce
<1>18. QED
  BY <1>5, <1>8, <1>10, <1>11, <1>13, <1>14, <1>15, <1>17 DEF BatchInv

LEMMA EntriesPurged ==
    ASSUME BatchInv, PurgeEntries PROVE BatchInv'
<1>1. PICK old \in SUBSET Entries :
        /\ \A w \in Workers : old \cap Locks(w) = {}
        /\ category' = [e \in Entries |-> IF e \in old THEN "purged" ELSE category[e]]
        /\ UNCHANGED <<batch, announced, rewritten, strays>>
  <2>1. PICK n \in 1..Cardinality(Entries) :
          LET old == {e \in Oldest(n, Entries) : category[e] # "purged"} IN
          /\ old # {} /\ \A w \in Workers : old \cap Locks(w) = {}
          /\ category' = [e \in Entries |-> IF e \in old THEN "purged" ELSE category[e]]
          /\ UNCHANGED <<batch, announced, rewritten, strays>>
    BY DEF PurgeEntries
  <2>2. {e \in Oldest(n, Entries) : category[e] # "purged"} \in SUBSET Entries
    BY DEF Oldest
  <2>3. QED  BY <2>1, <2>2
<1>2. /\ category' \in [Entries -> {"none", "fees", "other", "purged"}]
      /\ \A e \in Entries : category[e] # "none" => category'[e] # "none"
  BY <1>1 DEF BatchInv
<1>3. \A w \in Workers : Locks(w)' = Locks(w) /\ Updated(w)' = Updated(w)
  BY <1>1 DEF Locks, Updated
<1>4. ASSUME NEW w \in Workers, NEW e \in batch[w].rows PROVE category'[e] = "none"
  <2>1. e \in Entries /\ category[e] = "none" /\ e \in Locks(w)
    BY <1>4, BatchFields DEF BatchInv, Locks
  <2>2. QED  BY <1>1, <2>1
<1>5. \A w \in Workers : batch'[w].at = "announcing" =>
            batch'[w].rows = {} /\ \A e \in Updated(w)' : category'[e] # "none"
  <2> TAKE w \in Workers
  <2>1. Updated(w) \subseteq Entries
    BY BatchFields DEF BatchInv, Updated
  <2>2. QED  BY <1>1, <1>2, <1>3, <2>1 DEF BatchInv
<1>6. EntriesAreStoredOnce'
  BY <1>1, <1>2 DEF BatchInv, EntriesAreStoredOnce
<1>7. QED  BY <1>1, <1>2, <1>3, <1>4, <1>5, <1>6 DEF BatchInv

LEMMA BatchKept == BatchInv /\ [BatchNext]_batchVars => BatchInv'
<1> SUFFICES ASSUME BatchInv, [BatchNext]_batchVars PROVE BatchInv'
  OBVIOUS
<1>1. ASSUME NEW w \in Workers, Announce(w) PROVE BatchInv'
  <2>1. announced' \subseteq announced \cup (IF batch[w].at = "announcing" THEN Updated(w) ELSE {})
    BY <1>1 DEF Announce
  <2>2. QED  BY <1>1, <2>1, BatchIdles DEF Announce
<1>2. ASSUME NEW w \in Workers, BatchFails(w) PROVE BatchInv'
  <2>1. announced' \subseteq announced \cup (IF batch[w].at = "announcing" THEN Updated(w) ELSE {})
    BY <1>2 DEF BatchFails
  <2>2. QED  BY <1>2, <2>1, BatchIdles DEF BatchFails
<1>3. CASE UNCHANGED batchVars
  BY <1>3 DEF batchVars, BatchInv, Locks, Updated, EntriesAreStoredOnce
<1>4. QED
  BY <1>1, <1>2, <1>3, BatchFetched, BatchClassified, BatchPersisted, BatchCommitted, EntriesPurged
  DEF BatchNext, BatchStep

-----------------------------------------------------------------------------
(* Model training *)

FitRecord == [at : {"idle", "choosing", "trained", "saving"}, left : SUBSET Customers,
              customer : Customers \cup {"none"}, samples : Nat, row : Nat]
ModelRecord == [samples : Nat, version : Nat]

\* Whoever read the row of a model that nobody else is about to replace finds it there
\* when it stores the next.
ModelInv ==
    /\ fit \in [Workers -> FitRecord] /\ debits \in [Customers -> Nat]
    /\ models \in [Customers -> ModelRecord] /\ saves \in [Customers -> Nat]
    /\ \A w \in Workers : fit[w].at \in {"trained", "saving"} =>
            fit[w].customer \in Customers /\ fit[w].samples >= MinSamples
    /\ \A c \in Customers : models[c].version = 0 => models[c] = NoModel
    /\ \A w \in Workers :
            fit[w].at = "saving" /\ fit[w].customer \notin raced /\ fit[w].row # 0 =>
                fit[w].row = models[fit[w].customer].version /\ Competing(w) = {}
    /\ VersionsCountFits

LEMMA ModelStart == JobsInit => ModelInv
<1> SUFFICES ASSUME JobsInit PROVE ModelInv
  OBVIOUS
<1>1. fit \in [Workers -> FitRecord] /\ \A w \in Workers : fit[w].at = "idle"
  BY DEF JobsInit, IdleFit, FitRecord
<1>2. debits \in [Customers -> Nat]
  BY JobsAssumption DEF JobsInit
<1>3. /\ models \in [Customers -> ModelRecord] /\ saves \in [Customers -> Nat]
      /\ \A c \in Customers : models[c] = NoModel /\ models[c].version = 0 /\ saves[c] = 0
  BY DEF JobsInit, NoModel, ModelRecord
<1>4. QED  BY <1>1, <1>2, <1>3 DEF ModelInv, VersionsCountFits

\* What a step of one fit that is not about to save leaves as it was.
LEMMA OneFit ==
    ASSUME ModelInv, NEW w \in Workers, NEW f \in FitRecord, fit' = [fit EXCEPT ![w] = f],
           f.at # "saving", UNCHANGED <<models, saves, debits, raced>>,
           f.at = "trained" => f.customer \in Customers /\ f.samples >= MinSamples
    PROVE  ModelInv'
<1>1. /\ fit' \in [Workers -> FitRecord] /\ fit'[w] = f
      /\ \A v \in Workers \ {w} : fit'[v] = fit[v]
  BY DEF ModelInv
<1>2. \A v \in Workers : fit'[v].at \in {"trained", "saving"} =>
            fit'[v].customer \in Customers /\ fit'[v].samples >= MinSamples
  BY <1>1 DEF ModelInv
<1>3. ASSUME NEW v \in Workers, fit'[v].at = "saving", fit'[v].customer \notin raced', fit'[v].row # 0
      PROVE  fit'[v].row = models'[fit'[v].customer].version /\ Competing(v)' = {}
  <2>1. v # w /\ fit'[v] = fit[v]
    BY <1>1, <1>3
  <2>2. fit[v].row = models[fit[v].customer].version /\ Competing(v) = {}
    BY <1>3, <2>1 DEF ModelInv
  <2>3. Competing(v)' \subseteq Competing(v)
    BY <1>1, <2>1 DEF Competing
  <2>4. QED  BY <2>1, <2>2, <2>3
<1>4. QED  BY <1>1, <1>2, <1>3 DEF ModelInv, VersionsCountFits

LEMMA FitFields ==
    /\ IdleFit \in FitRecord /\ IdleFit.at = "idle"
    /\ \A f \in FitRecord : f.left \subseteq Customers /\ f.samples \in Nat /\ f.row \in Nat
BY DEF IdleFit, FitRecord

LEMMA FitStarted == ASSUME ModelInv, NEW w \in Workers, StartFit(w) PROVE ModelInv'
<1>1. PICK chosen \in SUBSET Customers :
        fit' = [fit EXCEPT ![w] = [IdleFit EXCEPT !.at = "choosing", !.left = chosen]]
  BY DEF StartFit
<1>2. PICK f : f = [IdleFit EXCEPT !.at = "choosing", !.left = chosen]
  OBVIOUS
<1>3. f \in FitRecord /\ f.at = "choosing"
  BY <1>2, FitFields DEF FitRecord
<1>4. UNCHANGED <<models, saves, debits, raced>>
  BY DEF StartFit
<1>5. QED  BY <1>1, <1>2, <1>3, <1>4, OneFit

LEMMA DebitsRead == ASSUME ModelInv, NEW w \in Workers, ReadDebits(w) PROVE ModelInv'
<1>1. PICK c \in fit[w].left, checked \in BOOLEAN :
        LET left == fit[w].left \ {c} IN
        IF debits[c] >= MinSamples /\ VcPasses(checked)
        THEN fit' = [fit EXCEPT ![w] = [IdleFit EXCEPT !.at = "trained", !.left = left,
                         !.customer = c, !.samples = debits[c]]]
        ELSE fit' = [fit EXCEPT ![w] = [IdleFit EXCEPT
                         !.at = IF left = {} THEN "idle" ELSE "choosing", !.left = left]]
  BY DEF ReadDebits
<1>2. PICK left : left = fit[w].left \ {c}
  OBVIOUS
<1>3. left \in SUBSET Customers /\ c \in Customers /\ debits[c] \in Nat
  BY <1>2, FitFields DEF ModelInv
<1>4. UNCHANGED <<models, saves, debits, raced>>
  BY DEF ReadDebits
<1>5. CASE debits[c] >= MinSamples /\ VcPasses(checked)
  <2>1. PICK f : f = [IdleFit EXCEPT !.at = "trained", !.left = left, !.customer = c, !.samples = debits[c]]
    OBVIOUS
  <2>2. fit' = [fit EXCEPT ![w] = f]
    BY <1>1, <1>2, <1>5, <2>1
  <2>3. f \in FitRecord /\ f.at = "trained" /\ f.customer = c /\ f.samples = debits[c]
    BY <1>3, <2>1, FitFields DEF FitRecord
  <2>4. QED  BY <1>3, <1>4, <1>5, <2>2, <2>3, OneFit
<1>6. CASE ~(debits[c] >= MinSamples /\ VcPasses(checked))
  <2>1. PICK at \in {"idle", "choosing"} : at = IF left = {} THEN "idle" ELSE "choosing"
    OBVIOUS
  <2>2. PICK f : f = [IdleFit EXCEPT !.at = at, !.left = left]
    OBVIOUS
  <2>3. fit' = [fit EXCEPT ![w] = f]
    BY <1>1, <1>2, <1>6, <2>1, <2>2
  <2>4. f \in FitRecord /\ f.at = at
    BY <1>3, <2>1, <2>2, FitFields DEF FitRecord
  <2>5. QED  BY <1>4, <2>1, <2>3, <2>4, OneFit
<1>7. QED  BY <1>5, <1>6

\* A fit that reads a row which another is about to replace is remembered in raced.
LEMMA ModelRead == ASSUME ModelInv, NEW w \in Workers, ReadModel(w) PROVE ModelInv'
<1>1. PICK c : c = fit[w].customer
  OBVIOUS
<1>2. fit[w].at = "trained" /\ c \in Customers /\ fit[w].samples >= MinSamples /\ fit[w] \in FitRecord
  BY <1>1 DEF ReadModel, ModelInv
<1>3. PICK f : f = [fit[w] EXCEPT !.at = "saving", !.row = models[c].version]
  OBVIOUS
<1>4. models[c].version \in Nat
  BY <1>2 DEF ModelInv, ModelRecord
<1>5. /\ f \in FitRecord /\ f.at = "saving" /\ f.row = models[c].version
      /\ f.customer = c /\ f.samples = fit[w].samples
  BY <1>1, <1>2, <1>3, <1>4 DEF FitRecord
<1>6. /\ fit' = [fit EXCEPT ![w] = f] /\ UNCHANGED <<debits, models, saves>>
      /\ raced' = IF Competing(w) = {} \/ models[c] = NoModel THEN raced ELSE raced \cup {c}
  BY <1>1, <1>3 DEF ReadModel, ModelInv, FitRecord
<1>7. /\ fit' \in [Workers -> FitRecord] /\ fit'[w] = f
      /\ \A v \in Workers \ {w} : fit'[v] = fit[v]
  BY <1>5, <1>6 DEF ModelInv
<1>8. \A v \in Workers : fit'[v].at \in {"trained", "saving"} =>
            fit'[v].customer \in Customers /\ fit'[v].samples >= MinSamples
  BY <1>2, <1>5, <1>7 DEF ModelInv
<1>9. ASSUME NEW v \in Workers, fit'[v].at = "saving", fit'[v].customer \notin raced', fit'[v].row # 0
      PROVE  fit'[v].row = models'[fit'[v].customer].version /\ Competing(v)' = {}
  <2>1. CASE v = w
    <3>1. Competing(w) = {}
      <4>1. models[c].version # 0 /\ c \notin raced'
        BY <1>5, <1>7, <1>9, <2>1
      <4>2. models[c] # NoModel
        BY <4>1 DEF NoModel
      <4>3. QED  BY <1>6, <4>1, <4>2
    <3>2. Competing(w)' = {}
      BY <1>1, <1>5, <1>7, <3>1 DEF Competing
    <3>3. QED  BY <1>5, <1>6, <1>7, <2>1, <3>2
  <2>2. CASE v # w
    <3>1. fit'[v] = fit[v] /\ fit[v].customer \notin raced
      BY <1>6, <1>7, <1>9, <2>2
    <3>2. fit[v].row = models[fit[v].customer].version /\ Competing(v) = {}
      BY <1>9, <3>1 DEF ModelInv
    <3>3. fit[v].customer # c
      <4>1. SUFFICES ASSUME fit[v].customer = c PROVE FALSE
        OBVIOUS
      <4>2. v \in Competing(w)
        BY <1>1, <1>9, <2>2, <3>1, <4>1 DEF Competing
      <4>3. models[c] # NoModel
        BY <1>9, <3>1, <3>2, <4>1 DEF NoModel
      <4>4. QED  BY <1>6, <1>9, <3>1, <4>1, <4>2, <4>3
    <3>4. Competing(v)' = {}
      BY <1>5, <1>7, <3>1, <3>2, <3>3 DEF Competing
    <3>5. QED  BY <1>6, <3>1, <3>2, <3>4
  <2>3. QED  BY <2>1, <2>2
<1>10. VersionsCountFits'
  BY <1>6 DEF ModelInv, VersionsCountFits
<1>11. QED  BY <1>6, <1>7, <1>8, <1>9, <1>10 DEF ModelInv

\* Of two fits that found no row one alone inserts; whoever found one replaces it alone.
LEMMA ModelSaved == ASSUME ModelInv, NEW w \in Workers, SaveModel(w) PROVE ModelInv'
<1>1. PICK c : c = fit[w].customer
  OBVIOUS
<1>2. /\ fit[w].at = "saving" /\ c \in Customers /\ fit[w].samples >= MinSamples
      /\ fit[w] \in FitRecord /\ UNCHANGED <<debits, raced>>
  BY <1>1 DEF SaveModel, ModelInv
<1>3. CASE ~(Insertable(w) /\ saves[c] < MaxSaves)
  <2>1. fit' = [fit EXCEPT ![w] = IdleFit] /\ UNCHANGED <<models, saves>>
    BY <1>1, <1>3 DEF SaveModel
  <2>2. QED  BY <1>2, <2>1, FitFields, OneFit
<1>4. CASE Insertable(w) /\ saves[c] < MaxSaves
  <2>0. PICK left : left = fit[w].left
    OBVIOUS
  <2>1. PICK at \in {"idle", "choosing"} : at = IF left = {} THEN "idle" ELSE "choosing"
    OBVIOUS
  <2>2. PICK f : f = [IdleFit EXCEPT !.at = at, !.left = left]
    OBVIOUS
  <2>3. PICK m : m = [samples |-> fit[w].samples, version |-> fit[w].row + 1]
    OBVIOUS
  <2>4. /\ models' = [models EXCEPT ![c] = m] /\ saves' = [saves EXCEPT ![c] = @ + 1]
        /\ fit' = [fit EXCEPT ![w] = f]
    BY <1>1, <1>4, <2>0, <2>1, <2>2, <2>3 DEF SaveModel
  <2>5. f \in FitRecord /\ f.at = at
    BY <1>2, <2>0, <2>1, <2>2, FitFields DEF FitRecord
  <2>6. /\ m \in ModelRecord /\ m.version = fit[w].row + 1 /\ m.version # 0
        /\ m.samples = fit[w].samples
    BY <1>2, <2>3, FitFields DEF ModelRecord
  <2>7. /\ fit' \in [Workers -> FitRecord] /\ fit'[w] = f
        /\ \A v \in Workers \ {w} : fit'[v] = fit[v]
        /\ models' \in [Customers -> ModelRecord] /\ models'[c] = m
        /\ \A d \in Customers \ {c} : models'[d] = models[d] /\ saves'[d] = saves[d]
        /\ saves' \in [Customers -> Nat] /\ saves'[c] = saves[c] + 1
    BY <1>2, <2>4, <2>5, <2>6 DEF ModelInv
  <2>8. \A v \in Workers : fit'[v].at \in {"trained", "saving"} =>
            fit'[v].customer \in Customers /\ fit'[v].samples >= MinSamples
    BY <2>1, <2>5, <2>7 DEF ModelInv
  <2>9. \A d \in Customers : models'[d].version = 0 => models'[d] = NoModel
    BY <2>6, <2>7 DEF ModelInv
  <2>10. ASSUME NEW v \in Workers, fit'[v].at = "saving", fit'[v].customer \notin raced',
                fit'[v].row # 0
         PROVE  fit'[v].row = models'[fit'[v].customer].version /\ Competing(v)' = {}
    <3>1. v # w /\ fit'[v] = fit[v]
      BY <2>1, <2>5, <2>7, <2>10
    <3>2. fit[v].row = models[fit[v].customer].version /\ Competing(v) = {}
      BY <1>2, <2>10, <3>1 DEF ModelInv
    <3>3. fit[v].customer # c /\ fit[v].customer \in Customers
      BY <1>1, <1>2, <2>10, <3>1, <3>2 DEF Competing, ModelInv
    <3>4. Competing(v)' = {}
      BY <2>1, <2>5, <2>7, <3>1, <3>2 DEF Competing
    <3>5. QED  BY <2>7, <3>1, <3>2, <3>3, <3>4
  <2>11. c \notin raced => m.version = saves[c] + 1
    <3>1. SUFFICES ASSUME c \notin raced PROVE fit[w].row = saves[c]
      BY <2>6
    <3>2. models[c].version = saves[c]
      BY <1>2, <3>1 DEF ModelInv, VersionsCountFits
    <3>3. CASE fit[w].row = 0
      BY <1>1, <1>4, <3>2, <3>3 DEF Insertable
    <3>4. CASE fit[w].row # 0
      BY <1>1, <1>2, <3>1, <3>2, <3>4 DEF ModelInv
    <3>5. QED  BY <3>3, <3>4
  <2>12. VersionsCountFits'
    BY <1>2, <2>6, <2>7, <2>11 DEF ModelInv, VersionsCountFits
  <2>13. QED  BY <1>2, <2>7, <2>8, <2>9, <2>10, <2>12 DEF ModelInv
<1>5. QED  BY <1>3, <1>4

LEMMA ModelKept == ModelInv /\ [ModelNext]_modelVars => ModelInv'
<1> SUFFICES ASSUME ModelInv, [ModelNext]_modelVars PROVE ModelInv'
  OBVIOUS
<1>1. ASSUME NEW w \in Workers, FitFails(w) PROVE ModelInv'
  BY <1>1, FitFields, OneFit DEF FitFails
<1>2. ASSUME NEW c \in Customers, DebitCategorised(c) PROVE ModelInv'
  <2>1. debits' \in [Customers -> Nat] /\ UNCHANGED <<fit, models, saves, raced>>
    BY <1>2 DEF DebitCategorised, ModelInv
  <2>2. QED  BY <2>1 DEF ModelInv, VersionsCountFits, Competing
<1>3. CASE UNCHANGED modelVars
  BY <1>3 DEF modelVars, ModelInv, VersionsCountFits, Competing
<1>4. QED
  BY <1>1, <1>2, <1>3, FitStarted, DebitsRead, ModelRead, ModelSaved DEF ModelNext

-----------------------------------------------------------------------------
(* Conversations purged *)

Numbers == {S \in SUBSET Nat : IsFiniteSet(S)}
ThreadRows == [writes : Numbers, blobs : Numbers, checkpoints : Numbers]
ThreadRecord == [rows : ThreadRows, old : BOOLEAN, marked : ThreadRows]
Stages == {"idle", "writes", "blobs", "checkpoints", "committing"}

\* What a sweep has marked of a conversation that nobody took up since it was listed:
\* all the rows of the tables that it is through with.
Marked(t) ==
    /\ thread[t].marked.writes = IF sweep.at = "writes" THEN {} ELSE thread[t].rows.writes
    /\ thread[t].marked.blobs =
            IF sweep.at \in {"writes", "blobs"} THEN {} ELSE thread[t].rows.blobs
    /\ thread[t].marked.checkpoints =
            IF sweep.at = "committing" THEN thread[t].rows.checkpoints ELSE {}

\* The rows of one conversation belong together.
Whole(t) ==
    /\ thread[t].rows.writes = thread[t].rows.checkpoints
    /\ thread[t].rows.blobs = thread[t].rows.checkpoints
    /\ IF thread[t].rows = NoRows THEN thread[t].old ELSE 1 \in thread[t].rows.checkpoints

ThreadInv ==
    /\ thread \in [Threads -> ThreadRecord]
    /\ sweep \in [at : Stages, threads : SUBSET Threads]
    /\ sweep.at = "idle" => sweep.threads = {}
    /\ \A t \in Threads \ sweep.threads : thread[t].marked = NoRows
    /\ \A t \in sweep.threads \ resumed : thread[t].old /\ Marked(t)
    /\ \A t \in Threads \ resumed : Whole(t)

LEMMA ThreadFields ==
    ASSUME NEW x \in ThreadRecord
    PROVE  /\ x.rows \in ThreadRows /\ x.old \in BOOLEAN /\ x.marked \in ThreadRows
           /\ x.rows.writes \in Numbers /\ x.rows.blobs \in Numbers
           /\ x.rows.checkpoints \in Numbers
           /\ x.marked.writes \in Numbers /\ x.marked.blobs \in Numbers
           /\ x.marked.checkpoints \in Numbers
           /\ x.rows = [writes |-> x.rows.writes, blobs |-> x.rows.blobs,
                        checkpoints |-> x.rows.checkpoints]
           /\ x.marked = [writes |-> x.marked.writes, blobs |-> x.marked.blobs,
                          checkpoints |-> x.marked.checkpoints]
BY DEF ThreadRecord, ThreadRows

LEMMA NumbersGrow ==
    /\ {} \in Numbers
    /\ \A S \in Numbers : \A n \in Nat : S \cup {n} \in Numbers
    /\ \A S \in Numbers : \A T : S \ T \in Numbers
    /\ \A S, T \in Numbers : Cardinality(S \cup T) \in Nat
    /\ Cardinality({}) = 0
<1>1. \A S \in Numbers : \A n \in Nat : S \cup {n} \in Numbers
  BY FS_AddElement DEF Numbers
<1>2. \A S \in Numbers : \A T : S \ T \in Numbers
  BY FS_Subset DEF Numbers
<1>3. \A S, T \in Numbers : Cardinality(S \cup T) \in Nat
  BY FS_Union, FS_CardinalityType DEF Numbers
<1>4. QED  BY <1>1, <1>2, <1>3, FS_EmptySet DEF Numbers

LEMMA NoRowsType == NoRows \in ThreadRows
BY NumbersGrow DEF NoRows, ThreadRows

LEMMA ThreadStart == JobsInit => ThreadInv
<1> SUFFICES ASSUME JobsInit PROVE ThreadInv
  OBVIOUS
<1>1. PICK x : x = [rows |-> [writes |-> {1}, blobs |-> {1}, checkpoints |-> {1}],
                    old |-> FALSE, marked |-> NoRows]
  OBVIOUS
<1>2. thread = [t \in Threads |-> x] /\ sweep = IdleSweep
  BY <1>1 DEF JobsInit
<1>3. x \in ThreadRecord
  <2>1. {1} \in Numbers
    <3>1. {1} = {} \cup {1}
      OBVIOUS
    <3>2. QED  BY <3>1, NumbersGrow
  <2>2. QED  BY <1>1, <2>1, NoRowsType DEF ThreadRecord, ThreadRows
<1>4. \A t \in Threads : Whole(t)
  BY <1>1, <1>2 DEF Whole, NoRows
<1>5. QED  BY <1>1, <1>2, <1>3, <1>4 DEF ThreadInv, IdleSweep, Stages


\* The conversations that a step leaves alone.
LEMMA OneThread ==
    ASSUME ThreadInv, NEW t \in Threads, NEW x \in ThreadRecord, thread' = [thread EXCEPT ![t] = x]
    PROVE  /\ thread' \in [Threads -> ThreadRecord] /\ thread'[t] = x
           /\ \A u \in Threads \ {t} : thread'[u] = thread[u]
BY DEF ThreadInv

\* A turn takes a conversation up: while it is being swept, that is remembered.
LEMMA CheckpointKept ==
    ASSUME ThreadInv, NEW t \in Threads, Checkpoint(t) PROVE ThreadInv'
<1>1. PICK n : n = Cardinality(thread[t].rows.checkpoints \cup thread[t].rows.blobs) + 1
  OBVIOUS
<1>2. PICK rows : rows = [writes |-> thread[t].rows.writes \cup {n},
                          blobs |-> thread[t].rows.blobs \cup {n},
                          checkpoints |-> thread[t].rows.checkpoints \cup {n}]
  OBVIOUS
<1>3. PICK x : x = [thread[t] EXCEPT !.rows = rows, !.old = FALSE]
  OBVIOUS
<1>4. thread[t] \in ThreadRecord
  BY DEF ThreadInv
<1>5. x.rows = rows /\ x.old = FALSE /\ x.marked = thread[t].marked
  BY <1>3, <1>4 DEF ThreadRecord
<1>6. /\ thread' = [thread EXCEPT ![t] = x] /\ sweep' = sweep
      /\ resumed' = IF t \in sweep.threads THEN resumed \cup {t} ELSE resumed
  BY <1>1, <1>2, <1>3 DEF Checkpoint
<1>7. n \in Nat
  <2>1. thread[t].rows.checkpoints \in Numbers /\ thread[t].rows.blobs \in Numbers
    BY <1>4, ThreadFields
  <2>2. QED  BY <1>1, <2>1, NumbersGrow
<1>8. x \in ThreadRecord
  BY <1>2, <1>3, <1>4, <1>7, ThreadFields, NumbersGrow DEF ThreadRecord, ThreadRows
<1>9. /\ thread' \in [Threads -> ThreadRecord] /\ thread'[t] = x
      /\ \A u \in Threads \ {t} : thread'[u] = thread[u]
  BY <1>6, <1>8, OneThread
<1>10. \A u \in Threads \ sweep'.threads : thread'[u].marked = NoRows
  BY <1>5, <1>6, <1>9 DEF ThreadInv
<1>11. ASSUME NEW u \in sweep'.threads \ resumed' PROVE thread'[u].old /\ Marked(u)'
  <2>1. u \in sweep.threads \ resumed /\ u # t /\ u \in Threads
    BY <1>6 DEF ThreadInv
  <2>2. thread[u].old /\ Marked(u)
    BY <2>1 DEF ThreadInv
  <2>3. QED  BY <1>6, <1>9, <2>1, <2>2 DEF Marked
<1>12. ASSUME NEW u \in Threads \ resumed' PROVE Whole(u)'
  <2>1. u \notin resumed /\ Whole(u)
    BY <1>6 DEF ThreadInv
  <2>2. CASE u # t
    BY <1>9, <2>1, <2>2 DEF Whole
  <2>3. CASE u = t
    <3>1. x.rows.writes = x.rows.checkpoints /\ x.rows.blobs = x.rows.checkpoints
      BY <1>2, <1>5, <2>1, <2>3 DEF Whole
    <3>2. 1 \in x.rows.checkpoints
      <4>1. CASE thread[t].rows = NoRows
        <5>1. n = 1
          BY <1>1, <4>1, NumbersGrow DEF NoRows
        <5>2. QED  BY <1>2, <1>5, <5>1
      <4>2. CASE thread[t].rows # NoRows
        BY <1>2, <1>5, <2>1, <2>3, <4>2 DEF Whole
      <4>3. QED  BY <4>1, <4>2
    <3>3. x.rows # NoRows
      BY <3>2 DEF NoRows
    <3>4. QED  BY <1>9, <2>3, <3>1, <3>2, <3>3 DEF Whole
  <2>4. QED  BY <2>2, <2>3
<1>13. QED  BY <1>6, <1>9, <1>10, <1>11, <1>12 DEF ThreadInv

LEMMA ForgottenKept ==
    ASSUME ThreadInv, NEW t \in Threads, Forgotten(t) PROVE ThreadInv'
<1>1. PICK x : x = [thread[t] EXCEPT !.old = TRUE]
  OBVIOUS
<1>2. thread[t] \in ThreadRecord
  BY DEF ThreadInv
<1>3. x \in ThreadRecord /\ x.rows = thread[t].rows /\ x.marked = thread[t].marked /\ x.old
  BY <1>1, <1>2 DEF ThreadRecord
<1>4. thread' = [thread EXCEPT ![t] = x] /\ UNCHANGED <<sweep, resumed>>
  BY <1>1 DEF Forgotten
<1>5. /\ thread' \in [Threads -> ThreadRecord] /\ thread'[t] = x
      /\ \A u \in Threads \ {t} : thread'[u] = thread[u]
  BY <1>3, <1>4, OneThread
<1>6. \A u \in Threads : /\ thread'[u].rows = thread[u].rows /\ thread'[u].marked = thread[u].marked
                         /\ thread[u].old => thread'[u].old
  BY <1>3, <1>5
<1>7. \A u \in Threads : (Whole(u) => Whole(u)') /\ (Marked(u) => Marked(u)')
  BY <1>4, <1>6 DEF Whole, Marked
<1>8. sweep.threads \subseteq Threads
  BY DEF ThreadInv
<1>9. QED  BY <1>4, <1>5, <1>6, <1>7, <1>8 DEF ThreadInv

LEMMA ThreadsListed == ASSUME ThreadInv, ListThreads PROVE ThreadInv'
<1>1. /\ sweep.threads = {} /\ UNCHANGED <<thread, resumed>>
      /\ sweep' = [at |-> "writes", threads |-> {t \in Threads : Expired(t)}]
  BY DEF ThreadInv, ListThreads
<1>2. \A t \in Threads : thread'[t].marked = NoRows
  BY <1>1 DEF ThreadInv
<1>3. \A t \in sweep'.threads : thread'[t].old /\ Marked(t)'
  BY <1>1, <1>2 DEF Expired, Marked, NoRows
<1>4. \A t \in Threads \ resumed' : Whole(t)'
  BY <1>1 DEF ThreadInv, Whole
<1>5. QED  BY <1>1, <1>2, <1>3, <1>4 DEF ThreadInv, Stages

LEMMA RowsDeleted ==
    ASSUME ThreadInv, NEW table \in {"writes", "blobs", "checkpoints"}, DeleteFrom(table)
    PROVE  ThreadInv'
<1>1. PICK next \in Stages : next = After[table]
  BY DEF After, Stages
<1>2. /\ table = "writes" => next = "blobs"
      /\ table = "blobs" => next = "checkpoints"
      /\ table = "checkpoints" => next = "committing"
  BY <1>1 DEF After
<1>3. /\ sweep.at = table /\ resumed' = resumed
      /\ sweep' = [at |-> next, threads |-> sweep.threads]
      /\ \A t \in Threads : thread'[t] = IF t \in sweep.threads
            THEN [thread[t] EXCEPT !.marked[table] = thread[t].rows[table]] ELSE thread[t]
      /\ thread' = [t \in Threads |-> thread'[t]]
  BY <1>1 DEF DeleteFrom, ThreadInv
<1>4. ASSUME NEW t \in sweep.threads
      PROVE  /\ thread'[t] \in ThreadRecord
             /\ thread'[t].rows = thread[t].rows /\ thread'[t].old = thread[t].old
             /\ thread'[t].marked.writes =
                    IF table = "writes" THEN thread[t].rows.writes ELSE thread[t].marked.writes
             /\ thread'[t].marked.blobs =
                    IF table = "blobs" THEN thread[t].rows.blobs ELSE thread[t].marked.blobs
             /\ thread'[t].marked.checkpoints =
                    IF table = "checkpoints" THEN thread[t].rows.checkpoints
                    ELSE thread[t].marked.checkpoints
  <2>1. t \in Threads /\ thread[t] \in ThreadRecord
    BY DEF ThreadInv
  <2>2. PICK old : old = thread[t]
    OBVIOUS
  <2>3. thread'[t] = [old EXCEPT !.marked[table] = old.rows[table]]
    BY <1>3, <2>1, <2>2
  <2>4. old.rows[table] \in Numbers
    BY <2>1, <2>2, ThreadFields
  <2>5. QED  BY <2>1, <2>2, <2>3, <2>4 DEF ThreadRecord, ThreadRows
<1>5. thread' \in [Threads -> ThreadRecord]
  <2>1. \A t \in Threads : thread'[t] \in ThreadRecord
    BY <1>3, <1>4 DEF ThreadInv
  <2>2. QED  BY <1>3, <2>1
<1>6. \A t \in Threads \ sweep'.threads : thread'[t].marked = NoRows
  BY <1>3 DEF ThreadInv
<1>7. ASSUME NEW t \in sweep.threads \ resumed PROVE thread'[t].old /\ Marked(t)'
  <2>1. thread[t].old /\ Marked(t)
    BY DEF ThreadInv
  <2>2. QED  BY <1>2, <1>3, <1>4, <2>1 DEF Marked
<1>8. \A t \in Threads : Whole(t) => Whole(t)'
  <2>1. \A t \in Threads : thread'[t].rows = thread[t].rows /\ thread'[t].old = thread[t].old
    BY <1>3, <1>4
  <2>2. QED  BY <2>1 DEF Whole
<1>9. QED  BY <1>2, <1>3, <1>5, <1>6, <1>7, <1>8 DEF ThreadInv

\* Every row of a listed conversation that nobody took up is gone at once.
LEMMA SweepCommitted == ASSUME ThreadInv, CommitSweep PROVE ThreadInv'
<1>1. /\ sweep.at = "committing" /\ resumed' = resumed /\ sweep' = IdleSweep
      /\ thread' = [t \in Threads |-> thread'[t]]
      /\ \A t \in Threads :
            thread'[t] = [thread[t] EXCEPT !.rows = Unmarked(thread[t]), !.marked = NoRows]
  BY DEF CommitSweep, ThreadInv
<1>2. ASSUME NEW x \in ThreadRecord
      PROVE  /\ Unmarked(x) \in ThreadRows
             /\ Unmarked(x) = [writes |-> x.rows.writes \ x.marked.writes,
                               blobs |-> x.rows.blobs \ x.marked.blobs,
                               checkpoints |-> x.rows.checkpoints \ x.marked.checkpoints]
  <2>1. DOMAIN x.rows = {"writes", "blobs", "checkpoints"}
    BY DEF ThreadRecord, ThreadRows
  <2>2. PICK rows, marked : rows = x.rows /\ marked = x.marked
    OBVIOUS
  <2>3. Unmarked(x) = [table \in {"writes", "blobs", "checkpoints"} |-> rows[table] \ marked[table]]
    BY <2>1, <2>2 DEF Unmarked
  <2>4. [table \in {"writes", "blobs", "checkpoints"} |-> rows[table] \ marked[table]]
          = [writes |-> rows.writes \ marked.writes, blobs |-> rows.blobs \ marked.blobs,
             checkpoints |-> rows.checkpoints \ marked.checkpoints]
    OBVIOUS
  <2>5. /\ rows.writes \ marked.writes \in Numbers /\ rows.blobs \ marked.blobs \in Numbers
        /\ rows.checkpoints \ marked.checkpoints \in Numbers
    BY <2>2, ThreadFields, NumbersGrow
  <2>6. Unmarked(x) \in ThreadRows
    BY <2>3, <2>4, <2>5 DEF ThreadRows
  <2>7. QED  BY <2>2, <2>3, <2>4, <2>6
<1>3. \A t \in Threads : thread[t] \in ThreadRecord
  BY DEF ThreadInv
<1>4. \A t \in Threads : /\ thread'[t] \in ThreadRecord /\ thread'[t].rows = Unmarked(thread[t])
                         /\ thread'[t].marked = NoRows /\ thread'[t].old = thread[t].old
  <2> TAKE t \in Threads
  <2>1. PICK old, rows : old = thread[t] /\ rows = Unmarked(thread[t])
    OBVIOUS
  <2>2. old \in ThreadRecord /\ rows \in ThreadRows
    BY <1>2, <1>3, <2>1
  <2>3. thread'[t] = [old EXCEPT !.rows = rows, !.marked = NoRows]
    BY <1>1, <2>1
  <2>4. QED  BY <2>1, <2>2, <2>3, NoRowsType DEF ThreadRecord
<1>5. thread' \in [Threads -> ThreadRecord]
  BY <1>1, <1>4
<1>6. ASSUME NEW t \in Threads \ resumed PROVE Whole(t)'
  <2>1. Whole(t) /\ thread[t] \in ThreadRecord
    BY DEF ThreadInv
  <2>2. CASE t \in sweep.threads
    <3>1. thread[t].old /\ Marked(t)
      BY <2>2 DEF ThreadInv
    <3>2. Unmarked(thread[t]) = NoRows
      <4>1. PICK x \in ThreadRecord : x = thread[t]
        BY <2>1
      <4>2. /\ x.rows.writes \ x.marked.writes = {} /\ x.rows.blobs \ x.marked.blobs = {}
            /\ x.rows.checkpoints \ x.marked.checkpoints = {}
        BY <1>1, <3>1, <4>1 DEF Marked
      <4>3. Unmarked(x) = [writes |-> {}, blobs |-> {}, checkpoints |-> {}]
        BY <1>2, <4>2
      <4>4. QED  BY <4>1, <4>3 DEF NoRows
    <3>3. thread'[t].rows = NoRows /\ thread'[t].old
      BY <1>4, <3>1, <3>2
    <3>4. QED  BY <3>3 DEF Whole, NoRows
  <2>3. CASE t \notin sweep.threads
    <3>1. thread[t].marked = NoRows
      BY <2>3 DEF ThreadInv
    <3>2. Unmarked(thread[t]) = thread[t].rows
      <4>1. PICK x \in ThreadRecord : x = thread[t]
        BY <2>1
      <4>2. /\ x.rows.writes \ x.marked.writes = x.rows.writes
            /\ x.rows.blobs \ x.marked.blobs = x.rows.blobs
            /\ x.rows.checkpoints \ x.marked.checkpoints = x.rows.checkpoints
        BY <3>1, <4>1 DEF NoRows
      <4>3. Unmarked(x) = [writes |-> x.rows.writes, blobs |-> x.rows.blobs,
                           checkpoints |-> x.rows.checkpoints]
        BY <1>2, <4>2
      <4>4. x.rows = [writes |-> x.rows.writes, blobs |-> x.rows.blobs,
                      checkpoints |-> x.rows.checkpoints]
        BY ThreadFields
      <4>5. QED  BY <4>1, <4>3, <4>4
    <3>3. QED  BY <1>4, <2>1, <3>2 DEF Whole
  <2>4. QED  BY <2>2, <2>3
<1>7. QED  BY <1>1, <1>4, <1>5, <1>6 DEF ThreadInv, IdleSweep, Stages

LEMMA SweepRolledBack == ASSUME ThreadInv, SweepFails PROVE ThreadInv'
<1>1. /\ resumed' = resumed /\ sweep' = IdleSweep
      /\ thread' = [t \in Threads |-> thread'[t]]
      /\ \A t \in Threads : thread'[t] = [thread[t] EXCEPT !.marked = NoRows]
  BY DEF SweepFails, ThreadInv
<1>2. \A t \in Threads : /\ thread'[t] \in ThreadRecord /\ thread'[t].rows = thread[t].rows
                         /\ thread'[t].marked = NoRows /\ thread'[t].old = thread[t].old
  BY <1>1, NoRowsType DEF ThreadInv, ThreadRecord
<1>3. thread' \in [Threads -> ThreadRecord]
  BY <1>1, <1>2
<1>4. \A t \in Threads \ resumed : Whole(t)'
  BY <1>2 DEF ThreadInv, Whole
<1>5. QED  BY <1>1, <1>2, <1>3, <1>4 DEF ThreadInv, IdleSweep, Stages

LEMMA ThreadKept == ThreadInv /\ [ThreadNext]_threadVars => ThreadInv'
<1> SUFFICES ASSUME ThreadInv, [ThreadNext]_threadVars PROVE ThreadInv'
  OBVIOUS
<1>1. ASSUME NEW i \in DOMAIN Tables, DeleteFrom(Tables[i]) PROVE ThreadInv'
  <2>1. Tables[i] \in {"writes", "blobs", "checkpoints"}
    BY DEF Tables
  <2>2. QED  BY <1>1, <2>1, RowsDeleted
<1>2. CASE UNCHANGED threadVars
  BY <1>2 DEF threadVars, ThreadInv, Whole, Marked
<1>3. QED
  BY <1>1, <1>2, CheckpointKept, ForgottenKept, ThreadsListed, SweepCommitted, SweepRolledBack
  DEF ThreadNext

\* Periodic tasks that overlap, fail and are retried store an entry once, number the models
\* by the fits, and purge a conversation as a whole (workers/tasks/batch.py:
\* classify_unclassified_ledger_entries, _train_and_upsert_customer,
\* enforce_checkpoint_retention).
THEOREM TasksLoseNothing == Spec => []JobsLoseNothing
<1> DEFINE JobsInv == BatchInv /\ ModelInv /\ ThreadInv
<1>1. Init => JobsInv
  BY BatchStart, ModelStart, ThreadStart DEF Init
<1>2. JobsInv /\ [Next]_vars => JobsInv'
  BY BatchApart, BatchKept, ModelApart, ModelKept, ThreadApart, ThreadKept
<1>3. ThreadInv => ConversationsStayWhole
  BY DEF ThreadInv, Whole, ConversationsStayWhole
<1>4. JobsInv => JobsLoseNothing
  BY <1>3 DEF BatchInv, ModelInv, JobsLoseNothing
<1>5. QED  BY <1>1, <1>2, <1>4, PTL DEF Spec

-----------------------------------------------------------------------------
(* Agents *)

RunsInv ==
    /\ report = NoReport => effects = {}
    /\ AgentsAreLicensed

\* Who may change what.
LEMMA Mutations ==
    /\ mutation_kinds("E") = {"event", "direct_write"}
    /\ mutation_kinds("B") = {"direct_write"}
    /\ mutation_kinds("K") = {"proposal"}
    /\ Granted("D", "sql") = TOOL_GRANTS.D.sql
BY DEF mutation_kinds, Agents, AGENT_REGISTRY, Descriptor, Granted, TOOL_GRANTS

\* A report that changes nothing, of an agent with neither rows nor movements.
LEMMA HarmlessReport ==
    ASSUME effects' = {}, report'.kind \notin {"forecast", "stock"}
    PROVE  RunsInv'
BY DEF RunsInv, AgentsAreLicensed, EffectsAreGranted, RowsOnlyIfVerified,
       MovementsAreLicensed, Reported

LEMMA WatchLicensed == Watch => RunsInv'
<1> SUFFICES ASSUME Watch PROVE RunsInv'
  OBVIOUS
<1>1. PICK published \in BOOLEAN, fits \in BOOLEAN :
        /\ report'.kind = "watchdog" /\ request' = request
        /\ effects' = (IF published THEN {Effect("E", "event")} ELSE {})
                      \cup (IF fits THEN {Effect("E", "direct_write")} ELSE {})
        /\ published \/ fits => request.mode = "actions"
  <2>1. PICK budget \in IF request.budgets = {} THEN {0} ELSE request.budgets,
             credential \in BOOLEAN, taskCredential \in BOOLEAN, broker \in BOOLEAN,
             model \in ModelAnswers :
        LET a == Analysis(request, budget)
            published == /\ Publishes(a, request.mode) /\ taskCredential /\ broker
                         /\ "finguard.intelligence" \in Granted("E", "events")
            fits == FitsLater(request, a) /\ broker
        IN Report([kind |-> "watchdog", analysis |-> a,
                   vc |-> request.mode = "actions" /\ credential,
                   published |-> published,
                   narrative |-> IF model = "answer" THEN "model" ELSE "template"],
                  (IF published THEN {Effect("E", "event")} ELSE {})
                  \cup (IF fits THEN {Effect("E", "direct_write")} ELSE {}))
    BY DEF Watch
  <2> DEFINE a == Analysis(request, budget)
             published == /\ Publishes(a, request.mode) /\ taskCredential /\ broker
                          /\ "finguard.intelligence" \in Granted("E", "events")
             fits == FitsLater(request, a) /\ broker
  <2>2. published \/ fits => request.mode = "actions"
    BY DEF Publishes, FitsLater
  <2>3. published \in BOOLEAN /\ fits \in BOOLEAN
    BY DEF FitsLater
  <2>4. QED
    <3> HIDE DEF a, published, fits
    <3>1. /\ report'.kind = "watchdog" /\ request' = request
          /\ effects' = (IF published THEN {Effect("E", "event")} ELSE {})
                        \cup (IF fits THEN {Effect("E", "direct_write")} ELSE {})
      BY <2>1 DEF a, published, fits, Report
    <3>2. QED  BY <2>2, <2>3, <3>1
<1>2. report' # NoReport
  BY <1>1 DEF NoReport
<1>3. \A e \in effects' :
        e.mode = "actions" /\ e.agent = "E" /\ e.kind \in {"event", "direct_write"}
  BY <1>1 DEF Effect
<1>4. EffectsAreGranted'
  BY <1>3, Mutations DEF EffectsAreGranted
<1>5. QED
  BY <1>1, <1>2, <1>4
  DEF RunsInv, AgentsAreLicensed, RowsOnlyIfVerified, MovementsAreLicensed, Reported

LEMMA ClassificationLicensed == ClassifyShown => RunsInv'
<1> SUFFICES ASSUME ClassifyShown PROVE RunsInv'
  OBVIOUS
<1>1. PICK asks \in BOOLEAN :
        /\ report'.kind = "classification" /\ request' = request
        /\ effects' = IF asks THEN {Effect("B", "direct_write")} ELSE {}
        /\ asks => request.mode = "actions"
  <2>1. PICK embedded \in BOOLEAN, answered \in BOOLEAN, broker \in BOOLEAN, model \in ModelAnswers :
        LET entries == Min({request.unclassified, ClassifierBatch})
            shown == entries > 0 /\ model = "answer"
            asks == /\ shown /\ broker /\ request.mode = "actions"
                    /\ "direct_write" \in mutation_kinds("B")
        IN Report([kind |-> "classification", entries |-> IF shown THEN entries ELSE 0,
                   examples |-> IF entries = 0 THEN <<>>
                                ELSE FewShots(request.distances, embedded, answered)],
                  IF asks THEN {Effect("B", "direct_write")} ELSE {})
    BY DEF ClassifyShown
  <2> DEFINE asks == /\ Min({request.unclassified, ClassifierBatch}) > 0 /\ model = "answer"
                     /\ broker /\ request.mode = "actions" /\ "direct_write" \in mutation_kinds("B")
  <2>2. asks \in BOOLEAN /\ (asks => request.mode = "actions")
    OBVIOUS
  <2>3. /\ report'.kind = "classification" /\ request' = request
        /\ effects' = IF asks THEN {Effect("B", "direct_write")} ELSE {}
    BY <2>1 DEF Report
  <2> HIDE DEF asks
  <2>4. QED  BY <2>2, <2>3
<1>2. report' # NoReport
  BY <1>1 DEF NoReport
<1>3. \A e \in effects' : e.mode = "actions" /\ e.agent = "B" /\ e.kind = "direct_write"
  BY <1>1 DEF Effect
<1>4. EffectsAreGranted'
  BY <1>3, Mutations DEF EffectsAreGranted
<1>5. QED
  BY <1>1, <1>2, <1>4
  DEF RunsInv, AgentsAreLicensed, RowsOnlyIfVerified, MovementsAreLicensed, Reported

\* Rows of the ledger reach a report through the audit and the validation alone.
LEMMA VerifiedRows ==
    ASSUME NEW verify, NEW sql \in CoVe(verify), sql.asked, sql.rows # {}
    PROVE  /\ sql.draft.statements = 1 /\ ~sql.draft.writes
           /\ \A table \in sql.draft.reads :
                table \in TOOL_GRANTS.D.sql \/ table \in sql.draft.ctes
           /\ verify => sql.audit.intent /\ sql.audit.confidence >= 70
           /\ sql.passed
<1>1. PICK d \in Drafts, a \in [intent : BOOLEAN, confidence : Confidences],
           up \in BOOLEAN, found \in {1, MaxRows + 1} :
        sql = [asked |-> TRUE, draft |-> d, audit |-> a, passed |-> Approved(d, verify, a),
               rows |-> IF Approved(d, verify, a) /\ up THEN ExecuteReadonly(d, "D", found) ELSE {}]
  BY DEF CoVe, NoSql
<1>2. Approved(d, verify, a) /\ Validates(d, Granted("D", "sql"))
  BY <1>1 DEF ExecuteReadonly
<1>3. sql.draft = d /\ sql.audit = a /\ sql.passed
  BY <1>1, <1>2
<1>4. d.reads \subseteq d.tables
  BY DraftsAssumption
<1>5. QED  BY <1>2, <1>3, <1>4, Mutations DEF Validates, AllowedTables, Approved

LEMMA ForecastLicensed == ForecastCash => RunsInv'
<1> SUFFICES ASSUME ForecastCash PROVE RunsInv'
  OBVIOUS
<1>1. PICK r, sql :
        /\ Report(r, {}) /\ r.kind = "forecast" /\ r.sql = sql
        /\ sql = NoSql \/ sql \in CoVe(request.verify)
  BY DEF ForecastCash
<1>2. report' = r /\ effects' = {} /\ request' = request
  BY <1>1 DEF Report
<1>3. RowsOnlyIfVerified'
  BY <1>1, <1>2, VerifiedRows DEF RowsOnlyIfVerified, Reported, NoSql
<1>4. QED
  BY <1>1, <1>2, <1>3
  DEF RunsInv, AgentsAreLicensed, EffectsAreGranted, MovementsAreLicensed, Reported

\* What becomes of a requested movement.
LEMMA MovementLicensed ==
    ASSUME NEW role, NEW model, NEW audit, NEW booked,
           NEW m, m = Moved(request, role, model, audit, booked)
    PROVE  /\ m.status \in {"proposed", "pending_approval", "applied"} => m.left >= 0
           /\ m.status = "applied" =>
                /\ request.action.type # "adjustment" /\ request.confirmed
                /\ "inventory:write" \in RolePermissions[role]
           /\ m.status = "pending_approval" => request.action.reason
           /\ m.status \in {"pending_approval", "applied"} => request.action.type # "none"
<1>1. PICK p, a : p = request.products[1] /\ a = request.action
  OBVIOUS
<1>2. CASE a.type = "none"
  BY <1>1, <1>2 DEF Moved, NoMovement
<1>3. CASE a.type = "adjustment"
  BY <1>1, <1>3 DEF Moved, Queued, Acceptable, Rejected
<1>4. CASE a.type \notin {"none", "adjustment"}
  BY <1>1, <1>4 DEF Moved, Booked, Acceptable, Rejected, Applies, CanAct, HasPermission
<1>5. QED  BY <1>2, <1>3, <1>4

LEMMA StewardLicensed == Keep => RunsInv'
<1> SUFFICES ASSUME Keep PROVE RunsInv'
  OBVIOUS
<1>1. PICK r, role, model, audit, booked, m :
        /\ m = Moved(request, role, model, audit, booked)
        /\ r.kind = "stock" /\ r.role = role /\ r.movement = m
        /\ Report(r, CASE m.status = "applied" -> {Effect("K", "stock_movement")}
                       [] m.status = "pending_approval" -> {Effect("K", "proposal")}
                       [] OTHER -> {})
  BY DEF Keep
<1>2. report' = r /\ r # NoReport /\ request' = request
  BY <1>1 DEF Report, NoReport
<1>3. \A e \in effects' :
        /\ e.agent = "K"
        /\ \/ m.status = "applied" /\ e.kind = "stock_movement"
           \/ m.status = "pending_approval" /\ e.kind = "proposal"
  BY <1>1 DEF Report, Effect
<1>4. EffectsAreGranted' /\ MovementsAreLicensed'
  BY <1>1, <1>2, <1>3, MovementLicensed, Mutations DEF EffectsAreGranted, MovementsAreLicensed
<1>5. QED
  BY <1>1, <1>2, <1>4 DEF RunsInv, AgentsAreLicensed, RowsOnlyIfVerified, Reported

LEMMA RunsStep == RunsInv /\ [RunsNext]_runVars => RunsInv'
<1> SUFFICES ASSUME RunsInv, [RunsNext]_runVars PROVE RunsInv'
  OBVIOUS
<1>1. ASSUME Strategise PROVE RunsInv'
  BY <1>1, HarmlessReport DEF Strategise, Report
<1>2. ASSUME Integrate PROVE RunsInv'
  <2>1. CASE request.held /\ Report([kind |-> "held"], {})
    BY <2>1, HarmlessReport DEF Report
  <2>2. CASE ~(request.held /\ Report([kind |-> "held"], {}))
    <3>1. PICK fx, mpesa, credit, kra : report' = Collected(fx, mpesa, credit, kra) /\ effects' = {}
      BY <1>2, <2>2 DEF Integrate, Report
    <3>2. QED  BY <3>1, HarmlessReport DEF Collected
  <2>3. QED  BY <2>1, <2>2
<1>3. ASSUME Advise \/ Summarise \/ Quote \/ ExtractInvoice PROVE RunsInv'
  <2>1. effects' = {} /\ report'.kind \in {"advice", "summary", "rules", "failed", "extraction"}
    BY <1>3 DEF Advise, Summarise, Quote, ExtractInvoice, Report
  <2>2. QED  BY <2>1, HarmlessReport
<1>4. ASSUME AuditInForce PROVE RunsInv'
  <2>1. report'.kind = "audit" /\ effects' = {}
    <3>1. PICK rates, scheduled : Audit(rates, scheduled)
      BY <1>4 DEF AuditInForce
    <3>2. \E t, tax, flags :
            Report([kind |-> "audit", totals |-> t, rates |-> rates, scheduled |-> scheduled,
                    tax |-> tax, components |-> Components(t, rates), flags |-> flags], {})
      BY <3>1 DEF Audit, Report
    <3>3. QED  BY <3>2 DEF Report
  <2>2. QED  BY <2>1, HarmlessReport
<1>5. CASE UNCHANGED runVars
  BY <1>5 DEF runVars, RunsInv, AgentsAreLicensed, EffectsAreGranted, RowsOnlyIfVerified,
              MovementsAreLicensed, Reported
<1>6. QED
  BY <1>1, <1>2, <1>3, <1>4, <1>5, WatchLicensed, ClassificationLicensed, ForecastLicensed,
     StewardLicensed DEF RunsNext, AdviceStep

\* What an agent read or changed, it was allowed to: by the registry and the mode of the
\* conversation, by its grants and the audit of its query, by the operator's authority.
\* The two gaps are named: the stock keeper acts in any mode, on what was asked of it, and
\* a table may be read that a table expression of the same query is named after
\* (agent_registry.py; tools/sql_executor.py; services/stockkeeper_service.py).
THEOREM AgentsStayWithinGrants == Spec => []AgentsAreLicensed
<1>1. Init => RunsInv
  BY DEF Init, RunsInv, AgentsAreLicensed, EffectsAreGranted, RowsOnlyIfVerified,
         MovementsAreLicensed, Reported
<1>2. RunsInv /\ [Next]_vars => RunsInv'
  BY RunsStep, RunsApart
<1>3. RunsInv => AgentsAreLicensed
  BY DEF RunsInv
<1>4. QED  BY <1>1, <1>2, <1>3, PTL DEF Spec

-----------------------------------------------------------------------------
\* Induction on a set of numbers: it has no least number outside of it.
LEMMA Induction ==
    ASSUME NEW T, 0 \in T, \A n \in Nat : n \in T => n + 1 \in T
    PROVE  Nat \subseteq T
<1> DEFINE R == OpToRel(<, Nat)
<1>1. \A x, y \in Nat : y < x => <<y, x>> \in R
  BY DEF OpToRel
<1>2. ASSUME Nat \ T # {} PROVE FALSE
  <2>1. \E x \in Nat \ T : \A y \in Nat \ T : ~ (<<y, x>> \in R)
    BY <1>2, NatLessThanWellFounded, WFMin
  <2> HIDE DEF R
  <2>2. PICK m \in Nat \ T : \A k \in Nat \ T : ~ (<<k, m>> \in R)
    BY <2>1
  <2>3. \A k \in Nat \ T : ~ (k < m)
    BY <1>1, <2>2
  <2>4. m - 1 \in Nat /\ m - 1 \in T
    BY <2>3
  <2>5. QED  BY <2>2, <2>4
<1>3. QED  BY <1>2

-----------------------------------------------------------------------------
(* Figures: the hidden states decoded *)

Likely(t, s, obs) == LogDensity(s, obs[t])
Step(r, s) == Log(Hmm.transition[r][s])

LEMMA Densities ==
    ASSUME NEW x \in Int, NEW s \in HiddenStates
    PROVE  LogDensity(s, x) \in Int
<1>1. PICK mean \in Int, sd \in Nat \ {0}, log \in Int :
        /\ mean = Hmm.emission_params[s][1] /\ sd = Hmm.emission_params[s][2]
        /\ log = Log(Hmm.emission_params[s][2])
  BY HmmAssumption
<1>2. LogDensity(s, x) = - ((10 * (x - mean) * (x - mean)) \div (2 * sd * sd)) - log
  BY <1>1 DEF LogDensity
<1>3. 10 * (x - mean) * (x - mean) \in Int
  OBVIOUS
<1>4. 2 * sd * sd \in Int /\ 2 * sd * sd > 0
  <2>1. sd * sd >= 1
    OBVIOUS
  <2>2. QED  BY <2>1
<1>5. \A a, b \in Int : b > 0 => a \div b \in Int
  OBVIOUS
<1>6. QED  BY <1>2, <1>3, <1>4, <1>5

\* The first of the best is one of the best.
LEMMA FirstBestIs ==
    ASSUME NEW f \in [HiddenStates -> Int]
    PROVE  FirstBest(f) \in HiddenStates /\ \A r \in HiddenStates : f[r] <= f[FirstBest(f)]
<1> DEFINE S == {s \in DOMAIN f : \A r \in DOMAIN f : f[r] <= f[s]}
<1>1. S \subseteq 1..3 /\ DOMAIN f = HiddenStates
  BY DEF HiddenStates
<1>2. S # {}
  <2>1. f[1] \in Int /\ f[2] \in Int /\ f[3] \in Int /\ DOMAIN f = {1, 2, 3}
    BY DEF HiddenStates
  <2>2. QED  BY <2>1
<1>3. \E s \in S : \A r \in S : s <= r
  <2> HIDE DEF S
  <2>1. CASE 1 \in S  BY <1>1, <2>1
  <2>2. CASE 1 \notin S /\ 2 \in S  BY <1>1, <2>2
  <2>3. CASE 1 \notin S /\ 2 \notin S
    <3>1. \A r \in S : r = 3
      BY <1>1, <2>3
    <3>2. QED  BY <1>2, <3>1
  <2>4. QED  BY <2>1, <2>2, <2>3
<1>4. Min(S) \in S
  BY <1>3 DEF Min
<1>5. FirstBest(f) = Min(S)
  BY DEF FirstBest
<1>6. QED  BY <1>1, <1>4, <1>5

\* The table is what the recursion says.
LEMMA BestExists ==
    ASSUME NEW obs, Len(obs) \in Nat
    PROVE  Best(obs) = [t \in 1..Len(obs) |->
              IF t = 1 THEN [s \in HiddenStates |-> Log(Hmm.initial_pi[s]) + LogDensity(s, obs[1])]
              ELSE LET before == Best(obs)[t - 1] IN
                   [s \in HiddenStates |-> LogDensity(s, obs[t]) +
                      Max({before[r] + Log(Hmm.transition[r][s]) : r \in HiddenStates})]]
<1> DEFINE first == [s \in HiddenStates |-> Log(Hmm.initial_pi[s]) + LogDensity(s, obs[1])]
           next(before, t) == [s \in HiddenStates |-> LogDensity(s, obs[t]) +
                      Max({before[r] + Log(Hmm.transition[r][s]) : r \in HiddenStates})]
           Is(f, m) == f = [t \in 1..m |-> IF t = 1 THEN first ELSE next(f[t - 1], t)]
           T == {m \in Nat : \E f : Is(f, m)}
<1>1. 0 \in T
  <2> HIDE DEF first, next
  <2>1. Is([t \in 1..0 |-> first], 0)
    OBVIOUS
  <2>2. QED  BY <2>1
<1>2. ASSUME NEW m \in Nat, m \in T PROVE m + 1 \in T
  <2> HIDE DEF first, next
  <2>1. PICK f : Is(f, m)
    BY <1>2
  <2> DEFINE g == [t \in 1..(m + 1) |-> IF t = m + 1 THEN (IF t = 1 THEN first ELSE next(f[m], t))
                                        ELSE f[t]]
  <2>2. Is(g, m + 1)
    BY <2>1
  <2> HIDE DEF Is, g
  <2>3. QED  BY <2>2
<1>3. \E f : Is(f, Len(obs))
  <2> HIDE DEF Is
  <2>1. QED  BY <1>1, <1>2, Induction
<1>4. Best(obs) = CHOOSE f : Is(f, Len(obs))
  BY DEF Best
<1>5. Is(Best(obs), Len(obs))
  <2> HIDE DEF Is
  <2>1. QED  BY <1>3, <1>4
<1>6. QED  BY <1>5

\* A cell of the next row: the best of the row before, and one step.
Ways(row, s) == [r \in HiddenStates |-> row[r] + Step(r, s)]

LEMMA WaysType ==
    ASSUME NEW row \in [HiddenStates -> Int], NEW s \in HiddenStates
    PROVE  /\ Ways(row, s) \in [HiddenStates -> Int]
           /\ Max({row[r] + Log(Hmm.transition[r][s]) : r \in HiddenStates})
                = Ways(row, s)[FirstBest(Ways(row, s))]
<1>1. \A r \in HiddenStates : row[r] + Step(r, s) \in Int
  BY HmmAssumption DEF Step
<1>2. Ways(row, s) \in [HiddenStates -> Int]
  BY <1>1 DEF Ways
<1> DEFINE S == {row[r] + Log(Hmm.transition[r][s]) : r \in HiddenStates}
           x == Ways(row, s)[FirstBest(Ways(row, s))]
<1>3. FirstBest(Ways(row, s)) \in HiddenStates
      /\ \A r \in HiddenStates : Ways(row, s)[r] <= x
  BY <1>2, FirstBestIs
<1>4. \A r \in HiddenStates : Ways(row, s)[r] = row[r] + Log(Hmm.transition[r][s])
  BY DEF Ways, Step
<1>5. S \subseteq Int /\ x \in S /\ \A y \in S : x >= y
  BY <1>1, <1>3, <1>4 DEF Step
<1> HIDE DEF S, x
<1>6. Max(S) = x
  BY <1>5, MaxIs
<1>7. QED  BY <1>2, <1>6 DEF S, x

LEMMA BestRows ==
    ASSUME NEW obs \in Seq(Int)
    PROVE  \A t \in 1..Len(obs) :
             /\ Best(obs)[t] \in [HiddenStates -> Int]
             /\ \A s \in HiddenStates :
                 /\ t = 1 => Best(obs)[t][s] = Log(Hmm.initial_pi[s]) + Likely(t, s, obs)
                 /\ t > 1 => LET ways == Ways(Best(obs)[t - 1], s)
                             IN Best(obs)[t][s] = Likely(t, s, obs) + ways[FirstBest(ways)]
<1> DEFINE best == Best(obs)
           Row(t) == best[t] \in [HiddenStates -> Int]
           T == {t \in Nat : t \in 1..Len(obs) => Row(t)}
<1>1. Len(obs) \in Nat /\ \A t \in 1..Len(obs) : obs[t] \in Int
  OBVIOUS
<1> DEFINE top(before, s) == Max({before[r] + Log(Hmm.transition[r][s]) : r \in HiddenStates})
<1>2. best = [t \in 1..Len(obs) |->
              IF t = 1 THEN [s \in HiddenStates |-> Log(Hmm.initial_pi[s]) + LogDensity(s, obs[1])]
              ELSE [s \in HiddenStates |-> LogDensity(s, obs[t]) + top(best[t - 1], s)]]
  BY <1>1, BestExists
<1>0. ASSUME NEW row \in [HiddenStates -> Int], NEW s \in HiddenStates
      PROVE  /\ top(row, s) = Ways(row, s)[FirstBest(Ways(row, s))]
             /\ top(row, s) \in Int
  BY WaysType, FirstBestIs
<1> HIDE DEF best, top
<1>3. ASSUME 1 \in 1..Len(obs)
      PROVE  best[1] = [s \in HiddenStates |-> Log(Hmm.initial_pi[s]) + LogDensity(s, obs[1])]
  BY <1>2, <1>3
<1>4. ASSUME NEW t \in 1..Len(obs), t > 1
      PROVE  best[t] = [s \in HiddenStates |-> LogDensity(s, obs[t]) + top(best[t - 1], s)]
  <2>1. t # 1
    BY <1>4
  <2>2. QED  BY <1>2, <2>1
<1>5. ASSUME NEW t \in 1..Len(obs), t > 1, Row(t - 1), NEW s \in HiddenStates
      PROVE  LET ways == Ways(best[t - 1], s)
             IN  best[t][s] = Likely(t, s, obs) + ways[FirstBest(ways)]
                 /\ ways[FirstBest(ways)] \in Int
  <2>1. top(best[t - 1], s) = Ways(best[t - 1], s)[FirstBest(Ways(best[t - 1], s))]
        /\ top(best[t - 1], s) \in Int
    BY <1>5, <1>0
  <2>2. best[t][s] = LogDensity(s, obs[t]) + top(best[t - 1], s)
    BY <1>4, <1>5
  <2>3. QED  BY <2>1, <2>2 DEF Likely
<1>6. ASSUME NEW t \in 1..Len(obs), t > 1, Row(t - 1) PROVE Row(t)
  <2>1. \A s \in HiddenStates : LogDensity(s, obs[t]) + top(best[t - 1], s) \in Int
    BY <1>1, <1>0, <1>6, Densities
  <2>2. QED  BY <1>4, <1>6, <2>1
<1>7. 0 \in T
  OBVIOUS
<1>8. ASSUME NEW t \in Nat, t \in T PROVE t + 1 \in T
  <2> SUFFICES ASSUME t + 1 \in 1..Len(obs) PROVE Row(t + 1)
    OBVIOUS
  <2>1. CASE t = 0
    <3>1. \A s \in HiddenStates : Log(Hmm.initial_pi[s]) + LogDensity(s, obs[1]) \in Int
      BY <1>1, <2>1, Densities, HmmAssumption
    <3>2. QED  BY <1>3, <2>1, <3>1
  <2>2. CASE t > 0
    <3>1. t \in 1..Len(obs) /\ t + 1 > 1 /\ (t + 1) - 1 = t
      BY <1>1, <2>2
    <3>2. QED  BY <1>6, <1>8, <3>1
  <2>3. QED  BY <2>1, <2>2
<1>9. \A t \in 1..Len(obs) : Row(t)
  <2> HIDE DEF Row
  <2>1. Nat \subseteq T
    BY <1>7, <1>8, Induction
  <2>2. QED  BY <1>1, <2>1
<1>10. \A t \in 1..Len(obs) : \A s \in HiddenStates :
          t = 1 => best[t][s] = Log(Hmm.initial_pi[s]) + Likely(t, s, obs)
  BY <1>3 DEF Likely
<1>11. ASSUME NEW t \in 1..Len(obs), t > 1 PROVE Row(t - 1)
  BY <1>1, <1>9, <1>11
<1>12. QED  BY <1>5, <1>9, <1>10, <1>11 DEF best

\* The path is followed back from its end.
LEMMA PathIs ==
    ASSUME NEW obs \in Seq(Int), Len(obs) > 0
    PROVE  /\ Viterbi(obs) \in [1..Len(obs) -> HiddenStates]
           /\ Viterbi(obs)[Len(obs)] = FirstBest(Best(obs)[Len(obs)])
           /\ \A t \in 1..Len(obs) : t < Len(obs) =>
                Viterbi(obs)[t] = FirstBest(Ways(Best(obs)[t], Viterbi(obs)[t + 1]))
<1> DEFINE best == Best(obs)
           n == Len(obs)
           back(t, s) == FirstBest([r \in HiddenStates |-> best[t - 1][r] + Log(Hmm.transition[r][s])])
           Is(f, k) == f = [t \in k..n |-> IF t = n THEN FirstBest(best[t]) ELSE back(t + 1, f[t + 1])]
           T == {m \in Nat : m < n => \E f : Is(f, n - m)}
<1>1. n \in Nat /\ n > 0 /\ DOMAIN obs = 1..n
  OBVIOUS
<1>2. Viterbi(obs) = [t \in DOMAIN obs |->
        (CHOOSE f : f = [u \in DOMAIN obs |-> IF u = Len(obs) THEN FirstBest(best[u])
                                              ELSE back(u + 1, f[u + 1])])[t]]
  BY DEF Viterbi
<1>3. Viterbi(obs) = [t \in 1..n |-> (CHOOSE f : Is(f, 1))[t]]
  BY <1>1, <1>2
<1>4. \A t \in 1..n : best[t] \in [HiddenStates -> Int]
  BY BestRows
<1>5. \A t \in 1..n : \A s : t < n => back(t + 1, s) = FirstBest(Ways(best[t], s))
  BY <1>1 DEF Ways, Step
<1> HIDE DEF best, n, back
<1>6. 0 \in T
  <2>1. Is([t \in n..n |-> FirstBest(best[t])], n)
    BY <1>1
  <2>2. n - 0 = n
    BY <1>1
  <2> HIDE DEF Is
  <2>3. QED  BY <2>1, <2>2
<1>7. ASSUME NEW m \in Nat, m \in T PROVE m + 1 \in T
  <2> SUFFICES ASSUME m + 1 < n PROVE \E f : Is(f, n - (m + 1))
    OBVIOUS
  <2>1. PICK f : Is(f, n - m)
    BY <1>1, <1>7
  <2>2. PICK k \in Nat : k = n - (m + 1) /\ k >= 1 /\ k < n /\ n - m = k + 1
    BY <1>1
  <2> DEFINE g == [t \in k..n |-> IF t = k THEN back(t + 1, f[t + 1]) ELSE f[t]]
  <2>3. Is(g, k)
    BY <1>1, <2>1, <2>2
  <2> HIDE DEF Is, g
  <2>4. QED  BY <2>2, <2>3
<1>8. \E f : Is(f, 1)
  <2> HIDE DEF Is
  <2>1. Nat \subseteq T
    BY <1>6, <1>7, Induction
  <2>2. PICK m \in Nat : m = n - 1 /\ m < n /\ n - m = 1
    BY <1>1
  <2>3. m \in T
    BY <2>1
  <2>4. QED  BY <2>2, <2>3
<1>9. PICK f : Is(f, 1) /\ Viterbi(obs) = [t \in 1..n |-> f[t]]
  <2> HIDE DEF Is
  <2>1. QED  BY <1>3, <1>8
<1>10. Viterbi(obs) = f
  BY <1>9
<1> DEFINE S == {t \in Nat : t < n => f[n - t] \in HiddenStates}
<1>11. f[n] = FirstBest(best[n])
  BY <1>1, <1>9
<1>12. \A t \in 1..n : t < n => f[t] = back(t + 1, f[t + 1])
  BY <1>1, <1>9
<1>13. 0 \in S
  BY <1>1, <1>4, <1>11, FirstBestIs
<1>14. ASSUME NEW m \in Nat, m \in S PROVE m + 1 \in S
  <2> SUFFICES ASSUME m + 1 < n PROVE f[n - (m + 1)] \in HiddenStates
    OBVIOUS
  <2>1. PICK k \in 1..n : k = n - (m + 1) /\ k < n /\ n - m = k + 1
    BY <1>1
  <2>2. f[k + 1] \in HiddenStates
    BY <1>1, <1>14, <2>1
  <2>3. f[k] = FirstBest(Ways(best[k], f[k + 1]))
    BY <1>5, <1>12, <2>1
  <2>4. QED  BY <1>4, <2>1, <2>2, <2>3, WaysType, FirstBestIs
<1>15. \A t \in 1..n : f[t] \in HiddenStates
  <2>1. Nat \subseteq S
    BY <1>13, <1>14, Induction
  <2>2. ASSUME NEW t \in 1..n PROVE f[t] \in HiddenStates
    <3>1. n - t \in Nat /\ n - t < n /\ n - (n - t) = t
      BY <1>1
    <3>2. QED  BY <2>1, <3>1
  <2>3. QED  BY <2>2
<1>16. f \in [1..n -> HiddenStates]
  BY <1>9, <1>15
<1>17. QED  BY <1>5, <1>10, <1>11, <1>12, <1>16 DEF best, n

\* What a path and the observations so far are worth.
Worth(path, obs) ==
    CHOOSE f : f = [t \in 1..Len(obs) |-> LogDensity(path[t], obs[t]) +
                        IF t = 1 THEN Log(Hmm.initial_pi[path[1]])
                        ELSE f[t - 1] + Log(Hmm.transition[path[t - 1]][path[t]])]

LEMMA WorthIs ==
    ASSUME NEW obs \in Seq(Int), NEW path
    PROVE  \A t \in 1..Len(obs) : Worth(path, obs)[t] =
              LogDensity(path[t], obs[t]) +
              IF t = 1 THEN Log(Hmm.initial_pi[path[1]])
              ELSE Worth(path, obs)[t - 1] + Step(path[t - 1], path[t])
<1> DEFINE first == LogDensity(path[1], obs[1]) + Log(Hmm.initial_pi[path[1]])
           next(w, t) == LogDensity(path[t], obs[t]) + (w + Log(Hmm.transition[path[t - 1]][path[t]]))
           Is(f, m) == f = [t \in 1..m |-> IF t = 1 THEN first ELSE next(f[t - 1], t)]
           Is0(f, m) == f = [t \in 1..m |-> LogDensity(path[t], obs[t]) +
                        IF t = 1 THEN Log(Hmm.initial_pi[path[1]])
                        ELSE f[t - 1] + Log(Hmm.transition[path[t - 1]][path[t]])]
           T == {m \in Nat : \E f : Is(f, m)}
<1>1. 0 \in T
  <2> HIDE DEF first, next
  <2>1. Is([t \in 1..0 |-> first], 0)
    OBVIOUS
  <2>2. QED  BY <2>1
<1>2. ASSUME NEW m \in Nat, m \in T PROVE m + 1 \in T
  <2> HIDE DEF first, next
  <2>1. PICK f : Is(f, m)
    BY <1>2
  <2> DEFINE g == [t \in 1..(m + 1) |-> IF t = m + 1 THEN (IF t = 1 THEN first ELSE next(f[m], t))
                                        ELSE f[t]]
  <2>2. Is(g, m + 1)
    BY <2>1
  <2> HIDE DEF Is, g
  <2>3. QED  BY <2>2
<1>3. \E f : Is(f, Len(obs))
  <2> HIDE DEF Is
  <2>1. Len(obs) \in Nat
    OBVIOUS
  <2>2. Nat \subseteq T
    BY <1>1, <1>2, Induction
  <2>3. QED  BY <2>1, <2>2
<1>4. \E f : Is0(f, Len(obs))
  <2>1. PICK f : Is(f, Len(obs))
    BY <1>3
  <2>2. Is0(f, Len(obs))
    BY <2>1
  <2> HIDE DEF Is0
  <2>3. QED  BY <2>2
<1>5. Worth(path, obs) = CHOOSE f : Is0(f, Len(obs))
  BY DEF Worth
<1>6. Is0(Worth(path, obs), Len(obs))
  <2> HIDE DEF Is0
  <2>1. QED  BY <1>4, <1>5
<1>7. QED  BY <1>6 DEF Step

LEMMA PathLogIs ==
    ASSUME NEW obs \in Seq(Int), NEW path
    PROVE  PathLog(path, obs) = Worth(path, obs)[Len(obs)]
BY DEF PathLog, Worth

\* No path is worth more than the cell of the table it leads to.
LEMMA NoPathIsBetter ==
    ASSUME NEW obs \in Seq(Int), NEW path \in [1..Len(obs) -> HiddenStates]
    PROVE  \A t \in 1..Len(obs) :
              Worth(path, obs)[t] \in Int /\ Worth(path, obs)[t] <= Best(obs)[t][path[t]]
<1> DEFINE w == Worth(path, obs)
           best == Best(obs)
           Below(t) == w[t] \in Int /\ w[t] <= best[t][path[t]]
           T == {t \in Nat : t \in 1..Len(obs) => Below(t)}
<1>1. Len(obs) \in Nat /\ \A t \in 1..Len(obs) : obs[t] \in Int /\ path[t] \in HiddenStates
  OBVIOUS
<1>2. \A t \in 1..Len(obs) : Likely(t, path[t], obs) \in Int
  BY <1>1, Densities DEF Likely
<1>3. 0 \in T
  OBVIOUS
<1>4. ASSUME NEW t \in Nat, t \in T PROVE t + 1 \in T
  <2> SUFFICES ASSUME t + 1 \in 1..Len(obs) PROVE Below(t + 1)
    OBVIOUS
  <2>1. CASE t = 0
    <3>1. w[1] = Likely(1, path[1], obs) + Log(Hmm.initial_pi[path[1]])
      <4>1. 1 \in 1..Len(obs)
        BY <2>1
      <4>2. QED  BY <4>1, WorthIs DEF Likely
    <3>2. best[1][path[1]] = Log(Hmm.initial_pi[path[1]]) + Likely(1, path[1], obs)
      BY <1>1, <2>1, BestRows
    <3>3. Log(Hmm.initial_pi[path[1]]) \in Int /\ Likely(1, path[1], obs) \in Int
      BY <1>1, <1>2, <2>1, HmmAssumption
    <3> HIDE DEF w, best
    <3>4. QED  BY <2>1, <3>1, <3>2, <3>3
  <2>2. CASE t > 0
    <3>1. t \in 1..Len(obs) /\ t + 1 > 1 /\ (t + 1) - 1 = t /\ t + 1 # 1
      BY <1>1, <2>2
    <3> DEFINE s == path[t + 1]
               ways == Ways(best[t], s)
    <3>2. w[t + 1] = Likely(t + 1, s, obs) + (w[t] + Step(path[t], s))
      BY <3>1, WorthIs DEF Likely
    <3>3. best[t + 1][s] = Likely(t + 1, s, obs) + ways[FirstBest(ways)]
      BY <1>1, <3>1, BestRows
    <3>4. ways \in [HiddenStates -> Int] /\ s \in HiddenStates /\ path[t] \in HiddenStates
      BY <1>1, <3>1, BestRows, WaysType
    <3>5. /\ ways[path[t]] = best[t][path[t]] + Step(path[t], s)
          /\ ways[path[t]] <= ways[FirstBest(ways)] /\ FirstBest(ways) \in HiddenStates
      BY <3>4, FirstBestIs DEF Ways
    <3>6. /\ best[t][path[t]] \in Int /\ Step(path[t], s) \in Int
          /\ Likely(t + 1, s, obs) \in Int /\ ways[FirstBest(ways)] \in Int
      BY <1>2, <3>1, <3>4, <3>5, BestRows, HmmAssumption DEF Step
    <3>7. w[t] \in Int /\ w[t] <= best[t][path[t]]
      BY <1>4, <3>1
    <3>8. PICK density \in Int, step \in Int, cell \in Int, top \in Int :
            /\ density = Likely(t + 1, s, obs) /\ step = Step(path[t], s)
            /\ cell = best[t][path[t]] /\ top = ways[FirstBest(ways)]
      BY <3>6
    <3> HIDE DEF w, best, s, ways
    <3>9. /\ w[t + 1] = density + (w[t] + step) /\ best[t + 1][s] = density + top
          /\ w[t] \in Int /\ w[t] <= cell /\ cell + step <= top
      BY <3>2, <3>3, <3>5, <3>7, <3>8
    <3>10. w[t + 1] \in Int /\ w[t + 1] <= best[t + 1][s]
      BY <3>9
    <3>11. QED  BY <3>10 DEF s
  <2>3. QED  BY <2>1, <2>2
<1>5. Nat \subseteq T
  <2> HIDE DEF Below
  <2>1. QED  BY <1>3, <1>4, Induction
<1>6. QED  BY <1>1, <1>5

\* The path that is followed back is worth the cells it leads through.
LEMMA PathIsWorth ==
    ASSUME NEW obs \in Seq(Int), Len(obs) > 0
    PROVE  \A t \in 1..Len(obs) : Worth(Viterbi(obs), obs)[t] = Best(obs)[t][Viterbi(obs)[t]]
<1> DEFINE path == Viterbi(obs)
           w == Worth(path, obs)
           best == Best(obs)
           Equal(t) == w[t] = best[t][path[t]]
           T == {t \in Nat : t \in 1..Len(obs) => Equal(t)}
<1>1. Len(obs) \in Nat /\ \A t \in 1..Len(obs) : obs[t] \in Int /\ path[t] \in HiddenStates
  <2>1. path \in [1..Len(obs) -> HiddenStates]
    BY PathIs
  <2> HIDE DEF path
  <2>2. QED  BY <2>1
<1>2. \A t \in 1..Len(obs) : Likely(t, path[t], obs) \in Int
  BY <1>1, Densities DEF Likely
<1>3. 0 \in T
  OBVIOUS
<1>4. ASSUME NEW t \in Nat, t \in T PROVE t + 1 \in T
  <2> SUFFICES ASSUME t + 1 \in 1..Len(obs) PROVE Equal(t + 1)
    OBVIOUS
  <2>1. CASE t = 0
    <3>1. w[1] = Likely(1, path[1], obs) + Log(Hmm.initial_pi[path[1]])
      <4>1. 1 \in 1..Len(obs)
        BY <2>1
      <4>2. \A u \in 1..Len(obs) : u = 1 =>
              w[u] = LogDensity(path[u], obs[u]) + Log(Hmm.initial_pi[path[1]])
        <5> HIDE DEF path
        <5>1. QED  BY WorthIs
      <4> HIDE DEF path, w
      <4>3. QED  BY <4>1, <4>2 DEF Likely
    <3>2. best[1][path[1]] = Log(Hmm.initial_pi[path[1]]) + Likely(1, path[1], obs)
      BY <1>1, <2>1, BestRows
    <3>3. Log(Hmm.initial_pi[path[1]]) \in Int /\ Likely(1, path[1], obs) \in Int
      BY <1>1, <1>2, <2>1, HmmAssumption
    <3> HIDE DEF w, best, path
    <3>4. QED  BY <2>1, <3>1, <3>2, <3>3
  <2>2. CASE t > 0
    <3>1. t \in 1..Len(obs) /\ t < Len(obs) /\ t + 1 > 1 /\ (t + 1) - 1 = t /\ t + 1 # 1
      BY <1>1, <2>2
    <3> DEFINE s == path[t + 1]
               ways == Ways(best[t], s)
    <3>2. w[t + 1] = Likely(t + 1, s, obs) + (w[t] + Step(path[t], s))
      BY <3>1, WorthIs DEF Likely
    <3>3. best[t + 1][s] = Likely(t + 1, s, obs) + ways[FirstBest(ways)]
      BY <1>1, <3>1, BestRows
    <3>4. path[t] = FirstBest(ways) /\ path[t] \in HiddenStates
      BY <1>1, <3>1, PathIs
    <3>5. ways[path[t]] = best[t][path[t]] + Step(path[t], s)
      BY <3>4 DEF Ways
    <3>6. w[t] = best[t][path[t]]
      BY <1>4, <3>1
    <3> HIDE DEF w, best, path, ways
    <3>7. w[t + 1] = best[t + 1][s]
      BY <3>2, <3>3, <3>4, <3>5, <3>6
    <3>8. QED  BY <3>7
  <2>3. QED  BY <2>1, <2>2
<1>5. Nat \subseteq T
  <2> HIDE DEF Equal
  <2>1. QED  BY <1>3, <1>4, Induction
<1>6. QED  BY <1>1, <1>5

\* _viterbi: of all sequences of hidden states none is more likely, whatever was observed.
THEOREM ViterbiIsOptimal ==
    ASSUME NEW obs \in Seq(Int), Len(obs) > 0, NEW path \in [DOMAIN obs -> HiddenStates]
    PROVE  PathLog(path, obs) <= PathLog(Viterbi(obs), obs)
<1> DEFINE n == Len(obs)
           best == Best(obs)
           end == FirstBest(best[n])
<1>1. n \in 1..n /\ DOMAIN obs = 1..n /\ path[n] \in HiddenStates
  OBVIOUS
<1>2. Worth(path, obs)[n] \in Int /\ Worth(path, obs)[n] <= best[n][path[n]]
  BY <1>1, NoPathIsBetter
<1>3. best[n] \in [HiddenStates -> Int]
  BY <1>1, BestRows
<1>4. best[n][path[n]] <= best[n][end] /\ end \in HiddenStates
  BY <1>1, <1>3, FirstBestIs
<1>5. Worth(Viterbi(obs), obs)[n] = best[n][end]
  BY <1>1, PathIs, PathIsWorth
<1>6. best[n][path[n]] \in Int /\ best[n][end] \in Int
  BY <1>1, <1>3, <1>4
<1> HIDE DEF best, end
<1>7. Worth(path, obs)[n] <= Worth(Viterbi(obs), obs)[n]
  BY <1>2, <1>4, <1>5, <1>6
<1>8. QED  BY <1>7, PathLogIs

-----------------------------------------------------------------------------
(* Figures: the sums of a forecast *)

\* The sums are what the recursion says: the function it describes exists.
LEMMA SumsExist ==
    ASSUME NEW s, Len(s) \in Nat
    PROVE  Sums(s) = [n \in 0 .. Len(s) |-> IF n = 0 THEN 0 ELSE Sums(s)[n - 1] + s[n]]
<1> DEFINE Is(f, m) == f = [n \in 0 .. m |-> IF n = 0 THEN 0 ELSE f[n - 1] + s[n]]
           T == {m \in Nat : \E f : Is(f, m)}
<1>1. 0 \in T
  <2>1. Is([n \in 0 .. 0 |-> 0], 0)
    OBVIOUS
  <2>2. QED  BY <2>1
<1>2. ASSUME NEW m \in Nat, m \in T PROVE m + 1 \in T
  <2>1. PICK f : Is(f, m)
    BY <1>2
  <2> DEFINE g == [n \in 0 .. (m + 1) |-> IF n = m + 1 THEN f[m] + s[m + 1] ELSE f[n]]
  <2>2. Is(g, m + 1)
    BY <2>1
  <2> HIDE DEF Is, g
  <2>3. QED  BY <2>2
<1>3. \E f : Is(f, Len(s))
  <2> HIDE DEF Is
  <2>1. QED  BY <1>1, <1>2, Induction
<1>4. Sums(s) = CHOOSE f : Is(f, Len(s))
  BY DEF Sums
<1>5. Is(Sums(s), Len(s))
  <2> HIDE DEF Is
  <2>1. QED  BY <1>3, <1>4
<1>6. QED  BY <1>5

LEMMA SumStep ==
    ASSUME NEW s \in Seq(Int)
    PROVE  /\ Sums(s)[0] = 0
           /\ \A n \in Nat : n < Len(s) => Sums(s)[n + 1] = Sums(s)[n] + s[n + 1]
<1>1. Len(s) \in Nat
  OBVIOUS
<1> DEFINE F == Sums(s)
<1>2. F = [n \in 0 .. Len(s) |-> IF n = 0 THEN 0 ELSE F[n - 1] + s[n]]
  BY <1>1, SumsExist
<1> HIDE DEF F
<1>3. \A n \in 0 .. Len(s) : F[n] = IF n = 0 THEN 0 ELSE F[n - 1] + s[n]
  BY <1>2
<1>4. QED  BY <1>1, <1>3 DEF F

LEMMA SumType ==
    ASSUME NEW s \in Seq(Int)
    PROVE  (\A n \in 0 .. Len(s) : Sums(s)[n] \in Int) /\ Total(s) \in Int
<1> DEFINE T == {n \in Nat : n <= Len(s) => Sums(s)[n] \in Int}
<1>1. Len(s) \in Nat /\ \A n \in 1 .. Len(s) : s[n] \in Int
  OBVIOUS
<1>2. 0 \in T
  BY SumStep
<1>3. ASSUME NEW n \in Nat, n \in T PROVE n + 1 \in T
  <2> SUFFICES ASSUME n + 1 <= Len(s) PROVE Sums(s)[n + 1] \in Int
    OBVIOUS
  <2>1. Sums(s)[n] \in Int /\ s[n + 1] \in Int
    BY <1>1, <1>3
  <2>2. Sums(s)[n + 1] = Sums(s)[n] + s[n + 1]
    BY <1>1, SumStep
  <2>3. QED  BY <2>1, <2>2
<1>4. Nat \subseteq T
  BY <1>2, <1>3, Induction
<1>5. QED  BY <1>1, <1>4 DEF Total

\* A stretch of a sequence sums up to the difference of two partial sums.
LEMMA SumOfStretch ==
    ASSUME NEW s \in Seq(Int), NEW a \in Nat, NEW b \in Nat, a <= b, b <= Len(s)
    PROVE  Total(SubSeq(s, a + 1, b)) = Sums(s)[b] - Sums(s)[a]
<1> DEFINE stretch == SubSeq(s, a + 1, b)
           T == {n \in Nat : n <= b - a => Sums(stretch)[n] = Sums(s)[a + n] - Sums(s)[a]}
<1>1. /\ Len(s) \in Nat /\ stretch \in Seq(Int) /\ Len(stretch) = b - a
      /\ \A n \in 1 .. (b - a) : stretch[n] = s[a + n]
  OBVIOUS
<1>2. \A n \in 0 .. Len(s) : Sums(s)[n] \in Int
  BY SumType
<1> HIDE DEF stretch
<1>3. 0 \in T
  <2>1. Sums(stretch)[0] = 0 /\ a + 0 = a /\ a \in 0 .. Len(s)
    BY <1>1, SumStep
  <2>2. Sums(s)[a] \in Int
    BY <1>2, <2>1
  <2>3. QED  BY <2>1, <2>2
<1>4. ASSUME NEW n \in Nat, n \in T PROVE n + 1 \in T
  <2> SUFFICES ASSUME n + 1 <= b - a PROVE Sums(stretch)[n + 1] = Sums(s)[a + (n + 1)] - Sums(s)[a]
    OBVIOUS
  <2>1. Sums(stretch)[n + 1] = Sums(stretch)[n] + stretch[n + 1]
    BY <1>1, SumStep
  <2>2. Sums(s)[(a + n) + 1] = Sums(s)[a + n] + s[(a + n) + 1]
    <3>1. a + n \in Nat /\ a + n < Len(s)
      BY <1>1
    <3>2. QED  BY <3>1, SumStep
  <2>3. stretch[n + 1] = s[a + (n + 1)] /\ a + (n + 1) = (a + n) + 1
    BY <1>1
  <2>4. Sums(stretch)[n] = Sums(s)[a + n] - Sums(s)[a]
    BY <1>4
  <2>5. Sums(s)[a + n] \in Int /\ Sums(s)[a] \in Int /\ s[(a + n) + 1] \in Int
    BY <1>1, <1>2
  <2>6. QED  BY <2>1, <2>2, <2>3, <2>4, <2>5
<1>5. Nat \subseteq T
  BY <1>3, <1>4, Induction
<1>6. b - a \in T /\ a + (b - a) = b
  BY <1>5
<1>7. QED  BY <1>1, <1>6 DEF Total, stretch

\* The sum of the differences is the difference of the sums.
LEMMA SumOfDifferences ==
    ASSUME NEW s \in Seq(Int), NEW t \in Seq(Int), NEW d \in Seq(Int),
           Len(t) = Len(s), Len(d) = Len(s), \A i \in 1 .. Len(s) : d[i] = s[i] - t[i]
    PROVE  Total(d) = Total(s) - Total(t)
<1> DEFINE T == {n \in Nat : n <= Len(s) => Sums(d)[n] = Sums(s)[n] - Sums(t)[n]}
<1>1. Len(s) \in Nat
  OBVIOUS
<1>2. 0 \in T
  BY SumStep
<1>3. ASSUME NEW n \in Nat, n \in T PROVE n + 1 \in T
  <2> SUFFICES ASSUME n + 1 <= Len(s) PROVE Sums(d)[n + 1] = Sums(s)[n + 1] - Sums(t)[n + 1]
    OBVIOUS
  <2>1. /\ Sums(d)[n + 1] = Sums(d)[n] + d[n + 1]
        /\ Sums(s)[n + 1] = Sums(s)[n] + s[n + 1]
        /\ Sums(t)[n + 1] = Sums(t)[n] + t[n + 1]
    BY <1>1, SumStep
  <2>2. /\ Sums(s)[n] \in Int /\ Sums(t)[n] \in Int /\ s[n + 1] \in Int /\ t[n + 1] \in Int
        /\ Sums(d)[n] = Sums(s)[n] - Sums(t)[n] /\ d[n + 1] = s[n + 1] - t[n + 1]
    BY <1>1, <1>3, SumType
  <2>3. \A u, v, x, y \in Int : (u - v) + (x - y) = (u + x) - (v + y)
    OBVIOUS
  <2>4. Sums(d)[n + 1] = (Sums(s)[n] - Sums(t)[n]) + (s[n + 1] - t[n + 1])
    BY <2>1, <2>2
  <2>5. Sums(d)[n + 1] = (Sums(s)[n] + s[n + 1]) - (Sums(t)[n] + t[n + 1])
    BY <2>2, <2>3, <2>4
  <2>6. QED  BY <2>1, <2>5
<1>4. Nat \subseteq T
  BY <1>2, <1>3, Induction
<1>5. QED  BY <1>1, <1>4 DEF Total

Ahead == [1..Horizon -> Int]

LEMMA AheadIsSequence == ASSUME NEW s \in Ahead PROVE s \in Seq(Int) /\ Len(s) = Horizon
BY HorizonAssumption DEF Ahead

\* The quarters of a forecast add up to it.
LEMMA QuartersAddUp ==
    ASSUME NEW s \in Ahead
    PROVE  /\ \A q \in 1..4 : Quarters(s)[q] \in Int
           /\ Quarters(s)[1] + Quarters(s)[2] + Quarters(s)[3] + Quarters(s)[4] = Total(s)
<1>1. PICK m \in Nat : m = Horizon \div 4 /\ Horizon = 4 * m
  BY HorizonAssumption
<1>2. s \in Seq(Int) /\ Len(s) = 4 * m
  BY <1>1, AheadIsSequence
<1>3. \A k \in 0 .. (4 * m) : Sums(s)[k] \in Int
  BY <1>2, SumType
<1>4. ASSUME NEW q \in 1..4
      PROVE  /\ Quarters(s)[q] = Sums(s)[m * q] - Sums(s)[m * (q - 1)]
             /\ Quarters(s)[q] \in Int
  <2>1. Quarters(s)[q] = Total(SubSeq(s, m * (q - 1) + 1, m * q))
    BY <1>1 DEF Quarters
  <2>2. q \in {1, 2, 3, 4}
    OBVIOUS
  <2>3. /\ m * (q - 1) \in Nat /\ m * q \in Nat /\ m * (q - 1) <= m * q /\ m * q <= 4 * m
    BY <2>2
  <2>4. Quarters(s)[q] = Sums(s)[m * q] - Sums(s)[m * (q - 1)]
    BY <1>2, <2>1, <2>3, SumOfStretch
  <2>5. m * q \in 0 .. (4 * m) /\ m * (q - 1) \in 0 .. (4 * m)
    BY <2>3
  <2>6. Sums(s)[m * q] \in Int /\ Sums(s)[m * (q - 1)] \in Int
    BY <1>3, <2>5
  <2>7. QED  BY <2>4, <2>6
<1>5. /\ Quarters(s)[1] = Sums(s)[m] - Sums(s)[0] /\ Quarters(s)[2] = Sums(s)[2 * m] - Sums(s)[m]
      /\ Quarters(s)[3] = Sums(s)[3 * m] - Sums(s)[2 * m]
      /\ Quarters(s)[4] = Sums(s)[4 * m] - Sums(s)[3 * m]
  <2>1. /\ m * 1 = m /\ m * 2 = 2 * m /\ m * 3 = 3 * m /\ m * 4 = 4 * m /\ m * 0 = 0
        /\ 1 - 1 = 0 /\ 2 - 1 = 1 /\ 3 - 1 = 2 /\ 4 - 1 = 3
    OBVIOUS
  <2>2. \A q \in {1, 2, 3, 4} : Quarters(s)[q] = Sums(s)[m * q] - Sums(s)[m * (q - 1)]
    BY <1>4
  <2>3. QED  BY <2>1, <2>2
<1>6. Sums(s)[0] = 0 /\ Total(s) = Sums(s)[4 * m]
  BY <1>2, SumStep DEF Total
<1>7. Sums(s)[m] \in Int /\ Sums(s)[2 * m] \in Int /\ Sums(s)[3 * m] \in Int /\ Sums(s)[4 * m] \in Int
  <2>1. m \in 0 .. (4 * m) /\ 2 * m \in 0 .. (4 * m) /\ 3 * m \in 0 .. (4 * m) /\ 4 * m \in 0 .. (4 * m)
    OBVIOUS
  <2>2. QED  BY <1>3, <2>1
<1>8. QED  BY <1>4, <1>5, <1>6, <1>7

\* Net of each quarter, or of each month: the same in total.
LEMMA NetsAgree ==
    ASSUME NEW r \in Ahead, NEW o \in Ahead
    PROVE  Total([q \in 1..4 |-> Quarters(r)[q] - Quarters(o)[q]])
             = Total([m \in 1..Horizon |-> r[m] - o[m]])
<1> DEFINE quarterly == [q \in 1..4 |-> Quarters(r)[q] - Quarters(o)[q]]
           monthly == [m \in 1..Horizon |-> r[m] - o[m]]
<1>1. monthly \in Seq(Int) /\ Len(monthly) = Horizon
  BY HorizonAssumption DEF Ahead
<1>2. Total(monthly) = Total(r) - Total(o)
  BY <1>1, AheadIsSequence, SumOfDifferences
<1>3. quarterly \in Seq(Int) /\ Len(quarterly) = 4 /\ \A q \in 1..4 : quarterly[q] \in Int
  BY QuartersAddUp
<1>4. \A q \in 1..4 : quarterly[q] = Quarters(r)[q] - Quarters(o)[q]
  OBVIOUS
<1> HIDE DEF quarterly
<1>5. Total(quarterly) = quarterly[1] + quarterly[2] + quarterly[3] + quarterly[4]
  <2>1. /\ Sums(quarterly)[0] = 0
        /\ Sums(quarterly)[0 + 1] = Sums(quarterly)[0] + quarterly[0 + 1]
        /\ Sums(quarterly)[1 + 1] = Sums(quarterly)[1] + quarterly[1 + 1]
        /\ Sums(quarterly)[2 + 1] = Sums(quarterly)[2] + quarterly[2 + 1]
        /\ Sums(quarterly)[3 + 1] = Sums(quarterly)[3] + quarterly[3 + 1]
    <3>1. Sums(quarterly)[0] = 0 /\ \A n \in Nat : n < 4 =>
            Sums(quarterly)[n + 1] = Sums(quarterly)[n] + quarterly[n + 1]
      BY <1>3, SumStep
    <3>2. \A n \in {0, 1, 2, 3} : n \in Nat /\ n < 4
      OBVIOUS
    <3>3. \A n \in {0, 1, 2, 3} : Sums(quarterly)[n + 1] = Sums(quarterly)[n] + quarterly[n + 1]
      BY <3>1, <3>2
    <3>4. QED  BY <3>1, <3>3
  <2>2. quarterly[1] \in Int /\ quarterly[2] \in Int /\ quarterly[3] \in Int /\ quarterly[4] \in Int
    <3>1. 1 \in 1..4 /\ 2 \in 1..4 /\ 3 \in 1..4 /\ 4 \in 1..4
      OBVIOUS
    <3>2. QED  BY <1>3, <3>1
  <2>3. QED  BY <1>3, <2>1, <2>2 DEF Total
<1>6. /\ quarterly[1] = Quarters(r)[1] - Quarters(o)[1] /\ quarterly[2] = Quarters(r)[2] - Quarters(o)[2]
      /\ quarterly[3] = Quarters(r)[3] - Quarters(o)[3] /\ quarterly[4] = Quarters(r)[4] - Quarters(o)[4]
  BY <1>4
<1>7. /\ Quarters(r)[1] \in Int /\ Quarters(r)[2] \in Int /\ Quarters(r)[3] \in Int /\ Quarters(r)[4] \in Int
      /\ Quarters(o)[1] \in Int /\ Quarters(o)[2] \in Int /\ Quarters(o)[3] \in Int /\ Quarters(o)[4] \in Int
      /\ Quarters(r)[1] + Quarters(r)[2] + Quarters(r)[3] + Quarters(r)[4] = Total(r)
      /\ Quarters(o)[1] + Quarters(o)[2] + Quarters(o)[3] + Quarters(o)[4] = Total(o)
  BY QuartersAddUp
<1>8. Total(quarterly) = Total(r) - Total(o)
  BY <1>5, <1>6, <1>7
<1>9. QED  BY <1>2, <1>8 DEF quarterly

\* A forecast has a whole number for every month ahead.
LEMMA ForecastsType ==
    ASSUME NEW amounts \in Seq(Int), NEW fits, \A f \in fits : f \in [1..Horizon -> Int]
    PROVE  Forecasts(amounts, fits) \subseteq Ahead
<1> DEFINE n == Len(amounts)
           mean == IF n = 0 THEN 0 ELSE (6 * Total(amounts)) \div n
           slope == IF n < 2 THEN 0 ELSE (6 * (Last(amounts) - Head(amounts))) \div (n - 1)
<1>1. n \in Nat /\ Total(amounts) \in Int
  BY SumType
<1>2. \A a, b \in Int : b > 0 => a \div b \in Int
  OBVIOUS
<1>3. mean \in Int
  BY <1>1, <1>2
<1>4. slope \in Int
  <2>1. CASE n < 2
    BY <2>1
  <2>2. CASE n >= 2
    <3>1. Last(amounts) \in Int /\ Head(amounts) \in Int
      BY <2>2 DEF Last
    <3>2. 6 * (Last(amounts) - Head(amounts)) \in Int /\ n - 1 \in Int /\ n - 1 > 0 /\ ~(n < 2)
      BY <1>1, <2>2, <3>1
    <3> HIDE DEF n
    <3>3. QED  BY <1>2, <3>2
  <2>3. QED  BY <1>1, <2>1, <2>2
<1>5. \A x \in Int : Max({0, x}) \in Int
  <2>1. ASSUME NEW x \in Int PROVE Max({0, x}) \in Int
    <3>1. PICK y \in {0, x} : \A z \in {0, x} : y >= z
      OBVIOUS
    <3>2. {0, x} \in SUBSET Int
      OBVIOUS
    <3> DEFINE S == {0, x}
    <3>3. y \in S /\ S \in SUBSET Int /\ \A z \in S : y >= z
      BY <3>1, <3>2
    <3> HIDE DEF S
    <3>4. Max(S) = y
      BY <3>3, MaxIs
    <3> USE DEF S
    <3>5. QED  BY <3>1, <3>4
  <2>2. QED  BY <2>1
<1>6. ShortForecast(amounts) = [m \in 1..Horizon |-> Max({0, mean + slope * m})]
  BY DEF ShortForecast
<1> HIDE DEF mean, slope
<1>7. \A m \in 1..Horizon : mean + slope * m \in Int
  BY <1>3, <1>4, HorizonAssumption
<1>8. ShortForecast(amounts) \in Ahead
  BY <1>5, <1>6, <1>7 DEF Ahead
<1>9. QED  BY <1>8 DEF Forecasts, Ahead

-----------------------------------------------------------------------------
(* Figures: the excerpts within reach *)

\* Every row that is taken is near enough.
LEMMA RelevantIsNear ==
    ASSUME NEW s \in Seq(Nat)
    PROVE  Relevant(s) \in Seq({d \in Nat : d <= MAX_L2_DISTANCE})
<1> DEFINE next(near, n) ==
              IF Distance(s[n]) <= MAX_L2_DISTANCE THEN Append(near, s[n]) ELSE near
           Is(f, m) == f = [n \in 0..m |-> IF n = 0 THEN <<>> ELSE next(f[n - 1], n)]
           Near == {d \in Nat : d <= MAX_L2_DISTANCE}
           T == {m \in Nat : \E f : Is(f, m)}
<1>1. Len(s) \in Nat /\ \A n \in 1..Len(s) : s[n] \in Nat
  OBVIOUS
<1>2. 0 \in T
  <2>1. Is([n \in 0..0 |-> <<>>], 0)
    OBVIOUS
  <2>2. QED  BY <2>1
<1>3. ASSUME NEW m \in Nat, m \in T PROVE m + 1 \in T
  <2>1. PICK f : Is(f, m)
    BY <1>3
  <2> DEFINE g == [n \in 0..(m + 1) |-> IF n = m + 1 THEN next(f[m], n) ELSE f[n]]
  <2>2. Is(g, m + 1)
    <3> HIDE DEF next
    <3>1. QED  BY <2>1
  <2> HIDE DEF Is, g
  <2>3. QED  BY <2>2
<1>4. \E f : Is(f, Len(s))
  <2> HIDE DEF Is
  <2>1. Nat \subseteq T
    BY <1>2, <1>3, Induction
  <2>2. QED  BY <1>1, <2>1
<1>5. Relevant(s) = (CHOOSE f : Is(f, Len(s)))[Len(s)]
  BY DEF Relevant
<1>6. PICK f : Is(f, Len(s)) /\ Relevant(s) = f[Len(s)]
  <2> HIDE DEF Is
  <2>1. QED  BY <1>4, <1>5
<1> DEFINE S == {n \in Nat : n <= Len(s) => f[n] \in Seq(Near)}
<1>7. \A n \in 0..Len(s) : f[n] = IF n = 0 THEN <<>> ELSE next(f[n - 1], n)
  <2> HIDE DEF next
  <2>1. QED  BY <1>6
<1>8. 0 \in S
  <2> HIDE DEF Near, next
  <2>1. f[0] = <<>>
    BY <1>1, <1>7
  <2>2. <<>> \in Seq(Near)
    OBVIOUS
  <2>3. QED  BY <2>1, <2>2
<1>9. ASSUME NEW n \in Nat, n \in S PROVE n + 1 \in S
  <2> SUFFICES ASSUME n + 1 <= Len(s) PROVE f[n + 1] \in Seq(Near)
    OBVIOUS
  <2>1. f[n] \in Seq(Near) /\ s[n + 1] \in Nat
    BY <1>1, <1>9
  <2>2. f[n + 1] = next(f[n], n + 1)
    <3> HIDE DEF next
    <3>1. QED  BY <1>1, <1>7
  <2>3. ASSUME Distance(s[n + 1]) <= MAX_L2_DISTANCE PROVE s[n + 1] \in Near
    BY <2>1, <2>3 DEF Distance, MAX_L2_DISTANCE
  <2> HIDE DEF Near
  <2>4. QED  BY <2>1, <2>2, <2>3
<1> HIDE DEF S, Near
<1>10. Nat \subseteq S
  BY <1>8, <1>9, Induction
<1>11. Relevant(s) \in Seq(Near)
  BY <1>1, <1>6, <1>10 DEF S
<1>12. QED  BY <1>11 DEF Near

LEMMA MinIs ==
    ASSUME NEW a \in Int, NEW b \in Int
    PROVE  Min({a, b}) = IF a <= b THEN a ELSE b
<1> DEFINE S == {a, b}
           m == IF a <= b THEN a ELSE b
<1>1. m \in S /\ S \subseteq Int /\ \A x \in S : m <= x
  OBVIOUS
<1> HIDE DEF S, m
<1>2. Min(S) \in S /\ \A x \in S : Min(S) <= x
  BY <1>1 DEF Min
<1>3. PICK k \in Int : k = Min(S)
  BY <1>1, <1>2
<1>4. PICK l \in Int : l = m
  BY <1>1
<1>5. k <= l /\ l <= k
  BY <1>1, <1>2, <1>3, <1>4
<1>6. Min(S) = m
  BY <1>3, <1>4, <1>5
<1>7. QED  BY <1>6 DEF S, m

\* Nothing near enough, and only then, brings the standard rates.
LEMMA ExcerptsAreNear ==
    ASSUME NEW distances \in Seq(Nat), NEW embedded \in BOOLEAN, NEW answered \in BOOLEAN
    PROVE  LET found == Excerpts(distances, embedded, answered, 3) IN
           /\ embedded /\ answered => (found.near = <<>> <=> found.standard)
           /\ \A i \in DOMAIN found.near : found.near[i] <= MAX_L2_DISTANCE
<1> DEFINE fetched == SubSeq(distances, 1, Min({3 + 2, Len(distances)}))
           near == Relevant(fetched)
           shown == SubSeq(near, 1, Min({3, Len(near)}))
           found == Excerpts(distances, embedded, answered, 3)
           Near == {d \in Nat : d <= MAX_L2_DISTANCE}
<1>1. fetched \in Seq(Nat)
  <2>1. PICK k \in 0..Len(distances) : k = Min({3 + 2, Len(distances)})
    BY MinIs
  <2>2. SubSeq(distances, 1, k) \in Seq(Nat)
    OBVIOUS
  <2>3. QED  BY <2>1, <2>2
<1>2. near \in Seq(Near)
  <2> HIDE DEF fetched
  <2>1. QED  BY <1>1, RelevantIsNear
<1>3. /\ found.near = IF embedded /\ answered THEN shown ELSE <<>>
      /\ found.standard = (embedded /\ answered /\ near = <<>>)
  BY DEF Excerpts
<1> HIDE DEF near, found, Near
<1>4. PICK k \in 0..Len(near) : k = Min({3, Len(near)}) /\ (Len(near) > 0 => k > 0)
  <2>1. Len(near) \in Nat
    BY <1>2
  <2>2. QED  BY <2>1, MinIs
<1>5. shown = SubSeq(near, 1, k)
  BY <1>4
<1>6. shown \in Seq(Near) /\ Len(shown) = k
  <2>1. SubSeq(near, 1, k) \in Seq(Near) /\ Len(SubSeq(near, 1, k)) = k
    <3>1. \A i \in 1 .. k : near[i] \in Near
      BY <1>2, <1>4
    <3>2. k \in Nat
      BY <1>2, <1>4
    <3>3. QED  BY <3>1, <3>2, SubSeqProperties
  <2>2. QED  BY <1>5, <2>1
<1> HIDE DEF shown
<1>7. shown = <<>> <=> near = <<>>
  <2>1. near = <<>> <=> Len(near) = 0
    BY <1>2
  <2>2. shown = <<>> <=> Len(shown) = 0
    BY <1>6
  <2>3. QED  BY <1>2, <1>4, <1>6, <2>1, <2>2
<1>8. \A i \in DOMAIN shown : shown[i] \in Near
  BY <1>6
<1>9. \A i \in DOMAIN shown : shown[i] <= MAX_L2_DISTANCE
  BY <1>8 DEF Near
<1>10. embedded /\ answered => (found.near = <<>> <=> found.standard)
  BY <1>3, <1>7
<1>11. \A i \in DOMAIN found.near : found.near[i] <= MAX_L2_DISTANCE
  <2>1. CASE embedded /\ answered
    BY <1>3, <1>9, <2>1
  <2>2. CASE ~(embedded /\ answered)
    BY <1>3, <2>2
  <2>3. QED  BY <2>1, <2>2
<1>12. QED  BY <1>10, <1>11 DEF found

\* A finite set of numbers that is not empty has a greatest one.
LEMMA Greatest ==
    ASSUME NEW S \in SUBSET Int, IsFiniteSet(S), S # {}
    PROVE  \E x \in S : \A y \in S : y <= x
<1> DEFINE Greatest0(X) == \E x \in X : \A y \in X : y <= x
           T == {n \in Nat : \A X \in SUBSET Int :
                    IsFiniteSet(X) /\ Cardinality(X) = n /\ n > 0 => Greatest0(X)}
<1>1. 0 \in T
  OBVIOUS
<1>2. ASSUME NEW n \in Nat, n \in T PROVE n + 1 \in T
  <2> SUFFICES ASSUME NEW X \in SUBSET Int, IsFiniteSet(X), Cardinality(X) = n + 1
               PROVE  Greatest0(X)
    OBVIOUS
  <2>1. PICK x \in X : TRUE
    <3>1. n + 1 # 0
      OBVIOUS
    <3>2. QED  BY <3>1, FS_EmptySet
  <2> DEFINE rest == X \ {x}
  <2>2. IsFiniteSet(rest) /\ Cardinality(rest) = n /\ rest \in SUBSET Int
    <3>1. IsFiniteSet(rest) /\ Cardinality(rest) = Cardinality(X) - 1
      BY <2>1, FS_RemoveElement
    <3>2. QED  BY <3>1
  <2>3. CASE rest = {}
    <3>1. \A y \in X : y = x
      BY <2>3
    <3>2. QED  BY <3>1
  <2>4. CASE rest # {}
    <3>1. n > 0
      BY <2>2, <2>4, FS_EmptySet
    <3>2. PICK m \in rest : \A y \in rest : y <= m
      BY <1>2, <2>2, <3>1
    <3>3. \A y \in X : y = x \/ y \in rest
      OBVIOUS
    <3>4. x \in Int /\ m \in Int /\ m \in X
      OBVIOUS
    <3>5. CASE m <= x
      <4>1. \A y \in X : y <= x
        <5>1. ASSUME NEW y \in rest PROVE y <= x
          BY <3>2, <3>4, <3>5
        <5>2. QED  BY <3>3, <3>4, <5>1
      <4>2. QED  BY <4>1
    <3>6. CASE x <= m
      BY <3>2, <3>3, <3>4, <3>6
    <3>7. QED  BY <3>4, <3>5, <3>6
  <2>5. QED  BY <2>3, <2>4
<1>3. Nat \subseteq T
  <2> HIDE DEF Greatest0
  <2>1. QED  BY <1>1, <1>2, Induction
<1>4. Cardinality(S) \in Nat /\ Cardinality(S) > 0
  BY FS_EmptySet, FS_CardinalityType
<1>5. QED  BY <1>3, <1>4

-----------------------------------------------------------------------------
(* Figures: the rates of a day *)

ScheduleOK ==
    /\ DOMAIN schedule \subseteq RateKeys \X Days
    /\ \A row \in DOMAIN schedule : schedule[row] \in Nat

AuditorKeys == DOMAIN AgentTuning.auditor

\* An auditor's section has fields of its types wherever it may come from.
AuditorTyped ==
    /\ BootsWith(Environment)
    /\ \A t \in ToSet(tables) : "auditor" \in DOMAIN t => t["auditor"] \in Payloads("auditor")
    /\ \A p \in Processes : "auditor" \in DOMAIN overlay[p] => overlay[p]["auditor"] \in AuditorFields

LEMMA ScheduleStep == ScheduleOK /\ RatesNext => ScheduleOK'
<1> SUFFICES ASSUME ScheduleOK, NEW key \in RateKeys, NEW day \in Days, NEW rate \in Rates,
                    SetTaxRate(key, day, rate)
             PROVE  ScheduleOK'
  BY DEF RatesNext
<1>1. schedule' = [row \in DOMAIN schedule \cup {<<key, day>>} |->
                     IF row = <<key, day>> THEN rate ELSE schedule[row]]
  BY DEF SetTaxRate, Store
<1>2. rate \in Nat
  BY TuningAssumption
<1>3. QED  BY <1>1, <1>2 DEF ScheduleOK

LEMMA DefaultRates ==
    /\ AuditorKeys = {"vat_rate", "vat_threshold_annual_kes", "cit_rate", "tot_rate",
                      "aml_reporting_threshold_kes"}
    /\ \A key \in AuditorKeys : AgentTuning.auditor[key] \in Nat
BY DEF AuditorKeys, AgentTuning

LEMMA AuditorStep ==
    TuningInv /\ AuditorTyped /\ [TuningNext \/ RatesNext]_tuningVars => AuditorTyped'
<1> SUFFICES ASSUME TuningInv, AuditorTyped, [TuningNext \/ RatesNext]_tuningVars
             PROVE  AuditorTyped'
  OBVIOUS
<1>1. BootsWith(Environment)'
  BY DEF AuditorTyped, BootsWith
<1>2. ASSUME UNCHANGED <<tables, overlay>> PROVE AuditorTyped'
  BY <1>1, <1>2 DEF AuditorTyped
<1>3. ASSUME NEW r \in Refreshers, RefreshInstall(r) PROVE AuditorTyped'
  <2>1. PICK q, rows : q = refresh[r].process /\ rows = refresh[r].read
    OBVIOUS
  <2>2. q \in Processes /\ rows \in ToSet(tables) /\ UNCHANGED tables
    BY <1>3, <2>1 DEF RefreshInstall, TuningInv
  <2>3. UNCHANGED overlay \/ overlay' = [overlay EXCEPT ![q] = Installed(rows)]
    BY <1>3, <2>1 DEF RefreshInstall, SetOverlay
  <2>4. "auditor" \in DOMAIN Installed(rows) => Installed(rows)["auditor"] \in AuditorFields
    <3> SUFFICES ASSUME "auditor" \in DOMAIN Installed(rows)
                 PROVE  Installed(rows)["auditor"] \in AuditorFields
      OBVIOUS
    <3>1. /\ "auditor" \in DOMAIN rows /\ Accepted("auditor", rows["auditor"])
          /\ Installed(rows)["auditor"] = rows["auditor"].values
      BY DEF Installed
    <3>2. rows["auditor"] \in Payloads("auditor")
      BY <2>2, <3>1 DEF AuditorTyped
    <3>3. QED
      BY <3>1, <3>2, TuningAssumption DEF Accepted, Coerces, Comparable
  <2>5. ASSUME NEW p \in Processes, "auditor" \in DOMAIN overlay'[p]
        PROVE  overlay'[p]["auditor"] \in AuditorFields
    <3>1. CASE overlay'[p] = overlay[p]
      BY <2>5, <3>1 DEF AuditorTyped
    <3>2. CASE overlay'[p] = Installed(rows)
      BY <2>4, <2>5, <3>2
    <3>3. QED  BY <2>3, <3>1, <3>2 DEF TuningInv
  <2>6. QED  BY <1>1, <2>2, <2>5 DEF AuditorTyped
<1>4. ASSUME NEW s \in Sections, NEW payload \in Payloads(s),
             tables' = Append(tables, Store(Table, s, payload)), UNCHANGED overlay
      PROVE  AuditorTyped'
  <2>1. PICK S : tables \in Seq(S)
    BY DEF TuningInv
  <2>2. ToSet(tables)' \subseteq ToSet(tables) \cup {Store(Table, s, payload)}
    BY <1>4, <2>1 DEF ToSet
  <2>3. Table \in ToSet(tables)
    BY DEF Table, Last, ToSet, TuningInv
  <2>4. "auditor" \in DOMAIN Store(Table, s, payload)
            => Store(Table, s, payload)["auditor"] \in Payloads("auditor")
    BY <2>3 DEF Store, AuditorTyped
  <2>5. \A t \in ToSet(tables)' : "auditor" \in DOMAIN t => t["auditor"] \in Payloads("auditor")
    <3> HIDE DEF Store, ToSet, Table
    <3>1. QED  BY <2>2, <2>4 DEF AuditorTyped
  <2>6. QED  BY <1>1, <1>4, <2>5 DEF AuditorTyped
<1>5. QED
  <2>1. CASE RefreshNext
    BY <2>1, <1>2, <1>3
    DEF RefreshNext, ReadTuning, TimeToLiveEnds, RefreshFails, RefreshRead
  <2>2. CASE \E s \in Sections : StoreNext(s)
    BY <2>2, <1>4 DEF StoreNext, WriteRow, UpdateTuning
  <2>3. CASE RatesNext
    BY <2>3, <1>2 DEF RatesNext, SetTaxRate
  <2>4. CASE UNCHANGED tuningVars
    BY <2>4, <1>2 DEF tuningVars
  <2>5. QED  BY <2>1, <2>2, <2>3, <2>4 DEF TuningNext

\* A process's auditor section, wherever it comes from, has percentages for rates.
LEMMA BaseRates ==
    ASSUME TuningInv, AuditorTyped, NEW p \in Processes, view[p] # Nothing
    PROVE  LET base == Merged(overlay[p]).auditor IN
           /\ view[p].auditor = base /\ DOMAIN base = AuditorKeys
           /\ base.vat_rate \in Nat /\ base.cit_rate \in Nat
<1> DEFINE base == Merged(overlay[p]).auditor
<1>1. view[p].auditor = base
  BY DEF TuningInv, InForceIsOneTable
<1>2. base = IF "auditor" \in DOMAIN Environment THEN Environment["auditor"]
             ELSE IF "auditor" \in DOMAIN overlay[p] THEN overlay[p]["auditor"]
             ELSE AgentTuning["auditor"]
  BY TuningAssumption DEF Merged
<1>3. ASSUME NEW t \in AuditorFields, Sane("auditor", t)
      PROVE  DOMAIN t = AuditorKeys /\ t.vat_rate \in Nat /\ t.cit_rate \in Nat
  <2>1. AuditorSane(t)
    BY <1>3 DEF Sane
  <2>2. QED  BY <2>1, DefaultRates DEF AuditorFields, AuditorSane, Between
<1>4. CASE "auditor" \in DOMAIN Environment
  <2>1. Environment["auditor"] \in AuditorFields /\ Sane("auditor", Environment["auditor"])
    BY <1>4, TuningAssumption DEF AuditorTyped, BootsWith
  <2>2. QED  BY <1>1, <1>2, <1>3, <1>4, <2>1
<1>5. CASE "auditor" \notin DOMAIN Environment /\ "auditor" \in DOMAIN overlay[p]
  <2>1. overlay[p]["auditor"] \in AuditorFields /\ Sane("auditor", overlay[p]["auditor"])
    BY <1>5 DEF AuditorTyped, TuningInv, InForceIsOneTable
  <2>2. QED  BY <1>1, <1>2, <1>3, <1>5, <2>1
<1>6. CASE "auditor" \notin DOMAIN Environment /\ "auditor" \notin DOMAIN overlay[p]
  <2>1. base = AgentTuning["auditor"]
    BY <1>2, <1>6
  <2>2. QED  BY <1>1, <2>1, DefaultRates DEF AuditorKeys
<1>7. QED  BY <1>4, <1>5, <1>6

\* The rate of a day is the latest that is in effect, or the tuned one.
LEMMA RatesOfADay ==
    ASSUME ScheduleOK, NEW asOf \in Int, NEW key, NEW tuned
    PROVE  LET rate == EffectiveRate(schedule, key, asOf, tuned)
               past == {d \in Days : d <= asOf /\ <<key, d>> \in DOMAIN schedule}
           IN /\ tuned \in Nat => rate \in Nat
              /\ past = {} => rate = tuned
              /\ \A d \in past : (\A e \in past : e <= d) => rate = schedule[<<key, d>>]
<1> DEFINE rate == EffectiveRate(schedule, key, asOf, tuned)
           past == {d \in Days : d <= asOf /\ <<key, d>> \in DOMAIN schedule}
<1>1. rate = IF past = {} THEN tuned ELSE schedule[<<key, Max(past)>>]
  BY DEF EffectiveRate
<1>2. past \in SUBSET Int /\ IsFiniteSet(past) /\ \A d \in past : <<key, d>> \in DOMAIN schedule
  <2>1. past \subseteq Days
    OBVIOUS
  <2>2. QED  BY <2>1, TuningAssumption, FS_Subset
<1> HIDE DEF rate, past
<1>3. ASSUME NEW d \in past, \A e \in past : e <= d PROVE rate = schedule[<<key, d>>]
  <2>1. Max(past) = d
    BY <1>2, <1>3, MaxIs
  <2>2. QED  BY <1>1, <1>3, <2>1
<1>4. past # {} => rate \in Nat
  <2> SUFFICES ASSUME past # {} PROVE rate \in Nat
    OBVIOUS
  <2>1. PICK d \in past : \A e \in past : e <= d
    BY <1>2, Greatest
  <2>2. QED  BY <1>2, <1>3, <2>1 DEF ScheduleOK
<1>5. QED  BY <1>1, <1>3, <1>4 DEF rate, past

-----------------------------------------------------------------------------
(* Figures: what each agent reports *)

FiguresInv ==
    /\ request \in Requests \cup {Resting}
    /\ part # "agents" => report = NoReport
    /\ ScheduleOK /\ TuningInv /\ AuditorTyped
    /\ FiguresStand

Told == {"watchdog", "credit", "audit", "sources", "advice", "summary", "rules", "extraction"}

LEMMA OtherFigures ==
    ASSUME report'.kind \notin Told
    PROVE  FiguresStand'
BY DEF Told, FiguresStand, DecodedPathIsBest, AuditStandsOnFigures, DocumentsAgree,
       RatesArePeriodCorrect, SourcesAreHonest, AdviceIsGrounded, Reported

LEMMA WatchFigures == FiguresInv /\ Watch => FiguresStand'
<1> SUFFICES ASSUME FiguresInv, Watch PROVE FiguresStand'
  OBVIOUS
<1>1. request.spent \in Seq(Nat) /\ request.budgets \subseteq Nat
  BY RequestsAssumption DEF FiguresInv, Watch, Resting
<1>2. PICK budget \in Nat :
        /\ report'.kind = "watchdog" /\ report'.analysis = Analysis(request, budget)
  BY <1>1 DEF Watch, Report
<1> DEFINE ratios == SpendingRatios(request.spent, budget)
<1>3. ratios \in Seq(Int) /\ Len(ratios) > 0
  <2>1. CASE request.spent = <<>>
    BY <2>1 DEF SpendingRatios
  <2>2. CASE request.spent # <<>>
    <3> DEFINE share == IF budget = 0 THEN 1 ELSE budget
               days == IF budget = 0 THEN 1 ELSE Period
               n == Len(request.spent)
    <3>1. n \in Nat /\ n > 0 /\ DOMAIN request.spent = 1..n
      BY <1>1, <2>2
    <3>2. share \in Nat /\ share > 0 /\ days \in Nat
      BY HmmAssumption
    <3>3. ratios = [d \in 1..n |-> (100 * request.spent[d] * days) \div share]
      BY <2>2, <3>1 DEF SpendingRatios
    <3>4. \A d \in 1..n : request.spent[d] \in Nat
      BY <1>1
    <3> HIDE DEF share, days, n, ratios
    <3>5. ASSUME NEW d \in 1..n PROVE (100 * request.spent[d] * days) \div share \in Int
      <4>1. 100 * request.spent[d] * days \in Int
        BY <3>2, <3>4
      <4>2. \A a, b \in Int : b > 0 => a \div b \in Int
        OBVIOUS
      <4>3. QED  BY <3>2, <4>1, <4>2
    <3>6. QED  BY <3>1, <3>3, <3>5
  <2>3. QED  BY <2>1, <2>2
<1>4. report'.analysis.ratios = ratios /\ report'.analysis.path = Viterbi(ratios)
  BY <1>2 DEF Analysis
<1> HIDE DEF ratios
<1>5. DecodedPathIsBest'
  BY <1>3, <1>4, ViterbiIsOptimal DEF DecodedPathIsBest
<1>6. QED
  BY <1>2, <1>5 DEF FiguresStand, AuditStandsOnFigures, DocumentsAgree,
       RatesArePeriodCorrect, SourcesAreHonest, AdviceIsGrounded, Reported

LEMMA CreditFigures == FiguresInv /\ Strategise => FiguresStand'
<1> SUFFICES ASSUME FiguresInv, Strategise PROVE FiguresStand'
  OBVIOUS
<1>1. /\ request.given \in Seq(Nat \X Nat) /\ request.ledger \in Seq(Nat \X Nat)
      /\ \A f \in request.fits : f \in [1..Horizon -> Int]
  BY RequestsAssumption DEF FiguresInv, Strategise, Resting
<1>2. PICK revenueAhead \in Ahead, opexAhead \in Ahead :
        /\ report'.kind = "credit"
        /\ report'.pdf.rendered =>
             /\ report'.pdf.figures = report'.figures
             /\ report'.pdf.net = [q \in 1..4 |-> Quarters(revenueAhead)[q] - Quarters(opexAhead)[q]]
        /\ report'.workbook.rendered =>
             report'.workbook.net = [m \in 1..Horizon |-> revenueAhead[m] - opexAhead[m]]
  <2>1. PICK readable \in BOOLEAN, pdf \in BOOLEAN, excel \in BOOLEAN, model \in ModelAnswers :
        LET months == IF request.given # <<>> THEN request.given
                      ELSE IF readable THEN request.ledger ELSE <<>>
        IN \E revenueAhead \in Forecasts([i \in DOMAIN months |-> months[i][1]], request.fits),
              opexAhead \in Forecasts([i \in DOMAIN months |-> months[i][2]], request.fits) :
            LET figures == Scored(months, revenueAhead, opexAhead) IN
            Report([kind |-> "credit", months |-> months, figures |-> figures,
                    pdf |-> PdfReport(figures, revenueAhead, opexAhead, pdf),
                    workbook |-> ForecastWorkbook(months, revenueAhead, opexAhead, excel),
                    consumed |-> request.upstream,
                    narrative |-> IF model = "answer" THEN "model" ELSE "template"], {})
    BY DEF Strategise
  <2> DEFINE months == IF request.given # <<>> THEN request.given
                       ELSE IF readable THEN request.ledger ELSE <<>>
  <2>2. months \in Seq(Nat \X Nat)
    BY <1>1
  <2> HIDE DEF months
  <2>3. \E revenueAhead \in Forecasts([i \in DOMAIN months |-> months[i][1]], request.fits),
           opexAhead \in Forecasts([i \in DOMAIN months |-> months[i][2]], request.fits) :
            LET figures == Scored(months, revenueAhead, opexAhead) IN
            Report([kind |-> "credit", months |-> months, figures |-> figures,
                    pdf |-> PdfReport(figures, revenueAhead, opexAhead, pdf),
                    workbook |-> ForecastWorkbook(months, revenueAhead, opexAhead, excel),
                    consumed |-> request.upstream,
                    narrative |-> IF model = "answer" THEN "model" ELSE "template"], {})
    BY <2>1 DEF months
  <2>4. PICK revenueAhead \in Forecasts([i \in DOMAIN months |-> months[i][1]], request.fits),
             opexAhead \in Forecasts([i \in DOMAIN months |-> months[i][2]], request.fits) :
          /\ report'.kind = "credit"
          /\ report'.figures = Scored(months, revenueAhead, opexAhead)
          /\ report'.pdf = PdfReport(Scored(months, revenueAhead, opexAhead), revenueAhead, opexAhead, pdf)
          /\ report'.workbook = ForecastWorkbook(months, revenueAhead, opexAhead, excel)
    BY <2>3 DEF Report
  <2>5. revenueAhead \in Ahead /\ opexAhead \in Ahead
    <3>1. [i \in DOMAIN months |-> months[i][1]] \in Seq(Int)
          /\ [i \in DOMAIN months |-> months[i][2]] \in Seq(Int)
      <4>1. /\ Len(months) \in Nat /\ DOMAIN months = 1 .. Len(months)
            /\ \A i \in 1 .. Len(months) : months[i][1] \in Int /\ months[i][2] \in Int
        BY <2>2
      <4>2. QED  BY <4>1
    <3>2. QED  BY <1>1, <3>1, ForecastsType
  <2>6. QED  BY <2>4, <2>5 DEF PdfReport, ForecastWorkbook, NoDocument
<1>3. DocumentsAgree'
  BY <1>2, NetsAgree DEF DocumentsAgree
<1>4. QED
  BY <1>2, <1>3 DEF FiguresStand, AuditStandsOnFigures, DecodedPathIsBest,
       RatesArePeriodCorrect, SourcesAreHonest, AdviceIsGrounded, Reported

\* What an audit says of the totals and the rates it had.
LEMMA AuditSound ==
    ASSUME NEW t, t.revenue \in Nat, t.opex \in Nat, NEW rates, NEW free,
           rates.vat_rate \in Nat, rates.cit_rate \in Nat,
           NEW tax, tax = TaxLiability(t, rates)
    PROVE  LET flags == Flags(free, t, rates, tax.type)
               parts == Components(t, rates)
           IN /\ t.largest >= rates.aml_reporting_threshold_kes => "AML_REPORTING_REQUIRED" \in flags
              /\ AnnualRevenue(t) >= rates.vat_threshold_annual_kes
                   => parts.vat > 0 \/ t.revenue = 0 \/ rates.vat_rate = 0
                      \/ "VAT_REGISTRATION_REQUIRED" \in flags
              /\ parts.vat + parts.cit = tax.due
<1> DEFINE above == AnnualRevenue(t) >= rates.vat_threshold_annual_kes
<1>1. \A a, b \in Nat : a * b \in Nat /\ (a # 0 /\ b # 0 => a * b > 0)
  <2>1. \A a, b \in Nat : a * b \in Nat
    OBVIOUS
  <2>2. ASSUME NEW a \in Nat, NEW b \in Nat, a # 0, b # 0 PROVE a * b > 0
    BY <2>2
  <2>3. QED  BY <2>1, <2>2
<1>2. /\ VatDue(t, rates) \in Nat
      /\ above /\ t.revenue # 0 /\ rates.vat_rate # 0 => VatDue(t, rates) > 0
  BY <1>1 DEF VatDue
<1>3. CitDue(t, rates) \in Nat
  <2>1. PICK x \in Int : x = t.revenue - t.opex
    OBVIOUS
  <2>2. PICK y \in {0, x} : \A z \in {0, x} : y >= z
    OBVIOUS
  <2>3. y \in Nat
    BY <2>2
  <2>4. Max({0, x}) = y
    <3>1. \A S \in SUBSET Int : S = {0, x} => Max(S) = y
      BY <2>2, MaxIs
    <3>2. QED  BY <3>1
  <2>5. CitDue(t, rates) = y * rates.cit_rate
    BY <2>1, <2>4 DEF CitDue
  <2>6. QED  BY <1>1, <2>3, <2>5
<1> DEFINE vat == VatDue(t, rates)
           cit == CitDue(t, rates)
<1> HIDE DEF above, vat, cit
<1>4. CASE t.regime = "VAT"
  <2>1. Components(t, rates) = [vat |-> vat, cit |-> 0] /\ tax = [type |-> "VAT", due |-> vat]
    BY <1>4 DEF Components, TaxLiability, vat
  <2>2. QED  BY <1>2, <2>1 DEF Flags, vat, above
<1>5. CASE t.regime \in {"CORPORATE_TAX", "CIT"}
  <2>1. /\ Components(t, rates) = [vat |-> 0, cit |-> cit]
        /\ tax = [type |-> "CORPORATE_TAX", due |-> cit]
    BY <1>5 DEF Components, TaxLiability, cit
  <2>2. QED  BY <1>3, <2>1 DEF Flags, cit
<1>6. CASE t.regime \notin {"VAT", "CORPORATE_TAX", "CIT"}
  <2>1. /\ Components(t, rates) = [vat |-> vat, cit |-> cit]
        /\ tax = [type |-> "COMPREHENSIVE", due |-> vat + cit]
    BY <1>6 DEF Components, TaxLiability, vat, cit
  <2>2. QED  BY <1>2, <1>3, <2>1 DEF Flags, vat, cit, above
<1>7. QED  BY <1>4, <1>5, <1>6

LEMMA AuditFigures ==
    FiguresInv /\ AuditInForce /\ UNCHANGED tuningVars => FiguresStand'
<1> SUFFICES ASSUME FiguresInv, AuditInForce, UNCHANGED tuningVars
             PROVE  FiguresStand'
  OBVIOUS
<1>1. PICK p \in Processes, scheduled \in BOOLEAN :
        view[p] # Nothing /\ Audit(EffectiveTuning(p, request.asOf, scheduled), scheduled)
  BY DEF AuditInForce
<1>2. PICK rates, base :
        /\ rates = EffectiveTuning(p, request.asOf, scheduled) /\ base = Merged(overlay[p]).auditor
  OBVIOUS
<1>3. /\ request.asOf \in Int
      /\ request.totals \in [revenue : Nat, opex : Nat, largest : Nat, days : Nat, regime : STRING]
  <2>1. request.kind = "audit"
    BY <1>1 DEF Audit
  <2>2. request \in Requests
    BY <2>1 DEF FiguresInv, Resting
  <2>3. QED  BY <2>1, <2>2, RequestsAssumption
<1>4. PICK t, tax, free :
        /\ t = request.totals \/ t = [request.totals EXCEPT !.revenue = 0, !.opex = 0, !.largest = 0]
        /\ tax = TaxLiability(t, rates)
        /\ report' = [kind |-> "audit", totals |-> t, rates |-> rates, scheduled |-> scheduled,
                      tax |-> tax, components |-> Components(t, rates),
                      flags |-> Flags(free, t, rates, tax.type)]
        /\ request' = request
  <2>1. Audit(rates, scheduled)
    BY <1>1, <1>2
  <2>2. QED  BY <2>1 DEF Audit, Report
<1>5. t.revenue \in Nat /\ t.opex \in Nat
  <2>1. CASE t = request.totals
    BY <1>3, <2>1
  <2>2. CASE t = [request.totals EXCEPT !.revenue = 0, !.opex = 0, !.largest = 0]
    BY <1>3, <2>2
  <2>3. QED  BY <1>4, <2>1, <2>2
<1>6. /\ view[p].auditor = base /\ DOMAIN base = AuditorKeys
      /\ base.vat_rate \in Nat /\ base.cit_rate \in Nat
  BY <1>1, <1>2, BaseRates DEF FiguresInv
<1>7. /\ scheduled =>
            rates = [key \in DOMAIN base |-> EffectiveRate(schedule, key, request.asOf, base[key])]
      /\ ~scheduled => rates = base
  BY <1>2, <1>6 DEF EffectiveTuning
<1>8. ASSUME NEW key \in DOMAIN base
      PROVE  LET past == {d \in Days : d <= request.asOf /\ <<key, d>> \in DOMAIN schedule} IN
             /\ base[key] \in Nat => rates[key] \in Nat
             /\ ~scheduled \/ past = {} => rates[key] = base[key]
             /\ scheduled =>
                  \A d \in past : (\A e \in past : e <= d) => rates[key] = schedule[<<key, d>>]
  <2>1. CASE scheduled
    <3>1. rates[key] = EffectiveRate(schedule, key, request.asOf, base[key])
      BY <1>7, <2>1
    <3>2. QED  BY <1>3, <2>1, <3>1, RatesOfADay DEF FiguresInv
  <2>2. CASE ~scheduled
    BY <1>7, <2>2
  <2>3. QED  BY <2>1, <2>2
<1>9. rates.vat_rate \in Nat /\ rates.cit_rate \in Nat
  BY <1>6, <1>8, DefaultRates
<1>10. AuditStandsOnFigures'
  BY <1>4, <1>5, <1>9, AuditSound DEF AuditStandsOnFigures
<1>11. RatesArePeriodCorrect'
  <2>1. /\ report'.rates = rates /\ report'.scheduled = scheduled /\ request' = request
        /\ schedule' = schedule /\ overlay' = overlay
    BY <1>4 DEF tuningVars
  <2>2. Merged(overlay[p])'.auditor = base
    BY <1>2, <2>1 DEF Merged
  <2>3. QED  BY <1>8, <2>1, <2>2 DEF RatesArePeriodCorrect
<1>12. QED
  BY <1>4, <1>10, <1>11 DEF FiguresStand, DecodedPathIsBest, DocumentsAgree,
       SourcesAreHonest, AdviceIsGrounded, Reported

\* Each source says where its figures come from; a label of the operator's is theirs.
LEMMA SourcesSound ==
    ASSUME NEW r, r.production \in BOOLEAN, NEW fx, NEW mpesa, NEW credit, NEW kra,
           NEW readable \in BOOLEAN, NEW token \in BOOLEAN
    PROVE  LET f == FetchFx(r, fx)
               m == FetchMpesa(r, readable, token, mpesa)
               c == FetchMetropol(r, credit)
               k == FetchKra(r, kra)
           IN /\ \A s \in {f, m} :
                    /\ s.status \in {"live", "mock", "unavailable"}
                    /\ r.production => s.status # "mock"
                    /\ s.status = "live" => s.answered
              /\ ~Labelled(r.manual["credit"]) =>
                    /\ c.status \in {"live", "manual", "unavailable"}
                    /\ c.status = "live" => c.answered
              /\ ~Labelled(r.manual["kra"]) =>
                    /\ k.status \in {"live", "manual", "unavailable"}
                    /\ k.status = "live" => k.answered
<1>1. /\ \A s : s = FetchFx(r, fx) =>
            /\ s.status \in {"live", "mock", "unavailable"} /\ (r.production => s.status # "mock")
            /\ s.status = "live" => s.answered
      /\ \A s : s = FetchMpesa(r, readable, token, mpesa) =>
            /\ s.status \in {"live", "mock", "unavailable"} /\ (r.production => s.status # "mock")
            /\ s.status = "live" => s.answered
  BY DEF FetchFx, FetchMpesa, Degraded, Unavailable, Source
<1>2. \A s : s = FetchMetropol(r, credit) /\ ~Labelled(r.manual["credit"]) =>
            s.status \in {"live", "manual", "unavailable"} /\ (s.status = "live" => s.answered)
  BY DEF FetchMetropol, Typed, Labelled, Unavailable, Source
<1>3. \A s : s = FetchKra(r, kra) /\ ~Labelled(r.manual["kra"]) =>
            s.status \in {"live", "manual", "unavailable"} /\ (s.status = "live" => s.answered)
  BY DEF FetchKra, Typed, Labelled, Unavailable, Source
<1>4. QED  BY <1>1, <1>2, <1>3

LEMMA SourcesFigures == FiguresInv /\ Integrate => FiguresStand'
<1> SUFFICES ASSUME FiguresInv, Integrate PROVE FiguresStand'
  OBVIOUS
<1>1. CASE request.held /\ Report([kind |-> "held"], {})
  BY <1>1, OtherFigures DEF Report, Told
<1>2. CASE ~(request.held /\ Report([kind |-> "held"], {}))
  <2>1. PICK fx \in Calls, mpesa \in Calls, credit \in Calls, kra \in Calls,
             readable \in BOOLEAN, token \in BOOLEAN :
          /\ report' = Collected(FetchFx(request, fx), FetchMpesa(request, readable, token, mpesa),
                                 FetchMetropol(request, credit), FetchKra(request, kra))
          /\ request' = request
    BY <1>2 DEF Integrate, Report
  <2>2. request.production \in BOOLEAN
    BY RequestsAssumption DEF FiguresInv, Integrate, Resting
  <2>3. PICK f, m, c, k :
          /\ f = FetchFx(request, fx) /\ m = FetchMpesa(request, readable, token, mpesa)
          /\ c = FetchMetropol(request, credit) /\ k = FetchKra(request, kra)
    OBVIOUS
  <2>4. /\ \A s \in {f, m} :
              /\ s.status \in {"live", "mock", "unavailable"}
              /\ request.production => s.status # "mock"
              /\ s.status = "live" => s.answered
        /\ ~Labelled(request.manual["credit"]) =>
              c.status \in {"live", "manual", "unavailable"} /\ (c.status = "live" => c.answered)
        /\ ~Labelled(request.manual["kra"]) =>
              k.status \in {"live", "manual", "unavailable"} /\ (k.status = "live" => k.answered)
    BY <2>2, <2>3, SourcesSound
  <2>5. /\ report'.kind = "sources"
        /\ report'["fx"] = f /\ report'["mpesa"] = m /\ report'["credit"] = c /\ report'["kra"] = k
        /\ report'.simulated <=> "mock" \in {f.status, m.status, c.status, k.status}
        /\ report'.label = IF "mock" \in {f.status, m.status, c.status, k.status} THEN "mock_sandbox"
                           ELSE IF "unavailable" \in {f.status, m.status, c.status, k.status}
                           THEN "degraded" ELSE "live"
    BY <2>1, <2>3 DEF Collected
  <2>6. SourcesAreHonest'
    <3>1. request' = request
      BY <2>1
    <3>2. ASSUME NEW s, \/ s = "fx" \/ s = "mpesa"
                        \/ s = "credit" /\ ~Labelled(request.manual["credit"])
                        \/ s = "kra" /\ ~Labelled(request.manual["kra"])
          PROVE  /\ request.production \/ s \in {"credit", "kra"} => report'[s].status # "mock"
                 /\ report'[s].status = "live" => report'[s].answered
                 /\ report'.label = "live" => report'[s].status \in {"live", "manual"}
                 /\ report'[s].status = "mock" => report'.label = "mock_sandbox"
      <4>1. CASE s = "fx"
        BY <2>4, <2>5, <4>1
      <4>2. CASE s = "mpesa"
        BY <2>4, <2>5, <4>2
      <4>3. CASE s = "credit" /\ ~Labelled(request.manual["credit"])
        BY <2>4, <2>5, <4>3
      <4>4. CASE s = "kra" /\ ~Labelled(request.manual["kra"])
        BY <2>4, <2>5, <4>4
      <4>5. QED  BY <3>2, <4>1, <4>2, <4>3, <4>4
    <3>3. report'.simulated <=> report'.label = "mock_sandbox"
      BY <2>5
    <3>4. QED  BY <3>1, <3>2, <3>3 DEF SourcesAreHonest
  <2>7. QED
    BY <2>5, <2>6 DEF FiguresStand, DecodedPathIsBest, DocumentsAgree, AuditStandsOnFigures,
         RatesArePeriodCorrect, AdviceIsGrounded, Reported
<1>3. QED  BY <1>1, <1>2

\* What surrounds advice, and whose it may be.
LEMMA AdviceFigures == Advise => FiguresStand'
<1> SUFFICES ASSUME Advise PROVE FiguresStand'
  OBVIOUS
<1>1. PICK role, widgets, model :
        /\ widgets \subseteq {"registered", "invented"}
        /\ report'.kind = "advice" /\ report'.role = role /\ request' = request
        /\ report'.tier = IF role \in ActionableRoles THEN "ACTIONABLE" ELSE "SUMMARY"
        /\ report'.notices = Notices(request, role)
        /\ report'.widgets = IF model = "answer" THEN widgets \cap AllowedComponents ELSE {}
  <2>1. PICK readable \in BOOLEAN, profile \in BOOLEAN, model \in ModelAnswers,
             widgets \in SUBSET {"registered", "invented"} :
        LET role == AdvisedRole(request, readable) IN
        Report([kind |-> "advice", role |-> role,
                tier |-> IF role \in ActionableRoles THEN "ACTIONABLE" ELSE "SUMMARY",
                completeness |-> Completeness(request.upstream),
                notices |-> Notices(request, role),
                review |-> role \in ActionableRoles /\ ReviewGate(request),
                profile |-> profile /\ request.customer,
                narrative |-> IF model = "answer" THEN "model" ELSE "template",
                widgets |-> IF model = "answer" THEN widgets \cap AllowedComponents ELSE {}],
               {})
    BY DEF Advise
  <2>2. PICK role : role = AdvisedRole(request, readable)
    OBVIOUS
  <2>3. Report([kind |-> "advice", role |-> role,
                tier |-> IF role \in ActionableRoles THEN "ACTIONABLE" ELSE "SUMMARY",
                completeness |-> Completeness(request.upstream),
                notices |-> Notices(request, role),
                review |-> role \in ActionableRoles /\ ReviewGate(request),
                profile |-> profile /\ request.customer,
                narrative |-> IF model = "answer" THEN "model" ELSE "template",
                widgets |-> IF model = "answer" THEN widgets \cap AllowedComponents ELSE {}],
               {})
    BY <2>1, <2>2
  <2>4. QED  BY <2>3 DEF Report
<1>2. report'.tier = "ACTIONABLE" =>
        "finance:approve" \in RolePermissions[role] /\ "disclaimer" \in report'.notices
  <2>1. \A r \in ActionableRoles : "finance:approve" \in RolePermissions[r]
    BY DEF ActionableRoles, RolePermissions, Manager, Admin
  <2>2. QED  BY <1>1, <2>1 DEF Notices
<1>3. request.upstream = {} => "limited_data" \in report'.notices
  BY <1>1, FS_EmptySet DEF Notices, Completeness
<1>4. "invented" \notin report'.widgets
  BY <1>1 DEF AllowedComponents
<1>5. AdviceIsGrounded'
  BY <1>1, <1>2, <1>3, <1>4 DEF AdviceIsGrounded, Reported
<1>6. QED
  BY <1>1, <1>5 DEF FiguresStand, DecodedPathIsBest, DocumentsAgree, AuditStandsOnFigures,
       RatesArePeriodCorrect, SourcesAreHonest, Reported

\* A translation keeps the figures, an excerpt is near, a reading that is taken is sure.
LEMMA ReadingFigures == FiguresInv /\ (Summarise \/ Quote \/ ExtractInvoice) => FiguresStand'
<1> SUFFICES ASSUME FiguresInv, Summarise \/ Quote \/ ExtractInvoice PROVE FiguresStand'
  OBVIOUS
<1>1. ASSUME Summarise PROVE report'.kind = "summary" /\ report'.source \subseteq report'.figures
  <2>1. PICK source, translated, localised :
          /\ localised => KeepsFigures(source, translated)
          /\ report'.kind = "summary" /\ report'.source = source
          /\ report'.figures = IF localised THEN translated ELSE source
    BY <1>1 DEF Summarise, Report
  <2>2. QED  BY <2>1 DEF KeepsFigures
<1>2. ASSUME Quote, ~Report([kind |-> "failed"], {})
      PROVE  /\ report'.kind = "rules"
             /\ report'.reachable => (report'.excerpts.near = <<>> <=> report'.excerpts.standard)
             /\ \A i \in DOMAIN report'.excerpts.near : report'.excerpts.near[i] <= MAX_L2_DISTANCE
  <2>1. request.distances \in Seq(Nat)
    <3>1. request.kind = "rules"
      BY <1>2 DEF Quote
    <3>2. QED  BY <3>1, RequestsAssumption DEF FiguresInv, Resting
  <2>2. PICK embedded \in BOOLEAN, answered \in BOOLEAN :
          /\ report'.kind = "rules" /\ report'.reachable = (embedded /\ answered)
          /\ report'.excerpts = Excerpts(request.distances, embedded, answered, 3)
    <3>1. PICK cache \in {"hit", "miss", "corrupt"}, model \in {"answer", "unavailable", "wrong_size"},
               answered \in BOOLEAN :
          LET embedded == cache = "hit" \/ model = "answer"
              found == Excerpts(request.distances, embedded, answered, 3)
          IN Report([kind |-> "rules", excerpts |-> found, reachable |-> embedded /\ answered], {})
      BY <1>2 DEF Quote
    <3>2. PICK embedded \in BOOLEAN : embedded = (cache = "hit" \/ model = "answer")
      OBVIOUS
    <3>3. QED  BY <3>1, <3>2 DEF Report
  <2>3. QED  BY <2>1, <2>2, ExcerptsAreNear
<1>3. ASSUME ExtractInvoice
      PROVE  /\ report'.kind = "extraction" /\ request' = request
             /\ report'.source = "ocr" => request.confidence >= OcrFloor
  BY <1>3 DEF ExtractInvoice, Report, Shortcuts
<1>4. CASE Report([kind |-> "failed"], {})
  BY <1>4, OtherFigures DEF Report, Told
<1>5. CASE ~Report([kind |-> "failed"], {})
  <2>1. AdviceIsGrounded' /\ report'.kind \in {"summary", "rules", "extraction"}
    BY <1>1, <1>2, <1>3, <1>5 DEF AdviceIsGrounded, Reported
  <2>2. QED
    BY <2>1 DEF FiguresStand, DecodedPathIsBest, DocumentsAgree, AuditStandsOnFigures,
         RatesArePeriodCorrect, SourcesAreHonest, Reported
<1>6. QED  BY <1>4, <1>5

-----------------------------------------------------------------------------

\* A step runs an agent, or changes the tuning before one ran, or is about something else.
LEMMA FiguresApart ==
    [Next]_vars =>
        /\ part' = part
        /\ \/ part = "agents" /\ RunsNext /\ UNCHANGED tuningVars
           \/ UNCHANGED <<request, report>> /\ (UNCHANGED tuningVars \/ part = "tuning" \/ report = NoReport)
<1>1. UNCHANGED runVars => UNCHANGED <<request, report>>
  BY DEF runVars
<1>2. CASE Next
  <2>1. CASE part = "agents" /\ RunsNext
             /\ UNCHANGED <<part, accountVars, tuningVars, providerVars, jobVars>>
    BY <2>1
  <2>2. CASE part = "tuning" /\ UNCHANGED <<part, runVars>>
    BY <1>1, <2>2
  <2>3. CASE report = NoReport /\ UNCHANGED <<part, runVars>>
    BY <1>1, <2>3
  <2>4. CASE UNCHANGED <<part, runVars, tuningVars>>
    BY <1>1, <2>4
  <2>5. QED  BY <1>2, <2>1, <2>2, <2>3, <2>4 DEF Next, RunsNext
<1>3. CASE UNCHANGED vars
  BY <1>1, <1>3 DEF vars
<1>4. QED  BY <1>2, <1>3

LEMMA RunStep ==
    ASSUME FiguresInv, RunsNext, UNCHANGED tuningVars
    PROVE  FiguresStand' /\ request' = request
<1>1. request' = request
  <2>1. ASSUME Advise \/ Summarise \/ Quote \/ ExtractInvoice \/ ClassifyShown PROVE request' = request
    BY <2>1 DEF Advise, Summarise, Quote, ExtractInvoice, ClassifyShown, Report
  <2>2. Watch => request' = request
    BY DEF Watch, Report
  <2>6. Strategise => request' = request
    BY DEF Strategise, Report
  <2>3. ASSUME ForecastCash \/ Integrate \/ Keep PROVE request' = request
    BY <2>3 DEF ForecastCash, Integrate, Keep, Report
  <2>4. ASSUME AuditInForce PROVE request' = request
    <3>1. PICK rates, scheduled : Audit(rates, scheduled)
      BY <2>4 DEF AuditInForce
    <3>2. QED  BY <3>1 DEF Audit, Report
  <2>5. QED  BY <2>1, <2>2, <2>3, <2>4, <2>6 DEF RunsNext, AdviceStep
<1>2. ASSUME ForecastCash \/ Keep \/ ClassifyShown PROVE FiguresStand'
  <2>1. report'.kind \in {"forecast", "stock", "classification"}
    BY <1>2 DEF ForecastCash, Keep, ClassifyShown, Report
  <2>2. QED  BY <2>1, OtherFigures DEF Told
<1>3. QED
  BY <1>1, <1>2, WatchFigures, CreditFigures, AuditFigures, SourcesFigures, AdviceFigures,
     ReadingFigures DEF RunsNext, AdviceStep

LEMMA FiguresStep == FiguresInv /\ [Next]_vars => FiguresInv'
<1> SUFFICES ASSUME FiguresInv, [Next]_vars PROVE FiguresInv'
  OBVIOUS
<1>1. [TuningNext \/ RatesNext]_tuningVars
  BY TuningApart
<1>2. TuningInv' /\ AuditorTyped'
  BY <1>1, TuningStep, AuditorStep DEF FiguresInv
<1>3. ScheduleOK'
  <2>1. TuningNext => UNCHANGED schedule
    BY DEF TuningNext, RefreshNext, StoreNext, ReadTuning, TimeToLiveEnds, RefreshFails,
           RefreshInstall, RefreshRead, WriteRow, UpdateTuning
  <2>2. UNCHANGED tuningVars => UNCHANGED schedule
    BY DEF tuningVars
  <2>3. UNCHANGED schedule => ScheduleOK'
    BY DEF FiguresInv, ScheduleOK
  <2>4. QED  BY <1>1, <2>1, <2>2, <2>3, ScheduleStep DEF FiguresInv
<1>4. CASE part' = part /\ part = "agents" /\ RunsNext /\ UNCHANGED tuningVars
  <2>1. FiguresStand' /\ request' = request
    BY <1>4, RunStep
  <2>2. QED  BY <1>2, <1>3, <1>4, <2>1 DEF FiguresInv
<1>5. CASE /\ part' = part /\ UNCHANGED <<request, report>>
           /\ UNCHANGED tuningVars \/ part = "tuning" \/ report = NoReport
  <2>1. CASE UNCHANGED tuningVars
    <3>1. UNCHANGED <<request, report, schedule, overlay>>
      BY <1>5, <2>1 DEF tuningVars
    <3>2. RatesArePeriodCorrect'
      BY <3>1 DEF FiguresInv, FiguresStand, RatesArePeriodCorrect, Reported, Merged
    <3>3. FiguresStand'
      BY <3>1, <3>2 DEF FiguresInv, FiguresStand, DecodedPathIsBest, DocumentsAgree,
           AuditStandsOnFigures, SourcesAreHonest, AdviceIsGrounded, Reported
    <3>4. QED  BY <1>2, <1>3, <1>5, <3>3 DEF FiguresInv
  <2>2. CASE report = NoReport
    <3>1. report'.kind = "none"
      BY <1>5, <2>2 DEF NoReport
    <3>2. FiguresStand'
      BY <3>1, OtherFigures DEF Told
    <3>3. QED  BY <1>2, <1>3, <1>5, <3>2 DEF FiguresInv
  <2>3. QED  BY <1>5, <2>1, <2>2 DEF FiguresInv
<1>6. QED  BY <1>4, <1>5, FiguresApart

\* What a report says is what the data say: the budget's state is the most likely one
\* (_viterbi), the documents of a score add up to each other (bankability_service.py), no
\* model keeps a fact of the ledger out of an audit (f_auditor.py), whose rates are those
\* of its day over the process's own tuning, unless the schedule could not be read, in
\* which case they are that tuning's (db_tuning.py); a source's label is true unless the
\* operator typed it (integrator_service.py); advice, summaries, excerpts and readings
\* carry what they rest on.  The rates only: an audit's totals are of the days before it
\* runs, whatever day it is about.
THEOREM FiguresAreTrue == Spec => []FiguresStand
<1>1. Init => FiguresInv
  <2> SUFFICES ASSUME Init PROVE FiguresInv
    OBVIOUS
  <2>1. ScheduleOK
    BY DEF Init, TuningInit, Nothing, ScheduleOK
  <2>2. TuningInv
    BY TuningStart DEF Init
  <2>3. AuditorTyped
    <3>1. ToSet(tables) = {Nothing} /\ DOMAIN Nothing = {}
      BY DEF Init, TuningInit, ToSet, Nothing
    <3>2. \A p \in Processes : overlay[p] = Nothing
      BY DEF Init, TuningInit
    <3>3. BootsWith(Environment)
      BY DEF Init, TuningInit
    <3>4. QED  BY <3>1, <3>2, <3>3 DEF AuditorTyped
  <2>4. report = NoReport /\ request \in Requests \cup {Resting}
    BY DEF Init
  <2>5. FiguresStand
    BY <2>4 DEF NoReport, FiguresStand, DecodedPathIsBest, DocumentsAgree,
       AuditStandsOnFigures, RatesArePeriodCorrect, SourcesAreHonest, AdviceIsGrounded, Reported
  <2>6. QED  BY <2>1, <2>2, <2>3, <2>4, <2>5 DEF FiguresInv
<1>2. FiguresInv => FiguresStand
  BY DEF FiguresInv
<1>3. QED  BY <1>1, <1>2, FiguresStep, PTL DEF Spec

=============================================================================
