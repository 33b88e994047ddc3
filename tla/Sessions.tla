------------------------------ MODULE Sessions ------------------------------
(***************************************************************************)
(* One account's sessions (identity/service.py, identity/dependencies.py,  *)
(* core/security.py): logins and their lockout, refresh-token rotation     *)
(* with reuse detection, password resets, logouts.  The user row is in the *)
(* database, the blacklist, the revoked families and the login counter are *)
(* in Redis, and a request reads and writes them in separate steps.        *)
(***************************************************************************)
EXTENDS Integers, FiniteSets, Sequences

CONSTANTS
    Handlers,     \* requests in flight
    MaxAttempts,  \* MAX_LOGIN_ATTEMPTS
    TickPerSecond, MaxClock,  \* time goes in fractions of a second, up to a bound
    MaxTokens,    \* bound: pairs of tokens issued
    MaxResets     \* bound: passwords set

ASSUME SessionsAssumption ==
    /\ IsFiniteSet(Handlers)
    /\ MaxAttempts \in Nat \ {0} /\ TickPerSecond \in Nat \ {0}
    /\ MaxClock \in Nat /\ MaxTokens \in Nat /\ MaxResets \in Nat

VARIABLES
    user,      \* is_active, the password's version, password_changed_at
    tokens,    \* the pairs of access and refresh token issued so far
    spent,     \* blacklist:{jti}
    revoked,   \* revoked_family:{family_id}
    link,      \* the reset link: mailed, used how often, its jti blacklisted
    attempts,  \* login_attempts:{email}:{ip}
    guesses,   \* wrong passwords tried since that counter last was empty
    dead,      \* requests that died before they consumed the link
    at, job,   \* per request: where it is and what it has read
    clock

vars == <<user, tokens, spent, revoked, link, attempts, guesses, dead, at, job, clock>>
redis == <<spent, revoked, attempts, guesses>>

Never == -1
NoJob == [op |-> "none"]

Init ==
    /\ user = [active |-> TRUE, password |-> 0, changed |-> Never]
    /\ tokens = <<>> /\ spent = {} /\ revoked = {}
    /\ link = [mailed |-> FALSE, uses |-> 0, spent |-> FALSE]
    /\ attempts = 0 /\ guesses = 0 /\ dead = 0 /\ clock = 0
    /\ at = [h \in Handlers |-> "idle"] /\ job = [h \in Handlers |-> NoJob]

Goto(h, place) == at' = [at EXCEPT ![h] = place]
Done(h) == Goto(h, "idle") /\ job' = [job EXCEPT ![h] = NoJob]

-----------------------------------------------------------------------------
(* Tokens *)

\* A JWT's iat is a whole number of seconds.
Iat(now) == now - (now % TickPerSecond)

\* A reset is between its timestamp and its commit.
Resetting == \E g \in Handlers : at[g] = "commit"

\* create_access_token and create_refresh_token.  "password" is the version that the
\* login at the root of the family proved, "raced" whether a request of the lineage
\* overlapped the commit of a reset.
Issue(h, family, parent, password) ==
    /\ Len(tokens) < MaxTokens
    /\ tokens' = Append(tokens, [family |-> family, parent |-> parent, iat |-> Iat(clock),
                                 password |-> password,
                                 raced |-> job[h].raced \/ Resetting])

\* Mutant: password_changed_at loses its fraction of a second as well.
IssuedAfterSecond(k) == tokens[k].iat >= Iat(user.changed)

\* token_issued_after_password_change
IssuedAfterChange(k) == tokens[k].iat >= user.changed

\* get_current_user
Authenticates(k) == <<"access", k>> \notin spent /\ user.active /\ IssuedAfterChange(k)

-----------------------------------------------------------------------------
(* Login *)

\* The lockout is checked first, on a counter that others may still move.
LoginStart(h, password) ==
    /\ at[h] = "idle" /\ attempts < MaxAttempts
    /\ Goto(h, "verify")
    /\ job' = [job EXCEPT ![h] = [op |-> "login", password |-> password, raced |-> FALSE]]
    /\ UNCHANGED <<user, tokens, redis, link, dead, clock>>

\* The user row is read and bcrypt runs.
LoginVerify(h) ==
    LET right == job[h].password = user.password IN
    /\ at[h] = "verify"
    /\ IF right /\ ~user.active
       THEN Done(h)
       ELSE Goto(h, IF right THEN "issue" ELSE "count") /\ UNCHANGED job
    /\ guesses' = IF right THEN guesses ELSE guesses + 1
    /\ UNCHANGED <<user, tokens, spent, revoked, attempts, link, dead, clock>>

\* Mutant: the counter is set to what this request read plus one.
CountOnce(h) ==
    /\ at[h] = "count"
    /\ attempts' = 1
    /\ Done(h)
    /\ UNCHANGED <<user, tokens, spent, revoked, guesses, link, dead, clock>>

\* INCR, and the window starts anew.
CountFailure(h) ==
    /\ at[h] = "count"
    /\ attempts' = attempts + 1
    /\ Done(h)
    /\ UNCHANGED <<user, tokens, spent, revoked, guesses, link, dead, clock>>

\* A success clears the counter and starts a family of its own.
LoginIssue(h) ==
    /\ at[h] = "issue"
    /\ attempts' = 0 /\ guesses' = 0
    /\ Issue(h, Len(tokens) + 1, 0, job[h].password)
    /\ Done(h)
    /\ UNCHANGED <<user, spent, revoked, link, dead, clock>>

\* The counter expires LOCKOUT_DURATION_MINUTES after the last failure.
LockExpires ==
    /\ attempts > 0
    /\ attempts' = 0 /\ guesses' = 0
    /\ UNCHANGED <<user, tokens, spent, revoked, link, dead, at, job, clock>>

-----------------------------------------------------------------------------
(* Refresh *)

\* The token has a successor.
Consumed(k) == \E s \in DOMAIN tokens : tokens[s].parent = k

\* Anybody who holds the refresh token presents it; a revoked family is refused.
RefreshStart(h, k) ==
    /\ at[h] = "idle" /\ tokens[k].family \notin revoked
    /\ Goto(h, "reuse")
    /\ job' = [job EXCEPT ![h] = [op |-> "refresh", token |-> k, raced |-> tokens[k].raced,
                                  first |-> ~Consumed(k)]]
    /\ UNCHANGED <<user, tokens, redis, link, dead, clock>>

\* A consumed token is a replay.
CheckReuse(h) ==
    /\ at[h] = "reuse"
    /\ Goto(h, IF <<"refresh", job[h].token>> \in spent THEN "revoke" ELSE "user")
    /\ UNCHANGED <<user, tokens, redis, link, dead, job, clock>>

RevokeFamily(h) ==
    /\ at[h] = "revoke"
    /\ revoked' = revoked \cup {tokens[job[h].token].family}
    /\ Done(h)
    /\ UNCHANGED <<user, tokens, spent, attempts, guesses, link, dead, clock>>

RefreshUser(h) ==
    /\ at[h] = "user"
    /\ IF user.active /\ IssuedAfterChange(job[h].token)
       THEN Goto(h, "rotate") /\ UNCHANGED job
       ELSE Done(h)
    /\ UNCHANGED <<user, tokens, redis, link, dead, clock>>

\* Mutant: the consumed token is not blacklisted.
RotateOnly(h) ==
    LET k == job[h].token IN
    /\ at[h] = "rotate"
    /\ Issue(h, tokens[k].family, k, tokens[k].password)
    /\ Done(h)
    /\ UNCHANGED <<user, redis, link, dead, clock>>

\* Blacklist the token, then issue its successor in the same family.
Rotate(h) ==
    LET k == job[h].token IN
    /\ at[h] = "rotate"
    /\ spent' = spent \cup {<<"refresh", k>>}
    /\ Issue(h, tokens[k].family, k, tokens[k].password)
    /\ Done(h)
    /\ UNCHANGED <<user, revoked, attempts, guesses, link, dead, clock>>

-----------------------------------------------------------------------------
(* Password reset, logout, administration *)

RequestReset ==
    /\ user.active /\ ~link.mailed
    /\ link' = [link EXCEPT !.mailed = TRUE]
    /\ UNCHANGED <<user, tokens, redis, dead, at, job, clock>>

\* Nobody has used the link, or whoever did has not blacklisted it yet or never will.
FirstUse == link.uses = 0 \/ dead > 0 \/ \E g \in Handlers : at[g] = "consume"

\* Mutant: the link's jti is not looked up.
ResetUnchecked(h) ==
    /\ at[h] = "idle" /\ link.mailed
    /\ Goto(h, "stamp")
    /\ job' = [job EXCEPT ![h] = [op |-> "reset", changed |-> Never, first |-> FirstUse]]
    /\ UNCHANGED <<user, tokens, redis, link, dead, clock>>

ResetCheck(h) ==
    /\ at[h] = "idle" /\ link.mailed /\ ~link.spent
    /\ Goto(h, "stamp")
    /\ job' = [job EXCEPT ![h] = [op |-> "reset", changed |-> Never, first |-> FirstUse]]
    /\ UNCHANGED <<user, tokens, redis, link, dead, clock>>

\* password_changed_at is taken before the row is written and committed; no other
\* event falls into the same microsecond.
ResetStamp(h) ==
    /\ at[h] = "stamp" /\ user.password < MaxResets /\ clock < MaxClock
    /\ IF user.active
       THEN /\ Goto(h, "commit") /\ clock' = clock + 1
            /\ job' = [job EXCEPT ![h].changed = clock']
       ELSE Done(h) /\ UNCHANGED clock
    /\ UNCHANGED <<user, tokens, redis, link, dead>>

\* From here on every request in flight has read the row before this reset.
ResetCommit(h) ==
    /\ at[h] = "commit" /\ user.password < MaxResets
    /\ user' = [user EXCEPT !.password = @ + 1, !.changed = job[h].changed]
    /\ link' = [link EXCEPT !.uses = @ + 1]
    /\ Goto(h, "consume")
    /\ job' = [g \in Handlers |->
                 IF job[g].op \in {"login", "refresh"} THEN [job[g] EXCEPT !.raced = TRUE]
                 ELSE job[g]]
    /\ UNCHANGED <<tokens, redis, dead, clock>>

ResetConsume(h) ==
    /\ at[h] = "consume"
    /\ link' = [link EXCEPT !.spent = TRUE]
    /\ Done(h)
    /\ UNCHANGED <<user, tokens, redis, dead, clock>>

\* The process dies, or Redis does not answer, between the commit and the blacklist.
ResetDies(h) ==
    /\ at[h] = "consume" /\ dead = 0
    /\ dead' = 1
    /\ Done(h)
    /\ UNCHANGED <<user, tokens, redis, link, clock>>

\* Both tokens of the pair that the browser holds.
Logout(k) ==
    /\ spent' = spent \cup {<<"access", k>>, <<"refresh", k>>}
    /\ UNCHANGED <<user, tokens, revoked, attempts, guesses, link, dead, at, job, clock>>

\* An administrator disables the account or enables it again.
UpdateUser ==
    /\ user' = [user EXCEPT !.active = ~@]
    /\ UNCHANGED <<tokens, redis, link, dead, at, job, clock>>

Tick ==
    /\ clock < MaxClock /\ clock' = clock + 1
    /\ UNCHANGED <<user, tokens, redis, link, dead, at, job>>

Next ==
    \/ \E h \in Handlers :
        \/ \E p \in -1 .. user.password : LoginStart(h, p)
        \/ LoginVerify(h) \/ CountFailure(h) \/ LoginIssue(h)
        \/ \E k \in DOMAIN tokens : RefreshStart(h, k)
        \/ CheckReuse(h) \/ RevokeFamily(h) \/ RefreshUser(h) \/ Rotate(h)
        \/ ResetCheck(h) \/ ResetStamp(h) \/ ResetCommit(h) \/ ResetConsume(h) \/ ResetDies(h)
    \/ \E k \in DOMAIN tokens : Logout(k)
    \/ RequestReset \/ LockExpires \/ UpdateUser \/ Tick

Spec == Init /\ [][Next]_vars

-----------------------------------------------------------------------------
(* Properties *)

\* Rotation detects reuse: who gets to rotate a token presented it before it had a
\* successor, so two successors need two overlapping requests.
SuccessorsNeedOverlap == \A h \in Handlers : at[h] = "rotate" => job[h].first

\* A session that only knows an older password is accepted only if one of its requests
\* overlapped a reset, down to the second in which both happened.
OldSessionsNeedOverlap ==
    \A k \in DOMAIN tokens :
        Authenticates(k) /\ tokens[k].password < user.password => tokens[k].raced

\* Attempts in parallel pass the lockout by no more than there are of them.
GuessesAreBounded == guesses < MaxAttempts + Cardinality(Handlers)

\* A reset link sets a second password only for a request that overlapped the first, or
\* after one died with the link unconsumed.
LinkUsesNeedOverlap == \A h \in Handlers : at[h] \in {"stamp", "commit"} => job[h].first
=============================================================================
