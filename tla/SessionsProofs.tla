---------------------------- MODULE SessionsProofs ----------------------------
(***************************************************************************)
(* One account's sessions, for any number of requests and any timing.  A   *)
(* request reads and writes the user row, the blacklist and the counters   *)
(* in separate steps, so rotation, the reset link, the lockout and the end *)
(* of old sessions are broken only by requests that overlap; the four      *)
(* theorems say by which.                                                  *)
(***************************************************************************)
EXTENDS Sessions, FiniteSetTheorems, SequenceTheorems, TLAPS

Token == [family : Nat, parent : Nat, iat : Int, password : Int, raced : BOOLEAN]
UserRow == [active : BOOLEAN, password : Int, changed : Int]
Link == [mailed : BOOLEAN, uses : Nat, spent : BOOLEAN]

LoginJob == [op : {"login"}, password : Int, raced : BOOLEAN]
RefreshJob == [op : {"refresh"}, token : Nat, raced : BOOLEAN, first : BOOLEAN]
ResetJob == [op : {"reset"}, changed : Int, first : BOOLEAN]

LoginPlaces == {"verify", "count", "issue"}
RefreshPlaces == {"reuse", "revoke", "user", "rotate"}
ResetPlaces == {"stamp", "commit", "consume"}
Places == {"idle"} \cup LoginPlaces \cup RefreshPlaces \cup ResetPlaces

\* The shape of the rows, of the keys in Redis and of requests in flight.
TypeOK ==
    /\ user \in UserRow /\ link \in Link /\ tokens \in Seq(Token)
    /\ attempts \in Nat /\ guesses \in Nat /\ dead \in Nat /\ clock \in Nat
    /\ at \in [Handlers -> Places] /\ DOMAIN job = Handlers

JobOK(h) ==
    /\ at[h] \in LoginPlaces => job[h] \in LoginJob
    /\ at[h] \in RefreshPlaces => job[h] \in RefreshJob /\ job[h].token \in DOMAIN tokens
    /\ at[h] \in ResetPlaces => job[h] \in ResetJob

JobsOK == \A h \in Handlers : JobOK(h)

\* A token with a successor is blacklisted, so only a request that came before the
\* successor passes the look for it.
FirstToRotate(h) ==
    /\ at[h] = "reuse" => job[h].first \/ <<"refresh", job[h].token>> \in spent
    /\ at[h] \in {"user", "rotate"} => job[h].first

ReuseInv ==
    /\ \A s \in DOMAIN tokens :
          tokens[s].parent # 0 => <<"refresh", tokens[s].parent>> \in spent
    /\ \A h \in Handlers : FirstToRotate(h)

\* A used link is blacklisted, or somebody is about to do it, or has died instead.
LinkInv ==
    /\ ~link.spent => FirstUse
    /\ \A h \in Handlers : at[h] \in {"stamp", "commit"} => job[h].first

\* Wrong guesses are counted, or about to be; who has passed the lockout counts as
\* if he had guessed.
Counting == {h \in Handlers : at[h] = "count"}
Trying == {h \in Handlers : at[h] \in {"verify", "count"}}

GuessInv ==
    /\ guesses <= attempts + Cardinality(Counting)
    /\ attempts + Cardinality(Trying) < MaxAttempts + Cardinality(Handlers)

\* No request of token k's lineage overlapped a reset: then it knows the current
\* password, or is older than that.
SoundToken(k) ==
    /\ tokens[k].iat <= clock
    /\ ~tokens[k].raced =>
        /\ tokens[k].password = user.password \/ tokens[k].iat < user.changed
        /\ \A h \in Handlers : at[h] = "commit" => tokens[k].iat < job[h].changed

\* The same of a request, from its read of the user row on.
SoundJob(h) ==
    /\ at[h] = "issue" /\ ~job[h].raced => job[h].password = user.password
    /\ at[h] \in {"reuse", "user", "rotate"} /\ ~job[h].raced => ~tokens[job[h].token].raced
    /\ at[h] = "rotate" /\ ~job[h].raced => tokens[job[h].token].password = user.password

AgeInv ==
    /\ \A k \in DOMAIN tokens : SoundToken(k)
    /\ \A h \in Handlers : SoundJob(h)

SessionsInv == TypeOK /\ JobsOK /\ ReuseInv /\ LinkInv /\ GuessInv /\ AgeInv

-----------------------------------------------------------------------------
(* What a step may leave alone *)

\* Request g does nothing in this step.
Still(g) == at'[g] = at[g] /\ job'[g] = job[g]

LEMMA JobsKept ==
    ASSUME SessionsInv, DOMAIN tokens \subseteq DOMAIN tokens',
           \A g \in Handlers : Still(g) \/ JobOK(g)'
    PROVE  JobsOK'
BY DEF SessionsInv, JobsOK, JobOK, Still

\* Blacklisted tokens stay blacklisted.
LEMMA ReuseKept ==
    ASSUME SessionsInv, UNCHANGED tokens, spent \subseteq spent',
           \A g \in Handlers : Still(g) \/ FirstToRotate(g)'
    PROVE  ReuseInv'
BY DEF SessionsInv, ReuseInv, FirstToRotate, Still

\* Only the request that consumes the link leaves it to nobody.
LEMMA LinkKept ==
    ASSUME SessionsInv, link'.spent = link.spent, link'.uses = link.uses, UNCHANGED dead,
           \A g \in Handlers :
               \/ Still(g)
               \/ at[g] # "consume" /\ (at'[g] \in {"stamp", "commit"} => job'[g].first)
    PROVE  LinkInv'
BY DEF SessionsInv, LinkInv, FirstUse, Still

\* The requests that are counted are finitely many.
LEMMA Finiteness ==
    /\ IsFiniteSet(Counting) /\ Cardinality(Counting) \in Nat
    /\ IsFiniteSet(Trying) /\ Cardinality(Trying) \in Nat
    /\ Cardinality(Counting) <= Cardinality(Trying)
    /\ Cardinality(Trying) <= Cardinality(Handlers) /\ Cardinality(Handlers) \in Nat
<1>1. Counting \subseteq Trying /\ Trying \subseteq Handlers
  BY DEF Counting, Trying
<1>2. IsFiniteSet(Trying)
  BY <1>1, FS_Subset, SessionsAssumption
<1>3. QED  BY <1>1, <1>2, FS_Subset, FS_CardinalityType, SessionsAssumption

LEMMA FinitenessNext ==
    /\ IsFiniteSet(Counting') /\ Cardinality(Counting') \in Nat
    /\ IsFiniteSet(Trying') /\ Cardinality(Trying') \in Nat
    /\ Cardinality(Counting') <= Cardinality(Trying')
    /\ Cardinality(Trying') <= Cardinality(Handlers)
<1>1. Counting' \subseteq Trying' /\ Trying' \subseteq Handlers
  BY DEF Counting, Trying
<1>2. IsFiniteSet(Trying')
  BY <1>1, FS_Subset, SessionsAssumption
<1>3. QED  BY <1>1, <1>2, FS_Subset, FS_CardinalityType, SessionsAssumption

\* Nobody guesses, and nobody new passes the lockout.
LEMMA GuessKept ==
    ASSUME SessionsInv, UNCHANGED <<attempts, guesses>>,
           \A g \in Handlers : \/ Still(g)
                               \/ at[g] # "count" /\ at'[g] \notin {"verify", "count"}
    PROVE  GuessInv'
<1>1. Counting' = Counting /\ Trying' \subseteq Trying
  BY DEF Counting, Trying, Still
<1>2. Cardinality(Trying') <= Cardinality(Trying)
  BY <1>1, Finiteness, FS_Subset
<1>3. QED
  BY <1>1, <1>2, Finiteness, FinitenessNext, SessionsAssumption
  DEF SessionsInv, TypeOK, GuessInv

\* The password and the tokens stay, and nobody comes to the commit of a reset.
LEMMA AgeKept ==
    ASSUME SessionsInv, UNCHANGED tokens, clock' \in Nat, clock <= clock',
           user'.password = user.password, user'.changed = user.changed,
           \A g \in Handlers : Still(g) \/ (at'[g] # "commit" /\ SoundJob(g)')
    PROVE  AgeInv'
<1>1. ASSUME NEW k \in DOMAIN tokens PROVE SoundToken(k)'
  <2>1. tokens[k] \in Token /\ SoundToken(k)
    BY DEF SessionsInv, TypeOK, AgeInv
  <2>2. QED  BY <2>1 DEF SessionsInv, TypeOK, SoundToken, Still, Token
<1>2. ASSUME NEW g \in Handlers PROVE SoundJob(g)'
  BY <1>2 DEF SessionsInv, AgeInv, SoundJob, Still
<1>3. QED  BY <1>1, <1>2 DEF AgeInv

-----------------------------------------------------------------------------
(* Tokens *)

LEMMA TokenFields ==
    \A t \in Token : /\ t.family \in Nat /\ t.iat \in Int /\ t.password \in Int
                     /\ t.raced \in BOOLEAN
BY DEF Token

\* A reset's write of the user row, and of the link.
LEMMA UserFields ==
    /\ \A u \in UserRow, version \in Int, now \in Int :
          [u EXCEPT !.password = version, !.changed = now] \in UserRow
    /\ \A l \in Link : [l EXCEPT !.uses = @ + 1] \in Link
<1>1. \A u \in UserRow, version \in Int, now \in Int :
         [u EXCEPT !.password = version, !.changed = now] \in UserRow
  BY DEF UserRow
<1>2. \A l \in Link : [l EXCEPT !.uses = @ + 1] \in Link
  BY DEF Link
<1>3. QED  BY <1>1, <1>2

LEMMA IatIsPast == ASSUME NEW now \in Nat PROVE Iat(now) \in Int /\ Iat(now) <= now
<1>1. now % TickPerSecond \in 0 .. TickPerSecond - 1
  BY SessionsAssumption
<1>2. QED  BY <1>1, SessionsAssumption DEF Iat

\* A new token: raced if its request was, or if a reset is between stamp and commit.
LEMMA Issued ==
    ASSUME SessionsInv, NEW h \in Handlers, job[h].raced \in BOOLEAN, NEW family \in Nat,
           NEW parent \in Nat, NEW password \in Int, Issue(h, family, parent, password)
    PROVE  LET n == Len(tokens) + 1
               t == tokens'[n]
           IN  /\ n \in Nat \ DOMAIN tokens /\ tokens' \in Seq(Token)
               /\ DOMAIN tokens' = DOMAIN tokens \cup {n}
               /\ \A k \in DOMAIN tokens : tokens'[k] = tokens[k]
               /\ t \in Token /\ t.parent = parent /\ t.password = password
               /\ t.iat <= clock
               /\ ~t.raced => ~job[h].raced /\ ~Resetting
<1> DEFINE t == [family |-> family, parent |-> parent, iat |-> Iat(clock),
                 password |-> password, raced |-> job[h].raced \/ Resetting]
<1>1. Iat(clock) \in Int /\ Iat(clock) <= clock
  BY IatIsPast DEF SessionsInv, TypeOK
<1>2. t \in Token
  <2>1. (job[h].raced \/ Resetting) \in BOOLEAN
    OBVIOUS
  <2>2. QED  BY <1>1, <2>1 DEF Token
<1>3. /\ t.parent = parent /\ t.password = password /\ t.iat <= clock
      /\ ~t.raced => ~job[h].raced /\ ~Resetting
  BY <1>1
<1>4. tokens' = Append(tokens, t)
  BY DEF Issue
<1> HIDE DEF t
<1>5. /\ tokens' \in Seq(Token) /\ DOMAIN tokens' = DOMAIN tokens \cup {Len(tokens) + 1}
      /\ tokens'[Len(tokens) + 1] = t /\ \A k \in DOMAIN tokens : tokens'[k] = tokens[k]
  BY <1>2, <1>4, AppendProperties DEF SessionsInv, TypeOK
<1>6. Len(tokens) + 1 \in Nat \ DOMAIN tokens
  BY DEF SessionsInv, TypeOK
<1>7. QED  BY <1>2, <1>3, <1>5, <1>6

\* Its age is sound, if its request's was.
LEMMA AgeIssued ==
    ASSUME SessionsInv, NEW h \in Handlers, NEW t \in Token, NEW n \in Nat \ DOMAIN tokens,
           UNCHANGED <<user, clock>>,
           DOMAIN tokens' = DOMAIN tokens \cup {n}, tokens'[n] = t,
           \A k \in DOMAIN tokens : tokens'[k] = tokens[k],
           t.iat <= clock, ~t.raced => ~Resetting /\ t.password = user.password,
           at'[h] = "idle", \A g \in Handlers \ {h} : Still(g)
    PROVE  AgeInv'
<1>1. ASSUME NEW k \in DOMAIN tokens PROVE SoundToken(k)'
  <2>1. SoundToken(k) /\ tokens'[k] = tokens[k]
    BY DEF SessionsInv, AgeInv
  <2>2. \A g \in Handlers : at'[g] = "commit" => at[g] = "commit" /\ job'[g] = job[g]
    BY DEF Still
  <2>3. QED  BY <2>1, <2>2 DEF SoundToken
<1>2. SoundToken(n)'
  <2>1. ~t.raced => \A g \in Handlers : at'[g] # "commit"
    BY DEF Resetting, Still
  <2>2. QED  BY <2>1 DEF SoundToken
<1>3. ASSUME NEW g \in Handlers PROVE SoundJob(g)'
  <2>1. CASE g = h
    BY <2>1 DEF SoundJob
  <2>2. CASE g # h
    <3>1. SoundJob(g) /\ Still(g) /\ JobOK(g)
      BY <2>2 DEF SessionsInv, AgeInv, JobsOK
    <3>2. at[g] \in RefreshPlaces => tokens'[job[g].token] = tokens[job[g].token]
      BY <3>1 DEF JobOK, RefreshPlaces
    <3>3. QED  BY <3>1, <3>2 DEF SoundJob, Still, RefreshPlaces
  <2>3. QED  BY <2>1, <2>2
<1>4. QED  BY <1>1, <1>2, <1>3 DEF AgeInv

-----------------------------------------------------------------------------
(* One lemma per action *)
\* A login passes the lockout: there are no more of them than requests.
LEMMA LoginStartInv ==
    ASSUME SessionsInv, NEW h \in Handlers, NEW p \in Int, LoginStart(h, p)
    PROVE  SessionsInv'
<1> USE DEF SessionsInv, TypeOK, LoginStart, Goto, redis
<1>a. \A g \in Handlers \ {h} : Still(g)
  BY DEF Still
<1>1. TypeOK'
  BY DEF Places, LoginPlaces, RefreshPlaces, ResetPlaces
<1>2. JobsOK'
  <2>1. JobOK(h)'
    BY DEF JobOK, Places, LoginPlaces, RefreshPlaces, ResetPlaces,
           LoginJob, RefreshJob, ResetJob
  <2>2. QED  BY <1>a, <2>1, JobsKept
<1>3. ReuseInv'
  <2>1. FirstToRotate(h)'
    BY DEF FirstToRotate
  <2>2. QED  BY <1>a, <2>1, ReuseKept
<1>4. LinkInv'
  BY <1>a, LinkKept
<1>5. GuessInv'
  <2>1. Counting' = Counting
    BY <1>a DEF Counting, Still
  <2>2. QED  BY <2>1, Finiteness, FinitenessNext, SessionsAssumption DEF GuessInv
<1>6. AgeInv'
  <2>1. SoundJob(h)' /\ at'[h] # "commit"
    BY DEF SoundJob
  <2>2. QED  BY <1>a, <2>1, AgeKept
<1>7. QED  BY <1>1, <1>2, <1>3, <1>4, <1>5, <1>6

\* The password is compared: a wrong guess is to be counted.
LEMMA LoginVerifyInv ==
    ASSUME SessionsInv, NEW h \in Handlers, LoginVerify(h)
    PROVE  SessionsInv'
<1> USE DEF SessionsInv, TypeOK, LoginVerify, Done, Goto
<1>a. \A g \in Handlers \ {h} : Still(g)
  BY DEF Still
<1>b. job[h] \in LoginJob /\ at[h] = "verify"
  BY DEF JobsOK, JobOK, LoginPlaces
<1>1. TypeOK'
  BY DEF Places, LoginPlaces, RefreshPlaces, ResetPlaces
<1>2. JobsOK'
  <2>1. JobOK(h)'
    BY <1>b DEF JobOK, Places, LoginPlaces, RefreshPlaces, ResetPlaces
  <2>2. QED  BY <1>a, <2>1, JobsKept
<1>3. ReuseInv'
  <2>1. FirstToRotate(h)'
    BY DEF FirstToRotate
  <2>2. QED  BY <1>a, <2>1, ReuseKept
<1>4. LinkInv'
  BY <1>a, LinkKept
<1>5. GuessInv'
  <2>1. Trying' \subseteq Trying
    BY <1>a, <1>b DEF Trying, Still
  <2>2. Cardinality(Trying') <= Cardinality(Trying)
    BY <2>1, Finiteness, FS_Subset
  <2>3. guesses' <= attempts + Cardinality(Counting')
    <3>1. CASE job[h].password = user.password
      <4>1. Counting' = Counting
        BY <1>a, <1>b, <3>1 DEF Counting, Still
      <4>2. QED  BY <3>1, <4>1 DEF GuessInv
    <3>2. CASE job[h].password # user.password
      <4>1. Counting' = Counting \cup {h} /\ h \notin Counting
        BY <1>a, <1>b, <3>2 DEF Counting, Still
      <4>2. Cardinality(Counting') = Cardinality(Counting) + 1
        BY <4>1, Finiteness, FS_AddElement
      <4>3. QED  BY <3>2, <4>2, Finiteness DEF GuessInv
    <3>3. QED  BY <3>1, <3>2
  <2>4. QED
    BY <2>2, <2>3, Finiteness, FinitenessNext, SessionsAssumption DEF GuessInv
<1>6. AgeInv'
  <2>1. SoundJob(h)' /\ at'[h] # "commit"
    BY DEF SoundJob
  <2>2. QED  BY <1>a, <2>1, AgeKept
<1>7. QED  BY <1>1, <1>2, <1>3, <1>4, <1>5, <1>6

\* A wrong guess is counted.
LEMMA CountFailureInv ==
    ASSUME SessionsInv, NEW h \in Handlers, CountFailure(h)
    PROVE  SessionsInv'
<1> USE DEF SessionsInv, TypeOK, CountFailure, Done, Goto
<1>a. \A g \in Handlers \ {h} : Still(g)
  BY DEF Still
<1>1. TypeOK'
  BY DEF Places, LoginPlaces, RefreshPlaces, ResetPlaces
<1>2. JobsOK'
  <2>1. JobOK(h)'
    BY DEF JobOK, Places, LoginPlaces, RefreshPlaces, ResetPlaces,
           LoginJob, RefreshJob, ResetJob
  <2>2. QED  BY <1>a, <2>1, JobsKept
<1>3. ReuseInv'
  <2>1. FirstToRotate(h)'
    BY DEF FirstToRotate
  <2>2. QED  BY <1>a, <2>1, ReuseKept
<1>4. LinkInv'
  BY <1>a, LinkKept
<1>5. GuessInv'
  <2>1. /\ Counting' = Counting \ {h} /\ h \in Counting
        /\ Trying' = Trying \ {h} /\ h \in Trying
    BY <1>a DEF Counting, Trying, Still
  <2>2. /\ Cardinality(Counting') = Cardinality(Counting) - 1
        /\ Cardinality(Trying') = Cardinality(Trying) - 1
    BY <2>1, Finiteness, FS_RemoveElement
  <2>3. QED  BY <2>2, Finiteness, SessionsAssumption DEF GuessInv
<1>6. AgeInv'
  <2>1. SoundJob(h)' /\ at'[h] # "commit"
    BY DEF SoundJob
  <2>2. QED  BY <1>a, <2>1, AgeKept
<1>7. QED  BY <1>1, <1>2, <1>3, <1>4, <1>5, <1>6

\* A login starts a family, and clears the counter.
LEMMA LoginIssueInv ==
    ASSUME SessionsInv, NEW h \in Handlers, LoginIssue(h)
    PROVE  SessionsInv'
<1> USE DEF SessionsInv, TypeOK, LoginIssue, Done, Goto
<1>a. \A g \in Handlers \ {h} : Still(g)
  BY DEF Still
<1>b. job[h] \in LoginJob /\ at[h] = "issue" /\ at'[h] = "idle"
  BY DEF JobsOK, JobOK, LoginPlaces
<1>c. PICK t \in Token, n \in Nat \ DOMAIN tokens :
          /\ t.parent = 0 /\ t.iat <= clock
          /\ t.password = job[h].password
          /\ ~t.raced => ~job[h].raced /\ ~Resetting
          /\ tokens' \in Seq(Token) /\ DOMAIN tokens' = DOMAIN tokens \cup {n}
          /\ tokens'[n] = t /\ \A k \in DOMAIN tokens : tokens'[k] = tokens[k]
  <2>1. job[h].raced \in BOOLEAN
    BY <1>b DEF LoginJob
  <2>2. PICK f \in Nat, p \in Int : f = Len(tokens) + 1 /\ p = job[h].password
    BY <1>b DEF LoginJob
  <2>3. Issue(h, f, 0, p)
    BY <2>2 DEF Issue
  <2>4. QED
    <3> HIDE DEF SessionsInv, TypeOK, LoginIssue
    <3>1. QED  BY <2>1, <2>2, <2>3, Issued
<1>1. TypeOK'
  BY <1>c DEF Places, LoginPlaces, RefreshPlaces, ResetPlaces
<1>2. JobsOK'
  <2>1. JobOK(h)'
    BY <1>b DEF JobOK, LoginPlaces, RefreshPlaces, ResetPlaces
  <2>2. QED  BY <1>a, <1>c, <2>1, JobsKept
<1>3. ReuseInv'
  BY <1>a, <1>b, <1>c DEF ReuseInv, FirstToRotate, Still
<1>4. LinkInv'
  BY <1>a, <1>b, LinkKept
<1>5. GuessInv'
  <2>1. Trying' \subseteq Trying
    BY <1>a, <1>b DEF Trying, Still
  <2>2. Cardinality(Trying') <= Cardinality(Trying)
    BY <2>1, Finiteness, FS_Subset
  <2>3. QED  BY <2>2, Finiteness, FinitenessNext, SessionsAssumption DEF GuessInv
<1>6. AgeInv'
  <2>1. ~job[h].raced => job[h].password = user.password
    BY <1>b DEF AgeInv, SoundJob
  <2>2. QED  BY <1>a, <1>b, <1>c, <2>1, AgeIssued
<1>7. QED  BY <1>1, <1>2, <1>3, <1>4, <1>5, <1>6

\* The counter expires.
LEMMA LockExpiresInv ==
    ASSUME SessionsInv, LockExpires
    PROVE  SessionsInv'
<1> USE DEF SessionsInv, TypeOK, LockExpires
<1>a. \A g \in Handlers : Still(g)
  BY DEF Still
<1>1. TypeOK'
  BY DEF Places, LoginPlaces, RefreshPlaces, ResetPlaces
<1>2. JobsOK'
  BY <1>a, JobsKept
<1>3. ReuseInv'
  BY <1>a, ReuseKept
<1>4. LinkInv'
  BY <1>a, LinkKept
<1>5. GuessInv'
  <2>1. Trying' = Trying
    BY DEF Trying
  <2>2. QED  BY <2>1, Finiteness, FinitenessNext, SessionsAssumption DEF GuessInv
<1>6. AgeInv'
  BY <1>a, AgeKept
<1>7. QED  BY <1>1, <1>2, <1>3, <1>4, <1>5, <1>6

\* A refresh token is presented: if it has a successor, it is blacklisted.
LEMMA RefreshStartInv ==
    ASSUME SessionsInv, NEW h \in Handlers, NEW k \in DOMAIN tokens, RefreshStart(h, k)
    PROVE  SessionsInv'
<1> USE DEF SessionsInv, TypeOK, RefreshStart, Goto, redis
<1>a. \A g \in Handlers \ {h} : Still(g)
  BY DEF Still
<1>b. /\ at'[h] = "reuse" /\ k \in Nat \ {0} /\ tokens[k] \in Token
      /\ job'[h] = [op |-> "refresh", token |-> k, raced |-> tokens[k].raced,
                    first |-> ~Consumed(k)]
  OBVIOUS
<1>1. TypeOK'
  BY DEF Places, LoginPlaces, RefreshPlaces, ResetPlaces
<1>2. JobsOK'
  <2>1. job'[h] \in RefreshJob /\ job'[h].token = k
    <3>1. tokens[k].raced \in BOOLEAN /\ (~Consumed(k)) \in BOOLEAN
      BY <1>b DEF Token
    <3>2. QED  BY <1>b, <3>1 DEF RefreshJob
  <2>2. JobOK(h)'
    BY <1>b, <2>1 DEF JobOK, LoginPlaces, RefreshPlaces, ResetPlaces
  <2>3. QED  BY <1>a, <2>2, JobsKept
<1>3. ReuseInv'
  <2>1. Consumed(k) => <<"refresh", k>> \in spent
    BY <1>b DEF ReuseInv, Consumed
  <2>2. FirstToRotate(h)'
    BY <1>b, <2>1 DEF FirstToRotate
  <2>3. QED  BY <1>a, <2>2, ReuseKept
<1>4. LinkInv'
  BY <1>a, LinkKept
<1>5. GuessInv'
  BY <1>a, GuessKept
<1>6. AgeInv'
  <2>1. SoundJob(h)' /\ at'[h] # "commit"
    BY <1>b DEF SoundJob
  <2>2. QED  BY <1>a, <2>1, AgeKept
<1>7. QED  BY <1>1, <1>2, <1>3, <1>4, <1>5, <1>6

\* The blacklist is read: a replay goes no further.
LEMMA CheckReuseInv ==
    ASSUME SessionsInv, NEW h \in Handlers, CheckReuse(h)
    PROVE  SessionsInv'
<1> USE DEF SessionsInv, TypeOK, CheckReuse, Goto, redis
<1>a. \A g \in Handlers \ {h} : Still(g)
  BY DEF Still
<1>b. job[h] \in RefreshJob /\ job[h].token \in DOMAIN tokens
  BY DEF JobsOK, JobOK, RefreshPlaces
<1>1. TypeOK'
  BY DEF Places, LoginPlaces, RefreshPlaces, ResetPlaces
<1>2. JobsOK'
  <2>1. JobOK(h)'
    BY <1>b DEF JobOK, Places, LoginPlaces, RefreshPlaces, ResetPlaces
  <2>2. QED  BY <1>a, <2>1, JobsKept
<1>3. ReuseInv'
  <2>1. FirstToRotate(h)'
    BY DEF ReuseInv, FirstToRotate
  <2>2. QED  BY <1>a, <2>1, ReuseKept
<1>4. LinkInv'
  BY <1>a, LinkKept
<1>5. GuessInv'
  BY <1>a, GuessKept
<1>6. AgeInv'
  <2>1. SoundJob(h)' /\ at'[h] # "commit"
    BY DEF AgeInv, SoundJob
  <2>2. QED  BY <1>a, <2>1, AgeKept
<1>7. QED  BY <1>1, <1>2, <1>3, <1>4, <1>5, <1>6

\* A replay revokes its family.
LEMMA RevokeFamilyInv ==
    ASSUME SessionsInv, NEW h \in Handlers, RevokeFamily(h)
    PROVE  SessionsInv'
<1> USE DEF SessionsInv, TypeOK, RevokeFamily, Done, Goto
<1>a. \A g \in Handlers \ {h} : Still(g)
  BY DEF Still
<1>1. TypeOK'
  BY DEF Places, LoginPlaces, RefreshPlaces, ResetPlaces
<1>2. JobsOK'
  <2>1. JobOK(h)'
    BY DEF JobOK, Places, LoginPlaces, RefreshPlaces, ResetPlaces,
           LoginJob, RefreshJob, ResetJob
  <2>2. QED  BY <1>a, <2>1, JobsKept
<1>3. ReuseInv'
  <2>1. FirstToRotate(h)'
    BY DEF FirstToRotate
  <2>2. QED  BY <1>a, <2>1, ReuseKept
<1>4. LinkInv'
  BY <1>a, LinkKept
<1>5. GuessInv'
  BY <1>a, GuessKept
<1>6. AgeInv'
  <2>1. SoundJob(h)' /\ at'[h] # "commit"
    BY DEF SoundJob
  <2>2. QED  BY <1>a, <2>1, AgeKept
<1>7. QED  BY <1>1, <1>2, <1>3, <1>4, <1>5, <1>6

\* The user row is read: a token of before the last reset is refused.
LEMMA RefreshUserInv ==
    ASSUME SessionsInv, NEW h \in Handlers, RefreshUser(h)
    PROVE  SessionsInv'
<1> USE DEF SessionsInv, TypeOK, RefreshUser, Done, Goto, redis
<1>a. \A g \in Handlers \ {h} : Still(g)
  BY DEF Still
<1>b. job[h] \in RefreshJob /\ job[h].token \in DOMAIN tokens
  BY DEF JobsOK, JobOK, RefreshPlaces
<1>1. TypeOK'
  BY DEF Places, LoginPlaces, RefreshPlaces, ResetPlaces
<1>2. JobsOK'
  <2>1. JobOK(h)'
    BY <1>b DEF JobOK, Places, LoginPlaces, RefreshPlaces, ResetPlaces
  <2>2. QED  BY <1>a, <2>1, JobsKept
<1>3. ReuseInv'
  <2>1. FirstToRotate(h)'
    BY DEF ReuseInv, FirstToRotate
  <2>2. QED  BY <1>a, <2>1, ReuseKept
<1>4. LinkInv'
  BY <1>a, LinkKept
<1>5. GuessInv'
  BY <1>a, GuessKept
<1>6. AgeInv'
  <2>1. CASE at'[h] = "rotate"
    <3> DEFINE k == job[h].token
    <3>1. /\ job' = job /\ at[h] = "user" /\ tokens[k].iat >= user.changed
          /\ tokens[k] \in Token /\ user.changed \in Int
      BY <1>b, <2>1 DEF IssuedAfterChange, UserRow
    <3>2. ~job[h].raced => ~tokens[k].raced
      BY <3>1 DEF AgeInv, SoundJob
    <3>3. ~(tokens[k].iat < user.changed)
      BY <3>1, TokenFields
    <3>4. ~job[h].raced => tokens[k].password = user.password
      BY <1>b, <3>2, <3>3 DEF AgeInv, SoundToken
    <3>5. SoundJob(h)'
      BY <2>1, <3>1, <3>2, <3>4 DEF SoundJob
    <3>6. QED  BY <1>a, <2>1, <3>5, AgeKept
  <2>2. CASE at'[h] # "rotate"
    <3>1. SoundJob(h)' /\ at'[h] # "commit"
      BY <2>2 DEF SoundJob
    <3>2. QED  BY <1>a, <3>1, AgeKept
  <2>3. QED  BY <2>1, <2>2
<1>7. QED  BY <1>1, <1>2, <1>3, <1>4, <1>5, <1>6

\* The token is blacklisted and its successor issued.
LEMMA RotateInv ==
    ASSUME SessionsInv, NEW h \in Handlers, Rotate(h)
    PROVE  SessionsInv'
<1> USE DEF SessionsInv, TypeOK, Rotate, Done, Goto
<1>a. \A g \in Handlers \ {h} : Still(g)
  BY DEF Still
<1>b. /\ job[h] \in RefreshJob /\ job[h].token \in DOMAIN tokens /\ at[h] = "rotate"
      /\ at'[h] = "idle" /\ tokens[job[h].token] \in Token
      /\ spent' = spent \cup {<<"refresh", job[h].token>>}
  BY DEF JobsOK, JobOK, RefreshPlaces
<1>c. PICK t \in Token, n \in Nat \ DOMAIN tokens :
          /\ t.parent = job[h].token /\ t.iat <= clock
          /\ t.password = tokens[job[h].token].password
          /\ ~t.raced => ~job[h].raced /\ ~Resetting
          /\ tokens' \in Seq(Token) /\ DOMAIN tokens' = DOMAIN tokens \cup {n}
          /\ tokens'[n] = t /\ \A k \in DOMAIN tokens : tokens'[k] = tokens[k]
  <2>1. job[h].raced \in BOOLEAN
    BY <1>b DEF RefreshJob
  <2>2. PICK k \in Nat, f \in Nat, p \in Int :
           k = job[h].token /\ f = tokens[k].family /\ p = tokens[k].password
    BY <1>b, TokenFields DEF RefreshJob
  <2>3. Issue(h, f, k, p)
    BY <2>2 DEF Issue
  <2>4. QED
    <3> HIDE DEF SessionsInv, TypeOK, Rotate
    <3> DEFINE n == Len(tokens) + 1
    <3>1. /\ n \in Nat \ DOMAIN tokens /\ tokens' \in Seq(Token)
          /\ DOMAIN tokens' = DOMAIN tokens \cup {n}
          /\ \A j \in DOMAIN tokens : tokens'[j] = tokens[j]
          /\ tokens'[n] \in Token /\ tokens'[n].parent = k /\ tokens'[n].password = p
          /\ tokens'[n].iat <= clock
          /\ ~tokens'[n].raced => ~job[h].raced /\ ~Resetting
      BY <2>1, <2>3, Issued
    <3> HIDE DEF n
    <3>2. QED  BY <2>2, <3>1
<1>1. TypeOK'
  BY <1>c DEF Places, LoginPlaces, RefreshPlaces, ResetPlaces
<1>2. JobsOK'
  <2>1. JobOK(h)'
    BY <1>b DEF JobOK, LoginPlaces, RefreshPlaces, ResetPlaces
  <2>2. QED  BY <1>a, <1>c, <2>1, JobsKept
<1>3. ReuseInv'
  BY <1>a, <1>b, <1>c DEF ReuseInv, FirstToRotate, Still
<1>4. LinkInv'
  BY <1>a, <1>b, LinkKept
<1>5. GuessInv'
  BY <1>a, <1>b, GuessKept
<1>6. AgeInv'
  <2>1. ~job[h].raced => tokens[job[h].token].password = user.password
    BY <1>b DEF AgeInv, SoundJob
  <2>2. QED  BY <1>a, <1>b, <1>c, <2>1, AgeIssued
<1>7. QED  BY <1>1, <1>2, <1>3, <1>4, <1>5, <1>6

\* A link is mailed.
LEMMA RequestResetInv ==
    ASSUME SessionsInv, RequestReset
    PROVE  SessionsInv'
<1> USE DEF SessionsInv, TypeOK, RequestReset, redis
<1>a. \A g \in Handlers : Still(g)
  BY DEF Still
<1>1. TypeOK'
  BY DEF Link
<1>2. JobsOK'
  BY <1>a, JobsKept
<1>3. ReuseInv'
  BY <1>a, ReuseKept
<1>4. LinkInv'
  BY <1>a, LinkKept DEF Link
<1>5. GuessInv'
  BY <1>a, GuessKept
<1>6. AgeInv'
  BY <1>a, AgeKept
<1>7. QED  BY <1>1, <1>2, <1>3, <1>4, <1>5, <1>6

\* A link that is not blacklisted is accepted.
LEMMA ResetCheckInv ==
    ASSUME SessionsInv, NEW h \in Handlers, ResetCheck(h)
    PROVE  SessionsInv'
<1> USE DEF SessionsInv, TypeOK, ResetCheck, Goto, redis
<1>a. \A g \in Handlers \ {h} : Still(g)
  BY DEF Still
<1>1. TypeOK'
  BY DEF Places, LoginPlaces, RefreshPlaces, ResetPlaces
<1>2. JobsOK'
  <2>1. job'[h] = [op |-> "reset", changed |-> Never, first |-> FirstUse] /\ at'[h] = "stamp"
    OBVIOUS
  <2>2. job'[h] \in ResetJob
    <3>1. FirstUse \in BOOLEAN /\ Never \in Int
      BY DEF FirstUse, Never
    <3>2. QED  BY <2>1, <3>1 DEF ResetJob
  <2>3. JobOK(h)'
    BY <2>1, <2>2 DEF JobOK, LoginPlaces, RefreshPlaces
  <2>4. QED  BY <1>a, <2>3, JobsKept
<1>3. ReuseInv'
  <2>1. FirstToRotate(h)'
    BY DEF FirstToRotate
  <2>2. QED  BY <1>a, <2>1, ReuseKept
<1>4. LinkInv'
  <2>1. job'[h].first /\ at[h] # "consume"
    BY DEF LinkInv
  <2>2. QED  BY <1>a, <2>1, LinkKept
<1>5. GuessInv'
  BY <1>a, GuessKept
<1>6. AgeInv'
  <2>1. SoundJob(h)' /\ at'[h] # "commit"
    BY DEF SoundJob
  <2>2. QED  BY <1>a, <2>1, AgeKept
<1>7. QED  BY <1>1, <1>2, <1>3, <1>4, <1>5, <1>6

\* The time of the reset is taken: it is later than every token.
LEMMA ResetStampInv ==
    ASSUME SessionsInv, NEW h \in Handlers, ResetStamp(h)
    PROVE  SessionsInv'
<1> USE DEF SessionsInv, TypeOK, ResetStamp, Done, Goto, redis
<1>a. \A g \in Handlers \ {h} : Still(g)
  BY DEF Still
<1>b. job[h] \in ResetJob
  BY DEF JobsOK, JobOK, ResetPlaces
<1>c. at[h] = "stamp" /\ clock' \in {clock, clock + 1}
  OBVIOUS
<1>1. TypeOK'
  BY DEF Places, LoginPlaces, RefreshPlaces, ResetPlaces
<1>2. JobsOK'
  <2>1. CASE user.active
    <3>1. at'[h] = "commit" /\ job'[h] = [job[h] EXCEPT !.changed = clock']
      BY <2>1
    <3>2. job'[h] \in ResetJob
      BY <1>b, <1>c, <3>1 DEF ResetJob
    <3>3. JobOK(h)'
      BY <3>1, <3>2 DEF JobOK, LoginPlaces, RefreshPlaces
    <3>4. QED  BY <1>a, <3>3, JobsKept
  <2>2. CASE ~user.active
    <3>1. JobOK(h)'
      BY <2>2 DEF JobOK, LoginPlaces, RefreshPlaces, ResetPlaces
    <3>2. QED  BY <1>a, <3>1, JobsKept
  <2>3. QED  BY <2>1, <2>2
<1>3. ReuseInv'
  <2>1. FirstToRotate(h)'
    BY DEF FirstToRotate
  <2>2. QED  BY <1>a, <2>1, ReuseKept
<1>4. LinkInv'
  <2>1. job[h].first
    BY <1>c DEF LinkInv
  <2>2. job'[h].first \/ at'[h] = "idle"
    BY <1>b, <2>1 DEF ResetJob
  <2>3. QED  BY <1>a, <1>c, <2>2, LinkKept
<1>5. GuessInv'
  BY <1>a, GuessKept
<1>6. AgeInv'
  <2>1. CASE user.active
    <3>1. /\ at'[h] = "commit" /\ clock' = clock + 1
          /\ job'[h] = [job[h] EXCEPT !.changed = clock']
      BY <2>1
    <3>2. job'[h].changed = clock + 1
      BY <1>b, <3>1 DEF ResetJob
    <3>3. ASSUME NEW k \in DOMAIN tokens PROVE SoundToken(k)'
      <4>1. SoundToken(k) /\ tokens[k].iat \in Int
        BY TokenFields DEF AgeInv
      <4>2. tokens[k].iat < job'[h].changed /\ tokens[k].iat <= clock'
        BY <3>1, <3>2, <4>1 DEF SoundToken
      <4>3. QED  BY <1>a, <4>1, <4>2 DEF SoundToken, Still
    <3>4. \A g \in Handlers : SoundJob(g)'
      BY <1>a, <3>1 DEF AgeInv, SoundJob, Still
    <3>5. QED  BY <3>3, <3>4 DEF AgeInv
  <2>2. CASE ~user.active
    <3>1. SoundJob(h)' /\ at'[h] # "commit"
      BY <2>2 DEF SoundJob
    <3>2. QED  BY <1>a, <2>2, <3>1, AgeKept
  <2>3. QED  BY <2>1, <2>2
<1>7. QED  BY <1>1, <1>2, <1>3, <1>4, <1>5, <1>6

\* The reset is committed: whoever has read the user row has read an old one.
LEMMA ResetCommitInv ==
    ASSUME SessionsInv, NEW h \in Handlers, ResetCommit(h)
    PROVE  SessionsInv'
<1> USE DEF SessionsInv, TypeOK
<1>a. /\ at[h] = "commit" /\ at' = [at EXCEPT ![h] = "consume"]
      /\ user' = [user EXCEPT !.password = @ + 1, !.changed = job[h].changed]
      /\ link' = [link EXCEPT !.uses = @ + 1]
      /\ UNCHANGED <<tokens, spent, revoked, attempts, guesses, dead, clock>>
      /\ DOMAIN job' = Handlers
      /\ \A g \in Handlers :
            job'[g] = IF job[g].op \in {"login", "refresh"}
                      THEN [job[g] EXCEPT !.raced = TRUE] ELSE job[g]
  BY DEF ResetCommit, Goto, redis
<1>b. job[h] \in ResetJob
  BY <1>a DEF JobsOK, JobOK, ResetPlaces
<1>c. \A g \in Handlers \ {h} : at'[g] = at[g]
  BY <1>a
<1>d. ASSUME NEW g \in Handlers
      PROVE  /\ at[g] \in LoginPlaces => job'[g] \in LoginJob /\ job'[g].raced
             /\ at[g] \in RefreshPlaces => /\ job'[g] \in RefreshJob /\ job'[g].raced
                                           /\ job'[g].token = job[g].token
                                           /\ job'[g].first = job[g].first
             /\ at[g] \in ResetPlaces => job'[g] = job[g]
  <2>1. JobOK(g)
    BY DEF JobsOK
  <2>2. at[g] \in LoginPlaces => job'[g] \in LoginJob /\ job'[g].raced
    BY <1>a, <2>1 DEF JobOK, LoginJob
  <2>3. at[g] \in RefreshPlaces => /\ job'[g] \in RefreshJob /\ job'[g].raced
                                   /\ job'[g].token = job[g].token
                                   /\ job'[g].first = job[g].first
    BY <1>a, <2>1 DEF JobOK, RefreshJob
  <2>4. at[g] \in ResetPlaces => job'[g] = job[g]
    BY <1>a, <2>1 DEF JobOK, ResetJob
  <2>5. QED  BY <2>2, <2>3, <2>4
<1>e. user'.changed = job[h].changed
  BY <1>a DEF UserRow
<1>1. TypeOK'
  <2>1. at' \in [Handlers -> Places]
    BY <1>a DEF Places, ResetPlaces
  <2>2. user' \in UserRow /\ link' \in Link
    <3>1. job[h].changed \in Int /\ user.password + 1 \in Int
      BY <1>b DEF ResetJob, UserRow
    <3>2. QED  BY <1>a, <3>1, UserFields, Zenon
  <2>3. QED  BY <1>a, <2>1, <2>2
<1>2. JobsOK'
  <2>1. JobOK(h)'
    BY <1>a, <1>b, <1>d DEF JobOK, LoginPlaces, RefreshPlaces, ResetPlaces
  <2>2. ASSUME NEW g \in Handlers \ {h} PROVE JobOK(g)'
    BY <1>a, <1>c, <1>d DEF JobsOK, JobOK
  <2>3. QED  BY <2>1, <2>2 DEF JobsOK
<1>3. ReuseInv'
  <2>1. FirstToRotate(h)'
    BY <1>a DEF FirstToRotate
  <2>2. ASSUME NEW g \in Handlers \ {h} PROVE FirstToRotate(g)'
    BY <1>a, <1>c, <1>d DEF ReuseInv, FirstToRotate, RefreshPlaces
  <2>3. QED  BY <1>a, <2>1, <2>2 DEF ReuseInv
<1>4. LinkInv'
  <2>1. FirstUse' /\ at'[h] \notin {"stamp", "commit"}
    BY <1>a DEF FirstUse
  <2>2. \A g \in Handlers \ {h} : at'[g] \in {"stamp", "commit"} => job'[g].first
    BY <1>c, <1>d DEF LinkInv, ResetPlaces
  <2>3. QED  BY <2>1, <2>2 DEF LinkInv
<1>5. GuessInv'
  <2>1. Counting' = Counting /\ Trying' = Trying
    BY <1>a, <1>c DEF Counting, Trying
  <2>2. QED  BY <1>a, <2>1 DEF GuessInv
<1>6. AgeInv'
  <2>1. ASSUME NEW k \in DOMAIN tokens PROVE SoundToken(k)'
    <3>1. SoundToken(k)
      BY DEF AgeInv
    <3>2. ~tokens[k].raced => tokens[k].iat < user'.changed
      BY <1>a, <1>e, <3>1 DEF SoundToken
    <3>3. \A g \in Handlers : at'[g] = "commit" => at[g] = "commit" /\ job'[g] = job[g]
      BY <1>a, <1>c, <1>d DEF ResetPlaces
    <3>4. QED  BY <1>a, <3>1, <3>2, <3>3 DEF SoundToken
  <2>2. ASSUME NEW g \in Handlers PROVE SoundJob(g)'
    <3>1. CASE g = h
      BY <1>a, <3>1 DEF SoundJob
    <3>2. CASE g # h
      BY <1>c, <1>d, <3>2 DEF SoundJob, LoginPlaces, RefreshPlaces
    <3>3. QED  BY <3>1, <3>2
  <2>3. QED  BY <1>a, <2>1, <2>2 DEF AgeInv
<1>7. QED  BY <1>1, <1>2, <1>3, <1>4, <1>5, <1>6

\* The link is blacklisted.
LEMMA ResetConsumeInv ==
    ASSUME SessionsInv, NEW h \in Handlers, ResetConsume(h)
    PROVE  SessionsInv'
<1> USE DEF SessionsInv, TypeOK, ResetConsume, Done, Goto, redis
<1>a. \A g \in Handlers \ {h} : Still(g)
  BY DEF Still
<1>1. TypeOK'
  BY DEF Link, Places, LoginPlaces, RefreshPlaces, ResetPlaces
<1>2. JobsOK'
  <2>1. JobOK(h)'
    BY DEF JobOK, Places, LoginPlaces, RefreshPlaces, ResetPlaces,
           LoginJob, RefreshJob, ResetJob
  <2>2. QED  BY <1>a, <2>1, JobsKept
<1>3. ReuseInv'
  <2>1. FirstToRotate(h)'
    BY DEF FirstToRotate
  <2>2. QED  BY <1>a, <2>1, ReuseKept
<1>4. LinkInv'
  <2>1. link'.spent
    BY DEF Link
  <2>2. QED  BY <1>a, <2>1 DEF LinkInv, Still
<1>5. GuessInv'
  BY <1>a, GuessKept
<1>6. AgeInv'
  <2>1. SoundJob(h)' /\ at'[h] # "commit"
    BY DEF SoundJob
  <2>2. QED  BY <1>a, <2>1, AgeKept
<1>7. QED  BY <1>1, <1>2, <1>3, <1>4, <1>5, <1>6

\* A request dies with the link used and not blacklisted.
LEMMA ResetDiesInv ==
    ASSUME SessionsInv, NEW h \in Handlers, ResetDies(h)
    PROVE  SessionsInv'
<1> USE DEF SessionsInv, TypeOK, ResetDies, Done, Goto, redis
<1>a. \A g \in Handlers \ {h} : Still(g)
  BY DEF Still
<1>1. TypeOK'
  BY DEF Places, LoginPlaces, RefreshPlaces, ResetPlaces
<1>2. JobsOK'
  <2>1. JobOK(h)'
    BY DEF JobOK, Places, LoginPlaces, RefreshPlaces, ResetPlaces,
           LoginJob, RefreshJob, ResetJob
  <2>2. QED  BY <1>a, <2>1, JobsKept
<1>3. ReuseInv'
  <2>1. FirstToRotate(h)'
    BY DEF FirstToRotate
  <2>2. QED  BY <1>a, <2>1, ReuseKept
<1>4. LinkInv'
  <2>1. FirstUse'
    BY DEF FirstUse
  <2>2. QED  BY <1>a, <2>1 DEF LinkInv, Still
<1>5. GuessInv'
  BY <1>a, GuessKept
<1>6. AgeInv'
  <2>1. SoundJob(h)' /\ at'[h] # "commit"
    BY DEF SoundJob
  <2>2. QED  BY <1>a, <2>1, AgeKept
<1>7. QED  BY <1>1, <1>2, <1>3, <1>4, <1>5, <1>6

\* A pair of tokens is blacklisted.
LEMMA LogoutInv ==
    ASSUME SessionsInv, NEW k \in DOMAIN tokens, Logout(k)
    PROVE  SessionsInv'
<1> USE DEF SessionsInv, TypeOK, Logout
<1>a. \A g \in Handlers : Still(g)
  BY DEF Still
<1>1. TypeOK'
  OBVIOUS
<1>2. JobsOK'
  BY <1>a, JobsKept
<1>3. ReuseInv'
  BY <1>a, ReuseKept
<1>4. LinkInv'
  BY <1>a, LinkKept
<1>5. GuessInv'
  BY <1>a, GuessKept
<1>6. AgeInv'
  BY <1>a, AgeKept
<1>7. QED  BY <1>1, <1>2, <1>3, <1>4, <1>5, <1>6

\* The account is disabled or enabled.
LEMMA UpdateUserInv ==
    ASSUME SessionsInv, UpdateUser
    PROVE  SessionsInv'
<1> USE DEF SessionsInv, TypeOK, UpdateUser, redis
<1>a. \A g \in Handlers : Still(g)
  BY DEF Still
<1>1. TypeOK'
  BY DEF UserRow
<1>2. JobsOK'
  BY <1>a, JobsKept
<1>3. ReuseInv'
  BY <1>a, ReuseKept
<1>4. LinkInv'
  BY <1>a, LinkKept
<1>5. GuessInv'
  BY <1>a, GuessKept
<1>6. AgeInv'
  <2>1. user'.password = user.password /\ user'.changed = user.changed
    BY DEF UserRow
  <2>2. QED  BY <1>a, <2>1, AgeKept
<1>7. QED  BY <1>1, <1>2, <1>3, <1>4, <1>5, <1>6

\* Time passes.
LEMMA TickInv ==
    ASSUME SessionsInv, Tick
    PROVE  SessionsInv'
<1> USE DEF SessionsInv, TypeOK, Tick, redis
<1>a. \A g \in Handlers : Still(g)
  BY DEF Still
<1>1. TypeOK'
  OBVIOUS
<1>2. JobsOK'
  BY <1>a, JobsKept
<1>3. ReuseInv'
  BY <1>a, ReuseKept
<1>4. LinkInv'
  BY <1>a, LinkKept
<1>5. GuessInv'
  BY <1>a, GuessKept
<1>6. AgeInv'
  BY <1>a, AgeKept
<1>7. QED  BY <1>1, <1>2, <1>3, <1>4, <1>5, <1>6

-----------------------------------------------------------------------------
(* The specification *)

LEMMA SessionsInit == Init => SessionsInv
<1> SUFFICES ASSUME Init PROVE SessionsInv
  OBVIOUS
<1>1. TypeOK
  BY DEF Init, TypeOK, UserRow, Link, Places, Never
<1>2. JobsOK
  BY DEF Init, JobsOK, JobOK, LoginPlaces, RefreshPlaces, ResetPlaces
<1>3. ReuseInv
  BY DEF Init, ReuseInv, FirstToRotate
<1>4. LinkInv
  BY DEF Init, LinkInv, FirstUse
<1>5. GuessInv
  <2>1. Trying = {} /\ Counting = {}
    BY DEF Init, Trying, Counting
  <2>2. Cardinality(Trying) = 0 /\ Cardinality(Counting) = 0
    BY <2>1, FS_EmptySet
  <2>3. QED  BY <2>2, Finiteness, SessionsAssumption DEF Init, GuessInv
<1>6. AgeInv
  BY DEF Init, AgeInv, SoundJob
<1>7. QED  BY <1>1, <1>2, <1>3, <1>4, <1>5, <1>6 DEF SessionsInv

LEMMA SessionsStep == SessionsInv /\ [Next]_vars => SessionsInv'
<1> SUFFICES ASSUME SessionsInv, [Next]_vars PROVE SessionsInv'
  OBVIOUS
<1>1. ASSUME NEW h \in Handlers,
             \/ \E p \in -1 .. user.password : LoginStart(h, p)
             \/ LoginVerify(h) \/ CountFailure(h) \/ LoginIssue(h)
      PROVE  SessionsInv'
  <2>1. ASSUME NEW p \in -1 .. user.password, LoginStart(h, p) PROVE SessionsInv'
    <3>1. p \in Int
      BY DEF SessionsInv, TypeOK, UserRow
    <3>2. QED  BY <2>1, <3>1, LoginStartInv
  <2>2. QED  BY <1>1, <2>1, LoginVerifyInv, CountFailureInv, LoginIssueInv
<1>2. ASSUME NEW h \in Handlers,
             \/ \E k \in DOMAIN tokens : RefreshStart(h, k)
             \/ CheckReuse(h) \/ RevokeFamily(h) \/ RefreshUser(h) \/ Rotate(h)
      PROVE  SessionsInv'
  BY <1>2, RefreshStartInv, CheckReuseInv, RevokeFamilyInv, RefreshUserInv, RotateInv
<1>3. ASSUME NEW h \in Handlers,
             \/ ResetCheck(h) \/ ResetStamp(h) \/ ResetCommit(h)
             \/ ResetConsume(h) \/ ResetDies(h)
      PROVE  SessionsInv'
  BY <1>3, ResetCheckInv, ResetStampInv, ResetCommitInv, ResetConsumeInv, ResetDiesInv
<1>4. ASSUME NEW k \in DOMAIN tokens, Logout(k) PROVE SessionsInv'
  BY <1>4, LogoutInv
<1>5. ASSUME RequestReset \/ LockExpires \/ UpdateUser \/ Tick PROVE SessionsInv'
  BY <1>5, RequestResetInv, LockExpiresInv, UpdateUserInv, TickInv
<1>6. CASE UNCHANGED vars
  BY <1>6 DEF vars, SessionsInv, TypeOK, JobsOK, JobOK, ReuseInv, FirstToRotate, LinkInv,
              FirstUse, GuessInv, Counting, Trying, AgeInv, SoundToken, SoundJob
<1>7. QED  BY <1>1, <1>2, <1>3, <1>4, <1>5, <1>6 DEF Next

LEMMA SessionsInvariant == Spec => []SessionsInv
BY SessionsInit, SessionsStep, PTL DEF Spec

\* A refresh token is rotated only by requests that came before it had a successor:
\* two successors need two requests between the look into the blacklist and the
\* write (IdentityService.refresh).
THEOREM ReuseIsDetected == Spec => []SuccessorsNeedOverlap
<1>1. SessionsInv => SuccessorsNeedOverlap
  BY DEF SessionsInv, ReuseInv, FirstToRotate, SuccessorsNeedOverlap
<1>2. QED  BY <1>1, SessionsInvariant, PTL

\* A reset link sets a second password only for a request that overlapped the first,
\* or after one died before it blacklisted the link (IdentityService.reset_password).
THEOREM LinksAreSpent == Spec => []LinkUsesNeedOverlap
<1>1. SessionsInv => LinkUsesNeedOverlap
  BY DEF SessionsInv, LinkInv, LinkUsesNeedOverlap
<1>2. QED  BY <1>1, SessionsInvariant, PTL

\* Between two resets of the counter, the lockout lets through at most as many
\* guesses too many as there are requests in flight (IdentityService.login).
THEOREM LockoutHolds == Spec => []GuessesAreBounded
<1>1. SessionsInv => GuessesAreBounded
  BY Finiteness, SessionsAssumption DEF SessionsInv, TypeOK, GuessInv, GuessesAreBounded
<1>2. QED  BY <1>1, SessionsInvariant, PTL

\* After a reset no session of an older password is accepted, but one whose lineage
\* overlapped a reset (token_issued_after_password_change).
THEOREM ResetsEndSessions == Spec => []OldSessionsNeedOverlap
<1>1. ASSUME SessionsInv, NEW k \in DOMAIN tokens, Authenticates(k),
             tokens[k].password < user.password
      PROVE  tokens[k].raced
  <2>1. tokens[k] \in Token /\ user \in UserRow /\ SoundToken(k)
    BY <1>1 DEF SessionsInv, TypeOK, AgeInv
  <2>2. ~(tokens[k].iat < user.changed) /\ tokens[k].password # user.password
    BY <1>1, <2>1 DEF Authenticates, IssuedAfterChange, Token, UserRow
  <2>3. QED  BY <2>1, <2>2 DEF SoundToken
<1>2. SessionsInv => OldSessionsNeedOverlap
  BY <1>1 DEF OldSessionsNeedOverlap
<1>3. QED  BY <1>2, SessionsInvariant, PTL
=============================================================================
