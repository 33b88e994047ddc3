---------------------------- MODULE AgentsProofs ----------------------------
(***************************************************************************)
(* What the agents do for people: the proposals they leave for a decision  *)
(* (Proposals), for any number of people and proposals, and the            *)
(* conversations that run them (Conversations), for any number of tasks,   *)
(* any fleet of the agents, any requests and any failures.                 *)
(***************************************************************************)
EXTENDS Proposals, Conversations, FiniteSetTheorems, SequenceTheorems,
        NaturalsInduction, WellFoundedInduction, TLAPS

-----------------------------------------------------------------------------
(* Proposals *)

Working(u) == at[u] \in {"claimed", "written"}

\* One request at a time holds a row, and what it read is what is there.
LockInv ==
    /\ \A u, v \in Users : at[u] = "locked" /\ at[v] = "locked" /\ on[u] = on[v] => u = v
    /\ \A u \in Users : at[u] = "locked" =>
        /\ seen[u] = status[on[u]]
        /\ status[on[u]] # "absent"
        /\ u \in CanReview[expects[u]]

\* One request at a time works on a claimed proposal, with the proposed
\* arguments, and has or has not yet written.
ClaimInv ==
    /\ \A u, v \in Users : Working(u) /\ Working(v) /\ on[u] = on[v] => u = v
    /\ \A u \in Users : Working(u) =>
        /\ status[on[u]] = "applied"
        /\ arg[u] = hash[on[u]]
        /\ writes[on[u]] = IF at[u] = "claimed" THEN 0 ELSE 1

WriteInv ==
    /\ WrittenAtMostOnce
    /\ WroteWhatWasProposed
    /\ RefMeansWritten
    /\ \A p \in Ids : wrote[p] # {} => writes[p] > 0

PropInv == TypeOK /\ LockInv /\ ClaimInv /\ WriteInv /\ DecidedByAnother

USE DEF Stock, Match, Kinds

\* The empty table satisfies the invariant.
LEMMA PropInit == Init => PropInv
BY ProposalsAssumption DEF Init, PropInv, TypeOK, LockInv, ClaimInv, WriteInv, Working,
    WrittenAtMostOnce, WroteWhatWasProposed, RefMeansWritten, DecidedByAnother

\* Every step of Next preserves the invariant.
LEMMA PropNext == PropInv /\ [Next]_vars => PropInv'
<1> SUFFICES ASSUME PropInv, [Next]_vars PROVE PropInv'
    OBVIOUS
<1> USE ProposalsAssumption DEF PropInv, TypeOK, LockInv, ClaimInv, WriteInv, Working,
    WrittenAtMostOnce, WroteWhatWasProposed, RefMeansWritten, DecidedByAnother,
    table, effect, request, Locked
<1>1. ASSUME NEW p \in Ids, NEW k \in Kinds, NEW mk \in Users \cup {NoUser},
             NEW x \in Payloads, CreateProposal(p, k, mk, x)
      PROVE PropInv'
    BY <1>1 DEF CreateProposal
<1>2. ASSUME NEW u \in Users, NEW p \in Ids, NEW o \in {"approve", "reject"},
             NEW k \in Kinds, GetForUpdate(u, p, o, k)
      PROVE PropInv'
    BY <1>2 DEF GetForUpdate
<1>3. ASSUME NEW u \in Users, Refuse(u) PROVE PropInv'
    BY <1>3 DEF Refuse
<1>4. ASSUME NEW u \in Users, Reject(u) PROVE PropInv'
    BY <1>4 DEF Reject, MayDecide
<1>5. ASSUME NEW u \in Users, Claim(u) PROVE PropInv'
    BY <1>5 DEF Claim, MayDecide, Intact
<1>6. ASSUME NEW u \in Users, ApplyStock(u) PROVE PropInv'
    BY <1>6 DEF ApplyStock, Written
<1>7. ASSUME NEW u \in Users, SaveRef(u) PROVE PropInv'
    BY <1>7 DEF SaveRef
<1>8. ASSUME NEW u \in Users, ApplyMatch(u) PROVE PropInv'
    BY <1>8 DEF ApplyMatch, Written
<1>9. ASSUME NEW u \in Users, Unclaim(u) PROVE PropInv'
    BY <1>9 DEF Unclaim
<1>10. ASSUME NEW u \in Users, WriteBreaksSession(u) PROVE PropInv'
    BY <1>10 DEF WriteBreaksSession
<1>11. ASSUME NEW u \in Users, Crash(u) PROVE PropInv'
    BY <1>11 DEF Crash
<1>12. ASSUME NEW p \in Ids, NEW x \in Payloads, EditByHand(p, x) PROVE PropInv'
    BY <1>12 DEF EditByHand
<1>13. CASE UNCHANGED vars
    BY <1>13 DEF vars
<1> HIDE DEF PropInv, Kinds
<1> QED
    BY <1>1, <1>2, <1>3, <1>4, <1>5, <1>6, <1>7, <1>8, <1>9, <1>10, <1>11, <1>12, <1>13
    DEF Next

\* The maker-checker discipline, for any people, proposals and permissions: no
\* proposal is written twice, what is written is what was proposed, and a
\* decision is always somebody else's who is entitled to it.
THEOREM MakerChecker ==
    Spec => [](TypeOK /\ WrittenAtMostOnce /\ DecidedByAnother /\ WroteWhatWasProposed
               /\ RefMeansWritten)
<1>1. PropInv => TypeOK /\ WrittenAtMostOnce /\ DecidedByAnother /\ WroteWhatWasProposed
                 /\ RefMeansWritten
    BY DEF PropInv, WriteInv
<1> QED
    BY PropInit, PropNext, <1>1, PTL DEF Spec

\* What apply wrote is the payload that was proposed, whoever edited the row in
\* between: the digest is checked under the lock the write is made under.
THEOREM AsProposed == Spec => []WroteWhatWasProposed
<1>1. PropInv => WroteWhatWasProposed
    BY DEF PropInv, WriteInv
<1> QED
    BY PropInit, PropNext, <1>1, PTL DEF Spec

\* A rejection and a committed write are final: no later step takes them back.
THEOREM FinalDecisions == Spec => DecisionsAreFinal
<1> DEFINE Final == \A p \in Ids :
        /\ status[p] = "rejected" => status'[p] = "rejected"
        /\ writes[p] > 0 => status'[p] = "applied" /\ reviewer'[p] = reviewer[p]
<1>1. PropInv /\ [Next]_vars => [Final]_vars
    <2> SUFFICES ASSUME PropInv, Next PROVE Final
        OBVIOUS
    <2> USE DEF PropInv, TypeOK, LockInv, ClaimInv, WriteInv, Working,
            WrittenAtMostOnce, table, effect, request, Locked
    <2>1. ASSUME NEW p \in Ids, NEW k \in Kinds, NEW mk \in Users \cup {NoUser},
                 NEW x \in Payloads, CreateProposal(p, k, mk, x)
          PROVE Final
        BY <2>1 DEF CreateProposal
    <2>2. ASSUME NEW u \in Users, Reject(u) PROVE Final
        BY <2>2 DEF Reject, MayDecide
    <2>3. ASSUME NEW u \in Users, Claim(u) PROVE Final
        BY <2>3 DEF Claim, MayDecide
    <2>4. ASSUME NEW u \in Users, Unclaim(u) PROVE Final
        BY <2>4 DEF Unclaim
    <2>5. ASSUME UNCHANGED <<status, reviewer>> PROVE Final
        BY <2>5
    <2>6. ASSUME NEW u \in Users,
                 \/ \E p \in Ids, o \in {"approve", "reject"}, k \in Kinds :
                        GetForUpdate(u, p, o, k)
                 \/ Refuse(u) \/ ApplyStock(u) \/ SaveRef(u) \/ ApplyMatch(u)
                 \/ WriteBreaksSession(u) \/ Crash(u)
          PROVE UNCHANGED <<status, reviewer>>
        BY <2>6, Zenon DEF GetForUpdate, Refuse, ApplyStock, SaveRef, ApplyMatch,
            WriteBreaksSession, Crash
    <2>7. ASSUME NEW p \in Ids, NEW x \in Payloads, EditByHand(p, x)
          PROVE UNCHANGED <<status, reviewer>>
        BY <2>7 DEF EditByHand
    <2> HIDE DEF Final, PropInv, Kinds
    <2> QED
        BY <2>1, <2>2, <2>3, <2>4, <2>5, <2>6, <2>7 DEF Next
<1>2. Spec => []PropInv
    BY PropInit, PropNext, PTL DEF Spec
<1> QED
    BY <1>1, <1>2, PTL DEF Spec, DecisionsAreFinal

-----------------------------------------------------------------------------
(* The registry *)

\* The one requirement of the registry: the reporter (G) needs the forecast (D).
Required(a) == IF a = "G" THEN {"D"} ELSE {}

\* The registry, read off agent by agent.
LEMMA AgentsAre == Agents = {"A", "B", "C", "D", "E", "F", "G", "H", "I", "J", "K"}
BY DEF Agents, AGENT_REGISTRY

LEMMA RequiredIs == \A a \in Agents : AGENT_REGISTRY[a].required = Required(a)
<1> SUFFICES ASSUME NEW a \in Agents PROVE AGENT_REGISTRY[a].required = Required(a)
  OBVIOUS
<1>1. a \in {"A", "B", "C", "D", "E", "F", "G", "H", "I", "J", "K"}
  BY AgentsAre
<1>2. /\ AGENT_REGISTRY["A"].required = {} /\ AGENT_REGISTRY["B"].required = {}
      /\ AGENT_REGISTRY["C"].required = {} /\ AGENT_REGISTRY["D"].required = {}
      /\ AGENT_REGISTRY["E"].required = {} /\ AGENT_REGISTRY["F"].required = {}
      /\ AGENT_REGISTRY["G"].required = {"D"} /\ AGENT_REGISTRY["H"].required = {}
      /\ AGENT_REGISTRY["I"].required = {} /\ AGENT_REGISTRY["J"].required = {}
      /\ AGENT_REGISTRY["K"].required = {}
  BY DEF AGENT_REGISTRY, Descriptor
<1>3. QED  BY <1>1, <1>2 DEF Required

\* No two agents have the same priority in the hub.
LEMMA Priorities ==
    /\ \A a \in Agents : AGENT_REGISTRY[a].priority \in Nat
    /\ \A a, b \in Agents : a # b => AGENT_REGISTRY[a].priority # AGENT_REGISTRY[b].priority
BY AgentsAre DEF AGENT_REGISTRY, Descriptor

\* The fast path never takes the summary.
LEMMA SummaryWrites == ~AGENT_REGISTRY["J"].readOnly
BY DEF AGENT_REGISTRY, Descriptor

\* There are finitely many agents.
LEMMA AgentsFinite == IsFiniteSet(Agents) /\ Cardinality(Agents) \in Nat /\ Cardinality(Agents) >= 1
<1>1. \A x, y, z, w : IsFiniteSet({x, y, z, w})
  <2> TAKE x, y, z, w
  <2>1. IsFiniteSet({x}) /\ IsFiniteSet({y}) /\ IsFiniteSet({z}) /\ IsFiniteSet({w})
    BY FS_Singleton
  <2>2. IsFiniteSet({x} \cup {y}) /\ IsFiniteSet({z} \cup {w})
    BY <2>1, FS_Union
  <2>3. IsFiniteSet(({x} \cup {y}) \cup ({z} \cup {w}))
    BY <2>2, FS_Union
  <2>4. {x, y, z, w} = ({x} \cup {y}) \cup ({z} \cup {w})
    OBVIOUS
  <2>5. QED  BY <2>3, <2>4
<1> DEFINE P == {"A", "B", "C", "D"}
           Q == {"E", "F", "G", "H"}
           R == {"I", "J", "K", "K"}
<1>2. IsFiniteSet(P) /\ IsFiniteSet(Q) /\ IsFiniteSet(R)
  BY <1>1
<1>3. Agents = (P \cup Q) \cup R
  BY AgentsAre
<1> HIDE DEF P, Q, R
<1>4. IsFiniteSet(Agents)
  BY <1>2, <1>3, FS_Union
<1>5. QED
  BY <1>4, AgentsAre, FS_CardinalityType, FS_EmptySet

\* Induction over the numbers, from the well-foundedness of <.
LEMMA Induction ==
    ASSUME NEW T, 0 \in T, \A n \in Nat : n \in T => n + 1 \in T
    PROVE  Nat \subseteq T
<1> DEFINE R == OpToRel(<, Nat)
<1>1. \A x, y \in Nat : y < x => <<y, x>> \in R
  BY DEF OpToRel
<1>2. ASSUME Nat \ T # {} PROVE FALSE
  <2>1. \E x \in Nat \ T : \A y \in Nat \ T : ~ (<<y, x>> \in R)
    BY <1>2, NatLessThanWellFounded, WFMin
  <2> HIDE DEF R
  <2>2. PICK m \in Nat \ T : \A k \in Nat \ T : ~ (<<k, m>> \in R)
    BY <2>1
  <2>3. \A k \in Nat \ T : ~ (k < m)
    BY <1>1, <2>2
  <2>4. m - 1 \in Nat /\ m - 1 \in T
    BY <2>3
  <2>5. QED  BY <2>2, <2>4
<1>3. QED  BY <1>2

\* Some member of a set of numbers is least.
LEMMA Least ==
    ASSUME NEW S \in SUBSET Nat, S # {}
    PROVE  \E m \in S : \A k \in S : m <= k
<1> DEFINE R == OpToRel(<, Nat)
<1>1. \A x, y \in Nat : y < x => <<y, x>> \in R
  BY DEF OpToRel
<1>2. \E m \in S : \A k \in S : ~ (<<k, m>> \in R)
  BY NatLessThanWellFounded, WFMin
<1> HIDE DEF R
<1>3. PICK m \in S : \A k \in S : ~ (<<k, m>> \in R)
  BY <1>2
<1>4. \A k \in S : ~ (k < m)
  BY <1>1, <1>3
<1>5. QED  BY <1>4

\* The closure of the targets adds what they require.
LEMMA NeededIs ==
    ASSUME NEW targets \in SUBSET Agents
    PROVE  Needed(targets) = targets \cup (IF "G" \in targets THEN {"D"} ELSE {})
<1> DEFINE C == Cardinality(Agents)
           All == targets \cup (IF "G" \in targets THEN {"D"} ELSE {})
           Closure(S) == UNION {{a} \cup AGENT_REGISTRY[a].required : a \in S}
           Is(f) == f = [n \in 0..C |-> IF n = 0 THEN targets ELSE Closure(f[n - 1])]
           f0 == [n \in 0..C |-> IF n = 0 THEN targets ELSE All]
<1>1. C \in Nat /\ C >= 1
  BY AgentsFinite
<1>2. \A S \in SUBSET Agents : Closure(S) = S \cup (IF "G" \in S THEN {"D"} ELSE {})
  <2> TAKE S \in SUBSET Agents
  <2>1. \A a \in S : {a} \cup AGENT_REGISTRY[a].required = {a} \cup (IF a = "G" THEN {"D"} ELSE {})
    BY RequiredIs DEF Required
  <2> DEFINE U(a) == {a} \cup AGENT_REGISTRY[a].required
             V(a) == {a} \cup (IF a = "G" THEN {"D"} ELSE {})
  <2>2. \A a \in S : U(a) = V(a)
    BY <2>1
  <2>3. \A x : x \in Closure(S) <=> \E a \in S : x \in U(a)
    OBVIOUS
  <2> HIDE DEF U, Closure
  <2>4. \A x : x \in Closure(S) <=> x \in S \/ ("G" \in S /\ x = "D")
    BY <2>2, <2>3
  <2>5. QED  BY <2>4
<1>3. All \in SUBSET Agents
  BY AgentsAre
<1>4. Closure(targets) = All /\ Closure(All) = All
  BY <1>2, <1>3
<1> HIDE DEF C, All, Closure
<1>5. Is(f0)
  <2>1. ASSUME NEW n \in 0..C PROVE f0[n] = IF n = 0 THEN targets ELSE Closure(f0[n - 1])
    <3>1. CASE n = 0  BY <3>1
    <3>2. CASE n # 0
      <4>1. n - 1 \in 0..C
        BY <3>2, <1>1
      <4>2. f0[n - 1] \in {targets, All} /\ f0[n] = All
        BY <4>1, <3>2
      <4>3. QED  BY <4>2, <3>2, <1>4
    <3>3. QED  BY <3>1, <3>2
  <2>2. QED  BY <2>1
<1> DEFINE reach == CHOOSE f : Is(f)
<1>6. Is(reach)
  BY <1>5
<1>7. Needed(targets) = reach[C]
  BY DEF Needed, C, Closure
<1> HIDE DEF reach, f0
<1> DEFINE Whole(n) == n = 0 \/ reach[n] = All
<1>8. Whole(C)
  <2> DEFINE T == {n \in Nat : n \in 0..C => Whole(n)}
  <2>1. 0 \in T
    OBVIOUS
  <2>2. ASSUME NEW n \in Nat, n \in T PROVE n + 1 \in T
    <3> SUFFICES ASSUME n + 1 \in 0..C PROVE reach[n + 1] = All
      OBVIOUS
    <3>1. n \in 0..C /\ n + 1 # 0 /\ (n + 1) - 1 = n
      BY <1>1
    <3>2. reach[n + 1] = Closure(reach[n])
      BY <1>6, <3>1
    <3>3. reach[0] = targets
      BY <1>6, <1>1
    <3>4. reach[n] \in {targets, All}
      BY <3>3, <3>1, <2>2
    <3>5. QED  BY <3>2, <3>4, <1>4
  <2> HIDE DEF T
  <2>3. Nat \subseteq T
    BY <2>1, <2>2, Induction
  <2>4. QED  BY <2>3, <1>1 DEF T
<1>9. QED  BY <1>1, <1>7, <1>8 DEF All

\* The longest path to an agent, counted in agents.
Level(a) == IF a = "G" THEN 2 ELSE 1

\* A largest member is the maximum.
LEMMA MaxIs == ASSUME NEW S \in SUBSET Nat, NEW m \in S, \A x \in S : x <= m PROVE Max(S) = m
<1>1. \A y \in S : m >= y
  OBVIOUS
<1>2. Max(S) \in S /\ \A y \in S : Max(S) >= y
  BY <1>1 DEF Max
<1>3. Max(S) \in Nat /\ m \in Nat /\ Max(S) >= m /\ Max(S) <= m
  <2> HIDE DEF Max
  <2>1. QED  BY <1>2
<1>4. QED  BY <1>3

\* build_plan: a level without requirements, and the reporter after the forecast.
LEMMA BuildPlan ==
    ASSUME NEW targets \in SUBSET Agents
    PROVE  LET needed == Needed(targets)
               last == IF needed = {} THEN 0 ELSE IF "G" \in needed THEN 2 ELSE 1
           IN build_plan(targets) = [n \in 1..last |-> {a \in needed : Level(a) = n}]
<1> DEFINE Up(f, a) == 1 + Max({0} \cup {f[b] : b \in AGENT_REGISTRY[a].required})
           Is(f) == f = [a \in Agents |-> Up(f, a)]
           f0 == [a \in Agents |-> Level(a)]
<1>1. "D" \in Agents /\ "G" \in Agents
  BY AgentsAre
<1>2. ASSUME NEW f, NEW a \in Agents, a # "G" PROVE Up(f, a) = 1
  <2>1. {0} \cup {f[b] : b \in AGENT_REGISTRY[a].required} = {0}
    BY <1>2, RequiredIs DEF Required
  <2>2. Max({0}) = 0
    BY MaxIs
  <2>3. QED  BY <2>1, <2>2
<1>3. ASSUME NEW f, f["D"] = 1 PROVE Up(f, "G") = 2
  <2>1. {0} \cup {f[b] : b \in AGENT_REGISTRY["G"].required} = {0, 1}
    BY <1>1, <1>3, RequiredIs DEF Required
  <2>2. Max({0, 1}) = 1
    BY MaxIs
  <2>3. QED  BY <2>1, <2>2
<1> HIDE DEF Up
<1>4. Is(f0)
  <2>1. f0["D"] = 1
    BY <1>1 DEF Level
  <2>2. \A a \in Agents : Level(a) = Up(f0, a)
    BY <2>1, <1>2, <1>3 DEF Level
  <2>3. QED  BY <2>2
<1> DEFINE level == CHOOSE f : Is(f)
<1>5. Is(level)
  BY <1>4
<1>6. build_plan(targets) =
         [n \in 1..Max({0} \cup {level[a] : a \in Needed(targets)}) |->
             {a \in Needed(targets) : level[a] = n}]
  BY DEF build_plan, Up
<1> HIDE DEF level
<1>7. level["D"] = 1
  BY <1>5, <1>2, <1>1
<1>8. \A a \in Agents : level[a] = Level(a)
  BY <1>5, <1>2, <1>3, <1>7 DEF Level
<1> DEFINE needed == Needed(targets)
           last == IF needed = {} THEN 0 ELSE IF "G" \in needed THEN 2 ELSE 1
           S == {0} \cup {level[a] : a \in needed}
<1>9. needed \subseteq Agents
  BY NeededIs, <1>1
<1>10. S \in SUBSET Nat /\ last \in S /\ \A x \in S : x <= last
  BY <1>8, <1>9 DEF Level
<1>11. Max(S) = last
  <2> HIDE DEF S, last
  <2>1. QED  BY <1>10, MaxIs
<1>12. \A n : {a \in needed : level[a] = n} = {a \in needed : Level(a) = n}
  BY <1>8, <1>9
<1> HIDE DEF last, needed
<1>13. build_plan(targets) = [n \in 1..last |-> {a \in needed : level[a] = n}]
  BY <1>6, <1>11 DEF needed
<1>14. QED  BY <1>12, <1>13 DEF last, needed

\* A plan for some targets: whatever they need is in some stage, what an agent requires
\* is in an earlier one, and the summary is the last stage and in no other.
PlanFor(targets, plan) ==
    /\ plan \in Seq(SUBSET Agents) /\ Len(plan) >= 1
    /\ \A a \in Needed(targets) \cup {"J"} : \E n \in 1..Len(plan) : a \in plan[n]
    /\ \A n \in 1..Len(plan) : \A a \in plan[n] : \A b \in AGENT_REGISTRY[a].required :
            \E m \in 1..n-1 : b \in plan[m]
    /\ plan[Len(plan)] = {"J"} /\ \A n \in 1..Len(plan)-1 : "J" \notin plan[n]

\* build_full_plan makes such a plan.
LEMMA FullPlan ==
    ASSUME NEW targets \in SUBSET Agents
    PROVE  PlanFor(targets, build_full_plan(targets))
<1> DEFINE base == targets \ {"J"}
           needed == Needed(base)
           last == IF needed = {} THEN 0 ELSE IF "G" \in needed THEN 2 ELSE 1
           early == [n \in 1..last |-> {a \in needed : Level(a) = n}]
           plan == build_full_plan(targets)
<1>1. base \in SUBSET Agents /\ "D" \in Agents /\ "J" \in Agents
  BY AgentsAre
<1>2. needed = base \cup (IF "G" \in base THEN {"D"} ELSE {})
  BY <1>1, NeededIs
<1>3. needed \subseteq Agents /\ "J" \notin needed /\ ("G" \in needed => "D" \in needed)
  BY <1>1, <1>2
<1>4. Needed(targets) \cup {"J"} = needed \cup {"J"}
  BY <1>2, NeededIs
<1>5. build_plan(base) = early
  BY <1>1, BuildPlan
<1>6. plan = Append(early, {"J"})
  BY <1>5 DEF build_full_plan
<1> HIDE DEF needed, plan
<1>7. last \in Nat
  OBVIOUS
<1>8. early \in Seq(SUBSET Agents) /\ Len(early) = last
  BY <1>3, <1>7
<1>9. /\ plan \in Seq(SUBSET Agents) /\ Len(plan) = last + 1
      /\ \A n \in 1..last : plan[n] = {a \in needed : Level(a) = n}
      /\ plan[last + 1] = {"J"}
  <2> HIDE DEF last
  <2>1. {"J"} \in SUBSET Agents
    BY <1>1
  <2>2. \A n \in 1..last : early[n] = {a \in needed : Level(a) = n}
    OBVIOUS
  <2> HIDE DEF early
  <2>3. QED  BY <1>6, <1>7, <1>8, <2>1, <2>2
<1>10. \A a \in needed \cup {"J"} : \E n \in 1..Len(plan) : a \in plan[n]
  <2> TAKE a \in needed \cup {"J"}
  <2>1. CASE a = "J"
    <3>1. last + 1 \in 1..Len(plan)
      BY <1>7, <1>9
    <3>2. QED  BY <2>1, <3>1, <1>9
  <2>2. CASE a \in needed
    <3>1. Level(a) \in 1..last
      BY <2>2 DEF Level
    <3>2. Level(a) \in 1..Len(plan) /\ a \in plan[Level(a)]
      BY <3>1, <2>2, <1>7, <1>9
    <3>3. QED  BY <3>2
  <2>3. QED  BY <2>1, <2>2
<1>11. ASSUME NEW n \in 1..Len(plan), NEW a \in plan[n], NEW b \in AGENT_REGISTRY[a].required
       PROVE  \E m \in 1..n-1 : b \in plan[m]
  <2>1. n = last + 1 \/ n \in 1..last
    BY <1>7, <1>9
  <2>2. a \in Agents
    BY <2>1, <1>9, <1>1, <1>3
  <2>3. a = "G" /\ b = "D"
    BY <2>2, RequiredIs DEF Required
  <2>4. n \in 1..last /\ n = 2 /\ "G" \in needed
    BY <2>1, <2>3, <1>9 DEF Level
  <2>5. 1 \in 1..last /\ 1 \in 1..n-1
    BY <2>4
  <2>6. "D" \in plan[1]
    BY <2>4, <2>5, <1>3, <1>9 DEF Level
  <2>7. QED  BY <2>3, <2>5, <2>6
<1>12. \A n \in 1..Len(plan)-1 : "J" \notin plan[n]
  BY <1>3, <1>7, <1>9
<1>13. Len(plan) >= 1 /\ plan[Len(plan)] = {"J"}
  BY <1>7, <1>9
<1>14. QED  BY <1>4, <1>9, <1>10, <1>11, <1>12, <1>13 DEF PlanFor, plan

Rank(a) == AGENT_REGISTRY[a].priority

Ordered(s) == \A i, j \in DOMAIN s : i < j => Rank(s[i]) > Rank(s[j])

\* Some agent of a set comes last.
LEMMA LowestRank ==
    ASSUME NEW S \in SUBSET Agents, S # {}
    PROVE  \E a \in S : \A b \in S \ {a} : Rank(b) > Rank(a)
<1> DEFINE Ranks == {Rank(a) : a \in S}
<1>1. Ranks \in SUBSET Nat /\ Ranks # {}
  BY Priorities DEF Rank
<1>2. \E m \in Ranks : \A k \in Ranks : m <= k
  <2> HIDE DEF Ranks
  <2>1. QED  BY <1>1, Least
<1>3. PICK a \in S : \A b \in S : Rank(a) <= Rank(b)
  BY <1>2
<1>4. ASSUME NEW b \in S \ {a} PROVE Rank(b) > Rank(a)
  <2>1. Rank(b) \in Nat /\ Rank(a) \in Nat /\ Rank(a) # Rank(b)
    BY <1>4, Priorities DEF Rank
  <2>2. QED  BY <1>3, <2>1
<1>5. QED  BY <1>4

\* Some order has every output once, the highest priority first ...
LEMMA OrderExists ==
    ASSUME NEW S \in SUBSET Agents
    PROVE  Cardinality(S) \in Nat /\ \E s \in [1..Cardinality(S) -> S] : Ordered(s)
<1> DEFINE Has(U, n) == \E s \in [1..n -> U] : Ordered(s)
           T == {n \in Nat : \A U \in SUBSET Agents : Cardinality(U) = n => Has(U, n)}
<1>1. \A U \in SUBSET Agents : IsFiniteSet(U) /\ Cardinality(U) \in Nat
  BY AgentsFinite, FS_Subset, FS_CardinalityType
<1>2. 0 \in T
  <2>1. ASSUME NEW U PROVE Has(U, 0)
    <3>1. <<>> \in [1..0 -> U] /\ Ordered(<<>>)
      BY DEF Ordered
    <3>2. QED  BY <3>1
  <2>2. QED  BY <2>1
<1>3. ASSUME NEW n \in Nat, n \in T PROVE n + 1 \in T
  <2> SUFFICES ASSUME NEW U \in SUBSET Agents, Cardinality(U) = n + 1 PROVE Has(U, n + 1)
    OBVIOUS
  <2>1. U # {}
    BY <1>1, FS_EmptySet
  <2>2. PICK a \in U : \A b \in U \ {a} : Rank(b) > Rank(a)
    BY <2>1, LowestRank
  <2>3. Cardinality(U \ {a}) = n
    BY <1>1, <1>3, FS_RemoveElement
  <2>4. PICK s \in [1..n -> U \ {a}] : Ordered(s)
    BY <1>3, <2>3
  <2> DEFINE t == [i \in 1..n+1 |-> IF i = n + 1 THEN a ELSE s[i]]
  <2>5. t \in [1..n+1 -> U]
    BY <1>3
  <2>6. Ordered(t)
    <3> SUFFICES ASSUME NEW i \in 1..n+1, NEW j \in 1..n+1, i < j PROVE Rank(t[i]) > Rank(t[j])
      BY DEF Ordered
    <3>1. i \in 1..n /\ t[i] = s[i] /\ s[i] \in U \ {a}
      BY <1>3
    <3>2. CASE j = n + 1
      BY <3>1, <3>2, <2>2
    <3>3. CASE j # n + 1
      <4>1. j \in 1..n /\ t[j] = s[j]
        BY <3>3
      <4>2. QED  BY <3>1, <4>1, <2>4 DEF Ordered
    <3>4. QED  BY <3>2, <3>3
  <2>7. QED  BY <2>5, <2>6
<1> HIDE DEF Has
<1>4. Nat \subseteq T
  <2> HIDE DEF T
  <2>1. QED  BY <1>2, <1>3, Induction
<1>5. Has(S, Cardinality(S))
  BY <1>1, <1>4
<1>6. QED  BY <1>1, <1>5 DEF Has

\* ... so resolve_artifacts gives each output one place.
LEMMA Resolved ==
    ASSUME NEW S \in SUBSET Agents
    PROVE  LET s == resolve_artifacts(S)
           IN /\ s \in Seq(S)
              /\ \A i, j \in 1..Len(s) : s[i] = s[j] => i = j
              /\ \A a \in S : \E i \in 1..Len(s) : s[i] = a
<1> DEFINE n == Cardinality(S)
           s == resolve_artifacts(S)
<1>1. n \in Nat /\ IsFiniteSet(S)
  BY AgentsFinite, FS_Subset, FS_CardinalityType
<1>2. s \in [1..n -> S] /\ Ordered(s)
  <2>1. \E t \in [1..n -> S] : Ordered(t)
    BY OrderExists
  <2>2. resolve_artifacts(S) = CHOOSE t \in [1..n -> S] : Ordered(t)
    BY DEF resolve_artifacts, Ordered, Rank
  <2> HIDE DEF n
  <2>3. QED  BY <2>1, <2>2
<1> HIDE DEF s, n
<1>3. s \in Seq(S) /\ Len(s) = n
  BY <1>1, <1>2
<1>4. ASSUME NEW i \in 1..n, NEW j \in 1..n, s[i] = s[j] PROVE i = j
  <2>1. Rank(s[i]) \in Nat /\ Rank(s[j]) = Rank(s[i])
    BY <1>2, <1>4, Priorities DEF Rank
  <2>2. ~ (i < j) /\ ~ (j < i)
    BY <2>1, <1>2 DEF Ordered
  <2>3. QED  BY <1>1, <2>2
<1>5. s \in Injection(1..n, S)
  BY <1>2, <1>4 DEF Injection, IsInjective
<1>6. Cardinality(1..n) = n
  BY <1>1, FS_Interval
<1>7. s \in Surjection(1..n, S)
  BY <1>1, <1>5, <1>6, FS_Injection DEF n
<1>8. \A a \in S : \E i \in 1..n : s[i] = a
  BY <1>7 DEF Surjection
<1>9. QED  BY <1>3, <1>4, <1>8 DEF s

-----------------------------------------------------------------------------
(* The graph: what every step of it keeps *)

GraphFields == {"at", "next", "intent", "requested", "replan", "batch", "spoke", "outputs",
    "covered", "history", "origin", "targets", "plan", "stage", "used", "handoffs", "fast",
    "rerouted"}

GraphType(g) ==
    /\ DOMAIN g = GraphFields
    /\ g.at \in {"supervisor", "planner", "agents", "hub", "end"}
    /\ g.spoke \subseteq Agents /\ g.targets \subseteq Agents /\ g.replan \subseteq Agents
    /\ g.stage \in Nat /\ g.used \in Nat

\* Outputs are of agents that have spoken; who spoke without one may find nothing.
SpokeOK(g) == g.outputs \subseteq g.spoke /\ g.spoke \ g.outputs \subseteq MayFindNothing

\* An output is handed off once, and before the graph goes on.
HandoffsOK(g) ==
    /\ g.handoffs \in Seq(g.outputs)
    /\ \A i, j \in 1..Len(g.handoffs) : g.handoffs[i] = g.handoffs[j] => i = j
    /\ g.at \in {"supervisor", "planner", "end"} =>
            \A a \in g.outputs : \E i \in 1..Len(g.handoffs) : g.handoffs[i] = a

\* Without a plan, the summary runs by a decision of its own, after which the
\* supervisor finishes.
RouteOK(g) ==
    g.plan = <<>> =>
        /\ g.at \in {"supervisor", "planner"} => ~g.fast
        /\ g.at = "planner" => "J" \notin g.spoke
        /\ g.at \in {"supervisor", "hub"} => g.origin \in g.spoke \/ "J" \notin g.spoke
        /\ g.at = "agents" =>
              g.batch = {g.origin} \/ "J" \notin g.spoke \cup g.batch

\* The stages a plan has passed have spoken.
PlanOK(g) ==
    g.plan # <<>> =>
        /\ PlanFor(g.targets, g.plan)
        /\ g.at # "supervisor" /\ ~g.fast
        /\ g.stage \in 1..Len(g.plan) + 1
        /\ \A n \in 1..g.stage - 1 : g.plan[n] \subseteq g.spoke
        /\ g.at # "end" => g.stage <= Len(g.plan)
        /\ g.at \in {"planner", "hub"} => g.plan[g.stage] \subseteq g.spoke
        /\ g.at = "agents" => g.plan[g.stage] \subseteq g.spoke \cup g.batch
        /\ g.at = "end" => Needed(g.targets) \cup {"J"} \subseteq g.spoke

\* In the first plan nobody speaks after the summary.
SummaryOK(g) ==
    (g.plan # <<>> /\ g.used = 0) =>
        /\ "J" \in g.spoke => g.outputs \ {"J"} \subseteq g.covered
                           /\ g.at # "agents" /\ g.stage >= Len(g.plan)
        /\ g.at = "agents" => g.batch \subseteq g.plan[g.stage]

\* Nobody is asked again for what is there, unless the model was.
WorkOK(g) ==
    /\ ~g.rerouted /\ g.at = "agents" => g.batch \cap g.outputs = {}
    /\ g.rerouted => g.spoke # {}

GraphOK(g) ==
    /\ GraphType(g) /\ SpokeOK(g) /\ HandoffsOK(g) /\ RouteOK(g) /\ PlanOK(g)
    /\ SummaryOK(g) /\ WorkOK(g)

\* One agent of the batch finishes.
LEMMA AgentDoneOK ==
    ASSUME NEW g, GraphOK(g), g.at = "agents", NEW a \in g.batch, a \in Fleet,
           NEW produced \in BOOLEAN, produced \/ a \in MayFindNothing
    PROVE  /\ GraphOK(AgentDone(g, a, produced))
           /\ AgentDone(g, a, produced).rerouted = g.rerouted
           /\ AgentDone(g, a, produced).outputs =
                 IF produced THEN g.outputs \cup {a} ELSE g.outputs
<1> DEFINE h == AgentDone(g, a, produced)
<1> USE FleetAssumption
<1>0. a \in Agents /\ DOMAIN g = GraphFields
  BY DEF GraphOK, GraphType
<1>1. /\ DOMAIN h = GraphFields
      /\ h.spoke = g.spoke \cup {a} /\ h.batch = g.batch \ {a}
      /\ h.outputs = IF produced THEN g.outputs \cup {a} ELSE g.outputs
      /\ h.covered = IF a = "J" THEN g.outputs \ {"J"} ELSE g.covered
      /\ h.at = IF g.batch = {a} THEN "hub" ELSE "agents"
      /\ h.targets = g.targets /\ h.replan = g.replan /\ h.stage = g.stage /\ h.used = g.used
      /\ h.handoffs = g.handoffs /\ h.plan = g.plan /\ h.origin = g.origin
      /\ h.rerouted = g.rerouted /\ h.fast = g.fast
  BY <1>0 DEF AgentDone, GraphFields
<1> HIDE DEF h
<1>2. GraphType(h)
  BY <1>0, <1>1 DEF GraphOK, GraphType
<1>3. SpokeOK(h)
  BY <1>0, <1>1 DEF GraphOK, SpokeOK
<1>4. HandoffsOK(h)
  BY <1>0, <1>1 DEF GraphOK, HandoffsOK
<1>5. RouteOK(h)
  BY <1>0, <1>1 DEF GraphOK, RouteOK
<1>6. PlanOK(h)
  BY <1>0, <1>1 DEF GraphOK, PlanOK
<1>7. SummaryOK(h)
  BY <1>0, <1>1 DEF GraphOK, SummaryOK, PlanOK, PlanFor
<1>8. WorkOK(h)
  BY <1>0, <1>1 DEF GraphOK, WorkOK
<1>9. QED  BY <1>1, <1>2, <1>3, <1>4, <1>5, <1>6, <1>7, <1>8 DEF GraphOK, h

\* A new run.
LEMMA FreshOK ==
    ASSUME NEW asking \in Requests
    PROVE  /\ GraphOK(Fresh(asking)) /\ Fresh(asking).at = "supervisor"
           /\ Fresh(asking).outputs = {} /\ Fresh(asking).spoke = {}
           /\ Fresh(asking).plan = <<>>
<1> DEFINE g == Fresh(asking)
<1>1. /\ DOMAIN g = GraphFields /\ g.at = "supervisor" /\ g.replan = asking.replan
      /\ g.batch = {} /\ g.spoke = {} /\ g.outputs = {} /\ g.targets = {}
      /\ g.plan = <<>> /\ g.stage = 0 /\ g.used = 0 /\ g.handoffs = <<>> /\ g.fast = FALSE
      /\ g.rerouted = FALSE
  BY DEF Fresh, GraphFields
<1>2. asking.replan \subseteq Agents
  BY FleetAssumption
<1> HIDE DEF g
<1>3. GraphType(g) /\ SpokeOK(g) /\ RouteOK(g) /\ PlanOK(g) /\ SummaryOK(g) /\ WorkOK(g)
  BY <1>1, <1>2 DEF GraphType, SpokeOK, RouteOK, PlanOK, SummaryOK, WorkOK
<1>4. HandoffsOK(g)
  BY <1>1 DEF HandoffsOK
<1>5. QED  BY <1>1, <1>3, <1>4 DEF GraphOK, g

\* The fast path starts with nothing done, and never runs the summary.
LEMMA FastOK ==
    ASSUME NEW g, GraphOK(g), g.at = "supervisor", g.spoke = {}, g.plan = <<>>,
           NEW keyword, FastPath(g, keyword)
    PROVE  /\ GraphOK(Fast(g, keyword))
           /\ Fast(g, keyword).outputs = g.outputs /\ Fast(g, keyword).rerouted = g.rerouted
<1> DEFINE h == Fast(g, keyword)
           node == read_only_route(keyword)
<1>1. node # "J"
  BY SummaryWrites DEF read_only_route
<1>2. DOMAIN g = GraphFields
  BY DEF GraphOK, GraphType
<1>3. /\ DOMAIN h = GraphFields /\ h.at = "agents" /\ h.batch = {node}
      /\ h.spoke = g.spoke /\ h.outputs = g.outputs /\ h.covered = g.covered
      /\ h.targets = g.targets /\ h.replan = g.replan /\ h.stage = g.stage /\ h.used = g.used
      /\ h.handoffs = g.handoffs /\ h.plan = g.plan /\ h.origin = g.origin
      /\ h.rerouted = g.rerouted /\ h.fast = TRUE
  BY <1>2 DEF Fast, GraphFields
<1> HIDE DEF h, node
<1>4. GraphType(h) /\ SpokeOK(h) /\ HandoffsOK(h)
  BY <1>3 DEF GraphOK, GraphType, SpokeOK, HandoffsOK
<1>5. RouteOK(h) /\ PlanOK(h) /\ SummaryOK(h)
  BY <1>1, <1>3 DEF GraphOK, RouteOK, PlanOK, SummaryOK
<1>6. WorkOK(h)
  BY <1>3 DEF GraphOK, WorkOK, SpokeOK
<1>7. QED  BY <1>3, <1>4, <1>5, <1>6 DEF GraphOK, h

\* A resumed run is the saved one, in the full graph.
LEMMA ResumedOK ==
    ASSUME NEW g, GraphOK(g)
    PROVE  /\ GraphOK([g EXCEPT !.fast = FALSE])
           /\ [g EXCEPT !.fast = FALSE].outputs = g.outputs
           /\ [g EXCEPT !.fast = FALSE].rerouted = g.rerouted
<1> DEFINE h == [g EXCEPT !.fast = FALSE]
<1>1. DOMAIN g = GraphFields
  BY DEF GraphOK, GraphType
<1>2. /\ DOMAIN h = GraphFields /\ h.at = g.at /\ h.batch = g.batch
      /\ h.spoke = g.spoke /\ h.outputs = g.outputs /\ h.covered = g.covered
      /\ h.targets = g.targets /\ h.replan = g.replan /\ h.stage = g.stage /\ h.used = g.used
      /\ h.handoffs = g.handoffs /\ h.plan = g.plan /\ h.origin = g.origin
      /\ h.rerouted = g.rerouted /\ h.fast = FALSE
  BY <1>1 DEF GraphFields
<1> HIDE DEF h
<1>3. GraphType(h) /\ SpokeOK(h) /\ HandoffsOK(h)
  BY <1>2 DEF GraphOK, GraphType, SpokeOK, HandoffsOK
<1>4. RouteOK(h) /\ PlanOK(h) /\ SummaryOK(h) /\ WorkOK(h)
  BY <1>2 DEF GraphOK, RouteOK, PlanOK, SummaryOK, WorkOK
<1>5. QED  BY <1>2, <1>3, <1>4 DEF GraphOK, h

\* A route is taken with nothing done yet, after the model was asked again, or to the end.
LEMMA RouteStepOK ==
    ASSUME NEW g, GraphOK(g), g.at = "supervisor", NEW node,
           \/ node = "FINISH"
           \/ g.spoke = {}
           \/ g.rerouted /\ "J" \notin g.spoke
    PROVE  /\ GraphOK(Route(g, node))
           /\ Route(g, node).outputs = g.outputs /\ Route(g, node).rerouted = g.rerouted
<1> DEFINE h == Route(g, node)
<1>1. DOMAIN g = GraphFields /\ g.plan = <<>>
  BY DEF GraphOK, GraphType, PlanOK
<1>2. /\ DOMAIN h = GraphFields
      /\ h.spoke = g.spoke /\ h.outputs = g.outputs /\ h.covered = g.covered
      /\ h.targets = g.targets /\ h.replan = g.replan /\ h.stage = g.stage /\ h.used = g.used
      /\ h.handoffs = g.handoffs /\ h.plan = g.plan /\ h.rerouted = g.rerouted
      /\ h.fast = g.fast
  BY <1>1 DEF Route, GraphFields
<1>3. \/ h.at = "end"
      \/ h.at = "planner" /\ node # "FINISH"
      \/ h.at = "agents" /\ h.batch = {node} /\ h.origin = node /\ node # "FINISH"
  BY <1>1 DEF Route, GraphFields
<1> HIDE DEF h
<1>4. GraphType(h) /\ SpokeOK(h)
  BY <1>2, <1>3 DEF GraphOK, GraphType, SpokeOK
<1>5. HandoffsOK(h)
  BY <1>2, <1>3 DEF GraphOK, HandoffsOK
<1>6. RouteOK(h) /\ PlanOK(h) /\ SummaryOK(h)
  BY <1>1, <1>2, <1>3 DEF GraphOK, RouteOK, PlanOK, SummaryOK
<1>7. WorkOK(h)
  BY <1>2, <1>3 DEF GraphOK, WorkOK, SpokeOK
<1>8. QED  BY <1>2, <1>4, <1>5, <1>6, <1>7 DEF GraphOK, h

\* What the supervisor decides, with the model or without.
LEMMA SupervisedOK ==
    ASSUME NEW g, GraphOK(g), g.at = "supervisor", NEW known, NEW next,
           NEW targets \in SUBSET Agents,
           g.spoke # {} => known \in {"FINISH", "none"},
           (known = "none" /\ g.spoke # {}) => g.origin \notin g.spoke
    PROVE  LET h == IF known # "none" THEN Route(g, known) ELSE Decided(g, next, targets)
           IN GraphOK(h) /\ h.outputs = g.outputs /\ (~h.rerouted => ~g.rerouted)
<1>1. CASE known # "none"
  <2>1. known = "FINISH" \/ g.spoke = {}
    BY <1>1
  <2>2. QED  BY <1>1, <2>1, RouteStepOK
<1>2. CASE known = "none"
  <2> DEFINE asked1 == [g EXCEPT !.rerouted = ~IsInitialCall(g)]
             asked2 == [asked1 EXCEPT !.targets = targets]
             Like(h) == /\ DOMAIN h = GraphFields /\ h.at = g.at /\ h.batch = g.batch
                        /\ h.spoke = g.spoke /\ h.outputs = g.outputs /\ h.covered = g.covered
                        /\ h.replan = g.replan /\ h.stage = g.stage /\ h.used = g.used
                        /\ h.handoffs = g.handoffs /\ h.plan = g.plan /\ h.origin = g.origin
                        /\ h.fast = g.fast
                        /\ h.rerouted = (g.spoke # {}) /\ h.targets \in SUBSET Agents
  <2>1. DOMAIN g = GraphFields /\ g.targets \in SUBSET Agents /\ g.plan = <<>>
    BY DEF GraphOK, GraphType, PlanOK
  <2>2. Like(asked1)
    BY <2>1 DEF IsInitialCall, GraphFields
  <2>3. Like(asked2)
    <3> HIDE DEF asked1
    <3>1. QED  BY <2>2 DEF GraphFields
  <2>4. ASSUME NEW h, Like(h) PROVE GraphOK(h)
    <3>1. GraphType(h) /\ SpokeOK(h) /\ HandoffsOK(h)
      BY <2>4 DEF GraphOK, GraphType, SpokeOK, HandoffsOK
    <3>2. RouteOK(h) /\ PlanOK(h) /\ SummaryOK(h) /\ WorkOK(h)
      BY <2>1, <2>4 DEF GraphOK, RouteOK, PlanOK, SummaryOK, WorkOK
    <3>3. QED  BY <3>1, <3>2 DEF GraphOK
  <2>5. g.spoke # {} => "J" \notin g.spoke
    BY <2>1, <1>2 DEF GraphOK, RouteOK
  <2>6. g.rerouted => g.spoke # {}
    BY DEF GraphOK, WorkOK
  <2>7. ASSUME NEW h, Like(h), NEW node
        PROVE  /\ GraphOK(Route(h, node)) /\ Route(h, node).outputs = g.outputs
               /\ ~Route(h, node).rerouted => ~g.rerouted
    <3>1. GraphOK(h)
      BY <2>4, <2>7
    <3>2. h.at = "supervisor" /\ (h.spoke = {} \/ (h.rerouted /\ "J" \notin h.spoke))
      BY <2>5, <2>7
    <3>3. GraphOK(Route(h, node)) /\ Route(h, node).outputs = h.outputs
            /\ Route(h, node).rerouted = h.rerouted
      BY <3>1, <3>2, RouteStepOK
    <3>4. QED  BY <3>3, <2>6, <2>7
  <2>8. \/ Decided(g, next, targets) = Route(asked1, next)
        \/ Decided(g, next, targets) = Route(asked2, "planner")
    BY DEF Decided
  <2> HIDE DEF asked1, asked2, Like
  <2>9. QED  BY <1>2, <2>2, <2>3, <2>7, <2>8
<1>3. QED  BY <1>1, <1>2

\* hub_writer_node hands off what has not been handed off, and all of it.
LEMMA HubStepOK ==
    ASSUME NEW g, GraphOK(g), g.at = "hub"
    PROVE  /\ GraphOK(HubStep(g))
           /\ HubStep(g).outputs = g.outputs /\ HubStep(g).rerouted = g.rerouted
<1> DEFINE h == HubStep(g)
           more == NewHandoffs(g)
           s == resolve_artifacts(more)
<1>1. DOMAIN g = GraphFields /\ g.outputs \subseteq Agents
  BY DEF GraphOK, GraphType, SpokeOK
<1>2. /\ DOMAIN h = GraphFields
      /\ h.at = AfterHub(g) /\ h.handoffs = g.handoffs \o s
      /\ h.spoke = g.spoke /\ h.outputs = g.outputs /\ h.covered = g.covered
      /\ h.targets = g.targets /\ h.replan = g.replan /\ h.stage = g.stage /\ h.used = g.used
      /\ h.plan = g.plan /\ h.origin = g.origin /\ h.rerouted = g.rerouted
      /\ h.fast = g.fast
  BY <1>1 DEF HubStep, GraphFields
<1>3. /\ h.at \in {"end", "planner", "supervisor"}
      /\ h.at = "planner" => g.plan # <<>>
      /\ h.at = "supervisor" => g.plan = <<>>
      /\ h.at = "end" <=> g.fast
  BY <1>2 DEF AfterHub
<1>4. more \in SUBSET Agents /\ more \subseteq g.outputs
  BY <1>1 DEF NewHandoffs
<1>5. /\ s \in Seq(more)
      /\ \A i, j \in 1..Len(s) : s[i] = s[j] => i = j
      /\ \A a \in more : \E i \in 1..Len(s) : s[i] = a
  BY <1>4, Resolved
<1>6. \A a \in g.outputs : a \in more <=> ~ \E i \in 1..Len(g.handoffs) : g.handoffs[i] = a
  BY DEF NewHandoffs, GraphOK, HandoffsOK
<1> HIDE DEF h, s, more
<1>7. HandoffsOK(h)
  <2>1. g.handoffs \in Seq(g.outputs) /\ s \in Seq(g.outputs)
    BY <1>4, <1>5 DEF GraphOK, HandoffsOK
  <2>2. h.handoffs \in Seq(g.outputs) /\ Len(h.handoffs) = Len(g.handoffs) + Len(s)
    BY <1>2, <2>1, ConcatProperties
  <2>3. \A i \in 1..Len(g.handoffs) : h.handoffs[i] = g.handoffs[i]
    BY <1>2, <2>1
  <2>4. \A i \in 1..Len(s) : h.handoffs[Len(g.handoffs) + i] = s[i]
    BY <1>2, <2>1
  <2>0. \A j \in 1..Len(h.handoffs) : j - Len(g.handoffs) \in 1..Len(s) =>
           h.handoffs[j] = s[j - Len(g.handoffs)]
    <3>1. \A j \in 1..Len(g.handoffs) + Len(s) : h.handoffs[j] =
             IF j <= Len(g.handoffs) THEN g.handoffs[j] ELSE s[j - Len(g.handoffs)]
      BY <1>2, <2>1, ConcatProperties
    <3>2. Len(g.handoffs) \in Nat /\ Len(s) \in Nat
      BY <2>1
    <3>3. QED  BY <3>1, <3>2, <2>2
  <2>5. \A i \in 1..Len(h.handoffs) :
           i \in 1..Len(g.handoffs) \/ i - Len(g.handoffs) \in 1..Len(s)
    BY <2>1, <2>2
  <2>6. Len(g.handoffs) \in Nat /\ Len(s) \in Nat
    BY <2>1
  <2>7. \A i \in 1..Len(s) : s[i] \in more
    BY <1>5
  <2>8. ASSUME NEW i \in 1..Len(h.handoffs), NEW j \in 1..Len(h.handoffs),
               h.handoffs[i] = h.handoffs[j]
        PROVE  i = j
    <3>1. CASE i \in 1..Len(g.handoffs) /\ j \in 1..Len(g.handoffs)
      BY <3>1, <2>8, <2>3 DEF GraphOK, HandoffsOK
    <3>2. CASE i \in 1..Len(g.handoffs) /\ j - Len(g.handoffs) \in 1..Len(s)
      <4>1. h.handoffs[j] = s[j - Len(g.handoffs)]
        BY <3>2, <2>0
      <4>2. h.handoffs[j] \in more /\ h.handoffs[i] = g.handoffs[i]
        BY <3>2, <4>1, <2>3, <2>7
      <4>3. QED  BY <3>2, <4>2, <2>8, <1>4, <1>6
    <3>3. CASE j \in 1..Len(g.handoffs) /\ i - Len(g.handoffs) \in 1..Len(s)
      <4>1. h.handoffs[i] = s[i - Len(g.handoffs)]
        BY <3>3, <2>0
      <4>2. h.handoffs[i] \in more /\ h.handoffs[j] = g.handoffs[j]
        BY <3>3, <4>1, <2>3, <2>7
      <4>3. QED  BY <3>3, <4>2, <2>8, <1>4, <1>6
    <3>4. CASE j - Len(g.handoffs) \in 1..Len(s) /\ i - Len(g.handoffs) \in 1..Len(s)
      <4>1. h.handoffs[i] = s[i - Len(g.handoffs)] /\ h.handoffs[j] = s[j - Len(g.handoffs)]
        BY <3>4, <2>0
      <4>2. i - Len(g.handoffs) = j - Len(g.handoffs)
        BY <4>1, <3>4, <2>8, <1>5
      <4>3. QED  BY <4>2, <2>6
    <3>5. QED  BY <3>1, <3>2, <3>3, <3>4, <2>5
  <2>9. ASSUME NEW a \in g.outputs PROVE \E i \in 1..Len(h.handoffs) : h.handoffs[i] = a
    <3>1. CASE \E i \in 1..Len(g.handoffs) : g.handoffs[i] = a
      <4>1. PICK i \in 1..Len(g.handoffs) : g.handoffs[i] = a
        BY <3>1
      <4>2. i \in 1..Len(h.handoffs) /\ h.handoffs[i] = a
        BY <4>1, <2>2, <2>3, <2>6
      <4>3. QED  BY <4>2
    <3>2. CASE a \in more
      <4>1. PICK i \in 1..Len(s) : s[i] = a
        BY <3>2, <1>5
      <4>2. Len(g.handoffs) + i \in 1..Len(h.handoffs) /\ h.handoffs[Len(g.handoffs) + i] = a
        BY <4>1, <2>2, <2>4, <2>6
      <4>3. QED  BY <4>2
    <3>3. QED  BY <3>1, <3>2, <1>6
  <2>10. QED  BY <1>2, <2>2, <2>8, <2>9 DEF HandoffsOK
<1>8. GraphType(h) /\ SpokeOK(h)
  BY <1>2, <1>3 DEF GraphOK, GraphType, SpokeOK
<1>9. RouteOK(h) /\ WorkOK(h)
  BY <1>2, <1>3 DEF GraphOK, RouteOK, WorkOK
<1>10. PlanOK(h) /\ SummaryOK(h)
  BY <1>2, <1>3 DEF GraphOK, PlanOK, SummaryOK
<1>11. QED  BY <1>2, <1>7, <1>8, <1>9, <1>10 DEF GraphOK, h

\* The stages passed over have nothing to run.
LEMMA Advanced ==
    ASSUME NEW plan \in Seq(SUBSET Agents), NEW stage \in Nat, stage >= 1,
           stage <= Len(plan) + 1, NEW outputs
    PROVE  LET next == Advance(plan, stage, outputs)
           IN /\ next \in stage..Len(plan) + 1
              /\ \A n \in stage..next - 1 : resolve_stage(plan[n], outputs) = {}
<1> DEFINE runnable == {n \in stage..Len(plan) : resolve_stage(plan[n], outputs) # {}}
           next == Advance(plan, stage, outputs)
<1>1. Len(plan) \in Nat /\ runnable \in SUBSET Nat
  OBVIOUS
<1>2. CASE runnable = {}
  <2>1. next = Len(plan) + 1
    BY <1>2 DEF Advance
  <2>2. \A n \in stage..Len(plan) : resolve_stage(plan[n], outputs) = {}
    BY <1>2
  <2> HIDE DEF next, runnable
  <2>3. next - 1 = Len(plan) /\ next \in stage..Len(plan) + 1
    BY <1>1, <2>1
  <2>4. QED  BY <2>2, <2>3 DEF next
<1>3. CASE runnable # {}
  <2>1. \E m \in runnable : \A k \in runnable : m <= k
    <3> HIDE DEF runnable
    <3>1. QED  BY <1>1, <1>3, Least
  <2>2. next = CHOOSE n \in runnable : \A m \in runnable : n <= m
    BY <1>3 DEF Advance
  <2>3. next \in runnable /\ \A k \in runnable : next <= k
    <3> HIDE DEF runnable, next
    <3>1. QED  BY <2>1, <2>2
  <2> HIDE DEF next
  <2>4. next \in stage..Len(plan)
    BY <2>3
  <2>5. ASSUME NEW n \in stage..next - 1 PROVE resolve_stage(plan[n], outputs) = {}
    <3>1. n \in stage..Len(plan) /\ n < next
      BY <2>4, <1>1
    <3>2. n \notin runnable
      BY <2>3, <3>1
    <3>3. QED  BY <3>1, <3>2
  <2>6. next \in stage..Len(plan) + 1
    BY <1>1, <2>4
  <2>7. QED  BY <2>5, <2>6 DEF next
<1>4. QED  BY <1>2, <1>3

\* planner_node and its dispatch.
LEMMA PlanStepOK ==
    ASSUME NEW g, GraphOK(g), g.at = "planner"
    PROVE  LET h == Dispatched(Planned(g))
           IN GraphOK(h) /\ h.outputs = g.outputs /\ h.rerouted = g.rerouted
<1> USE FleetAssumption
<1> DEFINE p == Planned(g)
           merged == g.targets \cup g.replan
<1>1. /\ DOMAIN g = GraphFields /\ g.targets \in SUBSET Agents /\ merged \in SUBSET Agents
      /\ g.replan \in SUBSET Agents /\ g.stage \in Nat /\ g.used \in Nat
      /\ g.outputs \subseteq g.spoke /\ g.spoke \ g.outputs \subseteq MayFindNothing
  BY DEF GraphOK, GraphType, SpokeOK
<1>2. /\ DOMAIN p = GraphFields
      /\ p.spoke = g.spoke /\ p.outputs = g.outputs /\ p.covered = g.covered
      /\ p.handoffs = g.handoffs /\ p.origin = g.origin
      /\ p.rerouted = g.rerouted /\ p.fast = g.fast
  BY <1>1 DEF Planned, GraphFields
<1>3. \/ /\ g.plan = <<>> /\ p.plan = build_full_plan(g.targets) /\ p.stage = 1
         /\ p.targets = g.targets /\ p.replan = g.replan /\ p.used = g.used
      \/ /\ g.plan # <<>> /\ p.plan = build_full_plan(merged) /\ p.stage = 1
         /\ p.targets = merged /\ p.replan = {} /\ p.used = g.used + 1
      \/ /\ g.plan # <<>> /\ p.plan = g.plan /\ p.stage = g.stage + 1
         /\ p.targets = g.targets /\ p.replan = g.replan /\ p.used = g.used
  BY <1>1 DEF Planned, NextStage, GraphFields
<1> HIDE DEF p, merged
<1>4. PlanFor(p.targets, p.plan)
  <2>1. g.plan # <<>> => PlanFor(g.targets, g.plan)
    BY DEF GraphOK, PlanOK
  <2>2. QED  BY <1>1, <1>3, <2>1, FullPlan
<1> DEFINE last == Len(p.plan)
<1>5. p.plan \in Seq(SUBSET Agents) /\ last \in Nat /\ last >= 1 /\ p.plan # <<>>
  BY <1>4 DEF PlanFor
<1>6. p.stage \in 1..last + 1 /\ \A n \in 1..p.stage - 1 : p.plan[n] \subseteq g.spoke
  <2>1. CASE p.stage = 1
    BY <2>1, <1>5
  <2>2. CASE g.plan # <<>> /\ p.plan = g.plan /\ p.stage = g.stage + 1
    <3>1. /\ g.stage \in 1..last /\ g.plan[g.stage] \subseteq g.spoke
          /\ \A n \in 1..g.stage - 1 : g.plan[n] \subseteq g.spoke
      BY <2>2, <1>5 DEF GraphOK, PlanOK
    <3>2. \A n \in 1..p.stage - 1 : n \in 1..g.stage - 1 \/ n = g.stage
      BY <2>2, <1>1
    <3>3. QED  BY <2>2, <3>1, <3>2, <1>5
  <2>3. QED  BY <1>3, <2>1, <2>2
<1>7. (p.used = 0 /\ "J" \in g.spoke) => g.outputs \ {"J"} \subseteq g.covered /\ p.stage > last
  <2> SUFFICES ASSUME p.used = 0, "J" \in g.spoke
               PROVE  g.outputs \ {"J"} \subseteq g.covered /\ p.stage > last
    OBVIOUS
  <2>1. g.plan # <<>>
    BY DEF GraphOK, RouteOK
  <2>2. p.plan = g.plan /\ p.stage = g.stage + 1 /\ g.used = 0
    BY <2>1, <1>1, <1>3
  <2>3. g.outputs \ {"J"} \subseteq g.covered /\ g.stage >= Len(g.plan)
    BY <2>1, <2>2 DEF GraphOK, SummaryOK
  <2>4. QED  BY <2>2, <2>3, <1>1, <1>5
<1> DEFINE s == Advance(p.plan, p.stage, p.outputs)
           h == Dispatched(p)
<1>8. /\ s \in p.stage..last + 1
      /\ \A n \in p.stage..s - 1 : resolve_stage(p.plan[n], g.outputs) = {}
  <2>1. p.stage \in Nat /\ p.stage >= 1 /\ p.stage <= Len(p.plan) + 1
    BY <1>5, <1>6
  <2>2. LET next == Advance(p.plan, p.stage, g.outputs)
        IN /\ next \in p.stage..Len(p.plan) + 1
           /\ \A n \in p.stage..next - 1 : resolve_stage(p.plan[n], g.outputs) = {}
    BY <1>5, <2>1, Advanced
  <2>3. QED  BY <1>2, <2>2
<1>9. /\ DOMAIN h = GraphFields /\ h.stage = s
      /\ h.spoke = g.spoke /\ h.outputs = g.outputs /\ h.covered = g.covered
      /\ h.targets = p.targets /\ h.replan = p.replan /\ h.used = p.used
      /\ h.handoffs = g.handoffs /\ h.plan = p.plan /\ h.origin = g.origin
      /\ h.rerouted = g.rerouted /\ h.fast = g.fast
  <2> HIDE DEF s
  <2>1. h = IF s > Len(p.plan) THEN [p EXCEPT !.stage = s, !.at = "end"]
            ELSE [p EXCEPT !.stage = s, !.at = "agents",
                           !.batch = resolve_stage(p.plan[s], p.outputs)]
    BY DEF Dispatched, s
  <2> HIDE DEF h
  <2>2. QED  BY <1>2, <2>1 DEF GraphFields
<1>10. \/ s = last + 1 /\ h.at = "end"
       \/ s <= last /\ h.at = "agents" /\ h.batch = resolve_stage(p.plan[s], g.outputs)
  <2> HIDE DEF s
  <2>1. h = IF s > Len(p.plan) THEN [p EXCEPT !.stage = s, !.at = "end"]
            ELSE [p EXCEPT !.stage = s, !.at = "agents",
                           !.batch = resolve_stage(p.plan[s], p.outputs)]
    BY DEF Dispatched, s
  <2> HIDE DEF h
  <2>2. s > last => s = last + 1
    BY <1>5, <1>6, <1>8
  <2>3. s <= last \/ s > last
    BY <1>5, <1>6, <1>8
  <2>4. QED  BY <1>2, <2>1, <2>2, <2>3 DEF GraphFields
<1> HIDE DEF s, h, last
\* What a stage requires is there when the stages before it have spoken.
<1>11. ASSUME NEW n \in 1..last, \A m \in 1..n - 1 : p.plan[m] \subseteq g.spoke
       PROVE  p.plan[n] \subseteq g.spoke \cup resolve_stage(p.plan[n], g.outputs)
  <2> SUFFICES ASSUME NEW a \in p.plan[n], a \notin g.outputs
               PROVE  a \in resolve_stage(p.plan[n], g.outputs)
    BY <1>1
  <2>1. a \in Agents
    BY <1>5 DEF last
  <2>2. ASSUME NEW b \in AGENT_REGISTRY[a].required PROVE b \in g.outputs
    <3>1. PICK m \in 1..n - 1 : b \in p.plan[m]
      BY <1>4 DEF PlanFor, last
    <3>2. b \in g.spoke
      BY <1>11, <3>1
    <3>3. b \notin MayFindNothing
      BY <2>1
    <3>4. QED  BY <3>2, <3>3, <1>1
  <2>3. QED  BY <2>2 DEF resolve_stage
<1>12. \A n \in 1..s - 1 : p.plan[n] \subseteq g.spoke
  <2> DEFINE T == {n \in Nat : n < s => \A m \in 1..n : p.plan[m] \subseteq g.spoke}
  <2>1. 0 \in T
    OBVIOUS
  <2>2. ASSUME NEW n \in Nat, n \in T PROVE n + 1 \in T
    <3> SUFFICES ASSUME n + 1 < s PROVE p.plan[n + 1] \subseteq g.spoke
      BY <2>2, <1>5, <1>6, <1>8
    <3>1. n + 1 \in 1..last /\ (n + 1) - 1 = n /\ n < s
      BY <1>5, <1>6, <1>8
    <3>2. \A m \in 1..(n + 1) - 1 : p.plan[m] \subseteq g.spoke
      BY <2>2, <3>1
    <3>3. CASE n + 1 \in 1..p.stage - 1
      BY <3>3, <1>6
    <3>4. CASE n + 1 \in p.stage..s - 1
      <4>1. resolve_stage(p.plan[n + 1], g.outputs) = {}
        BY <3>4, <1>8
      <4>2. QED  BY <3>1, <3>2, <4>1, <1>11
    <3>5. QED  BY <3>3, <3>4, <1>6, <1>8
  <2> HIDE DEF T
  <2>3. Nat \subseteq T
    BY <2>1, <2>2, Induction
  <2>4. s - 1 \in Nat /\ s - 1 < s
    BY <1>6, <1>8, <1>5
  <2>5. s - 1 \in T
    BY <2>3, <2>4
  <2>6. QED  BY <2>4, <2>5 DEF T
<1>13. PlanOK(h)
  <2>1. s \in 1..last + 1
    BY <1>5, <1>6, <1>8
  <2>2. CASE s = last + 1 /\ h.at = "end"
    <3>1. \A n \in 1..last : p.plan[n] \subseteq g.spoke
      BY <2>2, <1>12, <1>5
    <3>2. Needed(p.targets) \cup {"J"} \subseteq g.spoke
      BY <3>1, <1>4 DEF PlanFor, last
    <3>3. ~g.fast
      BY DEF GraphOK, RouteOK, PlanOK
    <3>4. QED  BY <1>4, <1>9, <1>12, <2>1, <2>2, <3>2, <3>3 DEF PlanOK, last
  <2>3. CASE s <= last /\ h.at = "agents" /\ h.batch = resolve_stage(p.plan[s], g.outputs)
    <3>1. s \in 1..last
      BY <2>1, <2>3, <1>5
    <3>2. p.plan[s] \subseteq g.spoke \cup h.batch
      BY <2>3, <3>1, <1>11, <1>12
    <3>3. ~g.fast
      BY DEF GraphOK, RouteOK, PlanOK
    <3>4. QED  BY <1>4, <1>9, <1>12, <2>1, <2>3, <3>2, <3>3 DEF PlanOK, last
  <2>4. QED  BY <1>10, <2>2, <2>3
<1>14. SummaryOK(h)
  <2> SUFFICES ASSUME p.used = 0
               PROVE  /\ "J" \in g.spoke => g.outputs \ {"J"} \subseteq g.covered
                                           /\ h.at # "agents" /\ s >= last
                      /\ h.at = "agents" => h.batch \subseteq p.plan[s]
    BY <1>9 DEF SummaryOK, last
  <2>1. "J" \in g.spoke => g.outputs \ {"J"} \subseteq g.covered /\ s = last + 1
    BY <1>5, <1>6, <1>7, <1>8 DEF last
  <2>2. s = last + 1 => h.at = "end" /\ s >= last
    BY <1>10, <1>5
  <2>3. h.at = "agents" => h.batch \subseteq p.plan[s]
    BY <1>10 DEF resolve_stage
  <2>4. QED  BY <2>1, <2>2, <2>3
<1>15. GraphType(h) /\ SpokeOK(h) /\ HandoffsOK(h)
  <2>1. h.at \in {"end", "agents"}
    BY <1>10
  <2>2. h.stage \in Nat /\ h.used \in Nat /\ h.targets \subseteq Agents /\ h.replan \subseteq Agents
    BY <1>1, <1>3, <1>5, <1>6, <1>8, <1>9
  <2>3. QED  BY <1>9, <2>1, <2>2 DEF GraphOK, GraphType, SpokeOK, HandoffsOK
<1>16. RouteOK(h) /\ WorkOK(h)
  <2>1. h.at = "agents" => h.batch \cap g.outputs = {}
    BY <1>10 DEF resolve_stage
  <2>2. QED  BY <1>5, <1>9, <2>1 DEF GraphOK, RouteOK, WorkOK
<1>17. QED  BY <1>9, <1>13, <1>14, <1>15, <1>16 DEF GraphOK, h, p

-----------------------------------------------------------------------------
(* The tasks *)

GraphsOK ==
    /\ thread # NoGraph => GraphOK(thread)
    /\ answer # NoGraph => GraphOK(answer) /\ answer.at = "end"
    /\ \A t \in Tasks : task[t].g # NoGraph => GraphOK(task[t].g)

TaskFields == {"phase", "g", "steps", "shown"}

Active(t) == task[t].phase \in {"queued", "running"}

\* A resume in progress read "failed"; a task starts with a fresh graph or with none.
TasksOK ==
    /\ DOMAIN task = Tasks
    /\ \A t \in Tasks :
        /\ DOMAIN task[t] = TaskFields
        /\ task[t].phase \in {"idle", "resuming", "queued", "running"}
        /\ task[t].phase = "resuming" => task[t].shown = "failed" /\ task[t].g = NoGraph
        /\ task[t].phase = "running" => task[t].g # NoGraph
        /\ (task[t].phase = "queued" /\ task[t].g # NoGraph) =>
              /\ task[t].g.at = "supervisor" /\ task[t].g.plan = <<>>
              /\ task[t].g.spoke = {} /\ task[t].g.outputs = {}
    /\ worked \in [Fleet -> Nat]
    /\ ~asked => /\ task_status = "none" /\ thread = NoGraph
                 /\ \A t \in Tasks : task[t].phase = "idle"
                 /\ \A a \in Fleet : worked[a] = 0

\* Unless two resumes collided, one task at a time has the thread.
OneTask ==
    ~stale =>
        /\ \A t, u \in Tasks : Active(t) /\ Active(u) => t = u
        /\ \A t \in Tasks : Active(t) => task_status \in {"pending", "running"}

\* A thread tells what the agents have done.
Tells(g) == ~g.rerouted =>
    \A a \in Fleet \ MayFindNothing : worked[a] = IF a \in g.outputs THEN 1 ELSE 0

\* The thread is the graph of the task that has it, and tells what was done.  Once
\* it is gone nobody takes it up again.
ThreadOK ==
    /\ ~Checkpointing => thread = NoGraph
    /\ (~stale /\ Checkpointing) =>
        /\ \A t \in Tasks : task[t].phase = "running" => thread = task[t].g
        /\ \A t \in Tasks : task[t].phase = "queued" /\ task[t].g # NoGraph => thread = NoGraph
        /\ thread # NoGraph => Tells(thread)
        /\ (thread = NoGraph /\ \E a \in Fleet : worked[a] # 0) =>
              task_status = "none" /\ \A t \in Tasks : ~Active(t)

ConversationInv == GraphsOK /\ TasksOK /\ OneTask /\ ThreadOK
\* A graph is not the absence of one.
LEMMA GraphIsNone == GraphOK(NoGraph) => FALSE
BY DEF GraphOK, GraphType, NoGraph

\* What an idle task is.
LEMMA IdleIs ==
    /\ DOMAIN Idle = TaskFields /\ Idle.phase = "idle" /\ Idle.g = NoGraph
BY DEF Idle, TaskFields

\* Nothing has happened yet.
LEMMA ConversationStart == ConversationInit => ConversationInv
<1> SUFFICES ASSUME ConversationInit PROVE ConversationInv
  OBVIOUS
<1>1. \A t \in Tasks : DOMAIN task[t] = TaskFields /\ task[t].phase = "idle" /\ task[t].g = NoGraph
  BY IdleIs DEF ConversationInit
<1>2. DOMAIN task = Tasks /\ worked \in [Fleet -> Nat] /\ \A a \in Fleet : worked[a] = 0
  BY DEF ConversationInit
<1>3. thread = NoGraph /\ answer = NoGraph /\ task_status = "none"
  BY DEF ConversationInit
<1>4. QED  BY <1>1, <1>2, <1>3
            DEF ConversationInv, GraphsOK, TasksOK, OneTask, ThreadOK, Active

\* A task goes on with graph g, and saves it.
LEMMA Proceeds ==
    ASSUME ConversationInv, NEW t \in Tasks, Active(t), NEW g, GraphOK(g),
           DOMAIN task' = Tasks, \A u \in Tasks \ {t} : task'[u] = task[u],
           DOMAIN task'[t] = TaskFields, task'[t].phase = "running", task'[t].g = g,
           Save(g), task_status' \in {task_status, "running"},
           UNCHANGED <<answer, asked, stale>>, worked' \in [Fleet -> Nat],
           (~stale /\ Checkpointing) => Tells(g)'
    PROVE  ConversationInv'
<1>1. g # NoGraph
  BY GraphIsNone
<1>2. asked
  BY DEF ConversationInv, TasksOK, Active
<1>3. thread' = IF Checkpointing THEN g ELSE thread
  BY DEF Save
<1>4. GraphsOK'
  BY <1>3 DEF ConversationInv, GraphsOK
<1>5. TasksOK'
  BY <1>1, <1>2 DEF ConversationInv, TasksOK
<1>6. OneTask'
  BY DEF ConversationInv, OneTask, Active
<1>7. ThreadOK'
  <2>1. ~Checkpointing => thread' = NoGraph
    BY <1>3 DEF ConversationInv, ThreadOK
  <2>2. ASSUME ~stale, Checkpointing
        PROVE  /\ thread' = g /\ Tells(thread)'
               /\ \A u \in Tasks \ {t} : ~Active(u)
    BY <1>3, <2>2 DEF ConversationInv, OneTask, Tells
  <2>3. QED  BY <1>1, <2>1, <2>2 DEF ThreadOK, Active
<1>8. QED  BY <1>4, <1>5, <1>6, <1>7 DEF ConversationInv

\* A task ends, with an answer or without; what is saved stays.
LEMMA Ends ==
    ASSUME ConversationInv, NEW t \in Tasks, Active(t),
           task' = [task EXCEPT ![t] = Idle],
           UNCHANGED <<thread, worked, asked, stale>>,
           answer' # answer => GraphOK(answer') /\ answer'.at = "end"
    PROVE  ConversationInv'
<1>1. /\ DOMAIN task' = Tasks /\ \A u \in Tasks \ {t} : task'[u] = task[u]
      /\ DOMAIN task'[t] = TaskFields /\ task'[t].phase = "idle" /\ task'[t].g = NoGraph
  BY IdleIs DEF ConversationInv, TasksOK
<1>2. asked
  BY DEF ConversationInv, TasksOK, Active
<1>3. GraphsOK'
  BY <1>1 DEF ConversationInv, GraphsOK
<1>4. TasksOK'
  BY <1>1, <1>2 DEF ConversationInv, TasksOK
<1>5. ~stale => \A u \in Tasks : ~Active(u)'
  BY <1>1 DEF ConversationInv, OneTask, Active
<1>6. OneTask'
  BY <1>5 DEF OneTask
<1>7. ThreadOK'
  <2>1. (~stale /\ Checkpointing /\ thread = NoGraph) => \A a \in Fleet : worked[a] = 0
    BY DEF ConversationInv, ThreadOK
  <2>2. QED  BY <1>5, <2>1 DEF ConversationInv, ThreadOK, Tells, Active
<1>8. QED  BY <1>3, <1>4, <1>6, <1>7 DEF ConversationInv

LEMMA DispatchOK ==
    ASSUME ConversationInv, NEW t \in Tasks, NEW asking \in Requests, Dispatch(t, asking)
    PROVE  ConversationInv'
<1> DEFINE r == [Idle EXCEPT !.phase = "queued", !.g = Fresh(asking)]
<1>1. DOMAIN r = TaskFields /\ r.phase = "queued" /\ r.g = Fresh(asking)
  BY IdleIs DEF TaskFields
<1> HIDE DEF r
<1>2. /\ DOMAIN task' = Tasks /\ \A u \in Tasks \ {t} : task'[u] = task[u]
      /\ DOMAIN task'[t] = TaskFields /\ task'[t].phase = "queued" /\ task'[t].g = Fresh(asking)
  BY <1>1 DEF Dispatch, ConversationInv, TasksOK, r
<1>3. /\ ~asked /\ asked' /\ task_status' = "pending"
      /\ UNCHANGED <<thread, answer, worked, stale>>
  BY DEF Dispatch
<1>4. /\ thread = NoGraph /\ \A u \in Tasks : task[u].phase = "idle"
      /\ \A a \in Fleet : worked[a] = 0
  BY <1>3 DEF ConversationInv, TasksOK
<1>5. GraphsOK'
  BY <1>2, <1>3, FreshOK DEF ConversationInv, GraphsOK
<1>6. TasksOK'
  BY <1>2, <1>3, FreshOK DEF ConversationInv, TasksOK
<1>7. OneTask'
  BY <1>2, <1>3, <1>4 DEF OneTask, Active
<1>8. ThreadOK'
  BY <1>2, <1>3, <1>4 DEF ThreadOK
<1>9. QED  BY <1>5, <1>6, <1>7, <1>8 DEF ConversationInv

LEMMA ResumeReadOK ==
    ASSUME ConversationInv, NEW t \in Tasks, ResumeRead(t)
    PROVE  ConversationInv'
<1>1. task[t].phase = "idle" /\ task[t].g = NoGraph /\ task_status = "failed"
  BY IdleIs DEF ResumeRead, FirstIdle, Resumable
<1>2. /\ DOMAIN task' = Tasks /\ \A u \in Tasks \ {t} : task'[u] = task[u]
      /\ DOMAIN task'[t] = TaskFields /\ task'[t].phase = "resuming"
      /\ task'[t].shown = "failed" /\ task'[t].g = NoGraph
  BY <1>1 DEF ResumeRead, ConversationInv, TasksOK, TaskFields
<1>3. UNCHANGED <<task_status, thread, answer, worked, asked, stale>>
  BY DEF ResumeRead
<1>4. GraphsOK'
  BY <1>2, <1>3 DEF ConversationInv, GraphsOK
<1>5. TasksOK'
  BY <1>1, <1>2, <1>3 DEF ConversationInv, TasksOK
<1>6. OneTask' /\ ThreadOK'
  BY <1>1, <1>2, <1>3 DEF ConversationInv, OneTask, ThreadOK, Active, Tells
<1>7. QED  BY <1>4, <1>5, <1>6 DEF ConversationInv

LEMMA ResumeWriteOK ==
    ASSUME ConversationInv, NEW t \in Tasks, ResumeWrite(t)
    PROVE  ConversationInv'
<1>1. task[t].phase = "resuming" /\ task[t].g = NoGraph /\ task[t].shown = "failed"
  BY DEF ResumeWrite, ConversationInv, TasksOK
<1>2. /\ DOMAIN task' = Tasks /\ \A u \in Tasks \ {t} : task'[u] = task[u]
      /\ DOMAIN task'[t] = TaskFields /\ task'[t].phase = "queued" /\ task'[t].g = NoGraph
  BY <1>1 DEF ResumeWrite, ConversationInv, TasksOK, TaskFields
<1>3. /\ UNCHANGED <<thread, answer, worked, asked>> /\ task_status' = "pending"
      /\ ~stale' => ~stale /\ task_status = "failed"
  BY <1>1 DEF ResumeWrite
<1>4. asked
  BY <1>1 DEF ConversationInv, TasksOK
<1>5. ~stale' => \A u \in Tasks : ~Active(u)
  BY <1>3 DEF ConversationInv, OneTask
<1>6. GraphsOK'
  BY <1>2, <1>3 DEF ConversationInv, GraphsOK
<1>7. TasksOK'
  BY <1>2, <1>3, <1>4 DEF ConversationInv, TasksOK
<1>8. OneTask'
  BY <1>2, <1>3, <1>5 DEF OneTask, Active
<1>9. ThreadOK'
  BY <1>2, <1>3, <1>5 DEF ConversationInv, ThreadOK, Active, Tells
<1>10. QED  BY <1>6, <1>7, <1>8, <1>9 DEF ConversationInv

LEMMA BeginOK ==
    ASSUME ConversationInv, NEW t \in Tasks, Begin(t)
    PROVE  ConversationInv'
<1> DEFINE given == task[t].g
           g == IF given = NoGraph THEN Loaded(t)
                ELSE IF FastPath(given, Keyword[given.intent]) THEN Fast(given, Keyword[given.intent])
                ELSE given
           r == [phase |-> "running", g |-> g, steps |-> 0, shown |-> IF g.fast THEN "" ELSE g.next]
<1>1. /\ task[t].phase = "queued" /\ g # NoGraph /\ task' = [task EXCEPT ![t] = r]
      /\ task_status' \in {task_status, "running"} /\ Save(g)
      /\ UNCHANGED <<answer, worked, asked, stale>>
  BY DEF Begin
<1>2. DOMAIN r = TaskFields /\ r.phase = "running" /\ r.g = g
  BY DEF TaskFields
<1>3. Active(t)
  BY <1>1 DEF Active
<1>4. GraphOK(g) /\ ((~stale /\ Checkpointing) => Tells(g))
  <2>1. CASE given = NoGraph
    <3>1. g = Loaded(t)
      BY <2>1
    <3>2. thread # NoGraph /\ g = [thread EXCEPT !.fast = FALSE]
      BY <1>1, <3>1 DEF Loaded
    <3>3. GraphOK(thread)
      BY <3>2 DEF ConversationInv, GraphsOK
    <3>4. GraphOK(g) /\ g.outputs = thread.outputs /\ g.rerouted = thread.rerouted
      BY <3>2, <3>3, ResumedOK
    <3> HIDE DEF g
    <3>5. QED  BY <3>2, <3>4 DEF ConversationInv, ThreadOK, Tells
  <2>2. CASE given # NoGraph
    <3>1. /\ GraphOK(given) /\ given.at = "supervisor" /\ given.plan = <<>>
          /\ given.spoke = {} /\ given.outputs = {}
      BY <1>1, <2>2 DEF ConversationInv, GraphsOK, TasksOK
    <3>2. GraphOK(g) /\ g.outputs = {}
      BY <2>2, <3>1, FastOK
    <3> HIDE DEF g
    <3>3. (~stale /\ Checkpointing) => \A a \in Fleet : worked[a] = 0
      BY <1>1, <1>3, <2>2 DEF ConversationInv, ThreadOK
    <3>4. QED  BY <3>2, <3>3 DEF Tells
  <2>3. QED  BY <2>1, <2>2
<1> HIDE DEF g, r
<1>5. PICK x : x = g
  OBVIOUS
<1>6. /\ DOMAIN task' = Tasks /\ \A u \in Tasks \ {t} : task'[u] = task[u]
      /\ DOMAIN task'[t] = TaskFields /\ task'[t].phase = "running" /\ task'[t].g = x
  BY <1>1, <1>2, <1>5 DEF ConversationInv, TasksOK
<1>7. worked' \in [Fleet -> Nat]
  BY <1>1 DEF ConversationInv, TasksOK
<1>8. (~stale /\ Checkpointing) => Tells(x)'
  BY <1>1, <1>4, <1>5 DEF Tells
<1>9. GraphOK(x) /\ Save(x)
  BY <1>1, <1>4, <1>5
<1>10. /\ task_status' \in {task_status, "running"} /\ UNCHANGED <<answer, asked, stale>>
  BY <1>1
<1> HIDE DEF ConversationInv
<1>11. QED  BY <1>3, <1>6, <1>7, <1>8, <1>9, <1>10, Proceeds
\* A step of the graph that runs no agent.
LEMMA Moves ==
    ASSUME ConversationInv, NEW t \in Tasks, task[t].phase = "running", NEW g, GraphOK(g),
           g.outputs = task[t].g.outputs, ~g.rerouted => ~task[t].g.rerouted,
           Show(t, g), Save(g), UNCHANGED <<answer, worked, asked, stale>>
    PROVE  ConversationInv'
<1>1. Active(t)
  BY DEF Active
<1>2. /\ DOMAIN task' = Tasks /\ \A u \in Tasks \ {t} : task'[u] = task[u]
      /\ DOMAIN task'[t] = TaskFields /\ task'[t].phase = "running" /\ task'[t].g = g
  BY DEF Show, ConversationInv, TasksOK, TaskFields
<1>3. task_status' \in {task_status, "running"}
  BY DEF Show
<1>4. worked' \in [Fleet -> Nat]
  BY DEF ConversationInv, TasksOK
<1>5. (~stale /\ Checkpointing) => Tells(g)'
  <2>1. task[t].g # NoGraph
    BY DEF ConversationInv, TasksOK
  <2>2. (~stale /\ Checkpointing) => Tells(thread) /\ thread = task[t].g
    BY <2>1 DEF ConversationInv, ThreadOK
  <2>3. QED  BY <2>2 DEF Tells
<1>6. QED  BY <1>1, <1>2, <1>3, <1>4, <1>5, Proceeds

\* The graph of a running task.
LEMMA RunningGraph ==
    ASSUME ConversationInv, NEW t \in Tasks, task[t].phase = "running"
    PROVE  GraphOK(task[t].g)
BY DEF ConversationInv, GraphsOK, TasksOK

LEMMA SuperviseOK ==
    ASSUME ConversationInv, NEW t \in Tasks, NEW next \in Fleet \cup {"FINISH"},
           NEW targets \in TargetChoices, Supervise(t, next, targets)
    PROVE  ConversationInv'
<1> DEFINE g == task[t].g
           known == Shortcut(g, CacheGet(g.intent), Keyword[g.intent])
           h == IF known # "none" THEN Route(g, known) ELSE Decided(g, next, targets)
<1>1. /\ task[t].phase = "running" /\ g.at = "supervisor"
      /\ Show(t, h) /\ Save(h) /\ UNCHANGED <<answer, worked, asked, stale>>
  BY DEF Supervise, At
<1>2. GraphOK(g)
  BY <1>1, RunningGraph
<1>3. targets \in SUBSET Agents
  BY FleetAssumption
<1>4. g.spoke # {} => known = IF g.origin \in g.spoke THEN "FINISH" ELSE "none"
  BY DEF Shortcut, IsInitialCall
<1>5. GraphOK(h) /\ h.outputs = g.outputs /\ (~h.rerouted => ~g.rerouted)
  <2> HIDE DEF g, known
  <2>1. QED  BY <1>1, <1>2, <1>3, <1>4, SupervisedOK
<1>6. PICK x : x = h
  OBVIOUS
<1> HIDE DEF h
<1>7. QED  BY <1>1, <1>5, <1>6, Moves

LEMMA PlanActionOK ==
    ASSUME ConversationInv, NEW t \in Tasks, Plan(t)
    PROVE  ConversationInv'
<1> DEFINE g == task[t].g
           h == Dispatched(Planned(g))
<1>1. /\ task[t].phase = "running" /\ g.at = "planner"
      /\ Show(t, h) /\ Save(h) /\ UNCHANGED <<answer, worked, asked, stale>>
  BY DEF Plan, At
<1>2. GraphOK(g)
  BY <1>1, RunningGraph
<1>3. GraphOK(h) /\ h.outputs = g.outputs /\ h.rerouted = g.rerouted
  <2> HIDE DEF g
  <2>1. QED  BY <1>1, <1>2, PlanStepOK
<1>4. PICK x : x = h
  OBVIOUS
<1> HIDE DEF h
<1>5. QED  BY <1>1, <1>3, <1>4, Moves

LEMMA WriteHubOK ==
    ASSUME ConversationInv, NEW t \in Tasks, WriteHub(t)
    PROVE  ConversationInv'
<1> DEFINE g == task[t].g
           h == HubStep(g)
<1>1. /\ task[t].phase = "running" /\ g.at = "hub"
      /\ Show(t, h) /\ Save(h) /\ UNCHANGED <<answer, worked, asked, stale>>
  BY DEF WriteHub, At
<1>2. GraphOK(g)
  BY <1>1, RunningGraph
<1>3. GraphOK(h) /\ h.outputs = g.outputs /\ h.rerouted = g.rerouted
  <2> HIDE DEF g
  <2>1. QED  BY <1>1, <1>2, HubStepOK
<1>4. PICK x : x = h
  OBVIOUS
<1> HIDE DEF h
<1>5. QED  BY <1>1, <1>3, <1>4, Moves

LEMMA WorkActionOK ==
    ASSUME ConversationInv, NEW t \in Tasks, NEW a \in Fleet, NEW produced \in BOOLEAN,
           Work(t, a, produced)
    PROVE  ConversationInv'
<1> DEFINE g == task[t].g
           h == AgentDone(g, a, produced)
<1>1. /\ task[t].phase = "running" /\ g.at = "agents" /\ a \in g.batch
      /\ produced \/ a \in MayFindNothing
      /\ worked' = [worked EXCEPT ![a] = @ + 1]
      /\ task' = [task EXCEPT ![t].g = h, ![t].steps = IF h.at = "hub" THEN @ + 1 ELSE @]
      /\ Save(h) /\ UNCHANGED <<task_status, answer, asked, stale>>
  BY DEF Work, At
<1>2. GraphOK(g) /\ g # NoGraph
  BY <1>1, RunningGraph, GraphIsNone
<1>3. /\ GraphOK(h) /\ h.rerouted = g.rerouted
      /\ h.outputs = IF produced THEN g.outputs \cup {a} ELSE g.outputs
  <2> HIDE DEF g
  <2>1. QED  BY <1>1, <1>2, AgentDoneOK
<1>4. ~g.rerouted => a \notin g.outputs
  BY <1>1, <1>2 DEF GraphOK, WorkOK
<1>5. PICK x : x = h
  OBVIOUS
<1> HIDE DEF h
<1>6. /\ DOMAIN task' = Tasks /\ \A u \in Tasks \ {t} : task'[u] = task[u]
      /\ DOMAIN task'[t] = TaskFields /\ task'[t].phase = "running" /\ task'[t].g = x
  BY <1>1, <1>5 DEF ConversationInv, TasksOK, TaskFields
<1>7. worked \in [Fleet -> Nat] /\ worked' \in [Fleet -> Nat]
  BY <1>1 DEF ConversationInv, TasksOK
<1>8. (~stale /\ Checkpointing) => Tells(x)'
  <2> SUFFICES ASSUME ~stale, Checkpointing, ~x.rerouted, NEW b \in Fleet \ MayFindNothing
               PROVE  worked'[b] = IF b \in x.outputs THEN 1 ELSE 0
    BY DEF Tells
  <2>1. worked[b] = IF b \in g.outputs THEN 1 ELSE 0
    BY <1>1, <1>2, <1>3, <1>5 DEF ConversationInv, ThreadOK, Tells
  <2>2. CASE b = a
    BY <2>1, <2>2, <1>1, <1>3, <1>4, <1>5, <1>7
  <2>3. CASE b # a
    BY <2>1, <2>3, <1>1, <1>3, <1>5, <1>7
  <2>4. QED  BY <2>2, <2>3
<1>9. Active(t)
  BY <1>1 DEF Active
<1>10. GraphOK(x) /\ Save(x)
  BY <1>1, <1>3, <1>5
<1>11. task_status' \in {task_status, "running"} /\ UNCHANGED <<answer, asked, stale>>
  BY <1>1
<1> HIDE DEF ConversationInv
<1>12. QED  BY <1>6, <1>7, <1>8, <1>9, <1>10, <1>11, Proceeds

\* An agent raised, or the limit on supersteps was reached.
LEMMA FailOK ==
    ASSUME ConversationInv, NEW t \in Tasks, Fail(t)
    PROVE  ConversationInv'
<1>1. Active(t) /\ task' = [task EXCEPT ![t] = Idle]
        /\ UNCHANGED <<thread, answer, worked, asked, stale>>
  BY DEF Fail, Active
<1>2. QED  BY <1>1, Ends

\* The end of a run becomes the answer.
LEMMA CompleteOK ==
    ASSUME ConversationInv, NEW t \in Tasks, Complete(t)
    PROVE  ConversationInv'
<1>1. /\ Active(t) /\ task' = [task EXCEPT ![t] = Idle] /\ answer' = task[t].g
      /\ task[t].g.at = "end" /\ UNCHANGED <<thread, worked, asked, stale>>
  BY DEF Complete, Active
<1>2. GraphOK(answer') /\ answer'.at = "end"
  BY <1>1, RunningGraph DEF Complete
<1>3. QED  BY <1>1, <1>2, Ends

\* Nobody is left to go on: the process was killed, the status expired, the thread purged.
LEMMA Quiet ==
    ASSUME ConversationInv, \A t \in Tasks : task'[t] = Idle, DOMAIN task' = Tasks,
           UNCHANGED <<answer, worked, asked, stale>>,
           ~asked => task_status' = "none" /\ thread' = NoGraph,
           \/ thread' = thread
           \/ thread' = NoGraph /\ task_status' = "none",
           thread = NoGraph /\ task_status = "none" => task_status' = "none"
    PROVE  ConversationInv'
<1>1. \A t \in Tasks : DOMAIN task'[t] = TaskFields /\ task'[t].phase = "idle" /\ task'[t].g = NoGraph
  BY IdleIs
<1>2. GraphsOK'
  BY <1>1 DEF ConversationInv, GraphsOK
<1>3. TasksOK' /\ OneTask'
  BY <1>1 DEF ConversationInv, TasksOK, OneTask, Active
<1>4. ThreadOK'
  BY <1>1 DEF ConversationInv, ThreadOK, Tells, Active
<1>5. QED  BY <1>2, <1>3, <1>4 DEF ConversationInv

\* Every step keeps the invariant.
LEMMA ConversationStep == ConversationInv /\ [ConversationNext]_conversationVars => ConversationInv'
<1> SUFFICES ASSUME ConversationInv, [ConversationNext]_conversationVars PROVE ConversationInv'
  OBVIOUS
<1>1. ASSUME NEW t \in Tasks, NEW asking \in Requests, Dispatch(t, asking)
      PROVE  ConversationInv'
  BY <1>1, DispatchOK
<1>2. ASSUME NEW t \in Tasks, ResumeRead(t) PROVE ConversationInv'
  BY <1>2, ResumeReadOK
<1>3. ASSUME NEW t \in Tasks, TaskStep(t) PROVE ConversationInv'
  BY <1>3, ResumeWriteOK, BeginOK, PlanActionOK, WriteHubOK, FailOK, CompleteOK,
     SuperviseOK, WorkActionOK DEF TaskStep
<1>4. CASE Kill
  BY <1>4, Quiet DEF Kill, ConversationInv, TasksOK
<1>5. CASE Expire
  BY <1>5, Quiet DEF Expire, ConversationInv, TasksOK
<1>6. CASE Retain
  BY <1>6, Quiet DEF Retain, ConversationInv, TasksOK
<1>7. CASE UNCHANGED conversationVars
  BY <1>7 DEF conversationVars, ConversationInv, GraphsOK, TasksOK, OneTask, ThreadOK, Tells, Active
<1>8. QED  BY <1>1, <1>2, <1>3, <1>4, <1>5, <1>6, <1>7 DEF ConversationNext

\* The invariant of the conversation, for every fleet, every request and any number of tasks.
THEOREM ConversationIsSafe == ConversationSpec => []ConversationInv
<1>1. QED  BY ConversationStart, ConversationStep, PTL DEF ConversationSpec

\* A graph that has ended is whole.
LEMMA EndIsWhole ==
    ASSUME NEW g, GraphOK(g), g.at = "end"
    PROVE  /\ g.plan # <<>> => Needed(g.targets) \cup {"J"} \subseteq g.spoke
           /\ {g.handoffs[i] : i \in DOMAIN g.handoffs} = g.outputs
           /\ Len(g.handoffs) = Cardinality(g.outputs)
<1> DEFINE n == Len(g.handoffs)
<1>1. /\ g.handoffs \in [1..n -> g.outputs] /\ n \in Nat
      /\ \A i, j \in 1..n : g.handoffs[i] = g.handoffs[j] => i = j
      /\ \A a \in g.outputs : \E i \in 1..n : g.handoffs[i] = a
  BY DEF GraphOK, HandoffsOK
<1>2. g.handoffs \in Bijection(1..n, g.outputs)
  BY <1>1 DEF Bijection, Injection, Surjection, IsInjective
<1>3. IsFiniteSet(1..n) /\ Cardinality(1..n) = n
  <2> HIDE DEF n
  <2>1. QED  BY <1>1, FS_Interval
<1>4. Cardinality(g.outputs) = n
  BY <1>2, <1>3, FS_Bijection DEF ExistsBijection
<1>5. {g.handoffs[i] : i \in DOMAIN g.handoffs} = g.outputs
  BY <1>1
<1>6. QED  BY <1>4, <1>5 DEF GraphOK, PlanOK

\* AnswerIsWhole: what a completed status shows (_graph_background_task) is whole, whatever
\* failed and was resumed on the way.
THEOREM AnswersAreWhole == ConversationSpec => []AnswerIsWhole
<1>1. ConversationInv => AnswerIsWhole
  BY EndIsWhole DEF ConversationInv, GraphsOK, AnswerIsWhole
<1>2. QED  BY <1>1, ConversationIsSafe, PTL

\* SummaryCoversAll: unless the plan was rebuilt, the last stage of build_full_plan saw
\* every other output.
THEOREM SummariesCoverAll == ConversationSpec => []SummaryCoversAll
<1>1. ConversationInv => SummaryCoversAll
  <2> SUFFICES ASSUME ConversationInv, answer # NoGraph, answer.plan # <<>>, answer.used = 0
               PROVE  answer.outputs \ {"J"} \subseteq answer.covered
    BY DEF SummaryCoversAll
  <2>1. GraphOK(answer) /\ answer.at = "end"
    BY DEF ConversationInv, GraphsOK
  <2>2. "J" \in answer.spoke
    BY <2>1 DEF GraphOK, PlanOK
  <2>3. QED  BY <2>1, <2>2 DEF GraphOK, SummaryOK
<1>2. QED  BY <1>1, ConversationIsSafe, PTL

\* NoRework: a resume continues from the checkpoint (conversation_resume), so an agent that
\* had finished is not run again.
THEOREM NothingIsRedone == ConversationSpec => []NoRework
<1>1. ConversationInv => NoRework
  <2> SUFFICES ASSUME ConversationInv, thread # NoGraph, ~thread.rerouted, ~stale,
                      NEW a \in Fleet \ MayFindNothing
               PROVE  worked[a] <= 1
    BY DEF NoRework
  <2>1. worked[a] = IF a \in thread.outputs THEN 1 ELSE 0
    BY DEF ConversationInv, ThreadOK, Tells
  <2>2. QED  BY <2>1
<1>2. QED  BY <1>1, ConversationIsSafe, PTL

\* CompletedIsFinal: only a resume that acted on an old status leaves completed again.
THEOREM CompletedStaysCompleted == ConversationSpec => CompletedIsFinal
<1> DEFINE Final == task_status = "completed" =>
                       task_status' \in {"completed", "none"} \/ stale'
<1>1. ConversationInv /\ [ConversationNext]_conversationVars => [Final]_conversationVars
  <2> SUFFICES ASSUME ConversationInv, ConversationNext, task_status = "completed", ~stale',
                      task_status' \notin {"completed", "none"}
               PROVE  FALSE
    BY DEF conversationVars
  <2>1. ~stale
    BY DEF ConversationNext, TaskStep, Dispatch, ResumeRead, ResumeWrite, Begin, Plan, WriteHub,
           Fail, Complete, Supervise, Work, Kill, Expire, Retain
  <2>2. \A t \in Tasks : ~Active(t)
    BY <2>1 DEF ConversationInv, OneTask
  <2>3. \A t \in Tasks : ~TaskStep(t)
    <3> SUFFICES ASSUME NEW t \in Tasks, TaskStep(t) PROVE FALSE
      OBVIOUS
    <3>1. task[t].phase \notin {"queued", "running"}
      BY <2>2 DEF Active
    <3>2. ResumeWrite(t)
      BY <3>1 DEF TaskStep, Begin, Plan, WriteHub, Fail, Complete, Supervise, Work, At
    <3>3. task[t].shown = "failed"
      BY <3>2 DEF ResumeWrite, ConversationInv, TasksOK
    <3>4. QED  BY <3>2, <3>3 DEF ResumeWrite
  <2>4. asked
    BY DEF ConversationInv, TasksOK
  <2>5. QED  BY <2>3, <2>4 DEF ConversationNext, Dispatch, ResumeRead, Kill, Expire, Retain
<1>2. QED  BY <1>1, ConversationIsSafe, PTL DEF ConversationSpec, CompletedIsFinal
=============================================================================
