------------------------------ MODULE Proposals ------------------------------
(***************************************************************************)
(* Maker-checker for what agents want to write (proposal_service.py): an   *)
(* agent leaves an inert proposal, a person with the right permission, and *)
(* not the one who ran the agent, releases or rejects it.  approve locks   *)
(* the row, checks it, claims it by committing APPLIED, and only then      *)
(* performs the write: a stock movement commits by itself, a settlement    *)
(* only together with applied_ref.                                         *)
(***************************************************************************)
EXTENDS Naturals, FiniteSets

CONSTANTS
    Ids,        \* proposals
    Users,      \* people, each with at most one request in progress
    NoUser,     \* triggered_by is None: a batch ran the agent
    CanReview,  \* people allowed to decide each action type (the routers' gate)
    Payloads,   \* tool arguments
    MaxFaults   \* bound on crashes and on edits of the table by hand

Stock == "stock.adjustment"
Match == "reconciliation.match"
Kinds == {Stock, Match}

ASSUME ProposalsAssumption ==
    /\ NoUser \notin Users
    /\ CanReview \in [Kinds -> SUBSET Users]
    /\ MaxFaults \in Nat

VARIABLES
    status,    \* "absent", "proposed", "applied" or "rejected"
    kind,      \* action_type
    maker,     \* triggered_by
    payload,
    hash,      \* the payload payload_hash was computed from
    reviewer,  \* reviewed_by
    ref,       \* applied_ref is set
    writes,    \* how often the proposal's write has been committed
    wrote,     \* with which arguments
    at,        \* "idle", "locked", "claimed" or "written": where a request is
    on,        \* its proposal
    op,        \* "approve" or "reject"
    expects,   \* expected_action_type of its endpoint
    seen,      \* the status it read
    arg,       \* the payload it read
    faults

table == <<status, kind, maker, payload, hash, reviewer, ref>>
effect == <<writes, wrote>>
request == <<on, op, expects, seen, arg>>
vars == <<table, effect, at, request, faults>>

Locked(p) == \E u \in Users : at[u] = "locked" /\ on[u] = p

-----------------------------------------------------------------------------

Init ==
    /\ status = [p \in Ids |-> "absent"]
    /\ kind = [p \in Ids |-> Stock]
    /\ maker = [p \in Ids |-> NoUser]
    /\ payload \in [Ids -> Payloads]
    /\ hash = payload
    /\ reviewer = [p \in Ids |-> NoUser]
    /\ ref = [p \in Ids |-> FALSE]
    /\ writes = [p \in Ids |-> 0]
    /\ wrote = [p \in Ids |-> {}]
    /\ at = [u \in Users |-> "idle"]
    /\ on \in [Users -> Ids]
    /\ op = [u \in Users |-> "reject"]
    /\ expects = [u \in Users |-> Stock]
    /\ seen = [u \in Users |-> "absent"]
    /\ arg \in [Users -> Payloads]
    /\ faults = 0

\* Inert: nothing but the row (and e-mail to the reviewers) is written.
CreateProposal(p, k, m, x) ==
    /\ status[p] = "absent"
    /\ status' = [status EXCEPT ![p] = "proposed"]
    /\ kind' = [kind EXCEPT ![p] = k]
    /\ maker' = [maker EXCEPT ![p] = m]
    /\ payload' = [payload EXCEPT ![p] = x]
    /\ hash' = [hash EXCEPT ![p] = x]
    /\ UNCHANGED <<reviewer, ref, effect, at, request, faults>>

\* Mutant: the row is read without FOR UPDATE.
GetUnlocked(u, p, o, k) ==
    /\ at[u] = "idle" /\ status[p] # "absent"
    /\ u \in CanReview[k]
    /\ at' = [at EXCEPT ![u] = "locked"]
    /\ on' = [on EXCEPT ![u] = p]
    /\ op' = [op EXCEPT ![u] = o]
    /\ expects' = [expects EXCEPT ![u] = k]
    /\ seen' = [seen EXCEPT ![u] = status[p]]
    /\ arg' = [arg EXCEPT ![u] = payload[p]]
    /\ UNCHANGED <<table, effect, faults>>

\* The endpoint for action type k lets u in, and _get_for_update waits for the row.
GetForUpdate(u, p, o, k) ==
    /\ at[u] = "idle" /\ status[p] # "absent"
    /\ u \in CanReview[k]
    /\ ~Locked(p)
    /\ at' = [at EXCEPT ![u] = "locked"]
    /\ on' = [on EXCEPT ![u] = p]
    /\ op' = [op EXCEPT ![u] = o]
    /\ expects' = [expects EXCEPT ![u] = k]
    /\ seen' = [seen EXCEPT ![u] = status[p]]
    /\ arg' = [arg EXCEPT ![u] = payload[p]]
    /\ UNCHANGED <<table, effect, faults>>

\* The checks approve and reject share.
MayDecide(u) ==
    /\ kind[on[u]] = expects[u]
    /\ seen[u] = "proposed"
    /\ maker[on[u]] # u

\* Mutant: the hash is not compared.
IntactUnchecked(u) == TRUE

\* payload_hash(payload) = proposal.payload_hash
Intact(u) == arg[u] = hash[on[u]]

\* 403 or 422: the exception ends the request, the session rolls back.
Refuse(u) ==
    /\ at[u] = "locked"
    /\ ~MayDecide(u) \/ (op[u] = "approve" /\ ~Intact(u))
    /\ at' = [at EXCEPT ![u] = "idle"]
    /\ UNCHANGED <<table, effect, request, faults>>

\* Mutant: reject does not look at what it read.
RejectAnything(u) ==
    /\ at[u] = "locked" /\ op[u] = "reject"
    /\ status' = [status EXCEPT ![on[u]] = "rejected"]
    /\ reviewer' = [reviewer EXCEPT ![on[u]] = u]
    /\ at' = [at EXCEPT ![u] = "idle"]
    /\ UNCHANGED <<kind, maker, payload, hash, ref, effect, request, faults>>

Reject(u) ==
    /\ at[u] = "locked" /\ op[u] = "reject" /\ MayDecide(u)
    /\ status' = [status EXCEPT ![on[u]] = "rejected"]
    /\ reviewer' = [reviewer EXCEPT ![on[u]] = u]
    /\ at' = [at EXCEPT ![u] = "idle"]
    /\ UNCHANGED <<kind, maker, payload, hash, ref, effect, request, faults>>

\* approve commits the claim, which releases the row lock.
Claim(u) ==
    /\ at[u] = "locked" /\ op[u] = "approve" /\ MayDecide(u) /\ Intact(u)
    /\ status' = [status EXCEPT ![on[u]] = "applied"]
    /\ reviewer' = [reviewer EXCEPT ![on[u]] = u]
    /\ at' = [at EXCEPT ![u] = "claimed"]
    /\ UNCHANGED <<kind, maker, payload, hash, ref, effect, request, faults>>

Written(u) ==
    /\ writes' = [writes EXCEPT ![on[u]] = @ + 1]
    /\ wrote' = [wrote EXCEPT ![on[u]] = @ \cup {arg[u]}]

\* propose_stock_movement commits the movement and its audit row by itself.
ApplyStock(u) ==
    /\ at[u] = "claimed" /\ kind[on[u]] = Stock
    /\ Written(u)
    /\ at' = [at EXCEPT ![u] = "written"]
    /\ UNCHANGED <<table, request, faults>>

SaveRef(u) ==
    /\ at[u] = "written" /\ ~Locked(on[u])
    /\ ref' = [ref EXCEPT ![on[u]] = TRUE]
    /\ at' = [at EXCEPT ![u] = "idle"]
    /\ UNCHANGED <<status, kind, maker, payload, hash, reviewer, effect, request, faults>>

\* apply_confirmed_match only flushes: the payment commits with applied_ref.
ApplyMatch(u) ==
    /\ at[u] = "claimed" /\ kind[on[u]] = Match /\ ~Locked(on[u])
    /\ Written(u)
    /\ ref' = [ref EXCEPT ![on[u]] = TRUE]
    /\ at' = [at EXCEPT ![u] = "idle"]
    /\ UNCHANGED <<status, kind, maker, payload, hash, reviewer, request, faults>>

\* The write is refused (not enough stock, invoice settled): back to PROPOSED.
Unclaim(u) ==
    /\ at[u] = "claimed" /\ ~Locked(on[u])
    /\ status' = [status EXCEPT ![on[u]] = "proposed"]
    /\ reviewer' = [reviewer EXCEPT ![on[u]] = NoUser]
    /\ at' = [at EXCEPT ![u] = "idle"]
    /\ UNCHANGED <<kind, maker, payload, hash, ref, effect, request, faults>>

\* The write violates a constraint while it is flushed (a payment for this M-Pesa
\* transaction exists, a movement took the sequence number).  The session then
\* wants a rollback, and the commit of the unclaim raises too.
WriteBreaksSession(u) ==
    /\ at[u] = "claimed"
    /\ at' = [at EXCEPT ![u] = "idle"]
    /\ UNCHANGED <<table, effect, request, faults>>

\* The process dies in the middle of a request.
Crash(u) ==
    /\ at[u] # "idle" /\ faults < MaxFaults
    /\ faults' = faults + 1
    /\ at' = [at EXCEPT ![u] = "idle"]
    /\ UNCHANGED <<table, effect, request>>

\* Someone edits the payload in the table.
EditByHand(p, x) ==
    /\ status[p] # "absent" /\ ~Locked(p) /\ faults < MaxFaults
    /\ faults' = faults + 1
    /\ payload' = [payload EXCEPT ![p] = x]
    /\ UNCHANGED <<status, kind, maker, hash, reviewer, ref, effect, at, request>>

Next ==
    \/ \E p \in Ids, k \in Kinds, m \in Users \cup {NoUser}, x \in Payloads :
        CreateProposal(p, k, m, x)
    \/ \E u \in Users, p \in Ids, o \in {"approve", "reject"}, k \in Kinds :
        GetForUpdate(u, p, o, k)
    \/ \E u \in Users :
        \/ Refuse(u) \/ Reject(u) \/ Claim(u) \/ ApplyStock(u) \/ SaveRef(u)
        \/ ApplyMatch(u) \/ Unclaim(u) \/ WriteBreaksSession(u) \/ Crash(u)
    \/ \E p \in Ids, x \in Payloads : EditByHand(p, x)

Spec == Init /\ [][Next]_vars

-----------------------------------------------------------------------------
(* Properties *)

\* The table, the writes, and the requests in progress.
TypeOK ==
    /\ status \in [Ids -> {"absent", "proposed", "applied", "rejected"}]
    /\ kind \in [Ids -> Kinds] /\ maker \in [Ids -> Users \cup {NoUser}]
    /\ payload \in [Ids -> Payloads] /\ hash \in [Ids -> Payloads]
    /\ reviewer \in [Ids -> Users \cup {NoUser}] /\ ref \in [Ids -> BOOLEAN]
    /\ writes \in [Ids -> Nat] /\ wrote \in [Ids -> SUBSET Payloads]
    /\ at \in [Users -> {"idle", "locked", "claimed", "written"}]
    /\ on \in [Users -> Ids] /\ op \in [Users -> {"approve", "reject"}]
    /\ expects \in [Users -> Kinds]
    /\ seen \in [Users -> {"absent", "proposed", "applied", "rejected"}] /\ arg \in [Users -> Payloads]
    /\ faults \in 0 .. MaxFaults

\* "applies the write exactly once under concurrency": whatever the reviewers,
\* refusals, retries and crashes, no proposal is written twice, and only an
\* APPLIED one is written at all.
WrittenAtMostOnce ==
    \A p \in Ids : writes[p] <= 1 /\ (writes[p] > 0 => status[p] = "applied")

\* A decided proposal was decided by somebody entitled to its action type who is
\* not the person that ran the agent.
DecidedByAnother ==
    \A p \in Ids : status[p] \in {"applied", "rejected"} =>
        reviewer[p] \in CanReview[kind[p]] \ {maker[p]}

\* What is written is what the agent proposed, also when the row was edited while
\* it waited or while it was being applied.
WroteWhatWasProposed == \A p \in Ids : wrote[p] \subseteq {hash[p]}

\* The back-reference is only ever set on a proposal whose write is committed.
RefMeansWritten == \A p \in Ids : ref[p] => writes[p] = 1

\* A rejection is final, and so is a committed write.
DecisionsAreFinal ==
    [][\A p \in Ids :
        /\ status[p] = "rejected" => status'[p] = "rejected"
        /\ writes[p] > 0 => status'[p] = "applied" /\ reviewer'[p] = reviewer[p]]_vars

=============================================================================
