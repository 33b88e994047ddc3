----------------------------- MODULE AtLeastOnce -----------------------------
(***************************************************************************)
(* What a transactional outbox promises for each item: once submitted it   *)
(* stays pending until it is done, which takes at least one copy handed to *)
(* the transport, or until it is buried.  Copies beyond the first are      *)
(* allowed; losing the item, or being done without a copy, is not.         *)
(***************************************************************************)
EXTENDS Naturals

CONSTANT Items

VARIABLES
    state,    \* "absent", "pending", "done" or "buried"
    copies    \* copies handed to the transport so far

aloVars == <<state, copies>>

AloInit ==
    /\ state = [x \in Items |-> "absent"]
    /\ copies = [x \in Items |-> 0]

Submit(x) ==
    /\ state[x] = "absent"
    /\ state' = [state EXCEPT ![x] = "pending"]
    /\ UNCHANGED copies

Transmit(x) ==
    /\ state[x] = "pending"
    /\ copies' = [copies EXCEPT ![x] = @ + 1]
    /\ UNCHANGED state

\* One commit settles a whole batch.
Settle(done, buried) ==
    /\ \A x \in done : state[x] = "pending" /\ copies[x] > 0
    /\ \A x \in buried : state[x] = "pending"
    /\ state' = [x \in Items |-> IF x \in done THEN "done"
                                 ELSE IF x \in buried THEN "buried" ELSE state[x]]
    /\ UNCHANGED copies

AloNext ==
    \/ \E x \in Items : Submit(x) \/ Transmit(x)
    \/ \E done, buried \in SUBSET Items : Settle(done, buried)

AloSpec == AloInit /\ [][AloNext]_aloVars
=============================================================================
