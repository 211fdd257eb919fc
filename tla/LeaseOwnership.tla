---------------------------- MODULE LeaseOwnership ----------------------------
(***************************************************************************)
(* What a lease pool promises to the requests and to the scheduler, without *)
(* its maps, lists, loops and timers: a lease is lent to one request at a   *)
(* time, it never comes back once it was withdrawn or retired, it goes back *)
(* to the scheduler at most once and only after it was retired, and an open *)
(* pool loses none.                                                         *)
(***************************************************************************)
CONSTANTS
  Requests,   \* the borrowers
  Leases,     \* the leases a scheduler can grant
  NoLease     \* "no lease"

VARIABLES
  state,      \* the stage of a lease's life
  user,       \* the lease a request has borrowed
  open        \* the pool was not stopped

ownVars == <<state, user, open>>

LeaseStates == {"new", "lent", "idle", "leaving", "retired", "returned"}

OwnInit ==
  /\ state = [l \in Leases |-> "new"]
  /\ user = [r \in Requests |-> NoLease]
  /\ open = TRUE

\* A request without a lease gets one that is new or idle.
Lend(r, l) ==
  /\ user[r] = NoLease /\ state[l] \in {"new", "idle"}
  /\ user' = [user EXCEPT ![r] = l]
  /\ state' = [state EXCEPT ![l] = "lent"]
  /\ UNCHANGED open

\* A request is done. Its lease is kept for the next one or retired; after the
\* pool was stopped it may be set aside. A lease that was retired meanwhile
\* stays so.
HandBack(r) ==
  /\ user[r] # NoLease
  /\ user' = [user EXCEPT ![r] = NoLease]
  /\ IF state[user[r]] = "lent"
     THEN \E s \in {"idle", "retired"} \cup (IF open THEN {} ELSE {"leaving"}) :
            state' = [state EXCEPT ![user[r]] = s]
     ELSE UNCHANGED state
  /\ UNCHANGED open

\* The pool takes an idle lease for itself.
Withdraw(l) ==
  /\ state[l] = "idle"
  /\ state' = [state EXCEPT ![l] = "leaving"]
  /\ UNCHANGED <<user, open>>

\* A lease is destroyed: it was withdrawn, or the scheduler refused to prolong
\* it, in use or not, or the pool was stopped.
Retire(l) ==
  /\ state[l] \in {"lent", "idle", "leaving"}
  /\ state' = [state EXCEPT ![l] = "retired"]
  /\ UNCHANGED <<user, open>>

\* The scheduler is told that the lease is free.
Return(l) ==
  /\ state[l] = "retired"
  /\ state' = [state EXCEPT ![l] = "returned"]
  /\ UNCHANGED <<user, open>>

Close ==
  /\ open
  /\ open' = FALSE
  /\ UNCHANGED <<state, user>>

OwnNext ==
  \/ \E r \in Requests : HandBack(r) \/ \E l \in Leases : Lend(r, l)
  \/ \E l \in Leases : Withdraw(l) \/ Retire(l) \/ Return(l)
  \/ Close

OwnSpec == OwnInit /\ [][OwnNext]_ownVars
=============================================================================
