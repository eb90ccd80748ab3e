---------------------------- MODULE PurchaseLedger ----------------------------
(***************************************************************************)
(* What paid acquisition promises, without journal, files, processes or    *)
(* crashes: money is asked for only under a consumed authorization that    *)
(* names the request, at most once per request and authorization, and      *)
(* never again for a request that was charged.                             *)
(***************************************************************************)
EXTENDS Naturals

CONSTANTS
  Requests, Auths,
  Spent,      \* the authorizations consumed before
  Asked       \* the requests the provider was called for under them

VARIABLES
  granted,    \* the requests each authorization may buy
  consumed,   \* the authorizations spent
  calls,      \* paid provider invocations per request and authorization
  charges     \* charges per request

ledger == <<granted, consumed, calls, charges>>

\* Nobody knows yet which of the calls made before were charged.
Init ==
  /\ granted = [a \in Auths |-> IF a \in Spent THEN Requests ELSE {}]
  /\ consumed = Spent
  /\ calls = [r \in Requests |-> [a \in Auths |->
                IF r \in Asked /\ a \in Spent THEN 1 ELSE 0]]
  /\ \E c \in [Asked -> {0, 1}] :
       charges = [r \in Requests |-> IF r \in Asked THEN c[r] ELSE 0]

Grant(a, S) ==
  /\ granted[a] = {} /\ S # {}
  /\ granted' = [granted EXCEPT ![a] = S]
  /\ UNCHANGED <<consumed, calls, charges>>

Consume(a) ==
  /\ a \notin consumed /\ granted[a] # {}
  /\ consumed' = consumed \cup {a}
  /\ UNCHANGED <<granted, calls, charges>>

Invoke(r, a, charge) ==
  /\ a \in consumed /\ r \in granted[a]
  /\ calls[r][a] = 0
  /\ charges[r] = 0
  /\ calls' = [calls EXCEPT ![r][a] = 1]
  /\ charges' = [charges EXCEPT ![r] = charge]
  /\ UNCHANGED <<granted, consumed>>

Next ==
  \/ \E a \in Auths, S \in SUBSET Requests : Grant(a, S)
  \/ \E a \in Auths : Consume(a)
  \/ \E r \in Requests, a \in Auths, charge \in {0, 1} : Invoke(r, a, charge)

Spec == Init /\ [][Next]_ledger
=============================================================================
