--------------------------- MODULE MCJobLiveness ----------------------------
(***************************************************************************)
(* Progress of the job engine once the outside world leaves it alone:      *)
(* clients make at most MaxRequests requests, and units change state on    *)
(* their own or jobs are canceled at most MaxChanges times; anything else  *)
(* is PID 1's own doing or a unit completing what it is in the middle of.  *)
(***************************************************************************)
EXTENDS MCJobEngine

CONSTANTS MaxRequests, MaxChanges

VARIABLES requests, changes

\* A unit that is on its way somewhere arrives (its start, stop or reload
\* timeout makes sure of it).
Arrives(u) ==
    /\ calls = <<>>
    /\ \E ns \in States, reload_success \in BOOLEAN :
          /\ \/ active[u] \in {"activating", "reloading"} /\ ns \in {"active", "inactive", "failed"}
             \/ active[u] = "deactivating" /\ ns \in {"inactive", "failed"}
             \/ active[u] = "maintenance" /\ ns = "inactive"
          /\ unit_notify(u, ns, reload_success, <<>>)
    /\ UNCHANGED <<nop, autoq, envVars, requests, changes>>

Runs(u) == RunJob(u) /\ UNCHANGED <<requests, changes>>
Handles == HandlerStep /\ UNCHANGED <<requests, changes>>

LiveNext ==
    \/ Handles
    \/ \E u \in Units : Runs(u) \/ Arrives(u)
    \/ /\ requests < MaxRequests /\ requests' = requests + 1 /\ UNCHANGED changes
       /\ \E r \in Requests : Request(r)
    \/ /\ changes < MaxChanges /\ changes' = changes + 1 /\ UNCHANGED requests
       /\ manager_clear_jobs \/ \E u \in Units : UnitChange(u) \/ bus_job_method_cancel(u)

liveVars == <<vars, requests, changes>>

LiveSpec ==
    /\ Init /\ requests = 0 /\ changes = 0 /\ [][LiveNext]_liveVars
    /\ WF_liveVars(Handles)
    /\ \A u \in Units : WF_liveVars(Runs(u)) /\ WF_liveVars(Arrives(u))

\* Every job ends, without the help of a timeout: it is run once the jobs it is
\* ordered after are done and its unit is ready for it, and the unit's arrival
\* in its next state completes it.
JobsEnd == \A u \in Units : job[u] # "none" ~> job[u] = "none"

=============================================================================
