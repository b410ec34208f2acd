----------------------------- MODULE Scenarios ------------------------------
(***************************************************************************)
(* Dependencies that the unit files of the instances declare, and the jobs *)
(* the transactions they lead to consist of.                               *)
(***************************************************************************)
EXTENDS DependencyAtoms, JobTypes, FiniteSets

CONSTANTS a, b, c

\* Services a, b and c, started in the order c, b, a; a needs b.
Chain == {<<a, "After", b>>, <<b, "After", c>>, <<a, "Requires", b>>}

\* Two services ordered after each other.
Cycle == {<<a, "After", b>>, <<b, "After", a>>, <<a, "Wants", b>>}

\* A mount unit a on the block device b, triggered by the automount unit c.
MountOnDevice == {<<a, "BindsTo", b>>, <<a, "After", b>>, <<c, "Triggers", a>>, <<c, "Before", a>>}

\* A service a, its socket b, and c that handles failure and success of a.
SocketActivation == {<<b, "Triggers", a>>, <<b, "Before", a>>, <<a, "Requires", b>>,
                     <<a, "OnFailure", c>>, <<a, "OnSuccess", c>>, <<c, "Conflicts", a>>}

\* The service is bound to its socket.
BoundToSocket == {<<b, "Triggers", a>>, <<a, "BindsTo", b>>}

\* a keeps b up; a cannot be without b; a must not run along with b.
KeepUp == {<<a, "Upholds", b>>}
Bound == {<<a, "BindsTo", b>>, <<a, "After", b>>}
Exclusive == {<<a, "Conflicts", b>>}

\* An order without beginning, of units that can do without each other, and a
\* unit that needs one and wants another that conflicts with it.
Ring == {<<a, "After", b>>, <<b, "After", c>>, <<c, "After", a>>, <<a, "Wants", b>>, <<b, "Wants", c>>}
Contradiction == {<<a, "Requires", b>>, <<a, "Wants", c>>, <<c, "Conflicts", b>>}

-----------------------------------------------------------------------------
\* Every declared dependency is stored with its inverse.
WithInverse(G) == G \cup {<<d[3], inverse_table[d[2]], d[1]>> : d \in G}

\* v is a unit that u depends on with the atom x.
Depends(G, u, x, v) == \E d \in UnitDependency : <<u, d, v>> \in G /\ x \in atom_map[d]

\* A job of type t for u pulls in one of type s for v
\* (transaction_add_job_and_dependencies).
PullsIn(G, t, u, s, v) ==
    \/ t \in {"start", "restart"} /\ s = "start"
       /\ (Depends(G, u, "PULL_IN_START", v) \/ Depends(G, u, "PULL_IN_START_IGNORED", v))
    \/ t \in {"start", "restart"} /\ s = "verify" /\ Depends(G, u, "PULL_IN_VERIFY", v)
    \/ t \in {"start", "restart"} /\ s = "stop"
       /\ (Depends(G, u, "PULL_IN_STOP", v) \/ Depends(G, u, "PULL_IN_STOP_IGNORED", v))
    \/ t = "restart" /\ s = "restart" /\ Depends(G, u, "PROPAGATE_RESTART", v)
    \/ t = "stop" /\ s = "stop" /\ Depends(G, u, "PROPAGATE_STOP", v)
    \/ t \in {"stop", "restart"} /\ s \in {"stop", "restart"} /\ Depends(G, u, "PROPAGATE_STOP_GRACEFUL", v)
    \/ t = "reload" /\ s = "reload" /\ Depends(G, u, "PropagatesReloadTo", v)

\* The jobs that one of type t for u may pull in, itself included.
PulledIn(G, t, u, U) ==
    LET reach[n \in 0..Cardinality(U)] ==
            IF n = 0 THEN {<<u, t>>}
            ELSE reach[n - 1] \cup {j \in U \X MergingTypes : \E k \in reach[n - 1] : PullsIn(G, k[2], k[1], j[2], j[1])}
    IN reach[Cardinality(U)]

\* The jobs that a request for a job of type t for u may come down to: that
\* job and those it pulls in; an isolating transaction stops the rest, and one
\* to restart dependencies pulls in what a restart does, too.
MayInclude(G, t, u, mode, U) ==
    PulledIn(G, t, u, U)
    \cup (IF mode = "restart-dependencies" THEN PulledIn(G, "restart", u, U) ELSE {})
    \cup (IF mode = "isolate" THEN U \X {"stop"} ELSE {})

\* tr is a choice of them: some turn out redundant or are dropped.
Outcome(may, tr, t, u) ==
    /\ tr[u] = t
    /\ \A v \in DOMAIN tr \ {u} : tr[v] = "none" \/ <<v, tr[v]>> \in may

=============================================================================
