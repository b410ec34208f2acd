---------------------------- MODULE MCTransaction ----------------------------
(***************************************************************************)
(* Instances of Transaction: under every choice of up to two declared      *)
(* dependencies, and under those of the instances of JobEngine.            *)
(***************************************************************************)
EXTENDS Transaction, Scenarios

CONSTANTS d, DepTypes

\* Every choice of up to two dependencies.
Declarable == {x \in Units \X DepTypes \X Units : x[1] # x[3]}
UpToTwo == {WithInverse({x, y}) : x, y \in Declarable}

\* The dependencies of the instances of JobEngine, and some more.
EngineGraphs == {WithInverse(G) : G \in {Chain, Cycle, MountOnDevice, SocketActivation, BoundToSocket,
                                        KeepUp, Bound, Exclusive, Ring, Contradiction}}

\* b and c need each other, and b needs d as well.
LoopToBroken == {WithInverse({<<a, "Wants", b>>, <<a, "Wants", c>>, <<b, "Requires", c>>, <<c, "Requires", b>>,
                              <<b, "Requires", d>>})}

NobodyFollows(u) == {}
\* b and c are device units of the same device.
Aliases(u) == IF u = a THEN {} ELSE {b, c} \ {u}

NothingInstalled == [Units -> {"none"}]
OneInstalled == {f \in [Units -> {"none", "start", "stop", "restart"}] : \A u, v \in Units : "none" \in {f[u], f[v]} \/ u = v}

Ask(T, U, M) == [type : T, unit : U, mode : M]
StartA == Ask({"start"}, {a}, {"replace"})
StopA == Ask({"stop"}, {a}, {"replace"})
RestartA == Ask({"restart"}, {a}, {"replace"})
TypesA == StartA \cup StopA \cup RestartA \cup Ask({"reload", "try-restart"}, {a}, {"replace"})
          \cup Ask({"stop"}, {a}, {"triggering"})

EngineAsks == Ask({"start", "stop", "restart", "reload", "verify"}, Units, {"replace"})
              \cup Ask({"start"}, Units, {"ignore-dependencies", "restart-dependencies", "isolate", "flush"})
              \cup Ask({"try-restart", "try-reload"}, Units, {"fail"})

\* JobEngine's instances leave the way from a request to its jobs to a
\* predicate on the jobs: whatever transaction_activate is about to apply under
\* their dependencies satisfies it, so that they miss no outcome.
EngineOutcome ==
    phase = "apply" =>
        LET t == job_type_collapse(request.type, active[request.unit])
        IN Outcome(MayInclude(deps, t, request.unit, request.mode, Units),
                   [u \in Units |-> Final(u)], t, request.unit)

=============================================================================
