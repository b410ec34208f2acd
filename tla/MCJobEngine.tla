---------------------------- MODULE MCJobEngine -----------------------------
(***************************************************************************)
(* Instances of JobEngine: up to three units, the dependencies their unit  *)
(* files declare, and the transactions those lead to.                      *)
(***************************************************************************)
EXTENDS JobEngine, Scenarios

CONSTANT Declared

Stored == WithInverse(Declared)

\* Who depends on whom with which atom.
DepTable == UNION {{<<d[1], x, d[3]>> : x \in atom_map[d[2]]} : d \in {e \in Stored : {e[1], e[3]} \subseteq Units}}
MCDep(u, x) == {v \in Units : <<u, x, v>> \in DepTable}

\* The jobs a transaction may consist of, as <<type, unit, mode, jobs>>.
Modes == {"isolate", "restart-dependencies", "replace"}
TransactionsFor(t, u, mode) ==
    LET kept == IF mode = "isolate" THEN (IgnoreOnIsolate \ {u}) \X {"stop"} ELSE {}
        may == MayInclude(Stored, t, u, mode, Units) \ kept
    IN {<<t, u, mode, tr>> : tr \in {f \in Jobs : Outcome(may, f, t, u)}}
TransactionTable == UNION {TransactionsFor(t, u, mode) : t \in TransactionTypes, u \in Units, mode \in Modes}
MCTransactionJobs(t, u, mode) ==
    IF mode \in {"ignore-dependencies", "ignore-requirements"}
    THEN {[v \in Units |-> IF v = u THEN t ELSE "none"]}
    ELSE LET m == IF mode \in Modes THEN mode ELSE "replace"
         IN {x[4] : x \in {y \in TransactionTable : y[1] = t /\ y[2] = u /\ y[3] = m}}

\* Requests of the instances.
Ask(T, U, m) == [type : T, unit : U, mode : {m}]
StartStop == Ask({"start", "stop"}, Units, "replace")
RequestsA == Ask({"start"}, {a}, "flush") \cup Ask({"try-reload"}, {a}, "fail")
ModesA == Ask({"start", "restart", "reload", "verify"}, {a}, "replace") \cup Ask({"stop"}, {a}, "replace-irreversibly")
          \cup Ask({"start"}, {a}, "isolate")

AllStates == UnitActiveState
FewStates == {"inactive", "activating", "active", "deactivating"}
MainStates == {"inactive", "activating", "active", "deactivating", "failed"}

=============================================================================
