-------------------------- MODULE DependencyAtoms ---------------------------
(***************************************************************************)
(* How the dependency types a unit file declares decompose into the        *)
(* "atoms" the manager acts on (src/core/unit-dependency-atom.c), and      *)
(* which type is stored as the inverse of which (unit.c).                  *)
(***************************************************************************)

UnitDependency ==
    {"Requires", "Requisite", "Wants", "BindsTo", "PartOf", "Upholds",
     "RequiredBy", "RequisiteOf", "WantedBy", "BoundBy", "ConsistsOf",
     "UpheldBy", "Conflicts", "ConflictedBy", "PropagatesStopTo",
     "StopPropagatedFrom", "OnFailure", "OnFailureOf", "OnSuccess",
     "OnSuccessOf", "Before", "After", "Triggers", "TriggeredBy",
     "PropagatesReloadTo", "ReloadPropagatedFrom", "JoinsNamespaceOf",
     "References", "ReferencedBy", "InSlice", "SliceOf"}

\* The dependency types that consist of one atom, which has their name.
SingleAtom ==
    {"OnFailure", "OnFailureOf", "OnSuccess", "OnSuccessOf", "Before",
     "After", "Triggers", "TriggeredBy", "PropagatesReloadTo",
     "JoinsNamespaceOf", "References", "ReferencedBy", "InSlice", "SliceOf"}

atom_map ==
    [d \in UnitDependency |->
        IF d \in SingleAtom THEN {d} ELSE
        CASE d = "Requires"    -> {"PULL_IN_START", "RETROACTIVE_START_REPLACE",
                                   "ADD_STOP_WHEN_UNNEEDED_QUEUE", "ADD_DEFAULT_TARGET_DEPENDENCY_QUEUE"}
          [] d = "Requisite"   -> {"PULL_IN_VERIFY", "ADD_STOP_WHEN_UNNEEDED_QUEUE",
                                   "ADD_DEFAULT_TARGET_DEPENDENCY_QUEUE"}
          [] d = "Wants"       -> {"PULL_IN_START_IGNORED", "RETROACTIVE_START_FAIL",
                                   "ADD_STOP_WHEN_UNNEEDED_QUEUE", "ADD_DEFAULT_TARGET_DEPENDENCY_QUEUE"}
          [] d = "BindsTo"     -> {"PULL_IN_START", "RETROACTIVE_START_REPLACE",
                                   "CANNOT_BE_ACTIVE_WITHOUT", "ADD_STOP_WHEN_UNNEEDED_QUEUE",
                                   "ADD_DEFAULT_TARGET_DEPENDENCY_QUEUE"}
          [] d = "PartOf"      -> {"ADD_DEFAULT_TARGET_DEPENDENCY_QUEUE"}
          [] d = "Upholds"     -> {"PULL_IN_START_IGNORED", "RETROACTIVE_START_REPLACE",
                                   "ADD_START_WHEN_UPHELD_QUEUE", "ADD_STOP_WHEN_UNNEEDED_QUEUE",
                                   "ADD_DEFAULT_TARGET_DEPENDENCY_QUEUE"}
          [] d = "RequiredBy"  -> {"PROPAGATE_STOP", "PROPAGATE_RESTART", "PROPAGATE_START_FAILURE",
                                   "PINS_STOP_WHEN_UNNEEDED", "DEFAULT_TARGET_DEPENDENCIES"}
          [] d = "RequisiteOf" -> {"PROPAGATE_STOP", "PROPAGATE_RESTART", "PROPAGATE_START_FAILURE",
                                   "PROPAGATE_INACTIVE_START_AS_FAILURE", "PINS_STOP_WHEN_UNNEEDED",
                                   "DEFAULT_TARGET_DEPENDENCIES"}
          [] d = "WantedBy"    -> {"DEFAULT_TARGET_DEPENDENCIES", "PINS_STOP_WHEN_UNNEEDED"}
          [] d = "BoundBy"     -> {"RETROACTIVE_STOP_ON_STOP", "PROPAGATE_STOP", "PROPAGATE_RESTART",
                                   "PROPAGATE_START_FAILURE", "PINS_STOP_WHEN_UNNEEDED",
                                   "ADD_CANNOT_BE_ACTIVE_WITHOUT_QUEUE", "DEFAULT_TARGET_DEPENDENCIES"}
          [] d = "UpheldBy"    -> {"START_STEADILY", "DEFAULT_TARGET_DEPENDENCIES",
                                   "PINS_STOP_WHEN_UNNEEDED"}
          [] d = "ConsistsOf"  -> {"PROPAGATE_STOP", "PROPAGATE_RESTART"}
          [] d = "Conflicts"   -> {"PULL_IN_STOP", "RETROACTIVE_STOP_ON_START"}
          [] d = "ConflictedBy" -> {"PULL_IN_STOP_IGNORED", "RETROACTIVE_STOP_ON_START",
                                    "PROPAGATE_STOP_FAILURE"}
          [] d = "PropagatesStopTo" -> {"RETROACTIVE_STOP_ON_STOP", "PROPAGATE_STOP_GRACEFUL"}
          [] OTHER             -> {}]   \* kept for discoverability only

UnitDependencyAtom == UNION {atom_map[d] : d \in UnitDependency}

InversePairs ==
    {<<"Requires", "RequiredBy">>, <<"Requisite", "RequisiteOf">>,
     <<"Wants", "WantedBy">>, <<"BindsTo", "BoundBy">>,
     <<"PartOf", "ConsistsOf">>, <<"Upholds", "UpheldBy">>,
     <<"Conflicts", "ConflictedBy">>, <<"Before", "After">>,
     <<"OnSuccess", "OnSuccessOf">>, <<"OnFailure", "OnFailureOf">>,
     <<"Triggers", "TriggeredBy">>,
     <<"PropagatesReloadTo", "ReloadPropagatedFrom">>,
     <<"PropagatesStopTo", "StopPropagatedFrom">>,
     <<"JoinsNamespaceOf", "JoinsNamespaceOf">>,     \* symmetric
     <<"References", "ReferencedBy">>, <<"InSlice", "SliceOf">>}

inverse_table ==
    [d \in UnitDependency |->
        LET pair == CHOOSE p \in InversePairs : d \in {p[1], p[2]}
        IN IF d = pair[1] THEN pair[2] ELSE pair[1]]

=============================================================================
