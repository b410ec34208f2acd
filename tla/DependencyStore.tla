-------------------------- MODULE DependencyStore ---------------------------
(***************************************************************************)
(* The dependency hash maps of units (src/core/unit.c).  Unit u's map of   *)
(* type d holds for each other unit v two bit masks: origin_mask, why u    *)
(* itself declares the dependency, and destination_mask, why v declares    *)
(* the inverse one.  A bit is a tuple <<u, d, v, m>>; an entry whose masks *)
(* are both 0 does not exist.                                              *)
(***************************************************************************)
EXTENDS DependencyAtoms, Integers, FiniteSets

CONSTANTS
    Units,
    DepTypes,      \* the UnitDependency values in use
    Masks,         \* the bits of UnitDependencyMask in use
    Devices, Slices, CanFail, CanTrigger, HasCgroup, MayAlias,  \* unit types
    SameType(_, _),
    MaxAdds        \* bound: dependencies added in a run

\* The table has an entry for each type, and the inverse of the inverse is the
\* type itself.
ASSUME InverseAssumption ==
    /\ DepTypes \subseteq UnitDependency /\ {"References", "ReferencedBy"} \subseteq DepTypes
    /\ \A d \in DepTypes : inverse_table[d] \in DepTypes
    /\ \A d \in UnitDependency : /\ inverse_table[d] \in UnitDependency
                                 /\ inverse_table[inverse_table[d]] = d

VARIABLES
    owned,         \* the bits of origin masks
    borne,         \* the bits of destination masks
    load,          \* load_state: UNIT_NOT_FOUND is "stub", too
    merged_into,   \* where unit_follow_merge goes
    gcq,           \* units in the gc queue
    adds           \* number of dependencies added so far

vars == <<owned, borne, load, merged_into, gcq, adds>>

Bits == Units \X DepTypes \X Units \X Masks
Live == {u \in Units : load[u] \in {"stub", "loaded"}}

Origin(u, d, v) == {m \in Masks : <<u, d, v, m>> \in owned}
Destination(u, d, v) == {m \in Masks : <<u, d, v, m>> \in borne}
Entry(u, d, v) == Origin(u, d, v) # {} \/ Destination(u, d, v) # {}

-----------------------------------------------------------------------------
unit_follow_merge[u \in Units] ==
    IF load[u] = "merged" THEN unit_follow_merge[merged_into[u]] ELSE u

\* The dependency is dropped with a warning, or refused.
Refused(u, d, o) ==
    LET a == atom_map[d]
    IN \/ u = o
       \/ "Before" \in a /\ o \in Devices
       \/ "OnFailure" \in a /\ u \notin CanFail
       \/ "Triggers" \in a /\ u \notin CanTrigger
       \/ "TriggeredBy" \in a /\ o \notin CanTrigger
       \/ "InSlice" \in a /\ (o \notin Slices \/ u \notin HasCgroup)
       \/ "SliceOf" \in a /\ (u \notin Slices \/ o \notin HasCgroup)

\* The inverse entry is not written.
Mut_add_dependency_impl(u, T, o, m) ==
    /\ owned' = owned \cup {<<u, d, o, m>> : d \in T}
    /\ borne' = borne \cup {<<o, inverse_table[d], u, m>> : d \in T \ {"References"}}

unit_add_dependency_impl(u, T, o, m) ==
    /\ owned' = owned \cup {<<u, d, o, m>> : d \in T}
    /\ borne' = borne \cup {<<o, inverse_table[d], u, m>> : d \in T}

\* Without add_reference, or when memory runs out after the first of the two.
unit_add_dependency(x, d, y, add_reference, m) ==
    LET u == unit_follow_merge[x]
        o == unit_follow_merge[y]
    IN /\ adds < MaxAdds /\ adds' = adds + 1
       /\ u \in Live /\ o \in Live
       /\ ~ Refused(u, d, o)
       /\ unit_add_dependency_impl(u, IF add_reference THEN {d, "References"} ELSE {d}, o, m)
       /\ UNCHANGED <<load, merged_into, gcq>>

\* What the other units declare on u goes, too.
Mut_remove_dependencies(u, M) ==
    /\ u \in Live
    /\ owned' = {t \in owned : ~ (u \in {t[1], t[3]} /\ t[4] \in M)}
    /\ borne' = {t \in borne : ~ (u \in {t[1], t[3]} /\ t[4] \in M)}
    /\ UNCHANGED <<load, merged_into, gcq, adds>>

\* Drop what u declares for the reasons M, on both sides.  The units it is
\* declared on are looked at again (gc and stop-when-unneeded queues).
unit_remove_dependencies(u, M) ==
    LET hit == {o \in Units : \E d \in DepTypes : Origin(u, d, o) \cap M # {}}
    IN /\ u \in Live
       /\ owned' = {t \in owned : ~ (t[1] = u /\ t[4] \in M)}
       /\ borne' = {t \in borne : ~ (t[1] \in hit /\ t[3] = u /\ t[4] \in M)}
       /\ gcq' = gcq \cup hit
       /\ UNCHANGED <<load, merged_into, adds>>

-----------------------------------------------------------------------------
\* unit_per_dependency_type_hashmap_update, for the entry of type d of x for y
\* when the one of x2 for y2 is added to it: leaves it alone.
Nop(x, d, y, x2, y2) ==
    /\ Entry(x, d, y)
    /\ Origin(x, d, y) \subseteq Origin(x2, d, y2)
    /\ Destination(x, d, y) \subseteq Destination(x2, d, y2)

Mut_merge_dependencies(u, other, bits) ==
    {t \in Bits :
        \/ u \notin {t[1], t[3]} /\ t \in bits
        \/ t[1] = u /\ (t \in bits \/ <<other, t[2], t[3], t[4]>> \in bits)
        \/ t[3] = u /\ (t \in bits \/ <<t[1], t[2], other, t[4]>> \in bits)}

\* What becomes of the bits (owned or borne) when other is merged into u.
unit_merge_dependencies(u, other, bits) ==
    {t \in Bits :
        /\ other \notin {t[1], t[3]}
        /\ \/ t \in bits
           \/ /\ t[1] = u /\ t[3] # u
              /\ <<other, t[2], t[3], t[4]>> \in bits /\ ~ Nop(u, t[2], t[3], other, t[3])
           \/ /\ t[3] = u /\ t[1] # u
              /\ \E d \in DepTypes : Entry(other, d, t[1])
              /\ <<t[1], t[2], other, t[4]>> \in bits /\ ~ Nop(t[1], t[2], u, t[1], other)}

\* The job and state of the other unit are not part of this module: the merge
\* may be refused for them.
unit_merge(u, other) ==
    /\ u # other /\ u \in Live /\ load[other] = "stub"
    /\ SameType(u, other) /\ u \in MayAlias
    /\ owned' = unit_merge_dependencies(u, other, owned)
    /\ borne' = unit_merge_dependencies(u, other, borne)
    /\ load' = [load EXCEPT ![other] = "merged"]
    /\ merged_into' = [merged_into EXCEPT ![other] = u]
    /\ UNCHANGED <<gcq, adds>>

\* A merged unit is freed from the cleanup queue, any other once the gc has
\* found it in its queue and unreferenced.  unit_clear_dependencies drops the
\* unit from the maps of the units in its own.
unit_free(u) ==
    LET others == {o \in Units : \E d \in DepTypes : Entry(u, d, o)}
        kept(t) == t[1] # u /\ ~ (t[1] \in others /\ t[3] = u)
    IN /\ load[u] = "merged" \/ (u \in gcq /\ u \in Live)
       /\ owned' = {t \in owned : kept(t)}
       /\ borne' = {t \in borne : kept(t)}
       /\ load' = [load EXCEPT ![u] = "freed"]
       /\ gcq' = (gcq \cup others) \ {u}
       /\ UNCHANGED <<merged_into, adds>>

\* The unit's file is found and read.
unit_load(u) ==
    /\ load[u] = "stub"
    /\ load' = [load EXCEPT ![u] = "loaded"]
    /\ UNCHANGED <<owned, borne, merged_into, gcq, adds>>

Init == /\ owned = {} /\ borne = {} /\ adds = 0
        /\ load = [u \in Units |-> "stub"]
        /\ merged_into = [u \in Units |-> u]
        /\ gcq = Units

Next ==
    \/ \E u, o \in Units, d \in DepTypes, add_reference \in BOOLEAN, m \in Masks :
          unit_add_dependency(u, d, o, add_reference, m)
    \/ \E u \in Units, M \in SUBSET Masks : unit_remove_dependencies(u, M)
    \/ \E u, o \in Units : unit_merge(u, o)
    \/ \E u \in Units : unit_free(u) \/ unit_load(u)

Spec == Init /\ [][Next]_vars

-----------------------------------------------------------------------------
\* The masks name units and bits in use; a merged unit names the unit it became.
TypeOK ==
    /\ owned \subseteq Bits /\ borne \subseteq Bits
    /\ load \in [Units -> {"stub", "loaded", "merged", "freed"}]
    /\ merged_into \in [Units -> Units]
    /\ gcq \subseteq Units /\ adds \in Nat

\* Whatever is added, removed, merged and freed, both ends of a dependency
\* agree: u declares d on v for the reason m iff v's entry of the inverse type
\* for u has m in its destination mask.  The engine looks at whichever end it
\* starts from (After= on one unit, Before= on the other).
Mirror ==
    \A u, v \in Units, d \in DepTypes, m \in Masks :
        <<u, d, v, m>> \in owned <=> <<v, inverse_table[d], u, m>> \in borne

\* No unit has an entry for itself or for a unit that was merged or freed, and
\* those have no entries: after unit_free no hash map holds the freed pointer.
NoDangling ==
    \A t \in owned \cup borne : t[1] # t[3] /\ {t[1], t[3]} \subseteq Live

\* What a step drops between units that stay is what a single unit declares for
\* the reasons it names (unit_remove_dependencies): reloading what mountinfo or
\* udev say about a unit leaves alone what its unit file says, and what other
\* units declare on it, and so do merging and freeing third units.
OnlyOwnBitsDropped ==
    [][\E u \in Units, M \in SUBSET Masks :
          \A t \in owned : {t[1], t[3]} \subseteq Live' =>
              (t \notin owned' <=> t[1] = u /\ t[4] \in M)]_vars

\* Merging a unit into another keeps the reasons of both for each dependency
\* ("Entry already exists. Add in our mask.").
MergeKeepsBits ==
    [][\A u, other \in Units : unit_merge(u, other) =>
          \A t \in owned : t[1] = other /\ t[3] # u => <<u, t[2], t[3], t[4]>> \in owned']_vars

=============================================================================
