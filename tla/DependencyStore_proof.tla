----------------------- MODULE DependencyStore_proof ------------------------
(***************************************************************************)
(* Both ends of every dependency agree and no map holds a unit that is     *)
(* gone, for any set of units, dependency types and masks.                 *)
(***************************************************************************)
EXTENDS DependencyStore, TLAPS

\* The inductive invariant: freeing a unit relies on Mirror to find every map
\* that holds it, and Mirror on NoDangling when a unit is merged.
IInv == TypeOK /\ Mirror /\ NoDangling

\* inverse_table is an involution on the types in use.
LEMMA InverseInvolution ==
    \A d \in DepTypes : inverse_table[d] \in DepTypes /\ inverse_table[inverse_table[d]] = d
BY InverseAssumption

\* A tuple of Bits is given by its four components.
LEMMA BitsComponents ==
    \A t \in Bits : /\ t[1] \in Units /\ t[2] \in DepTypes /\ t[3] \in Units /\ t[4] \in Masks
                    /\ t = <<t[1], t[2], t[3], t[4]>>
BY DEF Bits

\* Mirror read from the destination end (unit_add_dependency_impl writes both).
LEMMA MirrorBack ==
    ASSUME Mirror
    PROVE  \A u, v \in Units, d \in DepTypes, m \in Masks :
               <<u, d, v, m>> \in borne <=> <<v, inverse_table[d], u, m>> \in owned
<1> TAKE u, v \in Units, d \in DepTypes, m \in Masks
<1>1. inverse_table[d] \in DepTypes /\ inverse_table[inverse_table[d]] = d
  BY InverseInvolution
<1>2. <<v, inverse_table[d], u, m>> \in owned
          <=> <<u, inverse_table[inverse_table[d]], v, m>> \in borne
  BY <1>1 DEF Mirror
<1> QED BY <1>1, <1>2

\* Units start out without dependencies.
LEMMA InitInv == Init => IInv
<1> SUFFICES ASSUME Init PROVE IInv
  OBVIOUS
<1>1. TypeOK
  BY DEF Init, TypeOK
<1>2. Mirror
  BY DEF Init, Mirror
<1>3. NoDangling
  BY DEF Init, NoDangling
<1> QED BY <1>1, <1>2, <1>3 DEF IInv

-----------------------------------------------------------------------------
\* unit_add_dependency writes an entry and its mirror image, between two
\* different live units.
LEMMA AddInv ==
    ASSUME IInv, NEW x \in Units, NEW y \in Units, NEW d \in DepTypes,
           NEW add_reference \in BOOLEAN, NEW m \in Masks,
           unit_add_dependency(x, d, y, add_reference, m)
    PROVE  IInv'
<1> DEFINE u == unit_follow_merge[x]
           o == unit_follow_merge[y]
           T == IF add_reference THEN {d, "References"} ELSE {d}
<1>1. /\ u \in Live /\ o \in Live /\ u # o
      /\ owned' = owned \cup {<<u, e, o, m>> : e \in T}
      /\ borne' = borne \cup {<<o, inverse_table[e], u, m>> : e \in T}
      /\ adds' = adds + 1
      /\ UNCHANGED <<load, merged_into, gcq>>
  BY DEF unit_add_dependency, unit_add_dependency_impl, Refused
<1>2. T \subseteq DepTypes
  BY InverseAssumption
<1>3. u \in Units /\ o \in Units /\ Live' = Live
  BY <1>1 DEF Live
<1> HIDE DEF u, o, T
<1>4. TypeOK'
  <2>1. owned' \subseteq Bits
    BY <1>1, <1>2, <1>3 DEF IInv, TypeOK, Bits
  <2>2. borne' \subseteq Bits
    BY <1>1, <1>2, <1>3, InverseInvolution DEF IInv, TypeOK, Bits
  <2> QED BY <1>1, <2>1, <2>2 DEF IInv, TypeOK
<1>5. Mirror'
  <2> SUFFICES ASSUME NEW a \in Units, NEW b \in Units, NEW e \in DepTypes, NEW k \in Masks
               PROVE  <<a, e, b, k>> \in owned' <=> <<b, inverse_table[e], a, k>> \in borne'
    BY DEF Mirror
  <2>1. <<a, e, b, k>> \in owned <=> <<b, inverse_table[e], a, k>> \in borne
    BY DEF IInv, Mirror
  <2>2. <<a, e, b, k>> \in {<<u, f, o, m>> : f \in T} <=> a = u /\ e \in T /\ b = o /\ k = m
    OBVIOUS
  <2>3. \A f \in T : inverse_table[f] = inverse_table[e] => f = e
    BY <1>2, InverseInvolution
  <2>4. <<b, inverse_table[e], a, k>> \in {<<o, inverse_table[f], u, m>> : f \in T}
            <=> a = u /\ e \in T /\ b = o /\ k = m
    BY <2>3
  <2> QED BY <1>1, <2>1, <2>2, <2>4
<1>6. NoDangling'
  BY <1>1, <1>3 DEF IInv, NoDangling
<1> QED BY <1>4, <1>5, <1>6 DEF IInv

\* unit_remove_dependencies drops the bits of a dependency at both ends.
LEMMA RemoveInv ==
    ASSUME IInv, NEW u \in Units, NEW M \in SUBSET Masks, unit_remove_dependencies(u, M)
    PROVE  IInv'
<1> DEFINE hit == {o \in Units : \E d \in DepTypes : Origin(u, d, o) \cap M # {}}
<1>1. /\ owned' = {t \in owned : ~ (t[1] = u /\ t[4] \in M)}
      /\ borne' = {t \in borne : ~ (t[1] \in hit /\ t[3] = u /\ t[4] \in M)}
      /\ gcq' = gcq \cup hit
      /\ UNCHANGED <<load, merged_into, adds>>
  BY DEF unit_remove_dependencies
<1>2. \A o \in Units, d \in DepTypes, m \in M : <<u, d, o, m>> \in owned => o \in hit
  BY DEF Origin
<1>3. hit \subseteq Units
  OBVIOUS
<1> HIDE DEF hit
<1>4. TypeOK'
  BY <1>1, <1>3 DEF IInv, TypeOK
<1>5. Mirror'
  <2> SUFFICES ASSUME NEW a \in Units, NEW b \in Units, NEW e \in DepTypes, NEW k \in Masks
               PROVE  <<a, e, b, k>> \in owned' <=> <<b, inverse_table[e], a, k>> \in borne'
    BY DEF Mirror
  <2>1. <<a, e, b, k>> \in owned <=> <<b, inverse_table[e], a, k>> \in borne
    BY DEF IInv, Mirror
  <2>2. <<a, e, b, k>> \in owned' <=> <<a, e, b, k>> \in owned /\ ~ (a = u /\ k \in M)
    BY <1>1
  <2>3. <<b, inverse_table[e], a, k>> \in borne'
            <=> <<b, inverse_table[e], a, k>> \in borne /\ ~ (b \in hit /\ a = u /\ k \in M)
    BY <1>1
  <2> QED BY <1>2, <2>1, <2>2, <2>3
<1>6. NoDangling'
  BY <1>1 DEF IInv, NoDangling, Live
<1> QED BY <1>4, <1>5, <1>6 DEF IInv

-----------------------------------------------------------------------------
\* The masks of an entry and of its inverse are the same, swapped.
LEMMA MasksSwapped ==
    ASSUME Mirror, NEW u \in Units, NEW v \in Units, NEW d \in DepTypes
    PROVE  /\ Origin(u, d, v) = Destination(v, inverse_table[d], u)
           /\ Destination(u, d, v) = Origin(v, inverse_table[d], u)
BY MirrorBack DEF Mirror, Origin, Destination

\* So the test in unit_per_dependency_type_hashmap_update comes out the same at
\* both ends of a dependency of other that is moved to u.
LEMMA NopSymmetric ==
    ASSUME Mirror, NEW u \in Units, NEW other \in Units, NEW v \in Units, NEW d \in DepTypes
    PROVE  Nop(u, d, v, other, v) <=> Nop(v, inverse_table[d], u, v, other)
BY MasksSwapped DEF Nop, Entry

\* unit_merge moves both ends of a dependency, or neither.
LEMMA MergeInv ==
    ASSUME IInv, NEW u \in Units, NEW other \in Units, unit_merge(u, other)
    PROVE  IInv'
<1> DEFINE Moved(t, bits) ==
        /\ other \notin {t[1], t[3]}
        /\ \/ t \in bits
           \/ /\ t[1] = u /\ t[3] # u
              /\ <<other, t[2], t[3], t[4]>> \in bits /\ ~ Nop(u, t[2], t[3], other, t[3])
           \/ /\ t[3] = u /\ t[1] # u
              /\ \E d \in DepTypes : Entry(other, d, t[1])
              /\ <<t[1], t[2], other, t[4]>> \in bits /\ ~ Nop(t[1], t[2], u, t[1], other)
<1>1. /\ u # other /\ u \in Live
      /\ owned' = {t \in Bits : Moved(t, owned)} /\ borne' = {t \in Bits : Moved(t, borne)}
      /\ load' = [load EXCEPT ![other] = "merged"]
      /\ merged_into' = [merged_into EXCEPT ![other] = u]
      /\ UNCHANGED <<gcq, adds>>
  BY DEF unit_merge, unit_merge_dependencies
<1>2. Live' = Live \ {other}
  BY <1>1 DEF Live, IInv, TypeOK
<1>3. TypeOK'
  BY <1>1 DEF IInv, TypeOK
<1>4. \A t \in Bits : /\ Moved(t, owned) => t[1] # t[3] /\ {t[1], t[3]} \subseteq Live \ {other}
                      /\ Moved(t, borne) => t[1] # t[3] /\ {t[1], t[3]} \subseteq Live \ {other}
  <2> SUFFICES ASSUME NEW bits, \A t \in bits : t[1] # t[3] /\ {t[1], t[3]} \subseteq Live,
                      NEW t \in Bits, Moved(t, bits)
               PROVE  t[1] # t[3] /\ {t[1], t[3]} \subseteq Live \ {other}
    BY DEF IInv, NoDangling
  <2>1. CASE t \in bits
    BY <2>1
  <2>2. CASE t[1] = u /\ t[3] # u /\ <<other, t[2], t[3], t[4]>> \in bits
    BY <1>1, <2>2
  <2>3. CASE t[3] = u /\ t[1] # u /\ <<t[1], t[2], other, t[4]>> \in bits
    BY <1>1, <2>3
  <2> QED BY <2>1, <2>2, <2>3
<1>5. NoDangling'
  BY <1>1, <1>2, <1>4 DEF NoDangling
<1>6. ASSUME NEW a \in Units, NEW b \in Units, NEW e \in DepTypes, NEW k \in Masks
      PROVE  Moved(<<a, e, b, k>>, owned) <=> Moved(<<b, inverse_table[e], a, k>>, borne)
  <2> DEFINE i == inverse_table[e]
  <2>1. i \in DepTypes
    BY InverseInvolution
  <2>2. /\ <<a, e, b, k>> \in owned <=> <<b, i, a, k>> \in borne
        /\ <<other, e, b, k>> \in owned <=> <<b, i, other, k>> \in borne
        /\ <<a, e, other, k>> \in owned <=> <<other, i, a, k>> \in borne
    BY DEF IInv, Mirror
  <2>3. /\ Nop(u, e, b, other, b) <=> Nop(b, i, u, b, other)
        /\ Nop(u, i, a, other, a) <=> Nop(a, inverse_table[i], u, a, other)
        /\ inverse_table[i] = e
    BY <2>1, NopSymmetric, InverseInvolution DEF IInv
  <2>4. <<b, i, other, k>> \in borne => \E d \in DepTypes : Entry(other, d, b)
    BY <2>2 DEF Entry, Origin
  <2>5. <<a, e, other, k>> \in owned => \E d \in DepTypes : Entry(other, d, a)
    BY <2>1, <2>2 DEF Entry, Destination
  <2> HIDE DEF i
  <2>6. Moved(<<a, e, b, k>>, owned) <=>
          /\ other # a /\ other # b
          /\ \/ <<a, e, b, k>> \in owned
             \/ a = u /\ b # u /\ <<other, e, b, k>> \in owned /\ ~ Nop(u, e, b, other, b)
             \/ b = u /\ a # u /\ <<a, e, other, k>> \in owned /\ ~ Nop(a, e, u, a, other)
    BY <2>5
  <2>7. Moved(<<b, i, a, k>>, borne) <=>
          /\ other # a /\ other # b
          /\ \/ <<b, i, a, k>> \in borne
             \/ b = u /\ a # u /\ <<other, i, a, k>> \in borne /\ ~ Nop(u, i, a, other, a)
             \/ a = u /\ b # u /\ <<b, i, other, k>> \in borne /\ ~ Nop(b, i, u, b, other)
    BY <2>4
  <2> QED BY <2>2, <2>3, <2>6, <2>7 DEF i
<1> HIDE DEF Moved
<1>7. Mirror'
  BY <1>1, <1>6, InverseInvolution DEF Mirror, Bits
<1> QED BY <1>3, <1>5, <1>7 DEF IInv

\* unit_free finds in the unit's own maps every unit that has it in one of its
\* maps, because of Mirror.
LEMMA FreeInv ==
    ASSUME IInv, NEW u \in Units, unit_free(u)
    PROVE  IInv'
<1> DEFINE others == {o \in Units : \E d \in DepTypes : Entry(u, d, o)}
           kept(t) == t[1] # u /\ ~ (t[1] \in others /\ t[3] = u)
<1>1. /\ owned' = {t \in owned : kept(t)} /\ borne' = {t \in borne : kept(t)}
      /\ load' = [load EXCEPT ![u] = "freed"]
      /\ gcq' = (gcq \cup others) \ {u}
      /\ UNCHANGED <<merged_into, adds>>
  BY DEF unit_free
<1>2. ASSUME NEW t \in owned \cup borne
      PROVE  kept(t) <=> u \notin {t[1], t[3]}
  <2>1. t \in Bits
    BY DEF IInv, TypeOK
  <2>2. /\ t[1] \in Units /\ t[2] \in DepTypes /\ t[3] \in Units /\ t[4] \in Masks
        /\ t = <<t[1], t[2], t[3], t[4]>>
    BY <2>1, BitsComponents
  <2>3. inverse_table[t[2]] \in DepTypes
    BY <2>2, InverseInvolution
  <2>4. t \in owned => <<t[3], inverse_table[t[2]], t[1], t[4]>> \in borne
    BY <2>2 DEF IInv, Mirror
  <2>5. t \in borne => <<t[3], inverse_table[t[2]], t[1], t[4]>> \in owned
    BY <2>2, MirrorBack DEF IInv
  <2>6. Entry(t[3], inverse_table[t[2]], t[1])
    BY <2>2, <2>4, <2>5 DEF Entry, Origin, Destination
  <2>7. t[3] = u => t[1] \in others
    BY <2>2, <2>3, <2>6
  <2> QED BY <2>7
<1> HIDE DEF kept
<1>3. TypeOK'
  BY <1>1 DEF IInv, TypeOK
<1>4. Mirror'
  <2> SUFFICES ASSUME NEW a \in Units, NEW b \in Units, NEW e \in DepTypes, NEW k \in Masks
               PROVE  <<a, e, b, k>> \in owned' <=> <<b, inverse_table[e], a, k>> \in borne'
    BY DEF Mirror
  <2>1. <<a, e, b, k>> \in owned <=> <<b, inverse_table[e], a, k>> \in borne
    BY DEF IInv, Mirror
  <2>2. <<a, e, b, k>> \in owned' <=> <<a, e, b, k>> \in owned /\ u # a /\ u # b
    BY <1>1, <1>2
  <2>3. <<b, inverse_table[e], a, k>> \in borne'
            <=> <<b, inverse_table[e], a, k>> \in borne /\ u # a /\ u # b
    BY <1>1, <1>2
  <2> QED BY <2>1, <2>2, <2>3
<1>5. Live' = Live \ {u}
  BY <1>1 DEF Live, IInv, TypeOK
<1>6. NoDangling'
  BY <1>1, <1>2, <1>5 DEF IInv, NoDangling
<1> QED BY <1>3, <1>4, <1>6 DEF IInv

-----------------------------------------------------------------------------
\* Every operation on the hash maps keeps the invariant.
LEMMA NextInv == IInv /\ [Next]_vars => IInv'
<1> SUFFICES ASSUME IInv, [Next]_vars PROVE IInv'
  OBVIOUS
<1>1. ASSUME NEW x \in Units, NEW y \in Units, NEW d \in DepTypes,
             NEW r \in BOOLEAN, NEW m \in Masks, unit_add_dependency(x, d, y, r, m)
      PROVE  IInv'
  BY <1>1, AddInv
<1>2. ASSUME NEW u \in Units, NEW M \in SUBSET Masks, unit_remove_dependencies(u, M)
      PROVE  IInv'
  BY <1>2, RemoveInv
<1>3. ASSUME NEW u \in Units, NEW o \in Units, unit_merge(u, o) PROVE IInv'
  BY <1>3, MergeInv
<1>4. ASSUME NEW u \in Units, unit_free(u) PROVE IInv'
  BY <1>4, FreeInv
<1>5. ASSUME NEW u \in Units, unit_load(u) PROVE IInv'
  <2>1. Live' = Live
    BY <1>5 DEF unit_load, Live, IInv, TypeOK
  <2> QED BY <1>5, <2>1 DEF unit_load, IInv, TypeOK, Mirror, NoDangling
<1>6. CASE UNCHANGED vars
  <2>1. Live' = Live
    BY <1>6 DEF vars, Live
  <2> QED BY <1>6, <2>1 DEF vars, IInv, TypeOK, Mirror, NoDangling, Bits
<1> QED BY <1>1, <1>2, <1>3, <1>4, <1>5, <1>6 DEF Next

\* Whatever unit_add_dependency, unit_remove_dependencies, unit_merge and
\* unit_free do in whatever order, both ends of every dependency agree.
THEOREM MirrorAlways == Spec => []Mirror
<1>1. IInv => Mirror
  BY DEF IInv
<1> QED BY InitInv, NextInv, <1>1, PTL DEF Spec

\* And no hash map holds a unit that unit_free or unit_merge has done away with.
THEOREM NoDanglingAlways == Spec => []NoDangling
<1>1. IInv => NoDangling
  BY DEF IInv
<1> QED BY InitInv, NextInv, <1>1, PTL DEF Spec

\* What a step drops between units that stay is what one unit declares for the
\* reasons it hands to unit_remove_dependencies.
THEOREM OnlyOwnBitsDroppedAlways == Spec => OnlyOwnBitsDropped
<1> DEFINE Drops(u, M) == \A t \in owned : {t[1], t[3]} \subseteq Live' =>
                              (t \notin owned' <=> t[1] = u /\ t[4] \in M)
<1>1. ASSUME IInv, Next PROVE \E u \in Units, M \in SUBSET Masks : Drops(u, M)
  <2>1. ASSUME NEW v \in Units, \A t \in owned : {t[1], t[3]} \subseteq Live' => t \in owned'
        PROVE  \E u \in Units, M \in SUBSET Masks : Drops(u, M)
    <3>1. Drops(v, {}) /\ {} \in SUBSET Masks
      BY <2>1
    <3> HIDE DEF Drops
    <3> QED BY <3>1
  <2>2. ASSUME NEW x \in Units, NEW y \in Units, NEW d \in DepTypes,
               NEW r \in BOOLEAN, NEW m \in Masks, unit_add_dependency(x, d, y, r, m)
        PROVE  \E u \in Units, M \in SUBSET Masks : Drops(u, M)
    <3>1. owned \subseteq owned'
      BY <2>2 DEF unit_add_dependency, unit_add_dependency_impl
    <3> QED BY <2>1, <3>1
  <2>3. ASSUME NEW v \in Units, NEW N \in SUBSET Masks, unit_remove_dependencies(v, N)
        PROVE  \E u \in Units, M \in SUBSET Masks : Drops(u, M)
    <3>1. Drops(v, N)
      BY <1>1, <2>3 DEF unit_remove_dependencies, IInv, NoDangling, Live
    <3> QED BY <3>1
  <2>4. ASSUME NEW v \in Units, NEW o \in Units, unit_merge(v, o)
        PROVE  \E u \in Units, M \in SUBSET Masks : Drops(u, M)
    <3>1. o \notin Live'
      BY <1>1, <2>4 DEF unit_merge, Live, IInv, TypeOK
    <3>2. \A t \in owned : o \notin {t[1], t[3]} => t \in owned'
      BY <1>1, <2>4 DEF unit_merge, unit_merge_dependencies, IInv, TypeOK
    <3> QED BY <2>1, <3>1, <3>2
  <2>5. ASSUME NEW v \in Units, unit_free(v)
        PROVE  \E u \in Units, M \in SUBSET Masks : Drops(u, M)
    <3>1. v \notin Live'
      BY <1>1, <2>5 DEF unit_free, Live, IInv, TypeOK
    <3>2. \A t \in owned : v \notin {t[1], t[3]} => t \in owned'
      BY <2>5 DEF unit_free
    <3> QED BY <2>1, <3>1, <3>2
  <2>6. ASSUME NEW v \in Units, unit_load(v)
        PROVE  \E u \in Units, M \in SUBSET Masks : Drops(u, M)
    BY <2>1, <2>6 DEF unit_load
  <2> HIDE DEF Drops
  <2> QED BY <1>1, <2>2, <2>3, <2>4, <2>5, <2>6 DEF Next
<1>2. IInv /\ [Next]_vars => [\E u \in Units, M \in SUBSET Masks : Drops(u, M)]_vars
  BY <1>1
<1> QED BY <1>2, InitInv, NextInv, PTL DEF Spec, OnlyOwnBitsDropped

\* An entry exists iff the inverse one does, and no unit depends on itself.
EntriesPaired ==
    \A u, v \in Units, d \in DepTypes : /\ Entry(u, d, v) <=> Entry(v, inverse_table[d], u)
                                        /\ Entry(u, d, v) => u # v

\* What the job engine assumes of its dependencies (DepAssumption of module
\* JobEngine) is what the operations on the hash maps keep up.
THEOREM EntriesPairedAlways == Spec => []EntriesPaired
<1>1. IInv => EntriesPaired
  <2> SUFFICES ASSUME IInv, NEW u \in Units, NEW v \in Units, NEW d \in DepTypes
               PROVE  /\ Entry(u, d, v) <=> Entry(v, inverse_table[d], u)
                      /\ Entry(u, d, v) => u # v
    BY DEF EntriesPaired
  <2>1. Entry(u, d, v) <=> Entry(v, inverse_table[d], u)
    BY MasksSwapped DEF IInv, Entry
  <2>2. ASSUME Entry(u, d, v) PROVE u # v
    <3>1. PICK m \in Masks : <<u, d, v, m>> \in owned \cup borne
      BY <2>2 DEF Entry, Origin, Destination
    <3>2. <<u, d, v, m>>[1] # <<u, d, v, m>>[3]
      BY <3>1 DEF IInv, NoDangling
    <3> QED BY <3>2
  <2> QED BY <2>1, <2>2
<1> QED BY InitInv, NextInv, <1>1, PTL DEF Spec

=============================================================================
