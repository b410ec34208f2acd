------------------------- MODULE MCDependencyStore --------------------------
(***************************************************************************)
(* Instances of DependencyStore: two services and a device.                           *)
(***************************************************************************)
EXTENDS DependencyStore, TLC

CONSTANTS u1, u2, u3, file, udev

Order == {"After", "Before", "References", "ReferencedBy"}
Need == {"Wants", "WantedBy", "References", "ReferencedBy"}
SameKind(u, v) == u \in Devices <=> v \in Devices

\* The two services and the two reasons are interchangeable.
Symmetry == Permutations({u1, u2}) \cup Permutations({file, udev})

=============================================================================
