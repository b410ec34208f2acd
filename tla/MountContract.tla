--------------------------- MODULE MountContract ----------------------------
(***************************************************************************)
(* A mount is a unit: module Mount implements module UnitContract.         *)
(***************************************************************************)
EXTENDS Mount

\* The mount unit is a unit as the job engine takes it to be: changes that were
\* not asked for, read from the kernel's table in the middle of a handler or by
\* themselves, end its job as they should.
Contract == INSTANCE UnitContract
                WITH active <- mount_active_state(mnt.state), job <- mnt.job,
                     running <- mnt.run, notified <- mnt.notified, performing <- FALSE
ImplementsContract == Contract!Spec

=============================================================================
