------------------------------ MODULE MCMount -------------------------------
(***************************************************************************)
(* Unit files to check the mount state machine with.                       *)
(***************************************************************************)
EXTENDS MountContract

Default == [fragment |-> TRUE, timeout |-> TRUE, timeout_clean |-> FALSE, send_sigkill |-> TRUE,
            kill_mode |-> "control-group", clean |-> FALSE, start_limit |-> FALSE]

\* Somebody else's mount, without a unit file.
Extrinsic == [Default EXCEPT !.fragment = FALSE, !.send_sigkill = FALSE]

\* TimeoutCleanSec= and the start limit are set.
Limited == [Default EXCEPT !.clean = TRUE, !.timeout_clean = TRUE, !.start_limit = TRUE]

Unkillable == [Default EXCEPT !.kill_mode = "none"]

MountUnits == {Default, Extrinsic, Limited, Unkillable}

=============================================================================
