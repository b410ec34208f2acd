-------------------------- MODULE ServiceContract ---------------------------
(***************************************************************************)
(* A service is a unit: module Service implements module UnitContract, and *)
(* so does what module JobEngine takes units to do.                        *)
(***************************************************************************)
EXTENDS Service

\* The service is a unit as the job engine takes it to be: chains of service_
\* enter_*() calls report the states they pass in an order that ends the job as
\* it should end, and the methods refuse, wait or act in the right states.
Contract == INSTANCE UnitContract
                WITH active <- service_active_state(svc.state), job <- svc.job,
                     running <- svc.run, notified <- svc.notified,
                     performing <- svc.perform /\ svc.next # NoCall
ImplementsContract == Contract!Spec

=============================================================================
