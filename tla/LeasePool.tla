------------------------------- MODULE LeasePool -------------------------------
(***************************************************************************)
(* What a pool of instances promises its users, whatever it does inside    *)
(* (src/pool.rs, the module's and InstanceGuard's documentation).          *)
(*                                                                         *)
(* At most InstancesMax invocations hold an instance, each a different     *)
(* one; an instance is handed out free of what earlier invocations left in *)
(* it; once the pool is closed nothing is handed out any more.             *)
(***************************************************************************)
EXTENDS Integers, FiniteSets

CONSTANTS Clients, Instances, NoInstance, InstancesMax

VARIABLES
  lease,   \* the instance each client holds, or NoInstance
  used,    \* the instances an invocation has left its state in
  closed   \* no further lease

leaseVars == <<lease, used, closed>>

Lessees == {c \in Clients : lease[c] /= NoInstance}
Leased  == {lease[c] : c \in Lessees}

LeaseInit ==
  /\ lease = [c \in Clients |-> NoInstance]
  /\ used = {}
  /\ closed = FALSE

\* checkout succeeds.
Lease(c) ==
  /\ ~closed
  /\ lease[c] = NoInstance
  /\ Cardinality(Lessees) < InstancesMax
  /\ \E i \in Instances \ (Leased \union used) : lease' = [lease EXCEPT ![c] = i]
  /\ UNCHANGED <<used, closed>>

\* The invocation runs on its instance.
Run(c) ==
  /\ lease[c] /= NoInstance
  /\ used' = used \union {lease[c]}
  /\ UNCHANGED <<lease, closed>>

\* The guard is dropped: the instance is reset or destroyed.
Release(c) ==
  /\ lease[c] /= NoInstance
  /\ lease' = [lease EXCEPT ![c] = NoInstance]
  /\ used' = used \ {lease[c]}
  /\ UNCHANGED closed

Shut ==
  /\ closed' = TRUE
  /\ UNCHANGED <<lease, used>>

LeaseNext == Shut \/ \E c \in Clients : Lease(c) \/ Run(c) \/ Release(c)

LeaseSpec == LeaseInit /\ [][LeaseNext]_leaseVars
=============================================================================
