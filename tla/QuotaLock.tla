----------------------------- MODULE QuotaLock -----------------------------
(***************************************************************************)
(* The resource-count quota lock (k8sutils.ResourceCountLock), used by the *)
(* trace and metric pipeline reconcilers.  Its code is not under src/, so  *)
(* it is modelled from the spec (section 3 "Quota Lock", section 4.1): the *)
(* holder list is recomputed from the live pipelines on every              *)
(* TryAcquireLock, the first MaxPipelines of them in creation order win,  *)
(* and IsLockHolder is a plain read of the persisted list.                 *)
(*                                                                         *)
(* Pipelines are numbers: a smaller number is an earlier creation          *)
(* timestamp (ties by name are then impossible, which the spec allows).   *)
(***************************************************************************)
EXTENDS Naturals, FiniteSets

\* The holder list that TryAcquireLock computes from the set of live
\* (existing, not deleted) pipelines: a pipeline holds a slot iff fewer
\* than max live pipelines were created before it.
LockHolders(live, max) ==
    { p \in live : Cardinality({ q \in live : q < p }) < max }

\* IsLockHolder: membership in the persisted holder list.
IsLockHolder(lock, p) == p \in lock

=============================================================================
