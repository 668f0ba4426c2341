------------------------------ MODULE Conditions ------------------------------
(***************************************************************************)
(* Status condition lists, as the reconcilers write them.  A condition is  *)
(* metav1.Condition reduced to its type, status and reason (message,       *)
(* times and observedGeneration carry no control).                        *)
(*                                                                         *)
(* meta.SetStatusCondition overwrites a condition of the same type in     *)
(* place and appends a new type at the end, so the list keeps first-seen  *)
(* order (spec section 2, "Condition").  The legacy helpers of            *)
(* internal/conditions (not under src/) maintain the two deprecated       *)
(* types "Pending" and "Running" with the same primitives: they never     *)
(* move a legacy condition, which is why tracepipeline/reconciler.go      *)
(* clears the lists once (its comment at lines 285-288).                  *)
(***************************************************************************)
EXTENDS Naturals, Sequences

Cond(t, s, r) == [type |-> t, status |-> s, reason |-> r]

LegacyTypes == {"Running", "Pending"}

HasType(cs, t) == \E i \in 1..Len(cs) : cs[i].type = t

\* meta.SetStatusCondition
SetStatusCondition(cs, c) ==
    IF HasType(cs, c.type)
    THEN [i \in 1..Len(cs) |-> IF cs[i].type = c.type THEN c ELSE cs[i]]
    ELSE Append(cs, c)

\* meta.RemoveStatusCondition
RemoveStatusCondition(cs, t) == SelectSeq(cs, LAMBDA c : c.type # t)

\* conditions.HandlePendingCondition: the workload is not ready; a
\* "Running" condition is dropped and "Pending" set True.
HandlePendingCondition(cs, reason) ==
    SetStatusCondition(RemoveStatusCondition(cs, "Running"), Cond("Pending", "True", reason))

\* conditions.HandleRunningCondition: the workload is ready; a "Pending"
\* condition present is set False, then "Running" set True.
\* Both updates are made in one pass over the list.
HandleRunningCondition(cs, runningReason, pendingReason) ==
    LET running == Cond("Running", "True", runningReason)
        updated == [i \in 1..Len(cs) |->
                       CASE cs[i].type = "Pending" -> Cond("Pending", "False", pendingReason)
                         [] cs[i].type = "Running" -> running
                         [] OTHER                  -> cs[i]]
    IN  IF HasType(cs, "Running") THEN updated ELSE Append(updated, running)

\* No legacy condition is followed by a condition of a new type.
LegacyAtTail(cs) ==
    \A i, j \in 1..Len(cs) : i < j /\ cs[i].type \in LegacyTypes => cs[j].type \in LegacyTypes

=============================================================================
