--------------------------- MODULE LogParserStatus ---------------------------
(***************************************************************************)
(* The status update of a LogParser, src/internal/reconciler/logparser/   *)
(* status.go.  updateStatus reads the parser, probes the Fluent Bit       *)
(* DaemonSet once for the AgentHealthy condition and once more for the    *)
(* legacy Pending/Running conditions, and writes the status back with the *)
(* resourceVersion it read.  Requests for one parser are serialized by    *)
(* the work queue; users, the teardown path and the DaemonSet change      *)
(* concurrently.                                                           *)
(*   Get            r.Get; NotFound or a deletionTimestamp ends the update *)
(*   SetAgentHealthy setAgentHealthyCondition (first IsReady)              *)
(*   SetLegacy      setLegacyConditions (second IsReady)                   *)
(*   Update         r.Status().Update: conflicts if the parser changed     *)
(* A probe that returns an error counts as not ready.                     *)
(***************************************************************************)
EXTENDS Naturals, Sequences, Conditions

CONSTANTS
    Parsers,              \* LogParser names
    InitialConditions,    \* condition lists parsers may carry at start
    MaxEdits,             \* bound on user edits of a parser's spec
    MaxReadinessChanges   \* bound on readiness changes of the DaemonSet

ASSUME /\ Parsers # {}
       /\ MaxEdits \in Nat /\ MaxReadinessChanges \in Nat

VARIABLES
    phase,        \* per parser: live, deleting (deletionTimestamp set), gone
    conds,        \* per parser: persisted Status.Conditions
    dsReady,      \* readiness of the Fluent Bit DaemonSet
    edits, readinessChanges,
    pc,           \* per parser: step of the updateStatus in flight
    parser,       \* per parser: conditions of the copy read by Get
    stale         \* per parser: the object changed since Get read it

vars == <<phase, conds, dsReady, edits, readinessChanges, pc, parser, stale>>

\* The probe's answer: the DaemonSet's readiness, or an error read as
\* not ready.
ProbeResults == {dsReady, FALSE}

\* Mutant of AgentHealthyCond: the two reasons swapped.
AgentHealthyCondSwapped(healthy) ==
    IF healthy THEN Cond("AgentHealthy", "True", "AgentNotReady")
               ELSE Cond("AgentHealthy", "False", "AgentReady")

\* setAgentHealthyCondition's condition for a probe result.
AgentHealthyCond(healthy) ==
    IF healthy THEN Cond("AgentHealthy", "True", "AgentReady")
               ELSE Cond("AgentHealthy", "False", "AgentNotReady")

\* A change of the object by someone else: an updateStatus in flight will
\* conflict.
Changed(p) == stale' = [stale EXCEPT ![p] = @ \/ pc[p] # "Idle"]

Init ==
    /\ phase = [p \in Parsers |-> "live"]
    /\ conds \in [Parsers -> InitialConditions]
    /\ dsReady \in BOOLEAN
    /\ edits = 0 /\ readinessChanges = 0
    /\ pc = [p \in Parsers |-> "Idle"]
    /\ parser = [p \in Parsers |-> <<>>]
    /\ stale = [p \in Parsers |-> FALSE]

-----------------------------------------------------------------------------
(* updateStatus(ctx, parserName), one request of parser p.                *)

Request(p) ==
    /\ pc[p] = "Idle"
    /\ pc' = [pc EXCEPT ![p] = "Get"]
    /\ UNCHANGED <<phase, conds, dsReady, edits, readinessChanges, parser, stale>>

\* r.Get: a parser not found or being deleted ends the update with no
\* error and no change.
Get(p) ==
    /\ pc[p] = "Get"
    /\ IF phase[p] = "live"
       THEN /\ pc' = [pc EXCEPT ![p] = "AgentHealthy"]
            /\ parser' = [parser EXCEPT ![p] = conds[p]]
            /\ stale' = [stale EXCEPT ![p] = FALSE]
       ELSE /\ pc' = [pc EXCEPT ![p] = "Idle"]
            /\ UNCHANGED <<parser, stale>>
    /\ UNCHANGED <<phase, conds, dsReady, edits, readinessChanges>>

SetAgentHealthy(p) ==
    /\ pc[p] = "AgentHealthy"
    /\ \E healthy \in ProbeResults :
          parser' = [parser EXCEPT ![p] = SetStatusCondition(@, AgentHealthyCond(healthy))]
    /\ pc' = [pc EXCEPT ![p] = "Legacy"]
    /\ UNCHANGED <<phase, conds, dsReady, edits, readinessChanges, stale>>

SetLegacy(p) ==
    /\ pc[p] = "Legacy"
    /\ \E fluentBitReady \in ProbeResults :
          parser' = [parser EXCEPT ![p] =
                        IF fluentBitReady
                        THEN HandleRunningCondition(@, "FluentBitDSReady", "FluentBitDSNotReady")
                        ELSE HandlePendingCondition(@, "FluentBitDSNotReady")]
    /\ pc' = [pc EXCEPT ![p] = "Update"]
    /\ UNCHANGED <<phase, conds, dsReady, edits, readinessChanges, stale>>

\* Mutant of Update: the write ignores the resourceVersion it read.
UpdateIgnoringConflict(p) ==
    /\ pc[p] = "Update"
    /\ conds' = [conds EXCEPT ![p] = parser[p]]
    /\ pc' = [pc EXCEPT ![p] = "Idle"]
    /\ parser' = [parser EXCEPT ![p] = <<>>]
    /\ stale' = [stale EXCEPT ![p] = FALSE]
    /\ UNCHANGED <<phase, dsReady, edits, readinessChanges>>

\* r.Status().Update with the resourceVersion read: the write succeeds
\* unless the parser changed since; either way the update returns.
Update(p) ==
    /\ pc[p] = "Update"
    /\ conds' = IF stale[p] THEN conds ELSE [conds EXCEPT ![p] = parser[p]]
    /\ pc' = [pc EXCEPT ![p] = "Idle"]
    /\ parser' = [parser EXCEPT ![p] = <<>>]
    /\ stale' = [stale EXCEPT ![p] = FALSE]
    /\ UNCHANGED <<phase, dsReady, edits, readinessChanges>>

-----------------------------------------------------------------------------
(* The environment.                                                       *)

EditParser(p) ==
    /\ phase[p] = "live" /\ edits < MaxEdits
    /\ edits' = edits + 1
    /\ Changed(p)
    /\ UNCHANGED <<phase, conds, dsReady, readinessChanges, pc, parser>>

DeleteParser(p) ==
    /\ phase[p] = "live"
    /\ phase' = [phase EXCEPT ![p] = "deleting"]
    /\ Changed(p)
    /\ UNCHANGED <<conds, dsReady, edits, readinessChanges, pc, parser>>

RemoveParser(p) ==
    /\ phase[p] = "deleting"
    /\ phase' = [phase EXCEPT ![p] = "gone"]
    /\ conds' = [conds EXCEPT ![p] = <<>>]
    /\ Changed(p)
    /\ UNCHANGED <<dsReady, edits, readinessChanges, pc, parser>>

DaemonSetChanges ==
    /\ readinessChanges < MaxReadinessChanges
    /\ readinessChanges' = readinessChanges + 1
    /\ dsReady' = ~dsReady
    /\ UNCHANGED <<phase, conds, edits, pc, parser, stale>>

Next ==
    \/ \E p \in Parsers :
          \/ Request(p) \/ Get(p) \/ SetAgentHealthy(p) \/ SetLegacy(p) \/ Update(p)
          \/ EditParser(p) \/ DeleteParser(p) \/ RemoveParser(p)
    \/ DaemonSetChanges

Spec == Init /\ [][Next]_vars

-----------------------------------------------------------------------------
(* Properties.                                                            *)

\* The conditions a LogParser's status can hold, reasons included.
ParserConditions ==
    {Cond("AgentHealthy", "True", "AgentReady"), Cond("AgentHealthy", "False", "AgentNotReady"),
     Cond("Running", "True", "FluentBitDSReady"),
     Cond("Pending", "True", "FluentBitDSNotReady"),
     Cond("Pending", "False", "FluentBitDSNotReady")}

TypeOK ==
    /\ phase \in [Parsers -> {"live", "deleting", "gone"}]
    /\ \A p \in Parsers : conds[p] \in Seq(ParserConditions) /\ parser[p] \in Seq(ParserConditions)
    /\ dsReady \in BOOLEAN
    /\ edits \in 0..MaxEdits /\ readinessChanges \in 0..MaxReadinessChanges
    /\ pc \in [Parsers -> {"Idle", "Get", "AgentHealthy", "Legacy", "Update"}]
    /\ stale \in [Parsers -> BOOLEAN]

\* updateStatus leaves a parser being deleted alone (the early return on
\* its deletionTimestamp), also when the deletion starts after Get: once
\* a parser's deletion has started, no status write changes its
\* conditions until it is removed.
StatusFrozenOnceDeleting ==
    [][\A p \in Parsers : phase[p] # "live" /\ phase'[p] # "gone" => conds'[p] = conds[p]]_vars

\* Spec section 2 ("Condition"): the legacy "Running" and "Pending"
\* conditions always sort to the end of a parser's list, whenever the
\* new AgentHealthy type is added -- also for a parser whose status an
\* earlier manager version wrote.
ParserLegacyAtTail == \A p \in Parsers : LegacyAtTail(conds[p])

=============================================================================
