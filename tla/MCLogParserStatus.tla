------------------------- MODULE MCLogParserStatus -------------------------
(* LogParserStatus for TLC: two parsers, one created by this manager      *)
(* version (no conditions yet) and one whose status an earlier version    *)
(* wrote with only the legacy Running condition.                          *)
EXTENDS LogParserStatus

MCInitialConditions ==
    {<<>>, <<Cond("Running", "True", "FluentBitDSReady")>>}

=============================================================================
