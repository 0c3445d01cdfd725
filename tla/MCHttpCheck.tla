---------------------------- MODULE MCHttpCheck ----------------------------
(***************************************************************************)
(* The TLC instance of HttpCheck: default and disabled timeouts, a         *)
(* disabled check, configurations that make no client, a custom sanitizer, *)
(* and a clock that may be off by a unit either way.                       *)
(***************************************************************************)
EXTENDS HttpCheck

MCOff == [value |-> 0, disabled |-> TRUE]
MCConfig(enabled, timeout, staleAfter, attempt) ==
    [enabled |-> enabled, timeout |-> timeout, staleAfter |-> staleAfter, attempt |-> attempt,
     custom |-> FALSE]

MCConfigs ==
    {MCConfig(TRUE, Unset, Unset, FALSE),
     [MCConfig(TRUE, MCOff, Unset, FALSE) EXCEPT !.custom = TRUE],
     MCConfig(TRUE, MCOff, Unset, TRUE), MCConfig(TRUE, MCOff, MCOff, FALSE),
     MCConfig(FALSE, Unset, Unset, FALSE), MCConfig(FALSE, MCOff, Unset, FALSE),
     MCConfig(TRUE, [value |-> 1, disabled |-> TRUE], Unset, FALSE),
     MCConfig(TRUE, Unset, [value |-> -1, disabled |-> FALSE], FALSE)}
=============================================================================
