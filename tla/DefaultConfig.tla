---------------------------- MODULE DefaultConfig ----------------------------
(***************************************************************************)
(* The promise about table analysis_configs: exactly one row is the        *)
(* default at all times, the default moves in one step, and the default    *)
(* row is never deleted.  AnalysisConfigs keeps it while no two requests   *)
(* race for the default.                                                   *)
(***************************************************************************)
CONSTANT Config               \* config ids

VARIABLES
    configs,                  \* the rows of the table
    defaults                  \* those with is_default

vars == <<configs, defaults>>

OneDefault == \E c \in configs : defaults = {c}

Init == configs \in SUBSET Config /\ OneDefault

Promote(c) == c \in configs /\ defaults' = {c} /\ UNCHANGED configs

Create(c) ==
    /\ c \in Config \ configs
    /\ configs' = configs \cup {c}
    /\ defaults' \in {defaults, {c}}

Remove(c) ==
    /\ c \in configs \ defaults
    /\ configs' = configs \ {c}
    /\ UNCHANGED defaults

Next == \E c \in Config : Promote(c) \/ Create(c) \/ Remove(c)

Spec == Init /\ [][Next]_vars
=============================================================================
