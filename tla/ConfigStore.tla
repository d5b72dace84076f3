----------------------------- MODULE ConfigStore -----------------------------
(***************************************************************************)
(* The configuration table and the sessions that load it:                  *)
(* db/config_seed.py, db/config_loader.py and ConfigService of             *)
(* core/config.py.  The table is seeded by every migration and edited by   *)
(* operators; a session reads the service it loaded, never the table.      *)
(***************************************************************************)
EXTENDS ConfigDefaults

CONSTANTS
    TunedKeys,      \* the keys that operators edit or delete
    TunedTexts,     \* the texts they may write
    MaxEdits        \* bound: edits and upgrades

ASSUME ConfigAssumption == TunedKeys \subseteq DOMAIN Defaults /\ MaxEdits \in Nat

VARIABLES
    cfgRevision,    \* the last migration applied: 0, 1 or 2
    cfgRows,        \* the config table
    cfgService,     \* the rows of the running session's service; none: no session
    cfgTuned,       \* the texts operators wrote into rows that are there (history)
    cfgEdits

cfgVars == <<cfgRevision, cfgRows, cfgService, cfgTuned, cfgEdits>>

NoRows == [key \in {} |-> key]
Restricted(f, keys) == [k \in DOMAIN f \cap keys |-> f[k]]
Without(f, key) == Restricted(f, DOMAIN f \ {key})

ConfigInit ==
    /\ cfgRevision = 0 /\ cfgRows = NoRows /\ cfgService = NoRows /\ cfgTuned = NoRows
    /\ cfgEdits = 0

\* Mutation: the defaults are written over what is there.
SeededOver(rows) == Defaults

\* seed_config inserts the missing rows and leaves the others alone.
Seeded(rows) ==
    [key \in DOMAIN rows \cup DOMAIN Defaults |->
        IF key \in DOMAIN rows THEN rows[key] ELSE Defaults[key]]

Upgrade ==
    /\ cfgRevision < 2 /\ cfgEdits < MaxEdits
    /\ cfgRevision' = cfgRevision + 1 /\ cfgEdits' = cfgEdits + 1
    /\ cfgRows' = Seeded(cfgRows)
    /\ UNCHANGED <<cfgService, cfgTuned>>

\* Undoing the second migration deletes the keys of the scan, tuned or not,
\* undoing the first one drops the table.
Downgrade ==
    LET kept == IF cfgRevision = 1 THEN {} ELSE DOMAIN cfgRows \ DOMAIN ScannerDefaults
    IN  /\ cfgRevision > 0
        /\ cfgRevision' = cfgRevision - 1
        /\ cfgRows' = Restricted(cfgRows, kept) /\ cfgTuned' = Restricted(cfgTuned, kept)
        /\ UNCHANGED <<cfgService, cfgEdits>>

\* load_config refuses a table that lacks a conflict key, and looks at no text.
LoadConfig ==
    /\ ConflictKeys \subseteq DOMAIN cfgRows
    /\ cfgService' = cfgRows
    /\ UNCHANGED <<cfgRevision, cfgRows, cfgTuned, cfgEdits>>

EndSession ==
    /\ cfgService # NoRows
    /\ cfgService' = NoRows
    /\ UNCHANGED <<cfgRevision, cfgRows, cfgTuned, cfgEdits>>

\* Operators edit the table between sessions.
Edit(key) ==
    /\ key \in DOMAIN cfgRows /\ cfgEdits < MaxEdits /\ cfgService = NoRows
    /\ cfgEdits' = cfgEdits + 1
    /\ UNCHANGED <<cfgRevision, cfgService>>

Tune ==
    \E key \in TunedKeys, text \in TunedTexts :
        /\ Edit(key)
        /\ cfgRows' = [cfgRows EXCEPT ![key] = [type |-> @.type, text |-> text]]
        /\ cfgTuned' = [k \in DOMAIN cfgTuned \cup {key} |-> IF k = key THEN text ELSE cfgTuned[k]]

DeleteRow ==
    \E key \in TunedKeys :
        /\ Edit(key)
        /\ cfgRows' = Without(cfgRows, key) /\ cfgTuned' = Without(cfgTuned, key)

ConfigNext == Upgrade \/ Downgrade \/ LoadConfig \/ EndSession \/ Tune \/ DeleteRow

ConfigSpec == ConfigInit /\ [][ConfigNext]_cfgVars

-----------------------------------------------------------------------------

\* What an operator tuned outlives every migration that follows, and what was
\* not tuned is the default ("leaves existing rows untouched", config_seed.py).
TuningSurvivesSeeding ==
    \A key \in DOMAIN cfgRows :
        cfgRows[key].text = IF key \in DOMAIN cfgTuned THEN cfgTuned[key] ELSE Defaults[key].text

\* What a step preserves: what counts as tuned is in the table.
ConfigInv == DOMAIN cfgTuned \subseteq DOMAIN cfgRows /\ TuningSurvivesSeeding
=============================================================================
