-------------------------- MODULE MCWatchLifecycle --------------------------
(***************************************************************************)
(* Instances of WatchLifecycle for TLC.  Session::close, the drop of the   *)
(* engine and the loss of the target meet two at a time, as `setting`      *)
(* says, which never changes: the state space is the sum of the settings.  *)
(***************************************************************************)
EXTENDS WatchLifecycle

CONSTANTS s1, q1

OneSession == [q \in Queries |-> s1]

VARIABLE setting

Settings == {"callers and loss", "engine and loss", "callers and engine"}

SettingInit == setting \in Settings /\ Init

(* Callers and the engine meet over the life of one query, q1.             *)
SettingNext ==
    /\ Next
    /\ setting = "callers and loss" => scheduler' = "open"
    /\ setting = "engine and loss" => \A s \in Sessions : ~gate'[s]
    /\ setting = "callers and engine" =>
          /\ \A s \in Sessions : source'[s] # "lost"
          /\ \A q \in Queries \ {q1} : pc'[q] = "new"
    /\ UNCHANGED setting

SettingSpec == SettingInit /\ [][SettingNext]_<<setting, vars>>
SettingFairSpec == SettingSpec /\ Fairness
=============================================================================
