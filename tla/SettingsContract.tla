--------------------------- MODULE SettingsContract ---------------------------
(***************************************************************************)
(* What a machine promises its owner of the settings, whatever keys, jobs, *)
(* missing keys and power failures DxConfigNVM does it with:               *)
(*   - it works only while it is unlocked, with what is stored when it     *)
(*     starts;                                                             *)
(*   - a setting is changed only while it works, after the last change was *)
(*     stored in full, and is used at once;                                *)
(*   - what is stored changes only to what is used: a start, a stop, the   *)
(*     lock and the PIN change nothing of it.                              *)
(***************************************************************************)
CONSTANTS
  Keys,
  Groups,    \* the sets of keys that are changed together
  Values

VARIABLES
  stored,    \* the value of each key that a start would find
  used,      \* the value the machine works with, or would if it were started
  unlocked,
  working

svars == <<stored, used, unlocked, working>>

SInit ==
  /\ stored \in [Keys -> Values] /\ used = stored
  /\ unlocked \in BOOLEAN /\ working \in BOOLEAN
  /\ working => unlocked

Start ==
  /\ ~working /\ unlocked
  /\ working' = TRUE
  /\ UNCHANGED <<stored, used, unlocked>>

Change(g) ==
  /\ working /\ used = stored
  /\ used' \in [Keys -> Values]
  /\ \A k \in Keys \ g : used'[k] = used[k]
  /\ UNCHANGED <<stored, unlocked, working>>

Store(k) ==
  /\ working
  /\ stored' = [stored EXCEPT ![k] = used[k]]
  /\ UNCHANGED <<used, unlocked, working>>

(* What was changed and not yet stored is lost. *)
Stop ==
  /\ working' = FALSE /\ used' = stored
  /\ UNCHANGED <<stored, unlocked>>

Lock ==
  /\ working /\ used = stored
  /\ unlocked' = FALSE /\ working' = FALSE
  /\ UNCHANGED <<stored, used>>

Unlock ==
  /\ ~unlocked
  /\ unlocked' = TRUE
  /\ UNCHANGED <<stored, used, working>>

SNext ==
  \/ Start \/ Stop \/ Lock \/ Unlock
  \/ \E g \in Groups : Change(g)
  \/ \E k \in Keys : Store(k)

SSpec == SInit /\ [][SNext]_svars
=============================================================================
