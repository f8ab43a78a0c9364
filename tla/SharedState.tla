------------------------------ MODULE SharedState ------------------------------
(***************************************************************************)
(* The state Narges is in, and the switch of her AI:                       *)
(* services/narges_state_service.py, services/narges_state_scheduler.py    *)
(* and services/global_state_service.py.                                   *)
(*                                                                         *)
(* The bot and the panel hold service objects of their own, each with a    *)
(* cache of the row; nothing invalidates the cache of the other.  The      *)
(* scheduler asks a provider between reading the old state and writing the *)
(* new one, and the new state, its audit row and the mark of the run are   *)
(* written in sessions of their own, any of which may fail.                *)
(***************************************************************************)
EXTENDS Naturals

CONSTANTS
  Holders,     \* objects with a cache
  Bot,         \* the one of the scheduler and the chat; the others are panels'
  TTL,         \* life of a cached value, in ticks
  MaxVersions, \* bound: states written
  MaxCrashes,  \* bound: restarts
  None

ASSUME StateAssumption ==
  /\ Bot \in Holders
  /\ TTL \in Nat \ {0} /\ MaxVersions \in Nat /\ MaxCrashes \in Nat
  /\ None \notin [version : 0..MaxVersions, age : 0..TTL]
  /\ None \notin [value : BOOLEAN, age : 0..TTL]

VARIABLES
  version,    \* of the active row of narges_self_state; 0 when there is no row
  outdated,   \* ticks since each version stopped being the active one
  cache,      \* by holder: [version, age], or None
  slot,       \* a slot of the day: "ahead", "open", "over"
  run,        \* its row in narges_state_scheduler_runs: "rejected" and "error" are "failed"
  attempt,    \* run_slot: "none", "asking" the provider, or its state is "saved"
  slotWrites, \* states saved for the slot
  cuts,       \* states saved whose run was not marked
  crashes,
  enabled,    \* ai_enabled of the global_state row
  flipped,    \* ticks since it changed
  switch      \* by holder: [value, age], or None

states == <<version, outdated, cache>>
slots == <<slot, run, attempt, slotWrites, cuts>>
switches == <<enabled, flipped, switch>>
vars == <<states, slots, crashes, switches>>

Init ==
  /\ version = 0
  /\ outdated = [v \in 0..MaxVersions |-> 0]
  /\ cache = [h \in Holders |-> None]
  /\ slot = "ahead" /\ run = "none" /\ attempt = "none"
  /\ slotWrites = 0 /\ cuts = 0 /\ crashes = 0
  /\ enabled = TRUE /\ flipped = TTL
  /\ switch = [h \in Holders |-> None]

-----------------------------------------------------------------------------
(* _get_cached and _set_cached *)

(* mutant: a cached value never expires *)
LivesForever(entry) == entry # None

Lives(entry) == entry # None /\ entry.age < TTL

(* save_candidate of a candidate that validate_candidate accepts, up to    *)
(* its audit row.                                                          *)
Save(h) ==
  /\ version < MaxVersions
  /\ version' = version + 1
  /\ outdated' = [outdated EXCEPT ![version] = 0]
  /\ cache' = [cache EXCEPT ![h] = [version |-> version + 1, age |-> 0]]

(* get_active: the cache, the row, or a default that becomes the row. *)
Get(h) ==
  \/ Lives(cache[h]) /\ UNCHANGED states
  \/ /\ ~Lives(cache[h]) /\ version > 0
     /\ cache' = [cache EXCEPT ![h] = [version |-> version, age |-> 0]]
     /\ UNCHANGED <<version, outdated>>
  \/ ~Lives(cache[h]) /\ version = 0 /\ Save(h)

(* The bot awaits nothing from the saved state to the mark of its run. *)
Turns(h) == h = Bot => attempt # "saved"

GetActive(h) == Turns(h) /\ Get(h) /\ UNCHANGED <<slots, crashes, switches>>

SaveStateFromForm(h) ==
  /\ h # Bot
  /\ Save(h)
  /\ UNCHANGED <<slots, crashes, switches>>

-----------------------------------------------------------------------------
(* The scheduler *)

(* mutant: a slot is asked for again after it was saved *)
RunDueAgain ==
  /\ slot = "open" /\ attempt = "none"
  /\ attempt' = "asking"
  /\ Get(Bot)
  /\ UNCHANGED <<slot, run, slotWrites, cuts, crashes, switches>>

(* run_due_once and the first half of run_slot. *)
RunDue ==
  /\ slot = "open" /\ attempt = "none"
  /\ run # "ok"
  /\ attempt' = "asking"
  /\ Get(Bot)
  /\ UNCHANGED <<slot, run, slotWrites, cuts, crashes, switches>>

RunSaved ==
  /\ attempt = "asking"
  /\ Save(Bot)
  /\ slotWrites' = slotWrites + 1
  /\ attempt' = "saved"
  /\ UNCHANGED <<slot, run, cuts, crashes, switches>>

RunEnds(status) ==
  /\ run' = status /\ attempt' = "none"
  /\ UNCHANGED <<slot, slotWrites, crashes, states, switches>>

RunMarked == attempt = "saved" /\ RunEnds("ok") /\ UNCHANGED cuts

(* The audit row or the mark is not written: the run has failed, or is what*)
(* it was when that mark fails too, and its state stays.                   *)
RunUnmarked ==
  /\ attempt = "saved"
  /\ \E status \in {"failed", run} : RunEnds(status)
  /\ cuts' = cuts + 1

(* mutant: a failure is written as a status nobody reads *)
RunFailedOtherwise == attempt = "asking" /\ RunEnds("asked") /\ UNCHANGED cuts

(* The candidate is rejected, or the provider or a write failed; the next  *)
(* poll tries again while the slot is open.                                *)
RunFailed ==
  /\ attempt = "asking"
  /\ \E status \in {"failed", run} : RunEnds(status)
  /\ UNCHANGED cuts

-----------------------------------------------------------------------------
(* The switch: set_ai_enabled by a panel, get by _validate_input *)

ReadSwitch(h) ==
  /\ Turns(h) /\ ~Lives(switch[h])
  /\ switch' = [switch EXCEPT ![h] = [value |-> enabled, age |-> 0]]
  /\ UNCHANGED <<enabled, flipped, states, slots, crashes>>

SetAiEnabled(h, value) ==
  /\ h # Bot
  /\ enabled' = value
  /\ flipped' = IF value = enabled THEN flipped ELSE 0
  /\ switch' = [switch EXCEPT ![h] = [value |-> value, age |-> 0]]
  /\ UNCHANGED <<states, slots, crashes>>

-----------------------------------------------------------------------------
(* Time, and restarts of the bot *)

Later(n) == IF n < TTL THEN n + 1 ELSE TTL
Aged(entries) == [h \in Holders |-> IF entries[h] = None THEN None ELSE [entries[h] EXCEPT !.age = Later(@)]]

Tick ==
  /\ outdated' = [v \in 0..MaxVersions |-> IF v < version THEN Later(outdated[v]) ELSE 0]
  /\ flipped' = Later(flipped)
  /\ cache' = Aged(cache) /\ switch' = Aged(switch)
  /\ UNCHANGED <<version, enabled, slots, crashes>>

(* The window opens and closes, whether or not the scheduler is waiting. *)
SlotMoves ==
  /\ \/ slot = "ahead" /\ slot' = "open"
     \/ slot = "open" /\ slot' = "over"
  /\ UNCHANGED <<run, attempt, slotWrites, cuts, crashes, states, switches>>

Restart ==
  /\ crashes < MaxCrashes
  /\ crashes' = crashes + 1
  /\ cache' = [cache EXCEPT ![Bot] = None] /\ switch' = [switch EXCEPT ![Bot] = None]
  /\ attempt' = "none"
  /\ cuts' = IF attempt = "saved" THEN cuts + 1 ELSE cuts
  /\ UNCHANGED <<version, outdated, slot, run, slotWrites, enabled, flipped>>

Next ==
  \/ \E h \in Holders : GetActive(h) \/ SaveStateFromForm(h) \/ ReadSwitch(h)
  \/ RunDue \/ RunSaved \/ RunMarked \/ RunUnmarked \/ RunFailed
  \/ \E h \in Holders, value \in BOOLEAN : SetAiEnabled(h, value)
  \/ Tick \/ SlotMoves \/ Restart

Spec == Init /\ [][Next]_vars

-----------------------------------------------------------------------------
(* Properties *)

(* The variables have their types. *)
TypeOK ==
  /\ version \in 0..MaxVersions
  /\ outdated \in [0..MaxVersions -> 0..TTL]
  /\ cache \in [Holders -> [version : 0..MaxVersions, age : 0..TTL] \cup {None}]
  /\ slot \in {"ahead", "open", "over"}
  /\ run \in {"none", "ok", "failed"}
  /\ attempt \in {"none", "asking", "saved"}
  /\ slotWrites \in 0..MaxVersions /\ cuts \in 0..MaxVersions /\ crashes \in 0..MaxCrashes
  /\ enabled \in BOOLEAN /\ flipped \in 0..TTL
  /\ switch \in [Holders -> [value : BOOLEAN, age : 0..TTL] \cup {None}]

(* What a holder answers from its cache was true less than a TTL ago: a    *)
(* state the panel or the scheduler wrote is everywhere after 15 seconds   *)
(* (narges_state_service.py:169), and the bot obeys the switch after 10    *)
(* (global_state_service.py:55), though no one tells a cache of a write.   *)
CachesLagByTTL ==
  \A h \in Holders :
    /\ Lives(cache[h]) /\ cache[h].version # version => outdated[cache[h].version] < TTL
    /\ Lives(switch[h]) /\ switch[h].value # enabled => flipped < TTL

(* A slot changes the state once, however often it is polled and retried,  *)
(* and once more for each saved state whose run was not marked, by a       *)
(* restart between the two or because the audit row or the mark failed     *)
(* (narges_state_scheduler.py:61-65).                                      *)
SlotSavedOnce == slotWrites <= 1 + cuts
===============================================================================
