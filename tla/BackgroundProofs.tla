-------------------------- MODULE BackgroundProofs --------------------------
(***************************************************************************)
(* What MCBackground's properties say holds for all sets of holders,       *)
(* users, groups, schedules and images and all bounds, and every variable  *)
(* keeps its type.  None of the properties is inductive; each part below   *)
(* has what makes it so.                                                   *)
(*                                                                         *)
(* The state: a cached value that is no longer true became untrue after it *)
(* was cached.  Groups: while the handlers of a group keep the order, the  *)
(* last change that waits is what the bot is now.  Mailings: a prompt a    *)
(* user received is marked, about to be, or one whose mark failed; what a  *)
(* schedule or a broadcast sent is counted, still to be, or was cut off.   *)
(* Photos: a mark in the interval was a running fetch, and there are two   *)
(* of them at most, since _inflight admits one scheduled sync beside the   *)
(* loop.  Polling: what Telegram still keeps was not fed, or is counted in *)
(* again; of the late messages of an actor the last one is kept, which is  *)
(* found by the well-foundedness of the order of their numbers.            *)
(***************************************************************************)
EXTENDS MCBackground, Sequences, TLAPS, FiniteSetTheorems, WellFoundedInduction

-----------------------------------------------------------------------------
(* The shared state and its scheduler *)

(* A cached state that is not the active one was replaced in its cache's   *)
(* time.                                                                   *)
CacheAge ==
  \A h \in Holders : cache[h] # None /\ cache[h].version # version =>
    cache[h].version < version /\ outdated[cache[h].version] <= cache[h].age

(* A cached switch that is not the row was flipped in its cache's time. *)
SwitchAge ==
  \A h \in Holders : switch[h] # None /\ switch[h].value # enabled =>
    flipped <= switch[h].age

(* Every saved state of the slot is the one that was marked, the one that  *)
(* is about to be, or one whose mark was never written; a marked slot is   *)
(* not asked for.                                                          *)
SlotCount ==
  /\ slotWrites = cuts + (IF run = "ok" THEN 1 ELSE 0) + (IF attempt = "saved" THEN 1 ELSE 0)
  /\ attempt # "none" => run # "ok"
  /\ slotWrites <= version

StateInv == TypeOK /\ CacheAge /\ SwitchAge /\ SlotCount

-----------------------------------------------------------------------------
(* What the steps need of the constants, without the value of None. *)
LEMMA StateConstants == Bot \in Holders /\ TTL \in Nat \ {0} /\ MaxVersions \in Nat /\ MaxCrashes \in Nat
BY StateAssumption DEF StateAssumption

(* Time passes up to the life of a value, and keeps the order of ages. *)
LEMMA LaterAges ==
  /\ \A n \in 0..TTL : Later(n) \in 0..TTL
  /\ \A m, n \in 0..TTL : m <= n => Later(m) <= Later(n)
BY StateConstants DEF Later

(* A state is saved: the caches of the others are now about a replaced     *)
(* state, and were filled no later than it was replaced.                   *)
LEMMA SaveStep ==
  ASSUME TypeOK, CacheAge, NEW h \in Holders, Save(h)
  PROVE  /\ version' = version + 1 /\ version' \in 0..MaxVersions
         /\ outdated' \in [0..MaxVersions -> 0..TTL]
         /\ cache' \in [Holders -> [version : 0..MaxVersions, age : 0..TTL] \cup {None}]
         /\ CacheAge'
<1>1. /\ version' = version + 1 /\ version' \in 0..MaxVersions
      /\ outdated' \in [0..MaxVersions -> 0..TTL]
  BY StateConstants DEF TypeOK, Save
<1>2. cache' \in [Holders -> [version : 0..MaxVersions, age : 0..TTL] \cup {None}]
  BY <1>1, StateConstants DEF TypeOK, Save
<1>3. CacheAge'
  <2> SUFFICES ASSUME NEW g \in Holders, cache'[g] # None, cache'[g].version # version'
               PROVE  cache'[g].version < version' /\ outdated'[cache'[g].version] <= cache'[g].age
    BY DEF CacheAge
  <2>1. g # h /\ cache'[g] = cache[g]
    BY <1>1 DEF Save, TypeOK
  <2>2. cache[g] \in [version : 0..MaxVersions, age : 0..TTL]
    BY <2>1 DEF TypeOK
  <2>3. CASE cache[g].version = version
    BY <2>1, <2>2, <2>3 DEF Save, TypeOK
  <2>4. CASE cache[g].version # version
    BY <2>1, <2>2, <2>4 DEF Save, TypeOK, CacheAge
  <2> QED BY <2>3, <2>4
<1> QED BY <1>1, <1>2, <1>3

(* get_active keeps the ages of the caches, and never replaces a row. *)
LEMMA GetStep ==
  ASSUME TypeOK, CacheAge, NEW h \in Holders, Get(h)
  PROVE  /\ version' \in 0..MaxVersions /\ version <= version'
         /\ outdated' \in [0..MaxVersions -> 0..TTL]
         /\ cache' \in [Holders -> [version : 0..MaxVersions, age : 0..TTL] \cup {None}]
         /\ CacheAge'
<1>1. CASE Lives(cache[h]) /\ UNCHANGED states
  BY <1>1 DEF states, TypeOK, CacheAge
<1>2. CASE /\ ~Lives(cache[h]) /\ version > 0
           /\ cache' = [cache EXCEPT ![h] = [version |-> version, age |-> 0]]
           /\ UNCHANGED <<version, outdated>>
  BY <1>2, StateConstants DEF TypeOK, CacheAge
<1>3. CASE Save(h)
  BY <1>3, SaveStep DEF TypeOK
<1> QED BY <1>1, <1>2, <1>3 DEF Get

(* Entries age, and stay entries. *)
LEMMA AgedCache ==
  ASSUME TypeOK
  PROVE  /\ Aged(cache) \in [Holders -> [version : 0..MaxVersions, age : 0..TTL] \cup {None}]
         /\ \A h \in Holders : Aged(cache)[h] # None =>
              /\ cache[h] # None /\ cache[h] \in [version : 0..MaxVersions, age : 0..TTL]
              /\ Aged(cache)[h].version = cache[h].version
              /\ Aged(cache)[h].age = Later(cache[h].age)
BY LaterAges DEF TypeOK, Aged

LEMMA AgedSwitch ==
  ASSUME TypeOK
  PROVE  /\ Aged(switch) \in [Holders -> [value : BOOLEAN, age : 0..TTL] \cup {None}]
         /\ \A h \in Holders : Aged(switch)[h] # None =>
              /\ switch[h] # None /\ switch[h] \in [value : BOOLEAN, age : 0..TTL]
              /\ Aged(switch)[h].value = switch[h].value
              /\ Aged(switch)[h].age = Later(switch[h].age)
BY LaterAges DEF TypeOK, Aged

-----------------------------------------------------------------------------
(* Every object starts with an empty cache. *)
LEMMA StateInitially == Init => StateInv
<1> SUFFICES ASSUME Init PROVE StateInv
  OBVIOUS
<1>1. TypeOK
  <2>1. version \in 0..MaxVersions /\ outdated \in [0..MaxVersions -> 0..TTL] /\ flipped \in 0..TTL
    BY StateConstants DEF Init
  <2>2. slotWrites \in 0..MaxVersions /\ cuts \in 0..MaxVersions /\ crashes \in 0..MaxCrashes
    BY StateConstants DEF Init
  <2>3. /\ cache \in [Holders -> [version : 0..MaxVersions, age : 0..TTL] \cup {None}]
        /\ switch \in [Holders -> [value : BOOLEAN, age : 0..TTL] \cup {None}]
    BY DEF Init
  <2>4. /\ slot \in {"ahead", "open", "over"} /\ run \in {"none", "ok", "failed"}
        /\ attempt \in {"none", "asking", "saved"} /\ enabled \in BOOLEAN
    BY DEF Init
  <2> QED BY <2>1, <2>2, <2>3, <2>4 DEF TypeOK
<1>2. CacheAge /\ SwitchAge
  BY DEF Init, CacheAge, SwitchAge
<1>3. SlotCount
  BY DEF Init, SlotCount
<1> QED BY <1>1, <1>2, <1>3 DEF StateInv

(* No step breaks the invariant. *)
LEMMA StateInvariance == StateInv /\ [Next]_vars => StateInv'
<1> SUFFICES ASSUME StateInv, [Next]_vars PROVE StateInv'
  OBVIOUS
<1>t. TypeOK /\ CacheAge /\ SwitchAge /\ SlotCount
  BY DEF StateInv
<1>1. ASSUME NEW h \in Holders, GetActive(h) PROVE StateInv'
  <2>1. UNCHANGED <<slots, crashes, switches>> /\ Get(h)
    BY <1>1 DEF GetActive
  <2>2. /\ version' \in 0..MaxVersions /\ version <= version'
        /\ outdated' \in [0..MaxVersions -> 0..TTL]
        /\ cache' \in [Holders -> [version : 0..MaxVersions, age : 0..TTL] \cup {None}]
        /\ CacheAge'
    BY <1>t, <2>1, GetStep
  <2>3. TypeOK'
    BY <1>t, <2>1, <2>2 DEF slots, switches, TypeOK
  <2>4. SwitchAge'
    BY <1>t, <2>1 DEF switches, SwitchAge
  <2>5. SlotCount'
    BY <1>t, <2>1, <2>2, StateConstants DEF slots, TypeOK, SlotCount
  <2> QED BY <2>2, <2>3, <2>4, <2>5 DEF StateInv
<1>2. ASSUME NEW h \in Holders, SaveStateFromForm(h) PROVE StateInv'
  <2>1. UNCHANGED <<slots, crashes, switches>> /\ Save(h)
    BY <1>2 DEF SaveStateFromForm
  <2>2. /\ version' = version + 1 /\ version' \in 0..MaxVersions
        /\ outdated' \in [0..MaxVersions -> 0..TTL]
        /\ cache' \in [Holders -> [version : 0..MaxVersions, age : 0..TTL] \cup {None}]
        /\ CacheAge'
    BY <1>t, <2>1, SaveStep
  <2>3. TypeOK'
    BY <1>t, <2>1, <2>2 DEF slots, switches, TypeOK
  <2>4. SwitchAge'
    BY <1>t, <2>1 DEF switches, SwitchAge
  <2>5. SlotCount'
    BY <1>t, <2>1, <2>2, StateConstants DEF slots, TypeOK, SlotCount
  <2> QED BY <2>2, <2>3, <2>4, <2>5 DEF StateInv
<1>3. ASSUME NEW h \in Holders, ReadSwitch(h) PROVE StateInv'
  <2>1. TypeOK' /\ SwitchAge'
    BY <1>t, <1>3, StateConstants DEF ReadSwitch, states, slots, TypeOK, SwitchAge
  <2>2. CacheAge' /\ SlotCount'
    BY <1>t, <1>3 DEF ReadSwitch, states, slots, CacheAge, SlotCount
  <2> QED BY <2>1, <2>2 DEF StateInv
<1>4. CASE RunDue
  <2>1. /\ Get(Bot) /\ UNCHANGED <<slot, run, slotWrites, cuts, crashes, switches>>
        /\ run # "ok" /\ attempt = "none" /\ attempt' = "asking"
    BY <1>4 DEF RunDue
  <2>2. /\ version' \in 0..MaxVersions /\ version <= version'
        /\ outdated' \in [0..MaxVersions -> 0..TTL]
        /\ cache' \in [Holders -> [version : 0..MaxVersions, age : 0..TTL] \cup {None}]
        /\ CacheAge'
    BY <1>t, <2>1, GetStep, StateConstants
  <2>3. SlotCount'
    BY <1>t, <2>1, <2>2, StateConstants DEF TypeOK, SlotCount
  <2>4. TypeOK'
    BY <1>t, <2>1, <2>2 DEF switches, TypeOK
  <2>5. SwitchAge'
    BY <1>t, <2>1 DEF switches, SwitchAge
  <2> QED BY <2>2, <2>3, <2>4, <2>5 DEF StateInv
<1>5. CASE RunSaved
  <2>1. /\ Save(Bot) /\ UNCHANGED <<slot, run, cuts, crashes, switches>>
        /\ attempt = "asking" /\ slotWrites' = slotWrites + 1 /\ attempt' = "saved"
    BY <1>5 DEF RunSaved
  <2>2. /\ version' = version + 1 /\ version' \in 0..MaxVersions
        /\ outdated' \in [0..MaxVersions -> 0..TTL]
        /\ cache' \in [Holders -> [version : 0..MaxVersions, age : 0..TTL] \cup {None}]
        /\ CacheAge'
    BY <1>t, <2>1, SaveStep, StateConstants
  <2>3. SlotCount'
    BY <1>t, <2>1, <2>2 DEF TypeOK, SlotCount
  <2>4. slotWrites' \in 0..MaxVersions
    BY <1>t, <2>1, <2>2, StateConstants DEF TypeOK, SlotCount
  <2>5. TypeOK' /\ SwitchAge'
    BY <1>t, <2>1, <2>2, <2>4 DEF switches, TypeOK, SwitchAge
  <2> QED BY <2>2, <2>3, <2>5 DEF StateInv
<1>6. CASE RunMarked
  <2>1. /\ attempt = "saved" /\ run' = "ok" /\ attempt' = "none"
        /\ UNCHANGED <<slot, slotWrites, cuts, crashes, states, switches>>
    BY <1>6 DEF RunMarked, RunEnds
  <2>2. TypeOK' /\ SlotCount'
    BY <1>t, <2>1 DEF states, switches, TypeOK, SlotCount
  <2>3. CacheAge' /\ SwitchAge'
    BY <1>t, <2>1 DEF states, switches, CacheAge, SwitchAge
  <2> QED BY <2>2, <2>3 DEF StateInv
<1>7. CASE RunUnmarked
  <2>1. /\ attempt = "saved" /\ run' \in {"failed", run} /\ attempt' = "none" /\ cuts' = cuts + 1
        /\ UNCHANGED <<slot, slotWrites, crashes, states, switches>>
    BY <1>7 DEF RunUnmarked, RunEnds
  <2>2. version' = version /\ run' # "ok" /\ run # "ok" /\ run' \in {"none", "ok", "failed"}
    BY <1>t, <2>1 DEF states, TypeOK, SlotCount
  <2>3. SlotCount'
    BY <1>t, <2>1, <2>2 DEF TypeOK, SlotCount
  <2>4. cuts' \in 0..MaxVersions
    BY <1>t, <2>1, <2>2, StateConstants DEF TypeOK, SlotCount
  <2>5. TypeOK'
    BY <1>t, <2>1, <2>2, <2>4 DEF states, switches, TypeOK
  <2>6. CacheAge' /\ SwitchAge'
    BY <1>t, <2>1 DEF states, switches, CacheAge, SwitchAge
  <2> QED BY <2>3, <2>5, <2>6 DEF StateInv
<1>8. CASE RunFailed
  <2>1. /\ attempt = "asking" /\ run' \in {"failed", run} /\ attempt' = "none"
        /\ UNCHANGED <<slot, slotWrites, cuts, crashes, states, switches>>
    BY <1>8 DEF RunFailed, RunEnds
  <2>2. TypeOK' /\ SlotCount'
    BY <1>t, <2>1 DEF states, switches, TypeOK, SlotCount
  <2>3. CacheAge' /\ SwitchAge'
    BY <1>t, <2>1 DEF states, switches, CacheAge, SwitchAge
  <2> QED BY <2>2, <2>3 DEF StateInv
<1>9. ASSUME NEW h \in Holders, NEW value \in BOOLEAN, SetAiEnabled(h, value) PROVE StateInv'
  <2>1. TypeOK'
    BY <1>t, <1>9, StateConstants DEF SetAiEnabled, states, slots, TypeOK
  <2>2. SwitchAge'
    <3> SUFFICES ASSUME NEW g \in Holders, switch'[g] # None, switch'[g].value # enabled'
                 PROVE  flipped' <= switch'[g].age
      BY DEF SwitchAge
    <3>1. switch' = [switch EXCEPT ![h] = [value |-> value, age |-> 0]] /\ enabled' = value
      BY <1>9 DEF SetAiEnabled
    <3>2. g # h /\ switch'[g] = switch[g]
      BY <3>1, <1>t DEF TypeOK
    <3>3. switch[g] \in [value : BOOLEAN, age : 0..TTL]
      BY <3>2, <1>t DEF TypeOK
    <3>4. CASE value = enabled
      BY <1>9, <1>t, <3>1, <3>2, <3>4 DEF SetAiEnabled, SwitchAge
    <3>5. CASE value # enabled
      BY <1>9, <3>2, <3>3, <3>5 DEF SetAiEnabled
    <3> QED BY <3>4, <3>5
  <2>3. CacheAge' /\ SlotCount'
    BY <1>t, <1>9 DEF SetAiEnabled, states, slots, CacheAge, SlotCount
  <2> QED BY <2>1, <2>2, <2>3 DEF StateInv
<1>10. CASE Tick
  <2>1. /\ outdated' = [v \in 0..MaxVersions |-> IF v < version THEN Later(outdated[v]) ELSE 0]
        /\ flipped' = Later(flipped)
        /\ cache' = Aged(cache) /\ switch' = Aged(switch)
        /\ UNCHANGED <<version, enabled, slots, crashes>>
    BY <1>10 DEF Tick
  <2>2. outdated' \in [0..MaxVersions -> 0..TTL]
    <3>1. ASSUME NEW v \in 0..MaxVersions
          PROVE  (IF v < version THEN Later(outdated[v]) ELSE 0) \in 0..TTL
      <4>1. outdated[v] \in 0..TTL
        BY <1>t DEF TypeOK
      <4>2. Later(outdated[v]) \in 0..TTL /\ 0 \in 0..TTL
        BY <4>1, LaterAges, StateConstants
      <4> QED BY <4>2
    <3> QED BY <2>1, <3>1
  <2>3. TypeOK'
    BY <1>t, <2>1, <2>2, LaterAges, AgedCache, AgedSwitch DEF TypeOK, slots
  <2>4. CacheAge'
    <3> SUFFICES ASSUME NEW g \in Holders, cache'[g] # None, cache'[g].version # version'
                 PROVE  cache'[g].version < version' /\ outdated'[cache'[g].version] <= cache'[g].age
      BY DEF CacheAge
    <3>1. /\ cache[g] # None /\ cache[g] \in [version : 0..MaxVersions, age : 0..TTL]
          /\ cache'[g].version = cache[g].version /\ cache'[g].age = Later(cache[g].age)
      BY <1>t, <2>1, AgedCache
    <3>2. cache[g].version < version /\ outdated[cache[g].version] <= cache[g].age
      BY <1>t, <2>1, <3>1, StateConstants DEF CacheAge
    <3>3. outdated'[cache[g].version] = Later(outdated[cache[g].version])
      BY <2>1, <3>1, <3>2
    <3>4. outdated[cache[g].version] \in 0..TTL
      BY <1>t, <3>1 DEF TypeOK
    <3> QED BY <2>1, <3>1, <3>2, <3>3, <3>4, LaterAges
  <2>5. SwitchAge'
    <3> SUFFICES ASSUME NEW g \in Holders, switch'[g] # None, switch'[g].value # enabled'
                 PROVE  flipped' <= switch'[g].age
      BY DEF SwitchAge
    <3>1. /\ switch[g] # None /\ switch[g] \in [value : BOOLEAN, age : 0..TTL]
          /\ switch'[g].value = switch[g].value /\ switch'[g].age = Later(switch[g].age)
      BY <1>t, <2>1, AgedSwitch
    <3>2. flipped <= switch[g].age
      BY <1>t, <2>1, <3>1, StateConstants DEF SwitchAge
    <3> QED BY <1>t, <2>1, <3>1, <3>2, LaterAges DEF TypeOK
  <2>6. SlotCount'
    BY <1>t, <2>1 DEF slots, SlotCount
  <2> QED BY <2>3, <2>4, <2>5, <2>6 DEF StateInv
<1>11. CASE SlotMoves
  <2>1. TypeOK' /\ SlotCount'
    BY <1>t, <1>11 DEF SlotMoves, states, switches, TypeOK, SlotCount
  <2>2. CacheAge' /\ SwitchAge'
    BY <1>t, <1>11 DEF SlotMoves, states, switches, CacheAge, SwitchAge
  <2> QED BY <2>1, <2>2 DEF StateInv
<1>12. CASE Restart
  <2>1. /\ crashes < MaxCrashes /\ crashes' = crashes + 1
        /\ cache' = [cache EXCEPT ![Bot] = None] /\ switch' = [switch EXCEPT ![Bot] = None]
        /\ attempt' = "none" /\ cuts' = (IF attempt = "saved" THEN cuts + 1 ELSE cuts)
        /\ UNCHANGED <<version, outdated, slot, run, slotWrites, enabled, flipped>>
    BY <1>12 DEF Restart
  <2>2. SwitchAge'
    BY <1>t, <2>1, StateConstants DEF TypeOK, SwitchAge
  <2>3. CacheAge'
    BY <1>t, <2>1, StateConstants DEF TypeOK, CacheAge
  <2>4. SlotCount'
    BY <1>t, <2>1 DEF TypeOK, SlotCount
  <2>5. cuts' \in 0..MaxVersions /\ crashes' \in 0..MaxCrashes
    BY <1>t, <2>1, StateConstants DEF TypeOK, SlotCount
  <2>6. TypeOK'
    BY <1>t, <2>1, <2>5 DEF TypeOK
  <2> QED BY <2>2, <2>3, <2>4, <2>6 DEF StateInv
<1>13. CASE UNCHANGED vars
  BY <1>t, <1>13 DEF vars, states, slots, switches, StateInv, TypeOK, CacheAge, SwitchAge, SlotCount
<1> QED
  BY <1>1, <1>2, <1>3, <1>4, <1>5, <1>6, <1>7, <1>8, <1>9, <1>10, <1>11, <1>12, <1>13 DEF Next

-----------------------------------------------------------------------------
(* The invariant holds in every reachable state. *)
LEMMA StateInvariant == Spec => []StateInv
BY StateInitially, StateInvariance, PTL DEF Spec

(* The rows and caches hold what the code puts there. *)
THEOREM StateTypes == Spec => []TypeOK
<1>1. StateInv => TypeOK
  BY DEF StateInv
<1> QED BY <1>1, StateInvariant, PTL

(* However many objects cache the state and the switch, and whatever they  *)
(* read and write, none answers with what stopped being true a TTL ago     *)
(* (narges_state_service.py:169, global_state_service.py:55).              *)
THEOREM StaleByTTLAtMost == Spec => []CachesLagByTTL
<1>1. StateInv => CachesLagByTTL
  <2> SUFFICES ASSUME StateInv, NEW h \in Holders
               PROVE  /\ Lives(cache[h]) /\ cache[h].version # version => outdated[cache[h].version] < TTL
                      /\ Lives(switch[h]) /\ switch[h].value # enabled => flipped < TTL
    BY DEF CachesLagByTTL
  <2>1. ASSUME Lives(cache[h]), cache[h].version # version PROVE outdated[cache[h].version] < TTL
    <3>1. cache[h] \in [version : 0..MaxVersions, age : 0..TTL] /\ cache[h].age < TTL
      BY <2>1 DEF StateInv, TypeOK, Lives
    <3>2. outdated[cache[h].version] <= cache[h].age /\ outdated[cache[h].version] \in 0..TTL
      BY <2>1, <3>1 DEF StateInv, TypeOK, CacheAge, Lives
    <3> QED BY <3>1, <3>2, StateConstants
  <2>2. ASSUME Lives(switch[h]), switch[h].value # enabled PROVE flipped < TTL
    <3>1. switch[h] \in [value : BOOLEAN, age : 0..TTL] /\ switch[h].age < TTL
      BY <2>2 DEF StateInv, TypeOK, Lives
    <3>2. flipped <= switch[h].age /\ flipped \in 0..TTL
      BY <2>2, <3>1 DEF StateInv, TypeOK, SwitchAge, Lives
    <3> QED BY <3>1, <3>2, StateConstants
  <2> QED BY <2>1, <2>2
<1> QED BY <1>1, StateInvariant, PTL

(* A slot changes the state once, and once more for each state that was    *)
(* saved while its run was not marked: a restart, a failing audit row or a *)
(* failing mark_scheduler_run came in between                              *)
(* (narges_state_scheduler.py:61-65).                                      *)
THEOREM SlotOnce == Spec => []SlotSavedOnce
<1>1. StateInv => SlotSavedOnce
  BY DEF StateInv, TypeOK, SlotCount, SlotSavedOnce
<1> QED BY <1>1, StateInvariant, PTL

-----------------------------------------------------------------------------
(* Groups *)

(* The changes that wait in a chat. *)
Waiting == [status : G!Status, actor : Users \cup {None}]

(* One inviter at a time, and the admin reward is his. *)
Held ==
  \A c \in Chats : (\A u, w \in member[c] : u = w) /\ admin[c] \subseteq member[c]

Flags(c, u) == (IF u \in member[c] THEN 1 ELSE 0) + (IF u \in admin[c] THEN 1 ELSE 0)
Credited == \A c \in Chats, u \in Users : net[c][u] + lost[c][u] = Flags(c, u)

(* While handlers keep the order, the last change that waits is what the   *)
(* bot is now, and with none waiting the flags are what its status allows. *)
Settled(c) ==
  /\ status[c] \in G!Hidden => member[c] = {}
  /\ status[c] # "administrator" => admin[c] = {}
Followed ==
  \A c \in Chats : c \notin overtaken =>
    /\ Len(events[c]) = 0 => Settled(c)
    /\ Len(events[c]) > 0 => events[c][Len(events[c])].status = status[c]

(* With none waiting the row is what the bot is, but for a late message or *)
(* a failing send since.                                                   *)
Listed ==
  \A c \in Chats : c \notin overtaken /\ c \notin misled /\ Len(events[c]) = 0 =>
    (G!Target(c) <=> status[c] \in G!Active)

GroupsInv == G!TypeOK /\ Held /\ Credited /\ Followed /\ Listed

LEMMA BoundedIsShort ==
  ASSUME NEW E, NEW q
  PROVE  q \in G!BoundedSeq(E, MaxEvents) <=> q \in Seq(E) /\ Len(q) <= MaxEvents
<1>0. MaxEvents \in Nat
  BY GroupsAssumption DEF GroupsAssumption
<1>1. G!BoundedSeq(E, MaxEvents) = UNION {[1..m -> E] : m \in 0..MaxEvents}
  BY DEF G!BoundedSeq, G!SeqOf
<1>2. ASSUME q \in Seq(E), Len(q) <= MaxEvents PROVE q \in UNION {[1..m -> E] : m \in 0..MaxEvents}
  <2>1. Len(q) \in 0..MaxEvents /\ q \in [1..Len(q) -> E]
    BY <1>0, <1>2
  <2> QED BY <2>1
<1>3. ASSUME NEW m \in 0..MaxEvents, q \in [1..m -> E] PROVE q \in Seq(E) /\ Len(q) <= MaxEvents
  BY <1>0, <1>3
<1> QED BY <1>1, <1>2, <1>3

LEMMA Joining ==
  ASSUME NEW E, NEW a, NEW b, a \in Seq(E), b \in Seq(E)
  PROVE  a \o b \in Seq(E) /\ Len(a \o b) = Len(a) + Len(b)
<1>1. a \o b \in Seq(E)
  OBVIOUS
<1>2. Len(a \o b) = Len(a) + Len(b)
  OBVIOUS
<1> QED BY <1>1, <1>2

LEMMA OneTaken ==
  ASSUME NEW E, NEW q \in Seq(E), NEW i \in 1..Len(q)
  PROVE  /\ G!RemoveAt(q, i) \in Seq(E) /\ Len(G!RemoveAt(q, i)) = Len(q) - 1
         /\ i = 1 => \A j \in 1..(Len(q) - 1) : G!RemoveAt(q, i)[j] = q[j + 1]
<1>1. PICK n \in Nat : n = Len(q) /\ i \in 1..n
  OBVIOUS
<1>2. PICK a : a = SubSeq(q, 1, i - 1)
  OBVIOUS
<1>3. PICK b : b = SubSeq(q, i + 1, n)
  OBVIOUS
<1>4. a \in Seq(E) /\ Len(a) = i - 1
  BY <1>1, <1>2
<1>5. b \in Seq(E) /\ Len(b) = n - i /\ \A j \in 1..(n - i) : b[j] = q[i + j]
  BY <1>1, <1>3
<1>6. G!RemoveAt(q, i) = a \o b
  BY <1>1, <1>2, <1>3 DEF G!RemoveAt
<1>7. a \o b \in Seq(E) /\ Len(a \o b) = n - 1
  <2>1. a \o b \in Seq(E) /\ Len(a \o b) = Len(a) + Len(b)
    <3>1. a \in Seq(E) /\ b \in Seq(E)
      BY <1>4, <1>5
    <3> QED BY <3>1, Joining
  <2>2. (i - 1) + (n - i) = n - 1
    BY <1>1
  <2> QED BY <1>4, <1>5, <2>1, <2>2
<1>8. i = 1 => \A j \in 1..(n - 1) : (a \o b)[j] = q[j + 1]
  BY <1>1, <1>4, <1>5
<1> QED BY <1>1, <1>6, <1>7, <1>8

LEMMA GroupsFacts ==
  ASSUME G!TypeOK
  PROVE  /\ status \in [Chats -> G!Status] /\ overtaken \subseteq Chats /\ misled \subseteq Chats
         /\ events \in [Chats -> G!BoundedSeq(Waiting, MaxEvents)]
         /\ \A c \in Chats : events[c] \in Seq(Waiting) /\ Len(events[c]) \in Nat /\ Len(events[c]) <= MaxEvents
         /\ \A c \in Chats : member[c] \subseteq Users /\ admin[c] \subseteq Users
         /\ \A c \in Chats, u \in Users : net[c][u] \in Int /\ lost[c][u] \in Int
         /\ member \in [Chats -> SUBSET Users] /\ admin \in [Chats -> SUBSET Users]
         /\ net \in [Chats -> [Users -> Int]] /\ lost \in [Chats -> [Users -> Int]]
         /\ row \in [Chats -> [bot : G!Status, active : BOOLEAN] \cup {None}]
<1>1. events \in [Chats -> G!BoundedSeq(Waiting, MaxEvents)]
  BY DEF G!TypeOK, Waiting
<1>2. ASSUME NEW c \in Chats
      PROVE  events[c] \in Seq(Waiting) /\ Len(events[c]) \in Nat /\ Len(events[c]) <= MaxEvents
  <2>1. events[c] \in G!BoundedSeq(Waiting, MaxEvents)
    BY <1>1
  <2>2. events[c] \in Seq(Waiting) /\ Len(events[c]) <= MaxEvents
    BY <2>1, BoundedIsShort
  <2> QED BY <2>2
<1> QED BY <1>1, <1>2 DEF G!TypeOK

(* upsert_group writes a row, which makes the group a target where the     *)
(* status is an active one; mark_group_removed ends that.                  *)
LEMMA RowWritten ==
  ASSUME G!TypeOK, NEW c \in Chats, NEW s \in G!Status, G!UpsertGroup(c, s)
  PROVE  /\ row' \in [Chats -> [bot : G!Status, active : BOOLEAN] \cup {None}]
         /\ \A d \in Chats : d # c => row'[d] = row[d]
         /\ G!Target(c)' <=> s \in G!Active
<1>1. PICK r : r = row[c]
  OBVIOUS
<1>2. r \in [bot : G!Status, active : BOOLEAN] \cup {None}
  BY <1>1 DEF G!TypeOK
<1>3. PICK b : b = IF r # None /\ G!KeepsRights(r.bot, s) THEN r.bot ELSE s
  OBVIOUS
<1>4. b \in G!Status
  BY <1>2, <1>3
<1>5. s \in G!Active => b \notin G!Hidden
  BY <1>3 DEF G!Active, G!Hidden, G!KeepsRights
<1>6. PICK n : n = [bot |-> b, active |-> s \in G!Active]
  OBVIOUS
<1>7. row' = [row EXCEPT ![c] = n]
  BY <1>1, <1>3, <1>6 DEF G!UpsertGroup
<1>8. n \in [bot : G!Status, active : BOOLEAN] /\ n.bot = b /\ (n.active <=> s \in G!Active)
  <2>1. (s \in G!Active) \in BOOLEAN
    OBVIOUS
  <2> QED BY <1>4, <1>6, <2>1
<1>9. n # None
  BY <1>8, GroupsAssumption DEF GroupsAssumption
<1>10. /\ row' \in [Chats -> [bot : G!Status, active : BOOLEAN] \cup {None}]
       /\ row'[c] = n /\ \A d \in Chats : d # c => row'[d] = row[d]
  BY <1>7, <1>8 DEF G!TypeOK
<1>11. G!Target(c)' <=> row'[c] # None /\ row'[c].active /\ row'[c].bot \notin G!Hidden
  BY DEF G!Target, G!Hidden
<1> QED BY <1>5, <1>8, <1>9, <1>10, <1>11

LEMMA RowRemoved ==
  ASSUME G!TypeOK, NEW c \in Chats, G!MarkGroupRemoved(c)
  PROVE  /\ row' \in [Chats -> [bot : G!Status, active : BOOLEAN] \cup {None}]
         /\ \A d \in Chats : d # c => row'[d] = row[d]
         /\ ~G!Target(c)'
<1>1. PICK n : n = [bot |-> "left", active |-> FALSE]
  OBVIOUS
<1>2. n \in [bot : G!Status, active : BOOLEAN] /\ ~n.active
  BY <1>1 DEF G!Status, G!Hidden
<1>3. row' = [row EXCEPT ![c] = n]
  BY <1>1 DEF G!MarkGroupRemoved
<1> QED BY <1>2, <1>3 DEF G!TypeOK, G!Target

LEMMA OneOrMore == \A n \in Nat : n > 0 => n = 1 \/ n > 1
OBVIOUS

(* A handler that ends takes its change from the queue, or leaves it there *)
(* to be run again; unless it is marked as overtaking it is the first one. *)
LEMMA HandlerOrder ==
  ASSUME G!TypeOK, NEW c \in Chats, NEW i \in DOMAIN events[c], G!Handled(c, i) \/ G!Raised(c, i)
  PROVE  /\ events' \in [Chats -> G!BoundedSeq(Waiting, MaxEvents)]
         /\ overtaken \subseteq overtaken' /\ overtaken' \subseteq Chats
         /\ misled' = misled \ {c} /\ misled' \subseteq Chats
         /\ c \notin overtaken' => i = 1
         /\ \A d \in Chats : d # c => events'[d] = events[d] /\ (d \notin overtaken' => d \notin overtaken)
         /\ \/ events'[c] = events[c]
            \/ /\ Len(events'[c]) = Len(events[c]) - 1
               /\ i = 1 => \A j \in 1..(Len(events[c]) - 1) : events'[c][j] = events[c][j + 1]
<1>1. /\ events[c] \in Seq(Waiting) /\ Len(events[c]) \in Nat /\ Len(events[c]) <= MaxEvents
      /\ MaxEvents \in Nat /\ DOMAIN events[c] = 1..Len(events[c])
  BY GroupsFacts, GroupsAssumption DEF GroupsAssumption
<1>2. i \in Nat /\ i > 0 /\ i \in 1..Len(events[c])
  BY <1>1
<1>3. overtaken' = (IF i > 1 THEN overtaken \cup {c} ELSE overtaken) /\ misled' = misled \ {c}
  BY DEF G!Handled, G!Raised, G!Writes
<1>4. PICK q : q = G!RemoveAt(events[c], i)
  OBVIOUS
<1>5. /\ q \in Seq(Waiting) /\ Len(q) = Len(events[c]) - 1
      /\ i = 1 => \A j \in 1..(Len(events[c]) - 1) : q[j] = events[c][j + 1]
  BY <1>1, <1>2, <1>4, OneTaken
<1>6. q \in G!BoundedSeq(Waiting, MaxEvents)
  BY <1>1, <1>5, BoundedIsShort
<1>7. events' = events \/ events' = [events EXCEPT ![c] = q]
  BY <1>4 DEF G!Handled, G!Raised
<1>8. /\ events' \in [Chats -> G!BoundedSeq(Waiting, MaxEvents)]
      /\ \A d \in Chats : d # c => events'[d] = events[d]
      /\ events'[c] = events[c] \/ events'[c] = q
  BY <1>6, <1>7, GroupsFacts
<1>9. /\ overtaken \subseteq overtaken' /\ overtaken' \subseteq Chats
      /\ misled' = misled \ {c} /\ misled' \subseteq Chats
      /\ \A d \in Chats : d # c => (d \notin overtaken' => d \notin overtaken)
      /\ c \notin overtaken' => ~(i > 1)
  BY <1>3, GroupsFacts
<1>10. c \notin overtaken' => i = 1
  BY <1>2, <1>9, OneOrMore
<1> QED BY <1>5, <1>8, <1>9, <1>10

(* A change that waits is one Telegram sends. *)
LEMMA ChangeWaits ==
  ASSUME G!TypeOK, NEW c \in Chats, NEW i \in DOMAIN events[c]
  PROVE  events[c][i].status \in G!Status /\ events[c][i].actor \in Users \cup {None}
<1>1. PICK q \in Seq(Waiting) : q = events[c]
  BY GroupsFacts
<1>2. q[i] \in Waiting
  BY <1>1
<1> QED BY <1>1, <1>2 DEF Waiting

(* A handler that books what it flags, and flags what the status of its    *)
(* change allows, keeps the invariant.                                     *)
LEMMA HandlerKeeps ==
  ASSUME GroupsInv, NEW c \in Chats, NEW i \in DOMAIN events[c], G!Handled(c, i) \/ G!Raised(c, i),
         UNCHANGED status,
         row' \in [Chats -> [bot : G!Status, active : BOOLEAN] \cup {None}],
         \A d \in Chats : d # c => row'[d] = row[d],
         G!Target(c)' <=> events[c][i].status \in G!Active,
         member' \in [Chats -> SUBSET Users], admin' \in [Chats -> SUBSET Users],
         net' \in [Chats -> [Users -> Int]], lost' \in [Chats -> [Users -> Int]],
         \A d \in Chats : d # c =>
           member'[d] = member[d] /\ admin'[d] = admin[d] /\ net'[d] = net[d] /\ lost'[d] = lost[d],
         \A u, w \in member'[c] : u = w, admin'[c] \subseteq member'[c],
         \A u \in Users : net'[c][u] + lost'[c][u] = Flags(c, u)',
         events[c][i].status \in G!Hidden => member'[c] = {},
         events[c][i].status # "administrator" => admin'[c] = {}
  PROVE  GroupsInv'
<1>1. /\ events' \in [Chats -> G!BoundedSeq(Waiting, MaxEvents)]
      /\ overtaken \subseteq overtaken' /\ overtaken' \subseteq Chats
      /\ misled' = misled \ {c} /\ misled' \subseteq Chats
      /\ c \notin overtaken' => i = 1
      /\ \A d \in Chats : d # c => events'[d] = events[d] /\ (d \notin overtaken' => d \notin overtaken)
      /\ \/ events'[c] = events[c]
         \/ /\ Len(events'[c]) = Len(events[c]) - 1
            /\ i = 1 => \A j \in 1..(Len(events[c]) - 1) : events'[c][j] = events[c][j + 1]
  BY HandlerOrder DEF GroupsInv
<1>2. G!TypeOK'
  <2>1. Waiting' = Waiting /\ G!Status' = G!Status
    BY DEF Waiting, G!Status, G!Active, G!Hidden
  <2> QED BY <1>1, <2>1, GroupsFacts DEF GroupsInv, G!TypeOK, Waiting
<1>3. Held'
  <2> SUFFICES ASSUME NEW d \in Chats
               PROVE  (\A u, w \in member'[d] : u = w) /\ admin'[d] \subseteq member'[d]
    BY DEF Held
  <2>1. (\A u, w \in member[d] : u = w) /\ admin[d] \subseteq member[d]
    BY DEF GroupsInv, Held
  <2>2. CASE d # c
    BY <2>1, <2>2
  <2>3. CASE d = c
    BY <2>3
  <2> QED BY <2>2, <2>3
<1>4. Credited'
  <2> SUFFICES ASSUME NEW d \in Chats, NEW u \in Users PROVE net'[d][u] + lost'[d][u] = Flags(d, u)'
    BY DEF Credited
  <2>1. CASE d # c
    <3>1. net[d][u] + lost[d][u] = Flags(d, u)
      BY DEF GroupsInv, Credited
    <3>2. Flags(d, u)' = Flags(d, u)
      BY <2>1 DEF Flags
    <3> QED BY <2>1, <3>1, <3>2
  <2> QED BY <2>1
<1>5. Followed'
  <2> SUFFICES ASSUME NEW d \in Chats, d \notin overtaken'
               PROVE  /\ Len(events'[d]) = 0 => Settled(d)'
                      /\ Len(events'[d]) > 0 => events'[d][Len(events'[d])].status = status'[d]
    BY DEF Followed
  <2>1. CASE d # c
    <3>1. /\ Len(events[d]) = 0 => Settled(d)
          /\ Len(events[d]) > 0 => events[d][Len(events[d])].status = status[d]
      BY <1>1, <2>1 DEF GroupsInv, Followed
    <3> QED BY <1>1, <2>1, <3>1 DEF Settled
  <2>2. CASE d = c
    <3>1. /\ i = 1 /\ c \notin overtaken
          /\ Len(events[c]) \in Nat /\ DOMAIN events[c] = 1..Len(events[c]) /\ Len(events[c]) > 0
      BY <1>1, <2>2, GroupsFacts DEF GroupsInv
    <3>2. events[c][Len(events[c])].status = status[c]
      BY <3>1 DEF GroupsInv, Followed
    <3>3. CASE events'[c] = events[c]
      BY <2>2, <3>1, <3>2, <3>3
    <3>4. CASE /\ Len(events'[c]) = Len(events[c]) - 1
               /\ \A j \in 1..(Len(events[c]) - 1) : events'[c][j] = events[c][j + 1]
      <4>1. CASE Len(events[c]) = 1
        <5>1. events[c][i].status = status[c]
          BY <3>1, <3>2, <4>1
        <5> QED BY <2>2, <3>4, <4>1, <5>1 DEF Settled
      <4>2. CASE Len(events[c]) > 1
        <5>1. Len(events[c]) - 1 \in 1..(Len(events[c]) - 1) /\ Len(events[c]) - 1 + 1 = Len(events[c])
          BY <3>1, <4>2
        <5>2. events'[c][Len(events'[c])] = events[c][Len(events[c])]
          BY <3>4, <5>1
        <5> QED BY <2>2, <3>1, <3>2, <3>4, <4>2, <5>2
      <4> QED BY <3>1, <4>1, <4>2, OneOrMore
    <3> QED BY <1>1, <3>1, <3>3, <3>4
  <2> QED BY <2>1, <2>2
<1>6. Listed'
  <2> SUFFICES ASSUME NEW d \in Chats, d \notin overtaken', d \notin misled', Len(events'[d]) = 0
               PROVE  G!Target(d)' <=> status'[d] \in G!Active
    BY DEF Listed, G!Active
  <2>1. CASE d # c
    <3>1. G!Target(d) <=> status[d] \in G!Active
      BY <1>1, <2>1 DEF GroupsInv, Listed
    <3>2. G!Target(d)' <=> G!Target(d)
      BY <2>1 DEF G!Target, G!Hidden
    <3> QED BY <3>1, <3>2
  <2>2. CASE d = c
    <3>1. /\ i = 1 /\ c \notin overtaken
          /\ Len(events[c]) \in Nat /\ DOMAIN events[c] = 1..Len(events[c]) /\ Len(events[c]) > 0
      BY <1>1, <2>2, GroupsFacts DEF GroupsInv
    <3>2. events[c][Len(events[c])].status = status[c]
      BY <3>1 DEF GroupsInv, Followed
    <3>3. Len(events[c]) = 1
      BY <1>1, <2>2, <3>1
    <3> QED BY <2>2, <3>1, <3>2, <3>3
  <2> QED BY <2>1, <2>2
<1> QED BY <1>2, <1>3, <1>4, <1>5, <1>6 DEF GroupsInv

(* A table takes an amount for each user of a chat. *)
LEMMA Booking ==
  ASSUME NEW t0 \in [Chats -> [Users -> Int]], NEW t1, NEW c \in Chats, NEW amount,
         \A u \in Users : amount[u] \in Int,
         t1 = [t0 EXCEPT ![c] = [u \in Users |-> @[u] + amount[u]]]
  PROVE  /\ t1 \in [Chats -> [Users -> Int]]
         /\ \A d \in Chats : d # c => t1[d] = t0[d]
         /\ \A u \in Users : t1[c][u] = t0[c][u] + amount[u]
<1>1. PICK f : f = [u \in Users |-> t0[c][u] + amount[u]]
  OBVIOUS
<1>2. f \in [Users -> Int] /\ \A u \in Users : f[u] = t0[c][u] + amount[u]
  BY <1>1
<1>3. t1 = [t0 EXCEPT ![c] = f]
  BY <1>1
<1> QED BY <1>2, <1>3

LEMMA OnlyOne ==
  ASSUME NEW o \in Users, NEW n \in Int
  PROVE  \A u \in Users : G!Only(o, n)[u] = (IF u = o THEN n ELSE 0) /\ G!Only(o, n)[u] \in Int
BY DEF G!Only, G!Nobody

(* Joined or promoted: the one who holds the rewards gets them, or, where  *)
(* there is none yet, the one who asks.                                    *)
LEMMA GroupJoined ==
  ASSUME GroupsInv, NEW c \in Chats, NEW i \in DOMAIN events[c], G!Joined(c, i)
  PROVE  GroupsInv'
<1>1. PICK e : e = events[c][i]
  OBVIOUS
<1>2. PICK o : o = G!OwnerForChat(c, e.actor)
  OBVIOUS
<1>3. /\ e.status \in G!Active /\ o # None
      /\ e.status = "member" => G!RevokedAdmin(c, e.status) = {}
      /\ G!UpsertGroup(c, e.status) /\ UNCHANGED status
      /\ \E failed \in 0..2 : G!Grants(c, o, e.status, failed) /\ G!Ends(c, i, failed > 0)
  BY <1>1, <1>2 DEF G!Joined
<1>4. e.status \in G!Status /\ e.actor \in Users \cup {None}
  BY <1>1, ChangeWaits DEF GroupsInv
<1>5. member[c] \subseteq Users /\ admin[c] \subseteq member[c] /\ \A u, w \in member[c] : u = w
  BY GroupsFacts DEF GroupsInv, Held
<1>6. o \in Users /\ (member[c] = {} \/ o \in member[c])
  <2>1. CASE member[c] = {}
    BY <1>2, <1>3, <1>4, <2>1 DEF G!OwnerForChat
  <2>2. CASE member[c] # {}
    <3>1. o = CHOOSE u \in member[c] : TRUE
      BY <1>2, <2>2 DEF G!OwnerForChat
    <3>2. o \in member[c]
      BY <2>2, <3>1
    <3> QED BY <1>5, <3>2
  <2> QED BY <2>1, <2>2
<1>7. PICK failed \in 0..2 : G!Grants(c, o, e.status, failed) /\ G!Ends(c, i, failed > 0)
  BY <1>3
<1>8. G!Handled(c, i) \/ G!Raised(c, i)
  BY <1>7 DEF G!Ends
<1>9. PICK m : m = IF o \in member[c] THEN 0 ELSE 1
  OBVIOUS
<1>10. PICK a : a = IF e.status = "administrator" /\ o \notin admin[c] THEN 1 ELSE 0
  OBVIOUS
<1>11. m \in {0, 1} /\ a \in {0, 1} /\ failed \in Int /\ (m + a) - failed \in Int
  BY <1>9, <1>10
<1>12. /\ member' = [member EXCEPT ![c] = @ \cup {o}]
       /\ admin' = [admin EXCEPT ![c] = IF e.status = "administrator" THEN @ \cup {o} ELSE @]
       /\ G!Books(net, c, G!Only(o, (m + a) - failed)) /\ G!Books(lost, c, G!Only(o, failed))
  BY <1>7, <1>9, <1>10 DEF G!Grants
<1>13. /\ net' \in [Chats -> [Users -> Int]] /\ \A d \in Chats : d # c => net'[d] = net[d]
       /\ \A u \in Users : net'[c][u] = net[c][u] + G!Only(o, (m + a) - failed)[u]
  <2>1. PICK f : f = G!Only(o, (m + a) - failed)
    OBVIOUS
  <2>2. \A u \in Users : f[u] \in Int
    BY <1>6, <1>11, <2>1, OnlyOne
  <2>3. net' = [net EXCEPT ![c] = [u \in Users |-> @[u] + f[u]]]
    BY <1>12, <2>1 DEF G!Books
  <2>4. net \in [Chats -> [Users -> Int]]
    BY GroupsFacts DEF GroupsInv
  <2> QED BY <2>1, <2>2, <2>3, <2>4, Booking
<1>14. /\ lost' \in [Chats -> [Users -> Int]] /\ \A d \in Chats : d # c => lost'[d] = lost[d]
       /\ \A u \in Users : lost'[c][u] = lost[c][u] + G!Only(o, failed)[u]
  <2>1. PICK f : f = G!Only(o, failed)
    OBVIOUS
  <2>2. \A u \in Users : f[u] \in Int
    BY <1>6, <1>11, <2>1, OnlyOne
  <2>3. lost' = [lost EXCEPT ![c] = [u \in Users |-> @[u] + f[u]]]
    BY <1>12, <2>1 DEF G!Books
  <2>4. lost \in [Chats -> [Users -> Int]]
    BY GroupsFacts DEF GroupsInv
  <2> QED BY <2>1, <2>2, <2>3, <2>4, Booking
<1>15. member'[c] = member[c] \cup {o} /\ admin'[c] = IF e.status = "administrator" THEN admin[c] \cup {o} ELSE admin[c]
  BY <1>12, GroupsFacts DEF GroupsInv
<1>16. /\ member' \in [Chats -> SUBSET Users] /\ admin' \in [Chats -> SUBSET Users]
       /\ \A d \in Chats : d # c => member'[d] = member[d] /\ admin'[d] = admin[d]
  <2>1. PICK ma : ma = member[c] \cup {o}
    OBVIOUS
  <2>2. PICK aa : aa = IF e.status = "administrator" THEN admin[c] \cup {o} ELSE admin[c]
    OBVIOUS
  <2>3. ma \in SUBSET Users /\ aa \in SUBSET Users
    BY <1>5, <1>6, <2>1, <2>2
  <2>4. member' = [member EXCEPT ![c] = ma] /\ admin' = [admin EXCEPT ![c] = aa]
    BY <1>12, <2>1, <2>2
  <2> QED BY <2>3, <2>4, GroupsFacts DEF GroupsInv
<1>17. (\A u, w \in member'[c] : u = w) /\ admin'[c] \subseteq member'[c]
  BY <1>5, <1>6, <1>15
<1>18. \A u \in Users : net'[c][u] + lost'[c][u] = Flags(c, u)'
  <2> SUFFICES ASSUME NEW u \in Users PROVE net'[c][u] + lost'[c][u] = Flags(c, u)'
    OBVIOUS
  <2>1. net[c][u] \in Int /\ lost[c][u] \in Int /\ net[c][u] + lost[c][u] = Flags(c, u)
    BY GroupsFacts DEF GroupsInv, Credited
  <2>2. CASE u # o
    <3>1. net'[c][u] = net[c][u] /\ lost'[c][u] = lost[c][u]
      BY <1>6, <1>11, <1>13, <1>14, <2>1, <2>2, OnlyOne
    <3>2. Flags(c, u)' = Flags(c, u)
      BY <1>15, <2>2 DEF Flags
    <3> QED BY <2>1, <3>1, <3>2
  <2>3. CASE u = o
    <3>1. net'[c][u] = net[c][u] + ((m + a) - failed) /\ lost'[c][u] = lost[c][u] + failed
      BY <1>6, <1>11, <1>13, <1>14, <2>3, OnlyOne
    <3>2. Flags(c, u)' = Flags(c, u) + m + a
      BY <1>9, <1>10, <1>15, <2>3 DEF Flags
    <3> QED BY <1>11, <2>1, <3>1, <3>2
  <2> QED BY <2>2, <2>3
<1>19. e.status \notin G!Hidden /\ (e.status # "administrator" => admin'[c] = {})
  <2>1. e.status \in {"member", "administrator"}
    BY <1>3 DEF G!Active
  <2>2. e.status # "administrator" => admin'[c] = admin[c] /\ G!RevokedAdmin(c, e.status) = {}
    BY <1>3, <1>15, <2>1
  <2> QED BY <2>1, <2>2 DEF G!Hidden, G!RevokedAdmin
<1>20. /\ row' \in [Chats -> [bot : G!Status, active : BOOLEAN] \cup {None}]
       /\ \A d \in Chats : d # c => row'[d] = row[d]
       /\ G!Target(c)' <=> events[c][i].status \in G!Active
  BY <1>1, <1>3, <1>4, RowWritten DEF GroupsInv
<1> QED BY <1>1, <1>3, <1>8, <1>13, <1>14, <1>16, <1>17, <1>18, <1>19, <1>20, HandlerKeeps

(* A change that needs no reward: the group is too small for one. *)
LEMMA GroupTooSmall ==
  ASSUME GroupsInv, NEW c \in Chats, NEW i \in DOMAIN events[c], G!TooSmall(c, i)
  PROVE  GroupsInv'
<1>1. PICK e : e = events[c][i]
  OBVIOUS
<1>2. /\ e.status = "administrator" \/ (e.status = "member" /\ G!RevokedAdmin(c, e.status) = {})
      /\ G!UpsertGroup(c, e.status) /\ G!Handled(c, i)
      /\ UNCHANGED <<status, member, admin, net, lost>>
  BY <1>1 DEF G!TooSmall, G!rewards
<1>3. /\ row' \in [Chats -> [bot : G!Status, active : BOOLEAN] \cup {None}]
      /\ \A d \in Chats : d # c => row'[d] = row[d]
      /\ G!Target(c)' <=> events[c][i].status \in G!Active
  BY <1>1, <1>2, ChangeWaits, RowWritten DEF GroupsInv
<1>4. e.status \notin G!Hidden /\ (e.status # "administrator" => admin[c] = {})
  BY <1>2 DEF G!Hidden, G!RevokedAdmin
<1>5. \A u, w \in member[c] : u = w
  BY DEF GroupsInv, Held
<1>6. admin[c] \subseteq member[c]
  BY DEF GroupsInv, Held
<1>7. \A u \in Users : net'[c][u] + lost'[c][u] = Flags(c, u)'
  BY <1>2 DEF GroupsInv, Credited, Flags
<1> QED BY <1>1, <1>2, <1>3, <1>4, <1>5, <1>6, <1>7, GroupsFacts, HandlerKeeps DEF GroupsInv

LEMMA TakenBack == \A x, y, f, d \in Int : (x + (f - d)) + (y + (-f)) = (x + y) - d
OBVIOUS

(* Removed or demoted: what is not allowed any more is taken back.         *)
LEMMA GroupRemoved ==
  ASSUME GroupsInv, NEW c \in Chats, NEW i \in DOMAIN events[c], G!RemovedOrDemotedHandler(c, i)
  PROVE  GroupsInv'
<1>1. PICK e : e = events[c][i]
  OBVIOUS
<1>2. PICK failed \in [Users -> 0..2] :
        G!RemovedOrDemoted(c, events[c][i].status, failed) /\ G!Ends(c, i, failed # G!Nobody)
  BY DEF G!RemovedOrDemotedHandler
<1>3. /\ e.status \notin G!Active \/ (e.status = "member" /\ G!RevokedAdmin(c, e.status) # {})
      /\ G!UpsertGroup(c, e.status) /\ UNCHANGED status
  BY <1>1 DEF G!RemovedOrDemotedHandler
<1>4. G!Handled(c, i) \/ G!Raised(c, i)
  BY <1>2 DEF G!Ends
<1>5. PICK m : m = G!RevokedMember(c, e.status)
  OBVIOUS
<1>6. PICK a : a = G!RevokedAdmin(c, e.status)
  OBVIOUS
<1>7. PICK due : due = [u \in Users |-> (IF u \in m THEN 1 ELSE 0) + (IF u \in a THEN 1 ELSE 0)]
  OBVIOUS
<1>8. PICK back : back = [u \in Users |-> failed[u] - due[u]]
  OBVIOUS
<1>9. PICK owed : owed = [u \in Users |-> -failed[u]]
  OBVIOUS
<1>10. /\ member' = [member EXCEPT ![c] = @ \ m]
       /\ admin' = [admin EXCEPT ![c] = @ \ a]
       /\ G!Books(net, c, back) /\ G!Books(lost, c, owed)
  BY <1>1, <1>2, <1>5, <1>6, <1>7, <1>8, <1>9 DEF G!RemovedOrDemoted
<1>11. \A u \in Users : /\ due[u] = (IF u \in m THEN 1 ELSE 0) + (IF u \in a THEN 1 ELSE 0)
                        /\ due[u] \in Int /\ failed[u] \in Int
  BY <1>2, <1>7
<1>12. \A u \in Users : back[u] = failed[u] - due[u] /\ owed[u] = -failed[u] /\ back[u] \in Int /\ owed[u] \in Int
  BY <1>8, <1>9, <1>11
<1>13. /\ net' \in [Chats -> [Users -> Int]] /\ \A d \in Chats : d # c => net'[d] = net[d]
       /\ \A u \in Users : net'[c][u] = net[c][u] + back[u]
  <2>1. net' = [net EXCEPT ![c] = [u \in Users |-> @[u] + back[u]]]
    BY <1>10 DEF G!Books
  <2>2. net \in [Chats -> [Users -> Int]]
    BY GroupsFacts DEF GroupsInv
  <2> QED BY <1>12, <2>1, <2>2, Booking
<1>14. /\ lost' \in [Chats -> [Users -> Int]] /\ \A d \in Chats : d # c => lost'[d] = lost[d]
       /\ \A u \in Users : lost'[c][u] = lost[c][u] + owed[u]
  <2>1. lost' = [lost EXCEPT ![c] = [u \in Users |-> @[u] + owed[u]]]
    BY <1>10 DEF G!Books
  <2>2. lost \in [Chats -> [Users -> Int]]
    BY GroupsFacts DEF GroupsInv
  <2> QED BY <1>12, <2>1, <2>2, Booking
<1>15. /\ member' \in [Chats -> SUBSET Users] /\ admin' \in [Chats -> SUBSET Users]
       /\ \A d \in Chats : d # c => member'[d] = member[d] /\ admin'[d] = admin[d]
       /\ member'[c] = member[c] \ m /\ admin'[c] = admin[c] \ a
  BY <1>10, GroupsFacts DEF GroupsInv
<1>16. (\A u, w \in member[c] : u = w) /\ admin[c] \subseteq member[c]
  BY DEF GroupsInv, Held
<1>17. m = (IF e.status \in G!Hidden THEN member[c] ELSE {}) /\ a = admin[c]
  <2>1. e.status # "administrator"
    BY <1>3 DEF G!Active
  <2> QED BY <1>5, <1>6, <2>1 DEF G!RevokedMember, G!RevokedAdmin
<1>18. admin'[c] = {} /\ (e.status \in G!Hidden => member'[c] = {})
  BY <1>15, <1>17
<1>19. \A u \in Users : net'[c][u] + lost'[c][u] = Flags(c, u)'
  <2> SUFFICES ASSUME NEW u \in Users PROVE net'[c][u] + lost'[c][u] = Flags(c, u)'
    OBVIOUS
  <2>1. net[c][u] \in Int /\ lost[c][u] \in Int /\ net[c][u] + lost[c][u] = Flags(c, u)
    BY GroupsFacts DEF GroupsInv, Credited
  <2>2. net'[c][u] + lost'[c][u] = Flags(c, u) - due[u]
    <3>1. net'[c][u] = net[c][u] + (failed[u] - due[u]) /\ lost'[c][u] = lost[c][u] + (-failed[u])
      BY <1>12, <1>13, <1>14
    <3>2. failed[u] \in Int /\ due[u] \in Int
      BY <1>11
    <3>3. (net[c][u] + (failed[u] - due[u])) + (lost[c][u] + (-failed[u])) = (net[c][u] + lost[c][u]) - due[u]
      <4>1. PICK x \in Int, y \in Int, f \in Int, d \in Int :
              x = net[c][u] /\ y = lost[c][u] /\ f = failed[u] /\ d = due[u]
        BY <2>1, <3>2
      <4> QED BY <4>1, TakenBack
    <3> QED BY <2>1, <3>1, <3>3
  <2>3. Flags(c, u)' = Flags(c, u) - due[u]
    <3>1. u \in m <=> u \in member[c] /\ u \notin member'[c]
      BY <1>15, <1>17
    <3>2. u \in a <=> u \in admin[c] /\ u \notin admin'[c]
      BY <1>15, <1>17
    <3>3. (u \in member'[c] => u \in member[c]) /\ (u \in admin'[c] => u \in admin[c])
      BY <1>15
    <3>4. due[u] = (IF u \in m THEN 1 ELSE 0) + (IF u \in a THEN 1 ELSE 0)
      BY <1>11
    <3>5. CASE u \in m /\ u \in a
      BY <3>1, <3>2, <3>4, <3>5 DEF Flags
    <3>6. CASE u \in m /\ u \notin a
      BY <3>1, <3>2, <3>3, <3>4, <3>6 DEF Flags
    <3>7. CASE u \notin m /\ u \in a
      BY <3>1, <3>2, <3>3, <3>4, <3>7 DEF Flags
    <3>8. CASE u \notin m /\ u \notin a
      BY <3>1, <3>2, <3>3, <3>4, <3>8 DEF Flags
    <3> QED BY <3>5, <3>6, <3>7, <3>8
  <2> QED BY <2>2, <2>3
<1>20. /\ row' \in [Chats -> [bot : G!Status, active : BOOLEAN] \cup {None}]
       /\ \A d \in Chats : d # c => row'[d] = row[d]
       /\ G!Target(c)' <=> events[c][i].status \in G!Active
  BY <1>1, <1>3, ChangeWaits, RowWritten DEF GroupsInv
<1>21. (\A u, w \in member'[c] : u = w) /\ admin'[c] \subseteq member'[c]
  BY <1>15, <1>16, <1>18
<1>22. \A d \in Chats : d # c =>
         member'[d] = member[d] /\ admin'[d] = admin[d] /\ net'[d] = net[d] /\ lost'[d] = lost[d]
  BY <1>13, <1>14, <1>15
<1>23. /\ events[c][i].status \in G!Hidden => member'[c] = {}
       /\ events[c][i].status # "administrator" => admin'[c] = {}
  BY <1>1, <1>18
<1>24. UNCHANGED status
  BY <1>3
<1> QED BY <1>4, <1>13, <1>14, <1>15, <1>19, <1>20, <1>21, <1>22, <1>23, <1>24, HandlerKeeps

(* The status changes; the new change is the last one that waits. *)
LEMMA GroupChanges ==
  ASSUME GroupsInv, NEW c \in Chats, NEW s \in G!Status, NEW actor \in Users \cup {None},
         G!StatusChanges(c, s, actor)
  PROVE  GroupsInv'
<1>1. PICK e : e = [status |-> s, actor |-> actor]
  OBVIOUS
<1>2. /\ Len(events[c]) < MaxEvents
      /\ status' = [status EXCEPT ![c] = s] /\ events' = [events EXCEPT ![c] = Append(@, e)]
      /\ UNCHANGED <<overtaken, row, misled, member, admin, net, lost>>
  BY <1>1 DEF G!StatusChanges, G!rewards
<1>3. e \in Waiting /\ e.status = s
  BY <1>1 DEF Waiting
<1>4. PICK q \in Seq(Waiting) : q = events[c]
  BY GroupsFacts DEF GroupsInv
<1>5. PICK p : p = Append(q, e)
  OBVIOUS
<1>6. p \in Seq(Waiting) /\ Len(p) = Len(q) + 1 /\ p[Len(p)] = e /\ Len(q) \in Nat
  BY <1>3, <1>4, <1>5
<1>7. p \in G!BoundedSeq(Waiting, MaxEvents)
  <2>1. Len(p) <= MaxEvents
    BY <1>2, <1>4, <1>6, GroupsAssumption DEF GroupsAssumption
  <2> QED BY <1>6, <2>1, BoundedIsShort
<1>8. /\ events' \in [Chats -> G!BoundedSeq(Waiting, MaxEvents)]
      /\ events'[c] = p /\ \A d \in Chats : d # c => events'[d] = events[d]
  <2>1. events' = [events EXCEPT ![c] = p]
    BY <1>2, <1>4, <1>5
  <2> QED BY <1>7, <2>1, GroupsFacts DEF GroupsInv
<1>9. /\ status' \in [Chats -> G!Status] /\ status'[c] = s
      /\ \A d \in Chats : d # c => status'[d] = status[d]
  BY <1>2, GroupsFacts DEF GroupsInv
<1>10. G!TypeOK'
  BY <1>2, <1>8, <1>9, GroupsFacts DEF GroupsInv, G!TypeOK, Waiting, G!Status, G!Active, G!Hidden
<1>11. Held' /\ Credited'
  BY <1>2 DEF GroupsInv, Held, Credited, Flags
<1>12. Followed'
  <2> SUFFICES ASSUME NEW d \in Chats, d \notin overtaken
               PROVE  /\ Len(events'[d]) = 0 => Settled(d)'
                      /\ Len(events'[d]) > 0 => events'[d][Len(events'[d])].status = status'[d]
    BY <1>2 DEF Followed
  <2>1. CASE d = c
    <3>1. Len(events'[d]) # 0
      BY <1>6, <1>8, <2>1
    <3> QED BY <1>3, <1>6, <1>8, <1>9, <2>1, <3>1
  <2>2. CASE d # c
    BY <1>2, <1>8, <1>9, <2>2 DEF GroupsInv, Followed, Settled
  <2> QED BY <2>1, <2>2
<1>13. Listed'
  <2> SUFFICES ASSUME NEW d \in Chats, d \notin overtaken, d \notin misled, Len(events'[d]) = 0
               PROVE  G!Target(d)' <=> status'[d] \in G!Active
    BY <1>2 DEF Listed, G!Active
  <2>1. d # c
    BY <1>6, <1>8
  <2>2. G!Target(d) <=> status[d] \in G!Active
    BY <1>8, <2>1 DEF GroupsInv, Listed
  <2>3. G!Target(d)' <=> G!Target(d)
    BY <1>2 DEF G!Target, G!Hidden
  <2> QED BY <1>9, <2>1, <2>2, <2>3
<1> QED BY <1>10, <1>11, <1>12, <1>13 DEF GroupsInv

(* The other writers of the row give and take no reward, and are noted     *)
(* where they contradict what the bot is.                                  *)
LEMMA GroupWrites ==
  ASSUME GroupsInv, NEW c \in Chats, G!TrackGroupMessage(c) \/ G!SendFails(c)
  PROVE  GroupsInv'
<1>1. UNCHANGED <<status, events, overtaken, member, admin, net, lost>>
  BY DEF G!TrackGroupMessage, G!SendFails, G!rewards
<1>2. /\ row' \in [Chats -> [bot : G!Status, active : BOOLEAN] \cup {None}]
      /\ \A d \in Chats : d # c => row'[d] = row[d] /\ (d \in misled' <=> d \in misled)
      /\ misled' \subseteq Chats
      /\ c \notin misled' => (G!Target(c)' <=> status[c] \in G!Active)
  <2>1. CASE G!TrackGroupMessage(c)
    <3>1. G!UpsertGroup(c, "member") /\ "member" \in G!Status /\ "member" \in G!Active
      BY <2>1 DEF G!TrackGroupMessage, G!Status, G!Active
    <3>2. /\ row' \in [Chats -> [bot : G!Status, active : BOOLEAN] \cup {None}]
          /\ \A d \in Chats : d # c => row'[d] = row[d]
          /\ G!Target(c)'
      BY <3>1, RowWritten DEF GroupsInv
    <3>3. misled' = IF status[c] \in G!Active THEN misled \ {c} ELSE misled \cup {c}
      BY <2>1 DEF G!TrackGroupMessage
    <3> QED BY <3>2, <3>3, GroupsFacts DEF GroupsInv
  <2>2. CASE G!SendFails(c)
    <3>1. G!MarkGroupRemoved(c)
      BY <2>2 DEF G!SendFails
    <3>2. /\ row' \in [Chats -> [bot : G!Status, active : BOOLEAN] \cup {None}]
          /\ \A d \in Chats : d # c => row'[d] = row[d]
          /\ ~G!Target(c)'
      BY <3>1, RowRemoved DEF GroupsInv
    <3>3. misled' = IF status[c] \in G!Active THEN misled \cup {c} ELSE misled \ {c}
      BY <2>2 DEF G!SendFails
    <3> QED BY <3>2, <3>3, GroupsFacts DEF GroupsInv
  <2> QED BY <2>1, <2>2
<1>3. G!TypeOK'
  BY <1>1, <1>2 DEF GroupsInv, G!TypeOK, G!Status, G!Active, G!Hidden
<1>4. Held' /\ Credited' /\ Followed'
  BY <1>1 DEF GroupsInv, Held, Credited, Followed, Settled, Flags
<1>5. Listed'
  <2> SUFFICES ASSUME NEW d \in Chats, d \notin overtaken, d \notin misled', Len(events[d]) = 0
               PROVE  G!Target(d)' <=> status[d] \in G!Active
    BY <1>1 DEF Listed, G!Active
  <2>1. CASE d = c
    BY <1>2, <2>1
  <2>2. CASE d # c
    <3>1. G!Target(d) <=> status[d] \in G!Active
      BY <1>2, <2>2 DEF GroupsInv, Listed
    <3>2. G!Target(d)' <=> G!Target(d)
      BY <1>2, <2>2 DEF G!Target, G!Hidden
    <3> QED BY <3>1, <3>2
  <2> QED BY <2>1, <2>2
<1> QED BY <1>3, <1>4, <1>5 DEF GroupsInv

LEMMA GroupIdles == ASSUME GroupsInv, UNCHANGED G!vars PROVE GroupsInv'
<1>1. UNCHANGED <<status, events, overtaken, row, misled, member, admin, net, lost>>
  BY DEF G!vars
<1>2. G!TypeOK'
  BY <1>1 DEF GroupsInv, G!TypeOK, G!Status, G!Active, G!Hidden
<1>3. Held' /\ Credited' /\ Followed'
  BY <1>1 DEF GroupsInv, Held, Credited, Followed, Settled, Flags
<1>4. Listed'
  BY <1>1 DEF GroupsInv, Listed, G!Target, G!Active, G!Hidden
<1> QED BY <1>2, <1>3, <1>4 DEF GroupsInv

LEMMA GroupsInitially == G!Init => GroupsInv
<1> SUFFICES ASSUME G!Init PROVE GroupsInv
  OBVIOUS
<1>1. /\ status = [c \in Chats |-> "left"] /\ events = [c \in Chats |-> <<>>] /\ overtaken = {}
      /\ row = [c \in Chats |-> None] /\ misled = {}
      /\ member = [c \in Chats |-> {}] /\ admin = [c \in Chats |-> {}]
      /\ net = [c \in Chats |-> [u \in Users |-> 0]] /\ lost = net
  BY DEF G!Init
<1>2. PICK q : q = <<>>
  OBVIOUS
<1>3. q \in Seq(Waiting) /\ Len(q) = 0
  BY <1>2
<1>4. q \in G!BoundedSeq(Waiting, MaxEvents)
  <2>1. Len(q) <= MaxEvents
    BY <1>3, GroupsAssumption DEF GroupsAssumption
  <2> QED BY <1>3, <2>1, BoundedIsShort
<1>5. events \in [Chats -> G!BoundedSeq(Waiting, MaxEvents)]
  BY <1>1, <1>2, <1>4
<1>6. status \in [Chats -> G!Status]
  BY <1>1 DEF G!Status, G!Hidden
<1>7. G!TypeOK
  <2>1. member \in [Chats -> SUBSET Users] /\ admin \in [Chats -> SUBSET Users]
       /\ overtaken \subseteq Chats /\ misled \subseteq Chats
    BY <1>1
  <2>2. row \in [Chats -> [bot : G!Status, active : BOOLEAN] \cup {None}]
    BY <1>1
  <2>3. net \in [Chats -> [Users -> Int]] /\ lost \in [Chats -> [Users -> Int]]
    BY <1>1
  <2> QED BY <1>5, <1>6, <2>1, <2>2, <2>3 DEF G!TypeOK, Waiting
<1>8. Held /\ Credited
  BY <1>1 DEF Held, Credited, Flags
<1>9. Followed /\ Listed
  <2>1. Followed
    BY <1>1 DEF Followed, Settled
  <2>2. Listed
    BY <1>1 DEF Listed, G!Target, G!Active
  <2> QED BY <2>1, <2>2
<1> QED BY <1>7, <1>8, <1>9 DEF GroupsInv

LEMMA GroupsInvariance == ASSUME GroupsInv, [G!Next]_G!vars PROVE GroupsInv'
<1>1. CASE UNCHANGED G!vars
  BY <1>1, GroupIdles
<1>2. CASE G!Next
  <2>1. PICK c \in Chats :
          \/ \E s \in G!Status, actor \in Users \cup {None} : G!StatusChanges(c, s, actor)
          \/ \E i \in DOMAIN events[c] : G!Joined(c, i) \/ G!TooSmall(c, i) \/ G!RemovedOrDemotedHandler(c, i)
          \/ G!TrackGroupMessage(c) \/ G!SendFails(c)
    BY <1>2 DEF G!Next
  <2> QED BY <2>1, GroupChanges, GroupJoined, GroupTooSmall, GroupRemoved, GroupWrites
<1> QED BY <1>1, <1>2

LEMMA GroupsInvariant == G!Spec => []GroupsInv
<1>1. G!Init => GroupsInv
  BY GroupsInitially
<1>2. GroupsInv /\ [G!Next]_G!vars => GroupsInv'
  BY GroupsInvariance
<1> QED BY <1>1, <1>2, PTL DEF G!Spec

(* However the bot joins, leaves and is promoted, in whatever order its    *)
(* handlers run and whichever credits fail, one inviter at a time holds    *)
(* the rewards of a group, the ledger says what his flags say, and a bot   *)
(* that is out leaves none behind.                                         *)
THEOREM RewardsFollow == G!Spec => []RewardsFollowTheBot
<1>1. GroupsInv => RewardsFollowTheBot
  <2> SUFFICES ASSUME GroupsInv, NEW c \in Chats
               PROVE  /\ G!Cardinality(member[c]) <= 1 /\ admin[c] \subseteq member[c]
                      /\ \A u \in Users : net[c][u] + lost[c][u] = Flags(c, u)
                      /\ events[c] = <<>> /\ c \notin overtaken => Settled(c)
    BY DEF RewardsFollowTheBot, G!RewardsFollowTheBot, Flags, Settled
  <2>1. G!Cardinality(member[c]) = Cardinality(member[c])
    BY DEF G!Cardinality, Cardinality
  <2>2. Cardinality(member[c]) <= 1
    <3>1. \A u, w \in member[c] : u = w
      BY DEF GroupsInv, Held
    <3>2. CASE member[c] = {}
      BY <3>2, FS_EmptySet
    <3>3. CASE member[c] # {}
      <4>1. PICK u : u \in member[c]
        BY <3>3
      <4>2. member[c] = {u}
        BY <3>1, <4>1
      <4> QED BY <4>2, FS_Singleton
    <3> QED BY <3>2, <3>3
  <2>3. events[c] = <<>> => Len(events[c]) = 0
    OBVIOUS
  <2> QED BY <2>1, <2>2, <2>3 DEF GroupsInv, Held, Credited, Followed
<1> QED BY <1>1, GroupsInvariant, PTL

(* Whatever joins, leaves, messages, failing sends and failing credits     *)
(* there were, target_group_ids lists the groups the bot is in once all    *)
(* changes are handled in order, but for those where a late message or a   *)
(* failing send came last and said the opposite.                           *)
THEOREM TargetsFollow == G!Spec => []TargetsFollowTheBot
<1>1. GroupsInv => TargetsFollowTheBot
  <2> SUFFICES ASSUME GroupsInv, NEW c \in Chats, events[c] = <<>>, c \notin overtaken, c \notin misled
               PROVE  G!Target(c) <=> status[c] \in G!Active
    BY DEF TargetsFollowTheBot, G!TargetsFollowTheBot
  <2>1. Len(events[c]) = 0
    OBVIOUS
  <2> QED BY <2>1 DEF GroupsInv, Listed
<1> QED BY <1>1, GroupsInvariant, PTL

-----------------------------------------------------------------------------
(* Mailings: the one-time prompts *)

PromptTypes ==
  /\ round \in [Prompts -> Seq(Users)] /\ sent \in [Prompts -> Users \cup {None}]
  /\ marked \in [Prompts -> SUBSET Users] /\ received \in [Prompts -> [Users -> Nat]]
  /\ faults \in [Prompts -> [Users -> 0..MaxFaults]]

(* Whom a round has left are different users, none of them marked or about *)
(* to be.                                                                  *)
Fresh(left, last, m) ==
  /\ \A i \in DOMAIN left : left[i] \notin m /\ left[i] # last
  /\ \A i, j \in DOMAIN left : left[i] = left[j] => i = j
  /\ last \notin m

(* What u received: a prompt that is marked, one that is not marked yet,   *)
(* and those whose mark failed.                                            *)
Told(u, last, m, failures) == failures + (IF u \in m THEN 1 ELSE 0) + (IF last = u THEN 1 ELSE 0)

PromptsInv ==
  /\ PromptTypes
  /\ \A p \in Prompts : Fresh(round[p], sent[p], marked[p])
  /\ \A p \in Prompts, u \in Users : received[p][u] = Told(u, sent[p], marked[p], faults[p][u])

LEMMA MailCardinality == ASSUME NEW S PROVE L!Cardinality(S) = Cardinality(S)
  BY DEF L!Cardinality, Cardinality

LEMMA MailConstants ==
  /\ IsFiniteSet(Users) /\ Cardinality(Users) \in Nat /\ L!Cardinality(Users) = Cardinality(Users)
  /\ MaxFaults \in Nat /\ MaxSends \in Nat /\ None \notin Users
  BY MailingsAssumption, MailCardinality, FS_CardinalityType DEF MailingsAssumption

(* No user has all the failures while there may be one more. *)
LEMMA FailuresLeft ==
  ASSUME PromptTypes, NEW p \in Prompts, NEW u \in Users, L!TotalFaults(p) < MaxFaults
  PROVE  faults[p][u] \in 0..MaxFaults /\ faults[p][u] < MaxFaults
<1> DEFINE S == {x \in Users \X (1..MaxFaults) : x[2] <= faults[p][x[1]]}
           f == [i \in 1..MaxFaults |-> <<u, i>>]
<1>1. faults[p][u] \in 0..MaxFaults /\ MaxFaults \in Nat
  BY MailConstants DEF PromptTypes
<1>2. IsFiniteSet(1..MaxFaults) /\ Cardinality(1..MaxFaults) = MaxFaults
  <2>1. 1 \in Int /\ MaxFaults \in Int
    BY <1>1
  <2>2. /\ IsFiniteSet(1..MaxFaults)
        /\ Cardinality(1..MaxFaults) = IF 1 > MaxFaults THEN 0 ELSE MaxFaults - 1 + 1
    BY <2>1, FS_Interval
  <2> QED BY <1>1, <2>2
<1>3. IsFiniteSet(Users \X (1..MaxFaults))
  BY <1>2, MailConstants, FS_Product
<1>4. IsFiniteSet(S) /\ Cardinality(S) \in Nat
  <2>1. S \subseteq Users \X (1..MaxFaults)
    OBVIOUS
  <2> HIDE DEF S
  <2> QED BY <1>3, <2>1, FS_Subset, FS_CardinalityType
<1>5. Cardinality(S) < MaxFaults
  BY MailCardinality DEF L!TotalFaults
<1>6. ASSUME faults[p][u] = MaxFaults PROVE FALSE
  <2>1. \A i \in 1..MaxFaults : <<u, i>> \in S
    BY <1>1, <1>6
  <2>2. f \in Injection(1..MaxFaults, S)
    BY <2>1 DEF Injection, IsInjective
  <2> HIDE DEF S, f
  <2>3. Cardinality(1..MaxFaults) <= Cardinality(S)
    BY <1>4, <2>2, FS_Injection
  <2> QED BY <1>1, <1>2, <1>4, <1>5, <2>3
<1> QED BY <1>1, <1>6

(* A round goes on with whom is left after its first user. *)
LEMMA RoundGoesOn ==
  ASSUME NEW left \in Seq(Users), left # <<>>, NEW m, Fresh(left, None, m), None \notin m
  PROVE  /\ Head(left) \in Users /\ Tail(left) \in Seq(Users)
         /\ Fresh(Tail(left), None, m) /\ Fresh(Tail(left), Head(left), m)
<1>1. Head(left) \in Users /\ Tail(left) \in Seq(Users) /\ Head(left) = left[1] /\ 1 \in DOMAIN left
  OBVIOUS
<1>2. \A i \in DOMAIN Tail(left) : Tail(left)[i] = left[i + 1] /\ i + 1 \in DOMAIN left /\ i \in Nat /\ i + 1 # 1
  OBVIOUS
<1>3. \A i \in DOMAIN Tail(left) : Tail(left)[i] \notin m /\ Tail(left)[i] # Head(left) /\ Tail(left)[i] # None
  BY <1>1, <1>2 DEF Fresh
<1>4. \A i, j \in DOMAIN Tail(left) : Tail(left)[i] = Tail(left)[j] => i = j
  BY <1>2 DEF Fresh
<1>5. Head(left) \notin m
  BY <1>1 DEF Fresh
<1> QED BY <1>1, <1>3, <1>4, <1>5 DEF Fresh

LEMMA PromptsInitially == L!Init => PromptsInv
<1> SUFFICES ASSUME L!Init PROVE PromptsInv
  OBVIOUS
<1>1. PromptTypes
  BY MailConstants DEF L!Init, PromptTypes
<1>2. ASSUME NEW p \in Prompts PROVE Fresh(round[p], sent[p], marked[p])
  BY MailConstants DEF L!Init, Fresh
<1>3. ASSUME NEW p \in Prompts, NEW u \in Users
      PROVE  received[p][u] = Told(u, sent[p], marked[p], faults[p][u])
  BY MailConstants DEF L!Init, Told
<1> QED BY <1>1, <1>2, <1>3 DEF PromptsInv

LEMMA RoundBegun ==
  ASSUME PromptsInv, NEW p \in Prompts, L!RoundBegins(p)
  PROVE  PromptsInv'
<1>1. PICK n \in 1..L!Cardinality(Users) : \E due \in [1..n -> Users \ marked[p]] :
         /\ \A i, j \in 1..n : due[i] = due[j] => i = j
         /\ round' = [round EXCEPT ![p] = due]
  BY DEF L!RoundBegins
<1>2. PICK due \in [1..n -> Users \ marked[p]] :
         /\ \A i, j \in 1..n : due[i] = due[j] => i = j
         /\ round' = [round EXCEPT ![p] = due]
  BY <1>1
<1>3. n \in Nat /\ due \in Seq(Users) /\ DOMAIN due = 1..n
  BY <1>1, MailConstants
<1>4. sent[p] = None /\ UNCHANGED <<sent, marked, received, faults>>
  BY DEF L!RoundBegins
<1>5. PromptTypes'
  BY <1>2, <1>3, <1>4 DEF PromptsInv, PromptTypes
<1>6. Fresh(due, None, marked[p])
  BY <1>2, <1>3, <1>4, MailConstants DEF Fresh, PromptsInv, PromptTypes
<1>7. ASSUME NEW q \in Prompts PROVE Fresh(round'[q], sent'[q], marked'[q])
  BY <1>2, <1>4, <1>6 DEF PromptsInv, PromptTypes
<1> QED BY <1>4, <1>5, <1>7 DEF PromptsInv

LEMMA PromptSent ==
  ASSUME PromptsInv, NEW p \in Prompts, L!Sends(p) \/ L!SendFails(p)
  PROVE  PromptsInv'
<1>1. /\ round[p] \in Seq(Users) /\ round[p] # <<>> /\ sent[p] = None /\ marked[p] \in SUBSET Users
      /\ Fresh(round[p], None, marked[p])
      /\ round' = [round EXCEPT ![p] = Tail(round[p])] /\ UNCHANGED <<marked, faults>>
  BY DEF L!Sends, L!SendFails, PromptsInv, PromptTypes
<1>2. PICK u : u = Head(round[p])
  OBVIOUS
<1>3. /\ u \in Users /\ Tail(round[p]) \in Seq(Users)
      /\ Fresh(Tail(round[p]), None, marked[p]) /\ Fresh(Tail(round[p]), u, marked[p])
  BY <1>1, <1>2, RoundGoesOn, MailConstants
<1>4. CASE L!SendFails(p)
  <2>1. UNCHANGED <<sent, received>>
    BY <1>4 DEF L!SendFails
  <2>2. PromptTypes'
    BY <1>1, <1>3, <2>1 DEF PromptsInv, PromptTypes
  <2>3. ASSUME NEW q \in Prompts PROVE Fresh(round'[q], sent'[q], marked'[q])
    BY <1>1, <1>3, <2>1 DEF PromptsInv, PromptTypes
  <2> QED BY <1>1, <2>1, <2>2, <2>3 DEF PromptsInv
<1>5. CASE L!Sends(p)
  <2>1. /\ sent' = [sent EXCEPT ![p] = u]
        /\ received' = [received EXCEPT ![p][u] = @ + 1]
    BY <1>2, <1>5 DEF L!Sends
  <2>2. PromptTypes'
    <3>1. round' \in [Prompts -> Seq(Users)]
      BY <1>1, <1>3 DEF PromptsInv, PromptTypes
    <3>2. sent' \in [Prompts -> Users \cup {None}]
      BY <1>3, <2>1 DEF PromptsInv, PromptTypes
    <3>3. received' \in [Prompts -> [Users -> Nat]]
      BY <1>3, <2>1 DEF PromptsInv, PromptTypes
    <3> QED BY <1>1, <3>1, <3>2, <3>3 DEF PromptsInv, PromptTypes
  <2>3. ASSUME NEW q \in Prompts PROVE Fresh(round'[q], sent'[q], marked'[q])
    BY <1>1, <1>3, <2>1 DEF PromptsInv, PromptTypes
  <2>4. ASSUME NEW q \in Prompts, NEW v \in Users
        PROVE  received'[q][v] = Told(v, sent'[q], marked'[q], faults'[q][v])
    <3>1. received[q][v] = Told(v, sent[q], marked[q], faults[q][v]) /\ faults[q][v] \in Nat
      BY MailConstants DEF PromptsInv, PromptTypes
    <3>2. CASE q = p /\ v = u
      BY <1>1, <1>3, <2>1, <3>1, <3>2, MailConstants DEF Told, PromptsInv, PromptTypes
    <3>3. CASE q = p /\ v # u
      BY <1>1, <1>3, <2>1, <3>1, <3>3, MailConstants DEF Told, PromptsInv, PromptTypes
    <3>4. CASE q # p
      BY <1>1, <1>3, <2>1, <3>1, <3>4 DEF PromptsInv, PromptTypes
    <3> QED BY <3>2, <3>3, <3>4
  <2> QED BY <2>2, <2>3, <2>4 DEF PromptsInv
<1> QED BY <1>4, <1>5

LEMMA PromptMarked ==
  ASSUME PromptsInv, NEW p \in Prompts, L!MarkSent(p)
  PROVE  PromptsInv'
<1>1. PICK u : u = sent[p]
  OBVIOUS
<1>2. /\ u \in Users /\ u # None
      /\ marked' = [marked EXCEPT ![p] = marked[p] \cup {u}] /\ sent' = [sent EXCEPT ![p] = None]
      /\ UNCHANGED <<round, received, faults>>
  BY <1>1 DEF L!MarkSent, PromptsInv, PromptTypes
<1>3. PromptTypes'
  BY <1>2 DEF PromptsInv, PromptTypes
<1>4. round[p] \in Seq(Users) /\ marked[p] \in SUBSET Users /\ Fresh(round[p], u, marked[p])
  BY <1>1 DEF PromptsInv, PromptTypes
<1>5. Fresh(round[p], None, marked[p] \cup {u})
  <2>1. \A i \in DOMAIN round[p] : round[p][i] \in Users
    BY <1>4
  <2> QED BY <1>2, <1>4, <2>1, MailConstants DEF Fresh
<1>6. ASSUME NEW q \in Prompts PROVE Fresh(round'[q], sent'[q], marked'[q])
  BY <1>2, <1>5 DEF PromptsInv, PromptTypes
<1>7. ASSUME NEW q \in Prompts, NEW v \in Users
      PROVE  received'[q][v] = Told(v, sent'[q], marked'[q], faults'[q][v])
  <2>1. received[q][v] = Told(v, sent[q], marked[q], faults[q][v]) /\ faults[q][v] \in Nat
    BY MailConstants DEF PromptsInv, PromptTypes
  <2>2. CASE q = p
    <3>1. u \notin marked[p]
      BY <1>4 DEF Fresh
    <3> QED BY <1>1, <1>2, <2>1, <2>2, <3>1, MailConstants DEF Told, PromptsInv, PromptTypes
  <2>3. CASE q # p
    BY <1>2, <2>1, <2>3 DEF PromptsInv, PromptTypes
  <2> QED BY <2>2, <2>3
<1> QED BY <1>3, <1>6, <1>7 DEF PromptsInv

LEMMA PromptUnmarked ==
  ASSUME PromptsInv, NEW p \in Prompts, L!MarkFails(p)
  PROVE  PromptsInv'
<1>1. PICK u : u = sent[p]
  OBVIOUS
<1>2. /\ u \in Users /\ u # None
      /\ faults' = [faults EXCEPT ![p][u] = @ + 1] /\ sent' = [sent EXCEPT ![p] = None]
      /\ UNCHANGED <<round, received, marked>> /\ L!TotalFaults(p) < MaxFaults
  BY <1>1 DEF L!MarkFails, PromptsInv, PromptTypes
<1>3. faults[p][u] \in 0..MaxFaults /\ faults[p][u] < MaxFaults
  BY <1>2, FailuresLeft DEF PromptsInv
<1>4. PromptTypes'
  <2>1. faults[p][u] + 1 \in 0..MaxFaults
    BY <1>3, MailConstants
  <2> QED BY <1>2, <2>1 DEF PromptsInv, PromptTypes
<1>5. round[p] \in Seq(Users) /\ marked[p] \in SUBSET Users /\ Fresh(round[p], u, marked[p])
  BY <1>1 DEF PromptsInv, PromptTypes
<1>6. Fresh(round[p], None, marked[p])
  <2>1. \A i \in DOMAIN round[p] : round[p][i] \in Users
    BY <1>5
  <2> QED BY <1>2, <1>5, <2>1, MailConstants DEF Fresh
<1>7. ASSUME NEW q \in Prompts PROVE Fresh(round'[q], sent'[q], marked'[q])
  BY <1>2, <1>6 DEF PromptsInv, PromptTypes
<1>8. ASSUME NEW q \in Prompts, NEW v \in Users
      PROVE  received'[q][v] = Told(v, sent'[q], marked'[q], faults'[q][v])
  <2>1. received[q][v] = Told(v, sent[q], marked[q], faults[q][v]) /\ faults[q][v] \in Nat
    BY MailConstants DEF PromptsInv, PromptTypes
  <2>2. CASE q = p /\ v = u
    <3>1. faults'[q][v] = faults[q][v] + 1 /\ sent'[q] = None
      BY <1>2, <2>2 DEF PromptsInv, PromptTypes
    <3> QED BY <1>1, <1>2, <2>1, <2>2, <3>1, MailConstants DEF Told
  <2>3. CASE q = p /\ v # u
    <3>1. faults'[q][v] = faults[q][v] /\ sent'[q] = None
      BY <1>2, <2>3 DEF PromptsInv, PromptTypes
    <3> QED BY <1>1, <1>2, <2>1, <2>3, <3>1, MailConstants DEF Told
  <2>4. CASE q # p
    BY <1>2, <2>1, <2>4 DEF PromptsInv, PromptTypes
  <2> QED BY <2>2, <2>3, <2>4
<1> QED BY <1>4, <1>7, <1>8 DEF PromptsInv

(* A restart forgets the rounds; a prompt that was sent and not marked is  *)
(* a failure.                                                              *)
LEMMA RoundsForgotten ==
  ASSUME PromptsInv, L!Restart
  PROVE  PromptsInv'
<1>1. /\ round' = [p \in Prompts |-> <<>>] /\ sent' = [p \in Prompts |-> None]
      /\ faults' = [p \in Prompts |-> [u \in Users |-> faults[p][u] + (IF sent[p] = u THEN 1 ELSE 0)]]
      /\ UNCHANGED <<marked, received>>
      /\ \A p \in Prompts : sent[p] # None => L!TotalFaults(p) < MaxFaults
  BY DEF L!Restart
<1>2. ASSUME NEW p \in Prompts, NEW u \in Users
      PROVE  faults[p][u] + (IF sent[p] = u THEN 1 ELSE 0) \in 0..MaxFaults
  <2>1. faults[p][u] \in 0..MaxFaults
    BY DEF PromptsInv, PromptTypes
  <2>2. sent[p] = u => faults[p][u] < MaxFaults
    BY <1>1, MailConstants, FailuresLeft DEF PromptsInv
  <2> QED BY <2>1, <2>2, MailConstants
<1>3. PromptTypes'
  BY <1>1, <1>2 DEF PromptsInv, PromptTypes
<1>4. ASSUME NEW p \in Prompts PROVE Fresh(round'[p], sent'[p], marked'[p])
  BY <1>1, MailConstants DEF Fresh, PromptsInv, PromptTypes
<1>5. ASSUME NEW p \in Prompts, NEW u \in Users
      PROVE  received'[p][u] = Told(u, sent'[p], marked'[p], faults'[p][u])
  <2>1. received[p][u] = Told(u, sent[p], marked[p], faults[p][u]) /\ faults[p][u] \in Nat
    BY MailConstants DEF PromptsInv, PromptTypes
  <2>2. faults'[p][u] = faults[p][u] + (IF sent[p] = u THEN 1 ELSE 0) /\ sent'[p] = None
    BY <1>1
  <2> QED BY <1>1, <2>1, <2>2, MailConstants DEF Told
<1> QED BY <1>3, <1>4, <1>5 DEF PromptsInv

LEMMA PromptsInvariance == PromptsInv /\ [L!Next]_(L!vars) => PromptsInv'
<1> SUFFICES ASSUME PromptsInv, [L!Next]_(L!vars) PROVE PromptsInv'
  OBVIOUS
<1>1. CASE UNCHANGED L!prompts
  BY <1>1 DEF L!prompts, PromptsInv, PromptTypes
<1>2. ASSUME NEW p \in Prompts,
             L!RoundBegins(p) \/ L!Sends(p) \/ L!SendFails(p) \/ L!MarkSent(p) \/ L!MarkFails(p)
      PROVE  PromptsInv'
  BY <1>2, RoundBegun, PromptSent, PromptMarked, PromptUnmarked
<1>3. CASE L!Restart
  BY <1>3, RoundsForgotten
<1>4. CASE L!vars' = L!vars
  BY <1>1, <1>4 DEF L!vars
<1>5. ASSUME NEW s \in Schedules,
             L!CreateSchedule(s) \/ L!UpdateSchedule(s) \/ L!DeleteSchedule(s) \/ L!FallsDue(s)
      PROVE  UNCHANGED L!prompts
  BY <1>5 DEF L!CreateSchedule, L!UpdateSchedule, L!DeleteSchedule, L!FallsDue
<1>6. CASE \/ L!SweepBegins \/ L!SweepSends \/ L!MarkScheduleRun
           \/ L!CreateBroadcast \/ L!BroadcastSends \/ L!FinishBroadcast
  BY <1>1, <1>6 DEF L!SweepBegins, L!SweepSends, L!MarkScheduleRun, L!CreateBroadcast, L!BroadcastSends, L!FinishBroadcast
<1> QED BY <1>1, <1>2, <1>3, <1>4, <1>5, <1>6 DEF L!Next

LEMMA PromptsInvariant == L!Spec => []PromptsInv
  BY PromptsInitially, PromptsInvariance, PTL DEF L!Spec

(* A user gets a one-time prompt once, and once more for each time the bot *)
(* stopped or failed between sending and marking                           *)
(* (reengagement_service.py, group_invite_prompt_service.py), for any      *)
(* users, rounds and restarts; who is marked did get it.                   *)
THEOREM PromptComesOnce == L!Spec => []PromptedOnce
<1>1. PromptsInv => PromptedOnce
  <2> SUFFICES ASSUME PromptsInv, NEW p \in Prompts, NEW u \in Users
               PROVE  /\ received[p][u] <= 1 + faults[p][u]
                      /\ u \in marked[p] => received[p][u] > 0
    BY DEF PromptedOnce, L!PromptedOnce
  <2>1. received[p][u] = Told(u, sent[p], marked[p], faults[p][u]) /\ faults[p][u] \in Nat
    BY MailConstants DEF PromptsInv, PromptTypes
  <2>2. u \in marked[p] => sent[p] # u
    BY DEF PromptsInv, Fresh
  <2> QED BY <2>1, <2>2 DEF Told
<1> QED BY <1>1, PromptsInvariant, PTL

-----------------------------------------------------------------------------
(* Mailings: the schedules and the broadcast *)

ScheduleRows == [enabled : BOOLEAN, due : BOOLEAN, sentCount : Nat]
Sweeps == [schedule : Schedules, waiting : SUBSET Schedules, left : Nat, sent : Nat]

ScheduleTypes ==
  /\ schedule \in [Schedules -> ScheduleRows \cup {None}]
  /\ sweep \in Sweeps \cup {None}
  /\ delivered \in [Schedules -> 0..MaxSends] /\ uncounted \in [Schedules -> Nat]

(* What a row says was sent, and what the sweep under way sent of it. *)
Counted(row_) == IF row_ = None THEN 0 ELSE row_.sentCount
UnderSweep(w, s) == IF w # None /\ w.schedule = s THEN w.sent ELSE 0

Booked == \A s \in Schedules : delivered[s] = Counted(schedule[s]) + UnderSweep(sweep, s) + uncounted[s]

(* What a round may still send has room below the bound. *)
Fits(w, table) ==
  w # None =>
    /\ table[w.schedule] + w.left <= MaxSends
    /\ \A s \in w.waiting : s # w.schedule /\ table[s] + Cardinality(Users) <= MaxSends

SchedulesInv == ScheduleTypes /\ Booked /\ Fits(sweep, delivered)

LEMMA NoneIsNoRow == None \notin ScheduleRows /\ None \notin Sweeps
  BY MailingsAssumption DEF MailingsAssumption, ScheduleRows, Sweeps

LEMMA InSweepMeans == ASSUME NEW s PROVE L!InSweep(s) = UnderSweep(sweep, s)
  BY DEF L!InSweep, UnderSweep

LEMMA BookedTypes ==
  ASSUME SchedulesInv, NEW s \in Schedules
  PROVE  /\ delivered[s] \in Nat /\ uncounted[s] \in Nat /\ delivered[s] <= MaxSends
         /\ Counted(schedule[s]) \in Nat /\ UnderSweep(sweep, s) \in Nat
<1>1. delivered[s] \in 0..MaxSends /\ uncounted[s] \in Nat
  BY DEF SchedulesInv, ScheduleTypes
<1>2. Counted(schedule[s]) \in Nat
  BY DEF SchedulesInv, ScheduleTypes, ScheduleRows, Counted
<1>3. UnderSweep(sweep, s) \in Nat
  BY DEF SchedulesInv, ScheduleTypes, Sweeps, UnderSweep
<1> QED BY <1>1, <1>2, <1>3, MailConstants

LEMMA SchedulesInitially == L!Init => SchedulesInv
<1> SUFFICES ASSUME L!Init PROVE SchedulesInv
  OBVIOUS
<1>1. /\ schedule = [s \in Schedules |-> None] /\ sweep = None
      /\ delivered = [s \in Schedules |-> 0] /\ uncounted = [s \in Schedules |-> 0]
  BY DEF L!Init
<1>2. ScheduleTypes
  BY <1>1, MailConstants DEF ScheduleTypes
<1>3. Booked
  BY <1>1 DEF Booked, Counted, UnderSweep
<1> QED BY <1>1, <1>2, <1>3 DEF SchedulesInv, Fits

(* The panel and the clock change one row, and no count but a deleted one. *)
LEMMA RowChanges ==
  ASSUME SchedulesInv, NEW s \in Schedules, NEW r \in ScheduleRows \cup {None}, NEW n \in Nat,
         schedule' = [schedule EXCEPT ![s] = r], uncounted' = [uncounted EXCEPT ![s] = n],
         UNCHANGED <<sweep, delivered>>,
         delivered[s] = Counted(r) + UnderSweep(sweep, s) + n
  PROVE  SchedulesInv'
<1>1. ScheduleTypes'
  BY DEF SchedulesInv, ScheduleTypes
<1>2. Booked'
  BY DEF SchedulesInv, ScheduleTypes, Booked
<1> QED BY <1>1, <1>2 DEF SchedulesInv

LEMMA RowSame ==
  ASSUME SchedulesInv, NEW s \in Schedules
  PROVE  uncounted = [uncounted EXCEPT ![s] = uncounted[s]]
  BY DEF SchedulesInv, ScheduleTypes

LEMMA ScheduleEdited ==
  ASSUME SchedulesInv, NEW s \in Schedules,
         L!CreateSchedule(s) \/ L!UpdateSchedule(s) \/ L!DeleteSchedule(s) \/ L!FallsDue(s)
  PROVE  SchedulesInv'
<1>1. delivered[s] = Counted(schedule[s]) + UnderSweep(sweep, s) + uncounted[s]
  BY DEF SchedulesInv, Booked
<1>2. CASE L!CreateSchedule(s)
  <2>1. PICK on \in BOOLEAN :
          schedule' = [schedule EXCEPT ![s] = [enabled |-> on, due |-> FALSE, sentCount |-> 0]]
    BY <1>2 DEF L!CreateSchedule
  <2> DEFINE r == [enabled |-> on, due |-> FALSE, sentCount |-> 0]
  <2>2. r \in ScheduleRows /\ r.sentCount = 0 /\ schedule' = [schedule EXCEPT ![s] = r]
    BY <2>1 DEF ScheduleRows
  <2> HIDE DEF r
  <2>3. schedule[s] = None /\ UNCHANGED <<sweep, delivered, uncounted>>
    BY <1>2 DEF L!CreateSchedule
  <2>4. Counted(r) = 0 /\ Counted(schedule[s]) = 0
    BY <2>2, <2>3 DEF Counted
  <2> QED BY <1>1, <2>2, <2>3, <2>4, RowChanges, RowSame, BookedTypes
<1>3. CASE L!UpdateSchedule(s) \/ L!FallsDue(s)
  <2>1. schedule[s] \in ScheduleRows /\ UNCHANGED <<sweep, delivered, uncounted>>
    BY <1>3 DEF L!UpdateSchedule, L!FallsDue, SchedulesInv, ScheduleTypes
  <2>2. PICK r \in ScheduleRows : schedule' = [schedule EXCEPT ![s] = r] /\ r.sentCount = schedule[s].sentCount
    <3>1. CASE L!UpdateSchedule(s)
      <4> DEFINE r == [schedule[s] EXCEPT !.enabled = ~@, !.due = FALSE]
      <4>1. r \in ScheduleRows /\ r.sentCount = schedule[s].sentCount
        BY <2>1 DEF ScheduleRows
      <4>2. schedule' = [schedule EXCEPT ![s] = r]
        BY <3>1, <2>1 DEF L!UpdateSchedule, SchedulesInv, ScheduleTypes, ScheduleRows
      <4> QED BY <4>1, <4>2
    <3>2. CASE L!FallsDue(s)
      <4> DEFINE r == [schedule[s] EXCEPT !.due = TRUE]
      <4>1. r \in ScheduleRows /\ r.sentCount = schedule[s].sentCount
        BY <2>1 DEF ScheduleRows
      <4>2. schedule' = [schedule EXCEPT ![s] = r]
        BY <3>2, <2>1 DEF L!FallsDue, SchedulesInv, ScheduleTypes, ScheduleRows
      <4> QED BY <4>1, <4>2
    <3> QED BY <1>3, <3>1, <3>2
  <2>3. Counted(r) = Counted(schedule[s])
    BY <2>1, <2>2, NoneIsNoRow DEF Counted
  <2> QED BY <1>1, <2>1, <2>2, <2>3, RowChanges, RowSame, BookedTypes
<1>4. CASE L!DeleteSchedule(s)
  <2>1. PICK n : n = delivered[s] - UnderSweep(sweep, s)
    OBVIOUS
  <2>2. /\ schedule' = [schedule EXCEPT ![s] = None] /\ uncounted' = [uncounted EXCEPT ![s] = n]
        /\ UNCHANGED <<sweep, delivered>>
    BY <1>4, <2>1, InSweepMeans DEF L!DeleteSchedule
  <2>3. n \in Nat /\ delivered[s] = 0 + UnderSweep(sweep, s) + n
    BY <1>1, <2>1, BookedTypes
  <2>4. Counted(None) = 0
    BY DEF Counted
  <2> QED BY <2>2, <2>3, <2>4, RowChanges
<1> QED BY <1>2, <1>3, <1>4

LEMMA SweepTyped ==
  ASSUME NEW s \in Schedules, NEW waiting \in SUBSET Schedules
  PROVE  /\ L!Sweep(s, waiting) \in Sweeps /\ L!Sweep(s, waiting) # None
         /\ L!Sweep(s, waiting).schedule = s /\ L!Sweep(s, waiting).waiting = waiting
         /\ L!Sweep(s, waiting).left = Cardinality(Users) /\ L!Sweep(s, waiting).sent = 0
<1>1. /\ L!Sweep(s, waiting) \in Sweeps
      /\ L!Sweep(s, waiting).schedule = s /\ L!Sweep(s, waiting).waiting = waiting
      /\ L!Sweep(s, waiting).left = Cardinality(Users) /\ L!Sweep(s, waiting).sent = 0
  BY MailConstants DEF L!Sweep, Sweeps
<1> QED BY <1>1, NoneIsNoRow

LEMMA SweepBegun ==
  ASSUME SchedulesInv, L!SweepBegins
  PROVE  SchedulesInv'
<1>1. /\ sweep = None /\ UNCHANGED <<schedule, delivered, uncounted>>
      /\ \A s \in L!Due : delivered[s] + Cardinality(Users) <= MaxSends
      /\ L!Due \subseteq Schedules
  BY MailConstants DEF L!SweepBegins, L!Due
<1>2. PICK s \in L!Due : sweep' = L!Sweep(s, L!Due \ {s})
  BY DEF L!SweepBegins
<1>3. PICK w : w = L!Sweep(s, L!Due \ {s})
  OBVIOUS
<1>4. /\ w \in Sweeps /\ w # None /\ w.schedule = s /\ w.waiting = L!Due \ {s}
      /\ w.left = Cardinality(Users) /\ w.sent = 0 /\ sweep' = w
  BY <1>1, <1>2, <1>3, SweepTyped
<1>5. ScheduleTypes'
  BY <1>1, <1>4 DEF SchedulesInv, ScheduleTypes
<1>6. \A t : UnderSweep(w, t) = 0 /\ UnderSweep(sweep, t) = 0
  BY <1>1, <1>4 DEF UnderSweep
<1>7. Booked'
  BY <1>1, <1>4, <1>6 DEF SchedulesInv, Booked
<1>8. Fits(w, delivered)
  BY <1>1, <1>4 DEF Fits
<1> QED BY <1>1, <1>4, <1>5, <1>7, <1>8 DEF SchedulesInv

LEMMA SweepSent ==
  ASSUME SchedulesInv, L!SweepSends
  PROVE  SchedulesInv'
<1>1. sweep # None /\ sweep \in Sweeps /\ sweep.left > 0 /\ UNCHANGED <<schedule, uncounted>>
  BY DEF L!SweepSends, SchedulesInv, ScheduleTypes
<1>2. PICK ok \in {0, 1} :
        /\ sweep' = [sweep EXCEPT !.left = @ - 1, !.sent = @ + ok]
        /\ delivered' = [delivered EXCEPT ![sweep.schedule] = @ + ok]
  BY DEF L!SweepSends
<1>3. PICK w : w = [sweep EXCEPT !.left = @ - 1, !.sent = @ + ok]
  OBVIOUS
<1>4. /\ w \in Sweeps /\ w.schedule = sweep.schedule /\ w.waiting = sweep.waiting
      /\ w.left = sweep.left - 1 /\ w.sent = sweep.sent + ok
  <2>1. PICK a, b : a = sweep.left - 1 /\ b = sweep.sent + ok
    OBVIOUS
  <2>2. a \in Nat /\ b \in Nat
    BY <1>1, <2>1 DEF Sweeps
  <2>3. w = [sweep EXCEPT !.left = a, !.sent = b]
    BY <1>3, <2>1
  <2>4. w \in Sweeps /\ w.schedule = sweep.schedule /\ w.waiting = sweep.waiting /\ w.left = a /\ w.sent = b
    BY <1>1, <2>2, <2>3 DEF Sweeps
  <2> QED BY <2>1, <2>4
<1>5. w # None /\ sweep' = w
  BY <1>2, <1>3, <1>4, NoneIsNoRow
<1>6. PICK s : s = sweep.schedule
  OBVIOUS
<1>7. /\ s \in Schedules /\ sweep.left \in Nat /\ sweep.sent \in Nat /\ delivered[s] \in Nat
      /\ delivered[s] + sweep.left <= MaxSends
      /\ delivered' = [delivered EXCEPT ![s] = delivered[s] + ok]
  BY <1>1, <1>2, <1>6, BookedTypes DEF Sweeps, SchedulesInv, Fits
<1>8. delivered[s] + ok \in 0..MaxSends
  BY <1>1, <1>7, MailConstants
<1>9. ScheduleTypes'
  BY <1>1, <1>4, <1>5, <1>7, <1>8 DEF SchedulesInv, ScheduleTypes
<1>10. ASSUME NEW t \in Schedules
       PROVE  delivered'[t] = Counted(schedule'[t]) + UnderSweep(sweep', t) + uncounted'[t]
  <2>1. delivered[t] = Counted(schedule[t]) + UnderSweep(sweep, t) + uncounted[t]
    BY DEF SchedulesInv, Booked
  <2>2. /\ delivered[t] \in Nat /\ uncounted[t] \in Nat
        /\ Counted(schedule[t]) \in Nat /\ UnderSweep(sweep, t) \in Nat
    BY BookedTypes
  <2>3. CASE t = s
    <3>1. UnderSweep(sweep, t) = sweep.sent /\ UnderSweep(w, t) = sweep.sent + ok
      BY <1>1, <1>4, <1>5, <1>6, <2>3 DEF UnderSweep
    <3>2. delivered'[t] = delivered[t] + ok
      BY <1>7, <2>3 DEF SchedulesInv, ScheduleTypes
    <3> QED BY <1>1, <1>5, <1>7, <2>1, <2>2, <3>1, <3>2
  <2>4. CASE t # s
    <3>1. UnderSweep(sweep, t) = 0 /\ UnderSweep(w, t) = 0
      BY <1>1, <1>4, <1>5, <1>6, <2>4 DEF UnderSweep
    <3>2. delivered'[t] = delivered[t]
      BY <1>7, <2>4 DEF SchedulesInv, ScheduleTypes
    <3> QED BY <1>1, <1>5, <2>1, <3>1, <3>2
  <2> QED BY <2>3, <2>4
<1>11. Fits(w, delivered')
  <2>1. delivered'[s] = delivered[s] + ok /\ \A t \in Schedules : t # s => delivered'[t] = delivered[t]
    BY <1>7 DEF SchedulesInv, ScheduleTypes
  <2>2. delivered'[w.schedule] + w.left <= MaxSends
    BY <1>4, <1>6, <1>7, <2>1, MailConstants
  <2>3. \A t \in w.waiting : t # w.schedule /\ delivered'[t] + Cardinality(Users) <= MaxSends
    BY <1>1, <1>4, <1>6, <2>1 DEF SchedulesInv, Fits, Sweeps
  <2> QED BY <2>2, <2>3 DEF Fits
<1> QED BY <1>5, <1>9, <1>10, <1>11 DEF SchedulesInv, Booked

(* The sweep that ends is counted in its row, or nowhere if it is gone. *)
LEMMA SweepMarked ==
  ASSUME SchedulesInv, L!MarkScheduleRun
  PROVE  SchedulesInv'
<1>1. sweep # None /\ sweep \in Sweeps /\ UNCHANGED delivered
  BY DEF L!MarkScheduleRun, SchedulesInv, ScheduleTypes
<1>2. PICK s : s = sweep.schedule
  OBVIOUS
<1>3. PICK n : n = sweep.sent
  OBVIOUS
<1>4. s \in Schedules /\ n \in Nat
  BY <1>1, <1>2, <1>3 DEF Sweeps
<1>5. IF schedule[s] = None
      THEN uncounted' = [uncounted EXCEPT ![s] = uncounted[s] + n] /\ UNCHANGED schedule
      ELSE /\ schedule' = [schedule EXCEPT ![s].sentCount = @ + n, ![s].due = FALSE]
           /\ UNCHANGED uncounted
  BY <1>2, <1>3 DEF L!MarkScheduleRun
<1>6. /\ sweep' \in Sweeps \cup {None} /\ Fits(sweep', delivered)
      /\ \A t \in Schedules : UnderSweep(sweep', t) = 0
  <2>1. \/ sweep' = None
        \/ \E next \in sweep.waiting : sweep' = L!Sweep(next, sweep.waiting \ {next})
    BY DEF L!MarkScheduleRun
  <2>2. CASE sweep' = None
    BY <2>2 DEF Fits, UnderSweep
  <2>3. ASSUME NEW next \in sweep.waiting, sweep' = L!Sweep(next, sweep.waiting \ {next})
        PROVE  /\ sweep' \in Sweeps \cup {None} /\ Fits(sweep', delivered)
               /\ \A t \in Schedules : UnderSweep(sweep', t) = 0
    <3>1. PICK w : w = L!Sweep(next, sweep.waiting \ {next})
      OBVIOUS
    <3>2. next \in Schedules /\ sweep.waiting \ {next} \in SUBSET Schedules
      BY <1>1 DEF Sweeps
    <3>3. /\ w \in Sweeps /\ w # None /\ w.schedule = next /\ w.waiting = sweep.waiting \ {next}
          /\ w.left = Cardinality(Users) /\ w.sent = 0
      BY <3>1, <3>2, SweepTyped
    <3>4. \A t \in sweep.waiting : delivered[t] + Cardinality(Users) <= MaxSends
      BY <1>1 DEF SchedulesInv, Fits
    <3>5. Fits(w, delivered)
      BY <3>3, <3>4 DEF Fits
    <3>6. \A t \in Schedules : UnderSweep(w, t) = 0
      BY <3>3 DEF UnderSweep
    <3> QED BY <2>3, <3>1, <3>3, <3>5, <3>6
  <2> QED BY <2>1, <2>2, <2>3
<1>7. /\ UnderSweep(sweep, s) = n
      /\ \A t \in Schedules : t # s => UnderSweep(sweep, t) = 0
  BY <1>1, <1>2, <1>3 DEF UnderSweep
<1>8. CASE schedule[s] = None
  <2>1. ScheduleTypes'
    BY <1>1, <1>4, <1>5, <1>6, <1>8 DEF SchedulesInv, ScheduleTypes
  <2>2. ASSUME NEW t \in Schedules
        PROVE  delivered'[t] = Counted(schedule'[t]) + UnderSweep(sweep', t) + uncounted'[t]
    <3>1. delivered[t] = Counted(schedule[t]) + UnderSweep(sweep, t) + uncounted[t]
      BY DEF SchedulesInv, Booked
    <3>2. /\ delivered[t] \in Nat /\ uncounted[t] \in Nat
          /\ Counted(schedule[t]) \in Nat /\ UnderSweep(sweep, t) \in Nat
      BY BookedTypes
    <3>3. uncounted'[t] = IF t = s THEN uncounted[t] + n ELSE uncounted[t]
      BY <1>4, <1>5, <1>8 DEF SchedulesInv, ScheduleTypes
    <3> QED BY <1>1, <1>4, <1>5, <1>6, <1>7, <1>8, <3>1, <3>2, <3>3
  <2> QED BY <1>1, <1>6, <2>1, <2>2 DEF SchedulesInv, Booked
<1>9. CASE schedule[s] # None
  <2>1. schedule[s] \in ScheduleRows
    BY <1>4, <1>9 DEF SchedulesInv, ScheduleTypes
  <2> DEFINE r == [schedule[s] EXCEPT !.sentCount = @ + n, !.due = FALSE]
  <2>2. r \in ScheduleRows /\ r.sentCount = schedule[s].sentCount + n
    <3>1. PICK k : k = schedule[s].sentCount + n
      OBVIOUS
    <3>2. k \in Nat
      BY <1>4, <2>1, <3>1 DEF ScheduleRows
    <3>3. r = [schedule[s] EXCEPT !.sentCount = k, !.due = FALSE]
      BY <3>1
    <3> HIDE DEF r
    <3>4. r \in ScheduleRows /\ r.sentCount = k
      BY <2>1, <3>2, <3>3 DEF ScheduleRows
    <3> QED BY <3>1, <3>4
  <2>3. schedule' = [schedule EXCEPT ![s] = r]
    BY <1>4, <1>5, <1>9, <2>1 DEF SchedulesInv, ScheduleTypes, ScheduleRows
  <2> HIDE DEF r
  <2>4. Counted(r) = Counted(schedule[s]) + n
    BY <1>9, <2>2, NoneIsNoRow DEF Counted
  <2>5. UNCHANGED uncounted
    BY <1>5, <1>9
  <2>6. ScheduleTypes'
    BY <1>1, <1>6, <2>2, <2>3, <2>5 DEF SchedulesInv, ScheduleTypes
  <2>7. ASSUME NEW t \in Schedules
        PROVE  delivered'[t] = Counted(schedule'[t]) + UnderSweep(sweep', t) + uncounted'[t]
    <3>1. delivered[t] = Counted(schedule[t]) + UnderSweep(sweep, t) + uncounted[t]
      BY DEF SchedulesInv, Booked
    <3>2. /\ delivered[t] \in Nat /\ uncounted[t] \in Nat
          /\ Counted(schedule[t]) \in Nat /\ UnderSweep(sweep, t) \in Nat
      BY BookedTypes
    <3>3. schedule'[t] = IF t = s THEN r ELSE schedule[t]
      BY <2>3 DEF SchedulesInv, ScheduleTypes
    <3>4. CASE t = s
      BY <1>1, <1>4, <1>6, <1>7, <2>4, <2>5, <3>1, <3>2, <3>3, <3>4
    <3>5. CASE t # s
      BY <1>1, <1>6, <1>7, <2>5, <3>1, <3>3, <3>5
    <3> QED BY <3>4, <3>5
  <2> QED BY <1>1, <1>6, <2>6, <2>7 DEF SchedulesInv, Booked
<1> QED BY <1>8, <1>9

(* The sweep under way is forgotten, and what it sent is not counted. *)
LEMMA SweepForgotten ==
  ASSUME SchedulesInv, L!Restart
  PROVE  SchedulesInv'
<1>1. /\ sweep' = None /\ UNCHANGED <<schedule, delivered>>
      /\ uncounted' = [s \in Schedules |-> uncounted[s] + UnderSweep(sweep, s)]
  BY InSweepMeans DEF L!Restart
<1>2. ScheduleTypes'
  BY <1>1, BookedTypes DEF SchedulesInv, ScheduleTypes
<1>3. ASSUME NEW s \in Schedules
      PROVE  delivered'[s] = Counted(schedule'[s]) + UnderSweep(sweep', s) + uncounted'[s]
  <2>1. UnderSweep(sweep', s) = 0
    BY <1>1 DEF UnderSweep
  <2>2. delivered[s] = Counted(schedule[s]) + UnderSweep(sweep, s) + uncounted[s]
    BY DEF SchedulesInv, Booked
  <2> QED BY <1>1, <2>1, <2>2, BookedTypes
<1> QED BY <1>1, <1>2, <1>3 DEF SchedulesInv, Booked, Fits

LEMMA SchedulesInvariance == SchedulesInv /\ [L!Next]_(L!vars) => SchedulesInv'
<1> SUFFICES ASSUME SchedulesInv, [L!Next]_(L!vars) PROVE SchedulesInv'
  OBVIOUS
<1>1. CASE UNCHANGED L!schedules
  BY <1>1 DEF L!schedules, SchedulesInv, ScheduleTypes, Booked
<1>2. ASSUME NEW s \in Schedules,
             L!CreateSchedule(s) \/ L!UpdateSchedule(s) \/ L!DeleteSchedule(s) \/ L!FallsDue(s)
      PROVE  SchedulesInv'
  BY <1>2, ScheduleEdited
<1>3. CASE L!SweepBegins \/ L!SweepSends \/ L!MarkScheduleRun \/ L!Restart
  BY <1>3, SweepBegun, SweepSent, SweepMarked, SweepForgotten
<1>4. CASE L!vars' = L!vars
  BY <1>1, <1>4 DEF L!vars
<1>5. ASSUME NEW p \in Prompts,
             L!RoundBegins(p) \/ L!Sends(p) \/ L!SendFails(p) \/ L!MarkSent(p) \/ L!MarkFails(p)
      PROVE  UNCHANGED L!schedules
  BY <1>5 DEF L!RoundBegins, L!Sends, L!SendFails, L!MarkSent, L!MarkFails
<1>6. CASE L!CreateBroadcast \/ L!BroadcastSends \/ L!FinishBroadcast
  BY <1>1, <1>6 DEF L!CreateBroadcast, L!BroadcastSends, L!FinishBroadcast
<1> QED BY <1>1, <1>2, <1>3, <1>4, <1>5, <1>6 DEF L!Next

CastRows ==
  [status : {"running", "done", "failed"}, targets : Nat, left : Nat, reached : Nat, missed : Nat,
   sentCount : Nat, failedCount : Nat, live : BOOLEAN]

(* A broadcast under way has sent to some, missed some and has some left;  *)
(* one that ended has written down what it did.                            *)
CastAddsUp(b) ==
  /\ b \in CastRows
  /\ b.live => b.status = "running" /\ b.targets = b.reached + b.missed + b.left
  /\ b.status # "running" => b.sentCount + b.failedCount = b.targets /\ b.sentCount = b.reached

CastInv == cast # None => CastAddsUp(cast)

LEMMA BroadcastSent ==
  ASSUME NEW b, CastAddsUp(b), b.live, b.left > 0,
         NEW c \in {[b EXCEPT !.left = @ - 1, !.reached = @ + 1], [b EXCEPT !.left = @ - 1, !.missed = @ + 1]}
  PROVE  CastAddsUp(c)
<1>1. b \in CastRows /\ b.status = "running" /\ b.targets = b.reached + b.missed + b.left
  BY DEF CastAddsUp
<1>2. PICK left, reached, missed :
        left = b.left - 1 /\ reached = b.reached + 1 /\ missed = b.missed + 1
  OBVIOUS
<1>3. /\ b.left \in Nat /\ b.reached \in Nat /\ b.missed \in Nat /\ b.targets \in Nat
      /\ left \in Nat /\ reached \in Nat /\ missed \in Nat
  BY <1>1, <1>2 DEF CastRows
<1>4. CASE c = [b EXCEPT !.left = @ - 1, !.reached = @ + 1]
  <2>1. c = [b EXCEPT !.left = left, !.reached = reached]
    BY <1>2, <1>4
  <2>2. c \in CastRows /\ c.status = b.status /\ c.targets = b.targets
        /\ c.left = left /\ c.reached = reached /\ c.missed = b.missed
    BY <1>1, <1>3, <2>1 DEF CastRows
  <2> QED BY <1>1, <1>2, <1>3, <2>2 DEF CastAddsUp
<1>5. CASE c = [b EXCEPT !.left = @ - 1, !.missed = @ + 1]
  <2>1. c = [b EXCEPT !.left = left, !.missed = missed]
    BY <1>2, <1>5
  <2>2. c \in CastRows /\ c.status = b.status /\ c.targets = b.targets
        /\ c.left = left /\ c.missed = missed /\ c.reached = b.reached
    BY <1>1, <1>3, <2>1 DEF CastRows
  <2> QED BY <1>1, <1>2, <1>3, <2>2 DEF CastAddsUp
<1> QED BY <1>4, <1>5

LEMMA BroadcastFinished ==
  ASSUME NEW b, CastAddsUp(b), b.live, b.left = 0,
         NEW end \in {"done", "failed"}, NEW c,
         c = [b EXCEPT !.status = end, !.sentCount = b.reached, !.failedCount = b.missed, !.live = FALSE]
  PROVE  CastAddsUp(c)
<1>1. b \in CastRows /\ b.targets = b.reached + b.missed + 0
  BY DEF CastAddsUp
<1>2. /\ c \in CastRows /\ c.targets = b.targets /\ c.reached = b.reached
      /\ c.sentCount = b.reached /\ c.failedCount = b.missed
  BY <1>1 DEF CastRows
<1>3. ~c.live
  BY <1>1 DEF CastRows
<1>4. b.targets = b.reached + b.missed
  BY <1>1 DEF CastRows
<1> QED BY <1>2, <1>3, <1>4 DEF CastAddsUp

LEMMA BroadcastForgotten ==
  ASSUME NEW b, CastAddsUp(b), NEW c, c = [b EXCEPT !.live = FALSE]
  PROVE  CastAddsUp(c)
<1>1. b \in CastRows
  BY DEF CastAddsUp
<1>2. /\ c \in CastRows /\ c.status = b.status /\ c.targets = b.targets /\ c.reached = b.reached
      /\ c.sentCount = b.sentCount /\ c.failedCount = b.failedCount
  BY <1>1 DEF CastRows
<1>3. ~c.live
  BY <1>1 DEF CastRows
<1> QED BY <1>2, <1>3 DEF CastAddsUp

LEMMA CastInvariance == CastInv /\ [L!Next]_(L!vars) => CastInv'
<1> SUFFICES ASSUME CastInv, [L!Next]_(L!vars) PROVE CastInv'
  OBVIOUS
<1>1. CASE cast' = cast
  BY <1>1 DEF CastInv
<1>2. CASE L!CreateBroadcast
  <2>1. PICK n \in 0..L!Cardinality(Users) :
          cast' = [status |-> "running", targets |-> n, left |-> n, reached |-> 0, missed |-> 0,
                   sentCount |-> 0, failedCount |-> 0, live |-> TRUE]
    BY <1>2 DEF L!CreateBroadcast
  <2>2. n \in Nat
    BY MailConstants
  <2>3. /\ cast' \in CastRows /\ cast'.status = "running"
        /\ cast'.targets = cast'.reached + cast'.missed + cast'.left
    BY <2>1, <2>2 DEF CastRows
  <2> QED BY <2>3 DEF CastInv, CastAddsUp
<1>3. CASE L!BroadcastSends
  <2>1. /\ CastAddsUp(cast) /\ cast.live /\ cast.left > 0
        /\ cast' \in {[cast EXCEPT !.left = @ - 1, !.reached = @ + 1], [cast EXCEPT !.left = @ - 1, !.missed = @ + 1]}
    BY <1>3 DEF L!BroadcastSends, L!Broadcasting, CastInv
  <2>2. CastAddsUp(cast')
    BY <2>1, BroadcastSent
  <2> QED BY <2>2 DEF CastInv
<1>4. CASE L!FinishBroadcast
  <2>1. PICK end \in {"done", "failed"} : end = IF cast.missed > 0 THEN "failed" ELSE "done"
    OBVIOUS
  <2>2. /\ CastAddsUp(cast) /\ cast.live /\ cast.left = 0
        /\ cast' = [cast EXCEPT !.status = end, !.sentCount = cast.reached, !.failedCount = cast.missed,
                                !.live = FALSE]
    BY <1>4, <2>1 DEF L!FinishBroadcast, L!Broadcasting, CastInv
  <2>3. CastAddsUp(cast')
    BY <2>2, BroadcastFinished
  <2> QED BY <2>3 DEF CastInv
<1>5. CASE L!Restart
  <2>1. cast' = IF L!Broadcasting THEN [cast EXCEPT !.live = FALSE] ELSE cast
    BY <1>5 DEF L!Restart
  <2>2. CASE L!Broadcasting
    <3>1. CastAddsUp(cast) /\ cast' = [cast EXCEPT !.live = FALSE]
      BY <2>1, <2>2 DEF L!Broadcasting, CastInv
    <3>2. CastAddsUp(cast')
      BY <3>1, BroadcastForgotten
    <3> QED BY <3>2 DEF CastInv
  <2>3. CASE ~L!Broadcasting
    BY <1>1, <2>1, <2>3
  <2> QED BY <2>2, <2>3
<1>6. CASE L!vars' = L!vars
  BY <1>1, <1>6 DEF L!vars
<1>7. ASSUME NEW p \in Prompts,
             L!RoundBegins(p) \/ L!Sends(p) \/ L!SendFails(p) \/ L!MarkSent(p) \/ L!MarkFails(p)
      PROVE  cast' = cast
  BY <1>7 DEF L!RoundBegins, L!Sends, L!SendFails, L!MarkSent, L!MarkFails
<1>8. ASSUME NEW s \in Schedules,
             L!CreateSchedule(s) \/ L!UpdateSchedule(s) \/ L!DeleteSchedule(s) \/ L!FallsDue(s)
      PROVE  cast' = cast
  BY <1>8 DEF L!CreateSchedule, L!UpdateSchedule, L!DeleteSchedule, L!FallsDue
<1>9. CASE L!SweepBegins \/ L!SweepSends \/ L!MarkScheduleRun
  BY <1>1, <1>9 DEF L!SweepBegins, L!SweepSends, L!MarkScheduleRun
<1> QED BY <1>1, <1>2, <1>3, <1>4, <1>5, <1>6, <1>7, <1>8, <1>9 DEF L!Next

LEMMA CastInitially == L!Init => CastInv
  BY DEF L!Init, CastInv

MailingsInv == PromptsInv /\ SchedulesInv /\ CastInv

LEMMA MailingsInvariant == L!Spec => []MailingsInv
<1>1. L!Init => MailingsInv
  BY PromptsInitially, SchedulesInitially, CastInitially DEF MailingsInv
<1>2. MailingsInv /\ [L!Next]_(L!vars) => MailingsInv'
  BY PromptsInvariance, SchedulesInvariance, CastInvariance DEF MailingsInv
<1> QED BY <1>1, <1>2, PTL DEF L!Spec

LEMMA MailingsTyped == MailingsInv => L!TypeOK
<1> SUFFICES ASSUME MailingsInv PROVE L!TypeOK
  OBVIOUS
<1>1. /\ round \in [Prompts -> Seq(Users)] /\ sent \in [Prompts -> Users \cup {None}]
      /\ marked \in [Prompts -> SUBSET Users] /\ received \in [Prompts -> [Users -> Nat]]
      /\ faults \in [Prompts -> [Users -> 0..MaxFaults]]
  BY DEF MailingsInv, PromptsInv, PromptTypes
<1>2. /\ schedule \in [Schedules -> [enabled : BOOLEAN, due : BOOLEAN, sentCount : Nat] \cup {None}]
      /\ sweep = None \/ sweep \in [schedule : Schedules, waiting : SUBSET Schedules, left : Nat, sent : Nat]
      /\ delivered \in [Schedules -> 0..MaxSends]
  BY DEF MailingsInv, SchedulesInv, ScheduleTypes, ScheduleRows, Sweeps
<1>3. ASSUME NEW s \in Schedules PROVE uncounted[s] \in 0..MaxSends
  <2>1. SchedulesInv /\ delivered[s] = Counted(schedule[s]) + UnderSweep(sweep, s) + uncounted[s]
    BY DEF MailingsInv, SchedulesInv, Booked
  <2> QED BY <2>1, BookedTypes, MailConstants
<1>4. uncounted \in [Schedules -> 0..MaxSends]
  BY <1>3 DEF MailingsInv, SchedulesInv, ScheduleTypes
<1>5. cast # None => cast.status \in {"running", "done", "failed"}
  BY DEF MailingsInv, CastInv, CastAddsUp, CastRows
<1> QED BY <1>1, <1>2, <1>4, <1>5 DEF L!TypeOK

(* What the panel shows of a schedule and of a broadcast is what was sent, *)
(* for any schedules, groups and sizes of a round, whatever the panel      *)
(* makes of a row while its round is under way (mark_schedule_run of       *)
(* group_service.py, the broadcasts of the admin panel).                   *)
THEOREM PanelCountsAddUp == L!Spec => []CountsAddUp
<1>1. MailingsInv => CountsAddUp
  <2> SUFFICES ASSUME MailingsInv PROVE CountsAddUp
    OBVIOUS
  <2>1. ASSUME NEW s \in Schedules
        PROVE  delivered[s] = (IF schedule[s] = None THEN 0 ELSE schedule[s].sentCount) + L!InSweep(s) + uncounted[s]
    <3>1. delivered[s] = Counted(schedule[s]) + L!InSweep(s) + uncounted[s]
      BY InSweepMeans DEF MailingsInv, SchedulesInv, Booked
    <3> QED BY <3>1 DEF Counted
  <2>2. ASSUME cast # None, cast.status # "running"
        PROVE  cast.sentCount + cast.failedCount = cast.targets /\ cast.sentCount = cast.reached
    BY <2>2 DEF MailingsInv, CastInv, CastAddsUp
  <2> QED BY <2>1, <2>2 DEF CountsAddUp, L!CountsAddUp
<1> QED BY <1>1, MailingsInvariant, PTL

-----------------------------------------------------------------------------
(* Profile photos *)

Busy(s) == sync[s].step # "idle"
Fetches(s) == IF sync[s].step = "fetching" THEN 1 ELSE 0
Describes(s, i) == IF sync[s].step = "describing" /\ Head(sync[s].photos) = i THEN 1 ELSE 0

(* A sync that stores or describes has a photo to do it with. *)
Pending == \A s \in F!Syncs : sync[s].step \in {"storing", "describing"} => sync[s].photos # <<>>

(* _inflight admits one scheduled sync; the loop does not look at it. *)
OneScheduled ==
  /\ ~(Busy("first") /\ Busy("second"))
  /\ Busy("first") \/ Busy("second") => inflight

(* The newest row is no older than a mark, so a sync that finds none new   *)
(* finds no mark either, and each mark to come is one of a running fetch.  *)
Fetched ==
  /\ \A k \in 1..Len(marks) : photos_age <= marks[k]
  /\ Len(marks) + Fetches("first") + Fetches("second") + Fetches("loop") <= 2

(* An image with a description is described by those who had begun. *)
Described ==
  \A i \in Images : descriptions[i] + Describes("first", i) + Describes("second", i) + Describes("loop", i) <= 2

PhotosInv == F!TypeOK /\ Pending /\ OneScheduled /\ Fetched /\ Described

LEMMA PhotoSyncs == F!Syncs = {"first", "second", "loop"} /\ F!Scheduled = {"first", "second"}
BY DEF F!Syncs, F!Scheduled

(* What is left of a gallery is one. *)
LEMMA Gallery ==
  /\ <<>> \in F!Galleries
  /\ \A q \in F!Galleries : q \in Seq(Images)
  /\ \A q \in F!Galleries : q # <<>> => Head(q) \in Images /\ Tail(q) \in F!Galleries
<1>0. MaxPhotos \in Nat
  BY PhotosAssumption DEF PhotosAssumption
<1>1. F!Galleries = UNION {[1..n -> Images] : n \in 0..MaxPhotos}
  BY DEF F!Galleries
<1>2. ASSUME NEW q \in Seq(Images), Len(q) <= MaxPhotos PROVE q \in F!Galleries
  <2>1. Len(q) \in 0..MaxPhotos /\ q \in [1..Len(q) -> Images]
    BY <1>0, <1>2
  <2> QED BY <1>1, <2>1
<1>3. ASSUME NEW n \in 0..MaxPhotos, NEW q \in [1..n -> Images] PROVE q \in Seq(Images) /\ Len(q) <= MaxPhotos
  BY <1>0, <1>3
<1>4. \A q \in F!Galleries : q \in Seq(Images) /\ Len(q) <= MaxPhotos
  BY <1>1, <1>3
<1>5. <<>> \in F!Galleries
  <2>1. PICK q : q = <<>>
    OBVIOUS
  <2>2. q \in Seq(Images) /\ Len(q) = 0
    BY <2>1
  <2>3. Len(q) <= MaxPhotos
    BY <1>0, <2>2
  <2> QED BY <1>2, <2>1, <2>2, <2>3
<1>6. ASSUME NEW q \in F!Galleries, q # <<>> PROVE Head(q) \in Images /\ Tail(q) \in F!Galleries
  <2>1. q \in Seq(Images) /\ Len(q) <= MaxPhotos
    BY <1>4
  <2>2. Head(q) \in Images /\ Tail(q) \in Seq(Images) /\ Len(Tail(q)) = Len(q) - 1 /\ Len(q) \in Nat
    BY <1>6, <2>1
  <2>3. Len(Tail(q)) <= MaxPhotos
    BY <1>0, <2>1, <2>2
  <2> QED BY <1>2, <2>2, <2>3
<1> QED BY <1>4, <1>5, <1>6

LEMMA PhotoFacts ==
  ASSUME F!TypeOK
  PROVE  /\ Interval \in Nat \ {0} /\ photos_age \in 0..Interval
         /\ marks \in Seq(0..(Interval - 1)) /\ Len(marks) \in Nat
         /\ \A k \in 1..Len(marks) : marks[k] \in Nat /\ marks[k] < Interval
         /\ \A i \in Images : descriptions[i] \in Nat
         /\ descriptions \in [Images -> Nat] /\ inflight \in BOOLEAN
         /\ sync \in [F!Syncs -> [step : F!Steps, photos : F!Galleries]]
         /\ \A s \in F!Syncs : sync[s].step \in F!Steps /\ sync[s].photos \in F!Galleries
<1>1. Interval \in Nat \ {0}
  BY PhotosAssumption DEF PhotosAssumption
<1>2. /\ photos_age \in 0..Interval /\ marks \in Seq(0..(Interval - 1))
      /\ descriptions \in [Images -> Nat] /\ inflight \in BOOLEAN
      /\ sync \in [F!Syncs -> [step : F!Steps, photos : F!Galleries]]
  BY DEF F!TypeOK
<1>3. Len(marks) \in Nat /\ \A k \in 1..Len(marks) : marks[k] \in 0..(Interval - 1)
  <2>1. PICK M : M = 0..(Interval - 1)
    OBVIOUS
  <2>2. marks \in Seq(M)
    BY <1>2, <2>1
  <2>3. Len(marks) \in Nat /\ \A k \in 1..Len(marks) : marks[k] \in M
    BY <2>2
  <2> QED BY <2>1, <2>3
<1>4. \A k \in 1..Len(marks) : marks[k] \in Nat /\ marks[k] < Interval
  BY <1>1, <1>3
<1> QED BY <1>1, <1>2, <1>3, <1>4

(* A sync goes on to a step. *)
LEMMA SyncMoves ==
  ASSUME F!TypeOK, NEW s \in F!Syncs, NEW step \in F!Steps, NEW rest \in F!Galleries,
         sync' = [sync EXCEPT ![s] = [step |-> step, photos |-> rest]]
  PROVE  /\ sync' \in [F!Syncs -> [step : F!Steps, photos : F!Galleries]]
         /\ sync'[s].step = step /\ sync'[s].photos = rest
         /\ \A t \in F!Syncs : t # s => sync'[t] = sync[t]
<1>1. PICK r : r = [step |-> step, photos |-> rest]
  OBVIOUS
<1>2. r \in [step : F!Steps, photos : F!Galleries] /\ r.step = step /\ r.photos = rest
  BY <1>1
<1>3. sync' = [sync EXCEPT ![s] = r]
  BY <1>1
<1> QED BY <1>2, <1>3, PhotoFacts

(* A sync that was busy, or the loop, goes on or ends: _inflight still     *)
(* admits one of the scheduled.                                            *)
LEMMA SyncStep ==
  ASSUME F!TypeOK, Pending, OneScheduled, NEW s \in F!Syncs, s = "loop" \/ Busy(s),
         NEW step \in F!Steps, NEW rest \in F!Galleries,
         sync' = [sync EXCEPT ![s] = [step |-> step, photos |-> rest]],
         step \in {"storing", "describing"} => rest # <<>>,
         \/ step = "idle" /\ inflight' = (inflight /\ s = "loop")
         \/ step # "idle" /\ inflight' = inflight
  PROVE  inflight' \in BOOLEAN /\ Pending' /\ OneScheduled'
<1>1. /\ sync'[s].step = step /\ sync'[s].photos = rest
      /\ \A t \in F!Syncs : t # s => sync'[t] = sync[t]
  BY SyncMoves
<1>2. inflight \in BOOLEAN
  BY PhotoFacts
<1>3. inflight' \in BOOLEAN
  BY <1>2
<1>4. Pending'
  <2>1. F!Syncs' = F!Syncs
    BY DEF F!Syncs
  <2> QED BY <1>1, <2>1 DEF Pending
<1>5. OneScheduled'
  <2>1. CASE s = "loop"
    <3>1. sync'["first"] = sync["first"] /\ sync'["second"] = sync["second"]
      BY <1>1, <2>1, PhotoSyncs
    <3>2. inflight' = inflight
      BY <1>2, <2>1
    <3> QED BY <3>1, <3>2 DEF OneScheduled, Busy
  <2>2. CASE s = "first"
    <3>1. sync'["second"] = sync["second"] /\ ~Busy("second") /\ inflight
      BY <1>1, <2>2, PhotoSyncs DEF OneScheduled
    <3> QED BY <1>1, <2>2, <3>1 DEF OneScheduled, Busy
  <2>3. CASE s = "second"
    <3>1. sync'["first"] = sync["first"] /\ ~Busy("first") /\ inflight
      BY <1>1, <2>3, PhotoSyncs DEF OneScheduled
    <3> QED BY <1>1, <2>3, <3>1 DEF OneScheduled, Busy
  <2> QED BY <2>1, <2>2, <2>3, PhotoSyncs
<1> QED BY <1>3, <1>4, <1>5

(* What one sync does leaves the counts of the others. *)
LEMMA OthersCount ==
  ASSUME NEW s \in F!Syncs, \A t \in F!Syncs : t # s => sync'[t] = sync[t]
  PROVE  \A t \in F!Syncs : t # s =>
           Fetches(t)' = Fetches(t) /\ \A i \in Images : Describes(t, i)' = Describes(t, i)
BY DEF Fetches, Describes

LEMMA CountsAreBits ==
  /\ \A t \in F!Syncs : Fetches(t) \in {0, 1} /\ Fetches(t)' \in {0, 1}
  /\ \A t \in F!Syncs, i \in Images : Describes(t, i) \in {0, 1} /\ Describes(t, i)' \in {0, 1}
BY DEF Fetches, Describes

LEMMA NoMoreFetches ==
  ASSUME F!TypeOK, Fetched, NEW s \in F!Syncs, \A t \in F!Syncs : t # s => sync'[t] = sync[t],
         Fetches(s)' <= Fetches(s), UNCHANGED marks, photos_age' = photos_age \/ photos_age' = 0
  PROVE  Fetched'
<1>1. PICK n \in Nat : n = Len(marks)
  BY PhotoFacts
<1>2. \A k \in 1..Len(marks') : photos_age' <= marks'[k]
  BY PhotoFacts DEF Fetched
<1>3. n + Fetches("first") + Fetches("second") + Fetches("loop") <= 2
  BY <1>1 DEF Fetched
<1>4. n + Fetches("first")' + Fetches("second")' + Fetches("loop")' <= 2
  BY <1>1, <1>3, OthersCount, CountsAreBits, PhotoSyncs
<1> QED BY <1>1, <1>2, <1>4 DEF Fetched

LEMMA NoMoreDescribes ==
  ASSUME F!TypeOK, Described, NEW s \in F!Syncs, \A t \in F!Syncs : t # s => sync'[t] = sync[t],
         \A i \in Images : descriptions'[i] \in Nat,
         \A i \in Images : descriptions'[i] + Describes(s, i)' <= descriptions[i] + Describes(s, i)
  PROVE  Described'
<1> SUFFICES ASSUME NEW i \in Images
             PROVE  descriptions'[i] + Describes("first", i)' + Describes("second", i)' + Describes("loop", i)' <= 2
  BY DEF Described
<1>1. PICK d \in Nat, e \in Nat : d = descriptions[i] /\ e = descriptions'[i]
  BY PhotoFacts
<1>2. d + Describes("first", i) + Describes("second", i) + Describes("loop", i) <= 2
  BY <1>1 DEF Described
<1>3. e + Describes(s, i)' <= d + Describes(s, i)
  BY <1>1
<1>4. \A t \in F!Syncs : /\ Describes(t, i) \in {0, 1} /\ Describes(t, i)' \in {0, 1}
                         /\ t # s => Describes(t, i)' = Describes(t, i)
  BY OthersCount, CountsAreBits
<1>5. e + Describes("first", i)' + Describes("second", i)' + Describes("loop", i)' <= 2
  BY <1>2, <1>3, <1>4, PhotoSyncs
<1> QED BY <1>1, <1>5

(* A sync ends, or goes on with the rest of the photos. *)
LEMMA SyncContinues ==
  ASSUME F!TypeOK, Pending, OneScheduled, NEW s \in F!Syncs, s = "loop" \/ Busy(s),
         F!Ends(s) \/ \E rest \in F!Galleries : F!Continues(s, rest)
  PROVE  /\ sync' \in [F!Syncs -> [step : F!Steps, photos : F!Galleries]]
         /\ inflight' \in BOOLEAN /\ Pending' /\ OneScheduled'
         /\ \A t \in F!Syncs : t # s => sync'[t] = sync[t]
         /\ Fetches(s)' = 0 /\ \A i \in Images : Describes(s, i)' = 0
<1>1. CASE F!Ends(s)
  <2>1. sync' = [sync EXCEPT ![s] = [step |-> "idle", photos |-> <<>>]] /\ inflight' = (inflight /\ s = "loop")
    BY <1>1 DEF F!Ends, F!NoSync
  <2>2. "idle" \in F!Steps /\ <<>> \in F!Galleries
    BY Gallery DEF F!Steps
  <2>3. inflight' \in BOOLEAN /\ Pending' /\ OneScheduled'
    BY <2>1, <2>2, SyncStep
  <2>4. /\ sync' \in [F!Syncs -> [step : F!Steps, photos : F!Galleries]] /\ sync'[s].step = "idle"
        /\ \A t \in F!Syncs : t # s => sync'[t] = sync[t]
    BY <2>1, <2>2, SyncMoves
  <2> QED BY <2>3, <2>4 DEF Fetches, Describes
<1>2. ASSUME NEW rest \in F!Galleries, rest # <<>>, F!Goes(s, "storing", rest)
      PROVE  /\ sync' \in [F!Syncs -> [step : F!Steps, photos : F!Galleries]]
             /\ inflight' \in BOOLEAN /\ Pending' /\ OneScheduled'
             /\ \A t \in F!Syncs : t # s => sync'[t] = sync[t]
             /\ Fetches(s)' = 0 /\ \A i \in Images : Describes(s, i)' = 0
  <2>1. sync' = [sync EXCEPT ![s] = [step |-> "storing", photos |-> rest]] /\ inflight' = inflight
    BY <1>2 DEF F!Goes
  <2>2. "storing" \in F!Steps
    BY DEF F!Steps
  <2>3. inflight' \in BOOLEAN /\ Pending' /\ OneScheduled'
    BY <1>2, <2>1, <2>2, SyncStep
  <2>4. /\ sync' \in [F!Syncs -> [step : F!Steps, photos : F!Galleries]] /\ sync'[s].step = "storing"
        /\ \A t \in F!Syncs : t # s => sync'[t] = sync[t]
    BY <2>1, <2>2, SyncMoves
  <2> QED BY <2>3, <2>4 DEF Fetches, Describes
<1> QED BY <1>1, <1>2 DEF F!Continues

LEMMA PhotosTyped ==
  ASSUME photos_age' \in 0..Interval, marks' \in Seq(0..(Interval - 1)),
         descriptions' \in [Images -> Nat], inflight' \in BOOLEAN,
         sync' \in [F!Syncs -> [step : F!Steps, photos : F!Galleries]]
  PROVE  F!TypeOK'
BY DEF F!TypeOK, F!Syncs, F!Steps, F!Galleries

LEMMA PhotosSchedule ==
  ASSUME PhotosInv, NEW s \in F!Scheduled, F!ScheduleSync(s)
  PROVE  PhotosInv'
<1>1. /\ ~inflight /\ sync[s] = F!NoSync /\ inflight' = TRUE
      /\ sync' = [sync EXCEPT ![s].step = "scheduled"]
      /\ UNCHANGED <<photos_age, marks, descriptions>>
  BY DEF F!ScheduleSync
<1>2. s \in F!Syncs /\ sync[s].step = "idle" /\ sync[s].photos = <<>>
  BY <1>1, PhotoSyncs DEF F!NoSync
<1>3. sync' = [sync EXCEPT ![s] = [step |-> "scheduled", photos |-> <<>>]]
  <2>1. PICK r : r = sync[s]
    OBVIOUS
  <2>2. sync' = [sync EXCEPT ![s] = [r EXCEPT !.step = "scheduled"]]
    BY <1>1, <2>1
  <2>3. PICK p : p = <<>>
    OBVIOUS
  <2>4. r = [step |-> "idle", photos |-> p]
    BY <1>1, <2>1, <2>3 DEF F!NoSync
  <2>5. [r EXCEPT !.step = "scheduled"] = [step |-> "scheduled", photos |-> p]
    BY <2>4
  <2> QED BY <2>2, <2>3, <2>5
<1>4. "scheduled" \in F!Steps /\ <<>> \in F!Galleries
  BY Gallery DEF F!Steps
<1>5. /\ sync' \in [F!Syncs -> [step : F!Steps, photos : F!Galleries]] /\ sync'[s].step = "scheduled"
      /\ \A t \in F!Syncs : t # s => sync'[t] = sync[t]
  BY <1>2, <1>3, <1>4, SyncMoves DEF PhotosInv
<1>6. F!TypeOK'
  BY <1>1, <1>5, PhotosTyped, PhotoFacts DEF PhotosInv
<1>7. Pending'
  BY <1>5 DEF PhotosInv, Pending, F!Syncs
<1>8. OneScheduled'
  BY <1>1, <1>5, PhotoSyncs DEF PhotosInv, OneScheduled, Busy
<1>9. Fetches(s)' = 0 /\ Fetches(s) = 0 /\ \A i \in Images : Describes(s, i)' = 0 /\ Describes(s, i) = 0
  BY <1>2, <1>5 DEF Fetches, Describes
<1>10. Fetched'
  BY <1>1, <1>2, <1>5, <1>9, NoMoreFetches DEF PhotosInv
<1>11. \A i \in Images : descriptions'[i] \in Nat
                         /\ descriptions'[i] + Describes(s, i)' <= descriptions[i] + Describes(s, i)
  BY <1>1, <1>9, PhotoFacts DEF PhotosInv
<1>12. Described'
  BY <1>2, <1>5, <1>11, NoMoreDescribes DEF PhotosInv
<1> QED BY <1>6, <1>7, <1>8, <1>10, <1>12 DEF PhotosInv

(* A step after which the sync neither fetches nor describes, and which    *)
(* writes no description.                                                  *)
LEMMA PhotosGoOn ==
  ASSUME PhotosInv, NEW s \in F!Syncs, s = "loop" \/ Busy(s),
         F!Ends(s) \/ \E rest \in F!Galleries : F!Continues(s, rest),
         UNCHANGED <<marks, descriptions>>, photos_age' = photos_age \/ photos_age' = 0
  PROVE  PhotosInv'
<1>1. /\ sync' \in [F!Syncs -> [step : F!Steps, photos : F!Galleries]]
      /\ inflight' \in BOOLEAN /\ Pending' /\ OneScheduled'
      /\ \A t \in F!Syncs : t # s => sync'[t] = sync[t]
      /\ Fetches(s)' = 0 /\ \A i \in Images : Describes(s, i)' = 0
  BY SyncContinues DEF PhotosInv
<1>2. photos_age' \in 0..Interval
  BY PhotoFacts DEF PhotosInv
<1>3. F!TypeOK'
  BY <1>1, <1>2, PhotosTyped, PhotoFacts DEF PhotosInv
<1>4. Fetches(s)' <= Fetches(s)
  BY <1>1 DEF Fetches
<1>5. Fetched'
  BY <1>1, <1>4, NoMoreFetches DEF PhotosInv
<1>6. \A i \in Images : descriptions'[i] \in Nat
                        /\ descriptions'[i] + Describes(s, i)' <= descriptions[i] + Describes(s, i)
  <2> SUFFICES ASSUME NEW i \in Images
               PROVE  descriptions'[i] \in Nat
                      /\ descriptions'[i] + Describes(s, i)' <= descriptions[i] + Describes(s, i)
    OBVIOUS
  <2>1. descriptions[i] \in Nat /\ Describes(s, i) \in {0, 1}
    BY PhotoFacts, CountsAreBits DEF PhotosInv
  <2> QED BY <1>1, <2>1
<1>7. Described'
  BY <1>1, <1>6, NoMoreDescribes DEF PhotosInv
<1> QED BY <1>1, <1>3, <1>5, <1>7 DEF PhotosInv

(* A sync begins to fetch when no row is new: there is no mark then, and   *)
(* of the two scheduled ones at most one fetches.                          *)
LEMMA PhotosSync ==
  ASSUME PhotosInv, NEW s \in F!Syncs, F!SyncUser(s)
  PROVE  PhotosInv'
<1>1. /\ sync[s].step = IF s = "loop" THEN "idle" ELSE "scheduled"
      /\ IF F!RecentlySynced THEN F!Ends(s) ELSE F!Goes(s, "fetching", <<>>)
      /\ UNCHANGED <<photos_age, marks, descriptions>>
  BY DEF F!SyncUser
<1>2. s = "loop" \/ Busy(s)
  BY <1>1 DEF Busy
<1>3. CASE F!RecentlySynced
  BY <1>1, <1>2, <1>3, PhotosGoOn
<1>4. CASE ~F!RecentlySynced
  <2>1. sync' = [sync EXCEPT ![s] = [step |-> "fetching", photos |-> <<>>]] /\ inflight' = inflight
    BY <1>1, <1>4 DEF F!Goes
  <2>2. "fetching" \in F!Steps /\ <<>> \in F!Galleries
    BY Gallery DEF F!Steps
  <2>3. /\ sync' \in [F!Syncs -> [step : F!Steps, photos : F!Galleries]] /\ sync'[s].step = "fetching"
        /\ \A t \in F!Syncs : t # s => sync'[t] = sync[t]
    BY <2>1, <2>2, SyncMoves DEF PhotosInv
  <2>4. inflight' \in BOOLEAN /\ Pending' /\ OneScheduled'
    BY <1>2, <2>1, <2>2, SyncStep DEF PhotosInv
  <2>5. F!TypeOK'
    BY <1>1, <2>3, <2>4, PhotosTyped, PhotoFacts DEF PhotosInv
  <2>6. Len(marks) = 0
    <3>1. ASSUME Len(marks) > 0 PROVE FALSE
      <4>1. 1 \in 1..Len(marks)
        BY <3>1, PhotoFacts DEF PhotosInv
      <4>2. photos_age <= marks[1] /\ marks[1] < Interval /\ marks[1] \in Nat /\ photos_age \in Nat
        BY <4>1, PhotoFacts DEF PhotosInv, Fetched
      <4>3. ~(photos_age < Interval)
        BY <1>4 DEF F!RecentlySynced
      <4> QED BY <4>2, <4>3, PhotoFacts DEF PhotosInv
    <3> QED BY <3>1, PhotoFacts DEF PhotosInv
  <2>7. Fetched'
    <3>1. Fetches("first")' + Fetches("second")' <= 1
      <4>1. ~(Busy("first")' /\ Busy("second")')
        BY <2>4 DEF OneScheduled
      <4> QED BY <4>1 DEF Fetches, Busy
    <3>2. Fetches("loop")' \in {0, 1} /\ Fetches("first")' \in {0, 1} /\ Fetches("second")' \in {0, 1}
      BY CountsAreBits, PhotoSyncs
    <3> QED BY <1>1, <2>6, <3>1, <3>2 DEF Fetched
  <2>8. \A i \in Images : Describes(s, i)' = 0 /\ Describes(s, i) = 0
    BY <1>1, <2>3 DEF Describes
  <2>9. \A i \in Images : descriptions'[i] \in Nat
                          /\ descriptions'[i] + Describes(s, i)' <= descriptions[i] + Describes(s, i)
    BY <1>1, <2>8, PhotoFacts DEF PhotosInv
  <2>10. Described'
    BY <2>3, <2>9, NoMoreDescribes DEF PhotosInv
  <2> QED BY <2>4, <2>5, <2>7, <2>10 DEF PhotosInv
<1> QED BY <1>3, <1>4

(* The mark takes the place of the fetch. *)
LEMMA PhotosMarked ==
  ASSUME PhotosInv, NEW s \in F!Syncs, F!Marked(s)
  PROVE  PhotosInv'
<1>1. /\ sync[s].step = "fetching" /\ photos_age' = 0 /\ marks' = <<0>> \o marks
      /\ \E rest \in F!Galleries : F!Continues(s, rest)
      /\ UNCHANGED descriptions
  BY DEF F!Marked
<1>2. Busy(s)
  BY <1>1 DEF Busy
<1>3. /\ sync' \in [F!Syncs -> [step : F!Steps, photos : F!Galleries]]
      /\ inflight' \in BOOLEAN /\ Pending' /\ OneScheduled'
      /\ \A t \in F!Syncs : t # s => sync'[t] = sync[t]
      /\ Fetches(s)' = 0 /\ \A i \in Images : Describes(s, i)' = 0
  BY <1>1, <1>2, SyncContinues DEF PhotosInv
<1>4. PICK M : M = 0..(Interval - 1)
  OBVIOUS
<1>5. marks \in Seq(M) /\ 0 \in M
  BY <1>4, PhotoFacts DEF PhotosInv
<1>6. PICK q : q = <<0>> \o marks
  OBVIOUS
<1>7. q \in Seq(M) /\ Len(q) = Len(marks) + 1
  BY <1>5, <1>6
<1>8. photos_age' \in 0..Interval
  BY <1>1, PhotoFacts DEF PhotosInv
<1>9. F!TypeOK'
  BY <1>1, <1>3, <1>4, <1>6, <1>7, <1>8, PhotosTyped, PhotoFacts DEF PhotosInv
<1>10. Fetched'
  <2>1. \A k \in 1..Len(marks') : photos_age' <= marks'[k]
    <3>1. \A k \in 1..Len(q) : q[k] \in M
      BY <1>7
    <3>2. \A k \in M : 0 <= k
      BY <1>4, PhotoFacts DEF PhotosInv
    <3> QED BY <1>1, <1>6, <3>1, <3>2
  <2>2. PICK n \in Nat : n = Len(marks) /\ n + 1 = Len(marks')
    BY <1>1, <1>6, <1>7, PhotoFacts DEF PhotosInv
  <2>3. n + Fetches("first") + Fetches("second") + Fetches("loop") <= 2
    BY <2>2 DEF PhotosInv, Fetched
  <2>4. Fetches(s) = 1
    BY <1>1 DEF Fetches
  <2>5. (n + 1) + Fetches("first")' + Fetches("second")' + Fetches("loop")' <= 2
    BY <1>3, <2>3, <2>4, OthersCount, CountsAreBits, PhotoSyncs
  <2> QED BY <2>1, <2>2, <2>5 DEF Fetched
<1>11. \A i \in Images : descriptions'[i] \in Nat
                         /\ descriptions'[i] + Describes(s, i)' <= descriptions[i] + Describes(s, i)
  <2> SUFFICES ASSUME NEW i \in Images
               PROVE  descriptions'[i] \in Nat
                      /\ descriptions'[i] + Describes(s, i)' <= descriptions[i] + Describes(s, i)
    OBVIOUS
  <2>1. descriptions[i] \in Nat /\ Describes(s, i) \in {0, 1}
    BY PhotoFacts, CountsAreBits DEF PhotosInv
  <2> QED BY <1>1, <1>3, <2>1
<1>12. Described'
  BY <1>3, <1>11, NoMoreDescribes DEF PhotosInv
<1> QED BY <1>3, <1>9, <1>10, <1>12 DEF PhotosInv

(* An image with a description is not described again; of those that begin *)
(* to describe one without it, one is a scheduled sync and one the loop.   *)
LEMMA PhotosStore ==
  ASSUME PhotosInv, NEW s \in F!Syncs, F!StoreProfilePhoto(s)
  PROVE  PhotosInv'
<1>1. PICK q : q = sync[s].photos
  OBVIOUS
<1>2. /\ sync[s].step = "storing" /\ photos_age' = 0 /\ UNCHANGED <<marks, descriptions>>
      /\ IF descriptions[Head(q)] > 0 THEN F!Continues(s, Tail(q)) ELSE F!Goes(s, "describing", q)
  BY <1>1 DEF F!StoreProfilePhoto
<1>3. Busy(s)
  BY <1>2 DEF Busy
<1>4. q \in F!Galleries /\ q # <<>> /\ Head(q) \in Images /\ Tail(q) \in F!Galleries
  <2>1. q \in F!Galleries /\ q # <<>>
    BY <1>1, <1>2, PhotoFacts DEF PhotosInv, Pending
  <2> QED BY <2>1, Gallery
<1>5. CASE descriptions[Head(q)] > 0
  BY <1>2, <1>3, <1>4, <1>5, PhotosGoOn
<1>6. CASE ~(descriptions[Head(q)] > 0)
  <2>1. sync' = [sync EXCEPT ![s] = [step |-> "describing", photos |-> q]] /\ inflight' = inflight
    BY <1>2, <1>6 DEF F!Goes
  <2>2. "describing" \in F!Steps
    BY DEF F!Steps
  <2>3. /\ sync' \in [F!Syncs -> [step : F!Steps, photos : F!Galleries]]
        /\ sync'[s].step = "describing" /\ sync'[s].photos = q
        /\ \A t \in F!Syncs : t # s => sync'[t] = sync[t]
    BY <1>4, <2>1, <2>2, SyncMoves DEF PhotosInv
  <2>4. inflight' \in BOOLEAN /\ Pending' /\ OneScheduled'
    BY <1>3, <1>4, <2>1, <2>2, SyncStep DEF PhotosInv
  <2>5. photos_age' \in 0..Interval
    BY <1>2, PhotoFacts DEF PhotosInv
  <2>6. F!TypeOK'
    BY <1>2, <2>3, <2>4, <2>5, PhotosTyped, PhotoFacts DEF PhotosInv
  <2>7. Fetches(s)' <= Fetches(s)
    <3>1. Fetches(s)' = 0 /\ Fetches(s) \in {0, 1}
      BY <2>3 DEF Fetches
    <3> QED BY <3>1
  <2>8. Fetched'
    BY <1>2, <2>3, <2>7, NoMoreFetches DEF PhotosInv
  <2>9. Described'
    <3> SUFFICES ASSUME NEW i \in Images
                 PROVE  descriptions'[i] + Describes("first", i)' + Describes("second", i)' + Describes("loop", i)' <= 2
      BY DEF Described
    <3>1. descriptions'[i] = descriptions[i] /\ descriptions[i] \in Nat
      BY <1>2, PhotoFacts DEF PhotosInv
    <3>2. \A t \in F!Syncs : /\ Describes(t, i) \in {0, 1} /\ Describes(t, i)' \in {0, 1}
                             /\ t # s => Describes(t, i)' = Describes(t, i)
      BY <2>3, OthersCount, CountsAreBits
    <3>3. descriptions[i] + Describes("first", i) + Describes("second", i) + Describes("loop", i) <= 2
      BY DEF PhotosInv, Described
    <3>4. CASE i = Head(q)
      <4>1. descriptions[i] = 0
        BY <1>6, <3>1, <3>4
      <4>2. Describes("first", i)' + Describes("second", i)' <= 1
        <5>1. ~(Busy("first")' /\ Busy("second")')
          BY <2>4 DEF OneScheduled
        <5> QED BY <5>1 DEF Describes, Busy
      <4> QED BY <3>1, <3>2, <4>1, <4>2, PhotoSyncs
    <3>5. CASE i # Head(q)
      <4>1. Describes(s, i)' = 0
        BY <2>3, <3>5 DEF Describes
      <4> QED BY <3>1, <3>2, <3>3, <4>1, PhotoSyncs
    <3> QED BY <3>4, <3>5
  <2> QED BY <2>4, <2>6, <2>8, <2>9 DEF PhotosInv
<1> QED BY <1>5, <1>6

LEMMA PhotosSkip ==
  ASSUME PhotosInv, NEW s \in F!Syncs, F!Skip(s) \/ F!SyncFails(s)
  PROVE  PhotosInv'
<1>1. CASE F!SyncFails(s)
  <2>1. Busy(s)
    BY <1>1 DEF F!SyncFails, Busy
  <2> QED BY <1>1, <2>1, PhotosGoOn DEF F!SyncFails
<1>2. CASE F!Skip(s)
  <2>1. /\ sync[s].step \in {"storing", "describing"} /\ F!Continues(s, Tail(sync[s].photos))
        /\ UNCHANGED <<photos_age, marks, descriptions>>
    BY <1>2 DEF F!Skip
  <2>2. Busy(s)
    BY <2>1 DEF Busy
  <2>3. sync[s].photos \in F!Galleries /\ sync[s].photos # <<>>
    BY <2>1, PhotoFacts DEF PhotosInv, Pending
  <2>4. Tail(sync[s].photos) \in F!Galleries
    BY <2>3, Gallery
  <2> QED BY <2>1, <2>2, <2>4, PhotosGoOn
<1> QED BY <1>1, <1>2

(* The description takes the place of the describing. *)
LEMMA PhotosDescribe ==
  ASSUME PhotosInv, NEW s \in F!Syncs, F!SetVisionDescription(s)
  PROVE  PhotosInv'
<1>1. PICK q : q = sync[s].photos
  OBVIOUS
<1>2. /\ sync[s].step = "describing" /\ F!Continues(s, Tail(q)) /\ UNCHANGED <<photos_age, marks>>
      /\ descriptions' = [descriptions EXCEPT ![Head(q)] = @ + 1]
  BY <1>1 DEF F!SetVisionDescription
<1>3. q \in F!Galleries /\ q # <<>> /\ Head(q) \in Images /\ Tail(q) \in F!Galleries
  <2>1. q \in F!Galleries /\ q # <<>>
    BY <1>1, <1>2, PhotoFacts DEF PhotosInv, Pending
  <2> QED BY <2>1, Gallery
<1>4. Busy(s)
  BY <1>2 DEF Busy
<1>5. /\ sync' \in [F!Syncs -> [step : F!Steps, photos : F!Galleries]]
      /\ inflight' \in BOOLEAN /\ Pending' /\ OneScheduled'
      /\ \A t \in F!Syncs : t # s => sync'[t] = sync[t]
      /\ Fetches(s)' = 0 /\ \A i \in Images : Describes(s, i)' = 0
  BY <1>2, <1>3, <1>4, SyncContinues DEF PhotosInv
<1>6. PICK h \in Images : h = Head(q)
  BY <1>3
<1>7. /\ descriptions' \in [Images -> Nat] /\ descriptions'[h] = descriptions[h] + 1
      /\ \A i \in Images : i # h => descriptions'[i] = descriptions[i]
  BY <1>2, <1>6, PhotoFacts DEF PhotosInv
<1>8. F!TypeOK'
  BY <1>2, <1>5, <1>7, PhotosTyped, PhotoFacts DEF PhotosInv
<1>9. Fetched'
  <2>1. Fetches(s)' <= Fetches(s)
    BY <1>5 DEF Fetches
  <2> QED BY <1>2, <1>5, <2>1, NoMoreFetches DEF PhotosInv
<1>10. \A i \in Images : descriptions'[i] \in Nat
                         /\ descriptions'[i] + Describes(s, i)' <= descriptions[i] + Describes(s, i)
  <2> SUFFICES ASSUME NEW i \in Images
               PROVE  descriptions'[i] \in Nat
                      /\ descriptions'[i] + Describes(s, i)' <= descriptions[i] + Describes(s, i)
    OBVIOUS
  <2>1. descriptions[i] \in Nat /\ Describes(s, i) \in {0, 1} /\ Describes(s, i)' = 0
    BY <1>5, PhotoFacts, CountsAreBits DEF PhotosInv
  <2>2. CASE i = h
    <3>1. Describes(s, i) = 1
      BY <1>1, <1>2, <1>6, <2>2 DEF Describes
    <3> QED BY <1>7, <2>1, <2>2, <3>1
  <2>3. CASE i # h
    BY <1>7, <2>1, <2>3
  <2> QED BY <2>2, <2>3
<1>11. Described'
  BY <1>5, <1>10, NoMoreDescribes DEF PhotosInv
<1> QED BY <1>5, <1>8, <1>9, <1>11 DEF PhotosInv

LEMMA PhotosRestart == ASSUME PhotosInv, F!Restart PROVE PhotosInv'
<1>1. /\ sync' = [s \in F!Syncs |-> F!NoSync] /\ inflight' = FALSE
      /\ UNCHANGED <<photos_age, marks, descriptions>>
  BY DEF F!Restart
<1>2. PICK r : r = F!NoSync
  OBVIOUS
<1>3. r \in [step : F!Steps, photos : F!Galleries] /\ r.step = "idle"
  <2>1. "idle" \in F!Steps /\ <<>> \in F!Galleries
    BY Gallery DEF F!Steps
  <2> QED BY <1>2, <2>1 DEF F!NoSync
<1>4. sync' \in [F!Syncs -> [step : F!Steps, photos : F!Galleries]] /\ \A s \in F!Syncs : sync'[s].step = "idle"
  BY <1>1, <1>2, <1>3
<1>5. inflight' \in BOOLEAN
  BY <1>1
<1>6. F!TypeOK'
  BY <1>1, <1>4, <1>5, PhotosTyped, PhotoFacts DEF PhotosInv
<1>7. Pending' /\ OneScheduled'
  BY <1>4, PhotoSyncs DEF Pending, OneScheduled, Busy, F!Syncs
<1>8. \A s \in F!Syncs : Fetches(s)' = 0 /\ \A i \in Images : Describes(s, i)' = 0
  BY <1>4 DEF Fetches, Describes
<1>9. Fetched'
  <2>1. PICK n \in Nat : n = Len(marks)
    BY PhotoFacts DEF PhotosInv
  <2>2. n + Fetches("first") + Fetches("second") + Fetches("loop") <= 2
    BY <2>1 DEF PhotosInv, Fetched
  <2>3. n + Fetches("first")' + Fetches("second")' + Fetches("loop")' <= 2
    BY <1>8, <2>2, CountsAreBits, PhotoSyncs
  <2> QED BY <1>1, <2>1, <2>3 DEF PhotosInv, Fetched
<1>10. Described'
  <2> SUFFICES ASSUME NEW i \in Images
               PROVE  descriptions'[i] + Describes("first", i)' + Describes("second", i)' + Describes("loop", i)' <= 2
    BY DEF Described
  <2>1. descriptions[i] + Describes("first", i) + Describes("second", i) + Describes("loop", i) <= 2
    BY DEF PhotosInv, Described
  <2>2. descriptions'[i] = descriptions[i] /\ descriptions[i] \in Nat
    BY <1>1, PhotoFacts DEF PhotosInv
  <2> QED BY <1>8, <2>1, <2>2, CountsAreBits, PhotoSyncs
<1> QED BY <1>6, <1>7, <1>9, <1>10 DEF PhotosInv

(* The rows and the marks grow old together. *)
LEMMA PhotosTick == ASSUME PhotosInv, F!Tick PROVE PhotosInv'
<1>1. /\ photos_age' = IF photos_age = Interval THEN Interval ELSE photos_age + 1
      /\ UNCHANGED <<descriptions, inflight, sync>>
  BY DEF F!Tick
<1>2. PICK n \in 0..Len(marks) : /\ \A k \in DOMAIN marks : k <= n <=> marks[k] + 1 < Interval
                                 /\ marks' = [k \in 1..n |-> marks[k] + 1]
  BY DEF F!Tick
<1>3. photos_age' \in 0..Interval /\ photos_age \in Nat /\ photos_age' \in Nat /\ photos_age' <= photos_age + 1
  BY <1>1, PhotoFacts DEF PhotosInv
<1>4. DOMAIN marks = 1..Len(marks) /\ n \in Nat /\ n <= Len(marks) /\ Len(marks) \in Nat
  BY <1>2, PhotoFacts DEF PhotosInv
<1>5. \A k \in 1..n : marks[k] + 1 \in 0..(Interval - 1) /\ photos_age <= marks[k] /\ marks[k] \in Nat
  <2> SUFFICES ASSUME NEW k \in 1..n
               PROVE  marks[k] + 1 \in 0..(Interval - 1) /\ photos_age <= marks[k] /\ marks[k] \in Nat
    OBVIOUS
  <2>1. k \in 1..Len(marks) /\ k <= n
    BY <1>4
  <2>2. marks[k] \in Nat /\ photos_age <= marks[k]
    BY <2>1, PhotoFacts DEF PhotosInv, Fetched
  <2>3. marks[k] + 1 < Interval
    BY <1>2, <1>4, <2>1
  <2>4. Interval \in Nat
    BY PhotoFacts DEF PhotosInv
  <2> QED BY <2>2, <2>3, <2>4
<1>6. marks' \in Seq(0..(Interval - 1)) /\ Len(marks') = n
  <2>1. PICK M : M = 0..(Interval - 1)
    OBVIOUS
  <2>2. PICK q : q = [k \in 1..n |-> marks[k] + 1]
    OBVIOUS
  <2>3. q \in [1..n -> M]
    BY <1>5, <2>1, <2>2
  <2>4. q \in Seq(M) /\ Len(q) = n
    BY <1>4, <2>3
  <2> QED BY <1>2, <2>1, <2>2, <2>4
<1>7. F!TypeOK'
  BY <1>1, <1>3, <1>6, PhotosTyped, PhotoFacts DEF PhotosInv
<1>8. Pending' /\ OneScheduled' /\ Described'
  BY <1>1 DEF PhotosInv, Pending, OneScheduled, Described, Busy, Describes, F!Syncs
<1>9. Fetched'
  <2>1. \A k \in 1..Len(marks') : photos_age' <= marks'[k]
    <3> SUFFICES ASSUME NEW k \in 1..n PROVE photos_age' <= marks'[k]
      BY <1>6
    <3>1. marks'[k] = marks[k] + 1
      BY <1>2
    <3> QED BY <1>3, <1>5, <3>1
  <2>2. Len(marks) + Fetches("first") + Fetches("second") + Fetches("loop") <= 2
    BY DEF PhotosInv, Fetched
  <2>3. Fetches("first")' = Fetches("first") /\ Fetches("second")' = Fetches("second")
        /\ Fetches("loop")' = Fetches("loop")
    BY <1>1 DEF Fetches
  <2>4. n + Fetches("first") + Fetches("second") + Fetches("loop") <= 2
    BY <1>4, <2>2, CountsAreBits, PhotoSyncs
  <2> QED BY <1>6, <2>1, <2>3, <2>4 DEF Fetched
<1> QED BY <1>7, <1>8, <1>9 DEF PhotosInv

LEMMA PhotosInitially == F!Init => PhotosInv
<1> SUFFICES ASSUME F!Init PROVE PhotosInv
  OBVIOUS
<1>1. /\ photos_age = Interval /\ marks = <<>> /\ descriptions = [i \in Images |-> 0] /\ inflight = FALSE
      /\ sync = [s \in F!Syncs |-> F!NoSync]
  BY DEF F!Init
<1>2. PICK r : r = F!NoSync
  OBVIOUS
<1>3. r \in [step : F!Steps, photos : F!Galleries] /\ r.step = "idle"
  <2>1. "idle" \in F!Steps /\ <<>> \in F!Galleries
    BY Gallery DEF F!Steps
  <2> QED BY <1>2, <2>1 DEF F!NoSync
<1>4. sync \in [F!Syncs -> [step : F!Steps, photos : F!Galleries]] /\ \A s \in F!Syncs : sync[s].step = "idle"
  BY <1>1, <1>2, <1>3
<1>5. marks \in Seq(0..(Interval - 1)) /\ Len(marks) = 0
  <2>1. PICK M : M = 0..(Interval - 1)
    OBVIOUS
  <2>2. marks \in Seq(M) /\ Len(marks) = 0
    BY <1>1
  <2> QED BY <2>1, <2>2
<1>6. photos_age \in 0..Interval /\ inflight \in BOOLEAN /\ descriptions \in [Images -> Nat]
  <2>1. photos_age \in 0..Interval
    BY <1>1, PhotosAssumption DEF PhotosAssumption
  <2>2. inflight \in BOOLEAN
    BY <1>1
  <2>3. descriptions \in [Images -> Nat]
    BY <1>1
  <2> QED BY <2>1, <2>2, <2>3
<1>7. F!TypeOK
  BY <1>4, <1>5, <1>6 DEF F!TypeOK
<1>8. Pending /\ OneScheduled
  BY <1>4, PhotoSyncs DEF Pending, OneScheduled, Busy
<1>9. \A s \in F!Syncs : Fetches(s) = 0 /\ \A i \in Images : Describes(s, i) = 0
  BY <1>4 DEF Fetches, Describes
<1>10. Fetched
  BY <1>5, <1>9, PhotoSyncs DEF Fetched
<1>11. Described
  BY <1>1, <1>9, PhotoSyncs DEF Described
<1> QED BY <1>7, <1>8, <1>10, <1>11 DEF PhotosInv

LEMMA PhotosInvariance == ASSUME PhotosInv, [F!Next]_F!vars PROVE PhotosInv'
<1>1. CASE UNCHANGED F!vars
  BY <1>1 DEF F!vars, PhotosInv, F!TypeOK, Pending, OneScheduled, Fetched, Described, Busy, Fetches,
     Describes, F!Syncs, F!Steps, F!Galleries
<1>2. CASE F!Next
  <2>1. \/ \E s \in F!Scheduled : F!ScheduleSync(s)
        \/ \E s \in F!Syncs :
             \/ F!SyncUser(s) \/ F!Marked(s) \/ F!StoreProfilePhoto(s) \/ F!Skip(s)
             \/ F!SetVisionDescription(s) \/ F!SyncFails(s)
        \/ F!Restart \/ F!Tick
    BY <1>2 DEF F!Next
  <2> QED BY <2>1, PhotosSchedule, PhotosSync, PhotosMarked, PhotosStore, PhotosSkip, PhotosDescribe,
          PhotosRestart, PhotosTick
<1> QED BY <1>1, <1>2

LEMMA PhotosInvariant == F!Spec => []PhotosInv
<1>1. F!Init => PhotosInv
  BY PhotosInitially
<1>2. PhotosInv /\ [F!Next]_F!vars => PhotosInv'
  BY PhotosInvariance
<1> QED BY <1>1, <1>2, PTL DEF F!Spec

(* However messages, the loop and restarts interleave, a user's photos are *)
(* fetched twice an interval at most, and no image is described three      *)
(* times (profile_photo_service.py:58).                                    *)
THEOREM SyncedAtMostTwice == F!Spec => []SyncedTwiceAtMost
<1>1. PhotosInv => SyncedTwiceAtMost
  <2> SUFFICES ASSUME PhotosInv, NEW i \in Images PROVE Len(marks) <= 2 /\ descriptions[i] <= 2
    <3>1. PhotosInv => Len(marks) <= 2
      BY PhotoFacts, CountsAreBits, PhotoSyncs DEF PhotosInv, Fetched
    <3> QED BY <3>1 DEF SyncedTwiceAtMost, F!SyncedTwiceAtMost
  <2>1. PICK n \in Nat, d \in Nat : n = Len(marks) /\ d = descriptions[i]
    BY PhotoFacts DEF PhotosInv
  <2>2. n + Fetches("first") + Fetches("second") + Fetches("loop") <= 2
    BY <2>1 DEF PhotosInv, Fetched
  <2>3. d + Describes("first", i) + Describes("second", i) + Describes("loop", i) <= 2
    BY <2>1 DEF PhotosInv, Described
  <2> QED BY <2>1, <2>2, <2>3, CountsAreBits, PhotoSyncs
<1> QED BY <1>1, PhotosInvariant, PTL

-----------------------------------------------------------------------------
(* Polling *)

Once(i) == IF i \in again THEN 1 ELSE 0

(* What is fed a second time was to be told of again. *)
FedBound == \A i \in T!Ids : fed[i] <= 1 + Once(i) /\ (i > Len(arrived) => fed[i] = 0)

Places ==
  /\ phase \in {"down", "drain", "confirm", "poll"} => selected = {}
  /\ phase \in {"down", "feed", "poll"} => updates = {}

(* What Telegram still keeps can be fed, and so can what was drained. *)
Kept ==
  phase \in {"down", "drain", "confirm"} => \A i \in T!Ids : i > confirmed => fed[i] <= Once(i)
Drained ==
  phase \in {"drain", "confirm"} =>
    /\ \A i \in updates : i <= T!Confirms /\ fed[i] <= Once(i)
    /\ \A i \in T!Sent : i > confirmed /\ i <= T!Confirms => i \in updates
DrainedAll == phase = "confirm" => \A i \in T!Ids : i > T!Confirms => fed[i] = 0
Feeding ==
  phase = "feed" =>
    /\ \A i \in T!Ids : i > confirmed => fed[i] = 0
    /\ \A i \in selected : i <= confirmed /\ fed[i] <= Once(i)
Polled ==
  phase = "poll" =>
    /\ \A i \in T!Ids : i > confirmed => fed[i] <= (IF i < offset THEN 1 ELSE 0)
    /\ \A i \in T!Sent : i > confirmed /\ i <= T!Confirms => fed[i] > 0

(* A newer message of the same actor is fed, is about to be, or was lost. *)
Yields(i) == \E j \in T!Sent : T!Stale(i, j) /\ (fed[j] > 0 \/ j \in selected \cup dropped)
Accounted ==
  \A i \in T!Sent : i <= confirmed /\ fed[i] = 0 => i \in updates \cup selected \cup dropped \/ Yields(i)

PollingInv ==
  /\ T!TypeOK /\ FedBound /\ Places /\ Kept /\ Drained /\ DrainedAll /\ Feeding /\ Polled /\ Accounted

LEMMA PollConstants ==
  /\ MaxUpdates \in Nat /\ BatchLimit \in Nat \ {0} /\ MaxEnds \in Nat
  /\ T!Ids = 1..MaxUpdates /\ \A S : T!Cardinality(S) = Cardinality(S)
  BY PollingAssumption DEF PollingAssumption, T!Ids, T!Cardinality, Cardinality

LEMMA PollFacts ==
  ASSUME T!TypeOK
  PROVE  /\ Len(arrived) \in Nat /\ Len(arrived) <= MaxUpdates /\ arrived \in Seq(Users \cup {None})
         /\ T!Sent = 1..Len(arrived) /\ T!Sent \subseteq T!Ids
         /\ confirmed \in Nat /\ confirmed <= Len(arrived)
         /\ late \in Nat /\ late <= Len(arrived)
         /\ offset \in Nat /\ offset <= Len(arrived) + 1
         /\ \A i \in T!Ids : i \in Nat /\ i > 0 /\ fed[i] \in Nat
<1>1. arrived \in Seq(Users \cup {None}) /\ Len(arrived) \in Nat /\ Len(arrived) <= MaxUpdates
  BY DEF T!TypeOK
<1>2. T!Sent = 1..Len(arrived) /\ T!Sent \subseteq T!Ids
  BY <1>1, PollConstants DEF T!Sent
<1>3. confirmed \in 0..Len(arrived) /\ late \in 0..Len(arrived) /\ offset \in 0..(Len(arrived) + 1)
  BY DEF T!TypeOK
<1>4. \A i \in T!Ids : i \in Nat /\ i > 0 /\ fed[i] \in Nat
  <2>1. fed \in [T!Ids -> Nat]
    BY DEF T!TypeOK
  <2> QED BY <2>1, PollConstants
<1> QED BY <1>1, <1>2, <1>3, <1>4

(* What a get_updates confirms. *)
LEMMA ConfirmsBound ==
  ASSUME T!TypeOK
  PROVE  /\ T!Confirms \in Nat /\ confirmed <= T!Confirms /\ T!Confirms <= Len(arrived)
         /\ offset <= T!Confirms + 1
BY PollFacts DEF T!Confirms, T!Larger

(* A get_updates returns what follows, as far as the batch reaches, and    *)
(* the offset goes on behind it.                                           *)
LEMMA BatchFollows ==
  ASSUME T!TypeOK
  PROVE  \E n \in Nat :
           /\ T!Batch = (T!Confirms + 1)..(T!Confirms + n) /\ T!Confirms + n <= Len(arrived)
           /\ T!Cardinality(T!Batch) < BatchLimit => T!Confirms + n = Len(arrived)
           /\ T!After(T!Batch) = IF n = 0 THEN offset ELSE T!Confirms + n + 1
<1>1. PICK m \in Nat, len \in Nat : m = T!Confirms /\ len = Len(arrived) /\ m <= len
  BY PollFacts, ConfirmsBound
<1>2. PICK n : n = IF len <= m + BatchLimit THEN len - m ELSE BatchLimit
  OBVIOUS
<1>3. n \in Nat
  BY <1>1, <1>2, PollConstants
<1>4. m + n <= len /\ (n < BatchLimit => m + n = len)
  BY <1>1, <1>2, <1>3, PollConstants
<1>5. T!Batch = (m + 1)..(m + n)
  BY <1>1, <1>2, <1>3, PollFacts, PollConstants DEF T!Batch
<1>6. Cardinality((m + 1)..(m + n)) = n
  <2>1. m + 1 \in Int /\ m + n \in Int
    BY <1>3
  <2>2. PICK a \in Int, b \in Int : a = m + 1 /\ b = m + n
    BY <2>1
  <2>3. Cardinality(a..b) = IF a > b THEN 0 ELSE b - a + 1
    BY FS_Interval
  <2> QED BY <1>3, <2>2, <2>3
<1>7. T!Cardinality(T!Batch) = n
  BY <1>5, <1>6, PollConstants
<1>8. T!Batch = {} <=> n = 0
  BY <1>5, <1>3
<1>9. T!After(T!Batch) = IF n = 0 THEN offset ELSE m + n + 1
  BY <1>1, <1>7, <1>8 DEF T!After
<1> QED BY <1>1, <1>4, <1>5, <1>7, <1>9, <1>3

LEMMA TurnTaken ==
  ASSUME T!TypeOK, confirmed' = T!Confirms, offset' = T!After(T!Batch), UNCHANGED arrived
  PROVE  \E n \in Nat :
           /\ T!Batch = (T!Confirms + 1)..(T!Confirms + n) /\ T!Confirms + n <= Len(arrived)
           /\ T!Cardinality(T!Batch) < BatchLimit => T!Confirms + n = Len(arrived)
           /\ T!Confirms' = T!Confirms + n
           /\ offset' \in 0..(Len(arrived) + 1) /\ (n > 0 => offset' = T!Confirms + n + 1)
<1>1. PICK n \in Nat :
        /\ T!Batch = (T!Confirms + 1)..(T!Confirms + n) /\ T!Confirms + n <= Len(arrived)
        /\ T!Cardinality(T!Batch) < BatchLimit => T!Confirms + n = Len(arrived)
        /\ T!After(T!Batch) = IF n = 0 THEN offset ELSE T!Confirms + n + 1
  BY BatchFollows
<1>2. PICK m \in Nat, len \in Nat : m = T!Confirms /\ len = Len(arrived) /\ m <= len /\ offset <= m + 1
  BY PollFacts, ConfirmsBound
<1>3. offset' = IF n = 0 THEN offset ELSE m + n + 1
  BY <1>1, <1>2
<1>4. T!Confirms' = IF offset' = 0 THEN m ELSE IF m > offset' - 1 THEN m ELSE offset' - 1
  BY <1>2 DEF T!Confirms, T!Larger
<1>5. T!Confirms' = m + n
  BY <1>2, <1>3, <1>4, PollFacts
<1>6. offset' \in 0..(len + 1)
  BY <1>1, <1>2, <1>3, PollFacts
<1> QED BY <1>1, <1>2, <1>3, <1>5, <1>6

(* A late message stays late, and what stood in for it stays. *)
LEMMA StillAccounted ==
  ASSUME T!TypeOK, Accounted, UNCHANGED <<arrived, late>>,
         \A k \in T!Sent : fed[k] <= fed'[k] /\ fed'[k] \in Nat,
         \A k \in selected \cup dropped : k \in selected' \cup dropped' \/ fed'[k] > 0,
         NEW i \in T!Sent, i <= confirmed, fed'[i] = 0
  PROVE  i \in updates \/ i \in selected' \cup dropped' \/ Yields(i)'
<1>1. fed[i] = 0
  BY PollFacts
<1>2. i \in updates \cup selected \cup dropped \/ Yields(i)
  BY <1>1 DEF Accounted
<1>3. CASE i \in selected \cup dropped
  BY <1>3
<1>4. CASE Yields(i)
  <2>1. PICK j \in T!Sent : T!Stale(i, j) /\ (fed[j] > 0 \/ j \in selected \cup dropped)
    BY <1>4 DEF Yields
  <2>2. T!Stale(i, j)' /\ j \in T!Sent'
    BY <2>1 DEF T!Stale, T!Sent
  <2>3. fed'[j] > 0 \/ j \in selected' \cup dropped'
    BY <2>1, PollFacts
  <2> QED BY <2>2, <2>3 DEF Yields
<1> QED BY <1>2, <1>3, <1>4

LEMMA PollingInitially == T!Init => PollingInv
<1> SUFFICES ASSUME T!Init PROVE PollingInv
  OBVIOUS
<1>1. /\ arrived = <<>> /\ confirmed = 0 /\ phase = "down" /\ offset = 0 /\ late = 0
      /\ updates = {} /\ selected = {} /\ handling = {}
      /\ fed = [i \in T!Ids |-> 0] /\ again = {} /\ dropped = {} /\ ends = 0
  BY DEF T!Init
<1>2. Len(arrived) = 0 /\ T!Sent = {} /\ arrived \in Seq(Users \cup {None})
  BY <1>1 DEF T!Sent
<1>3. T!TypeOK
  BY <1>1, <1>2, PollConstants DEF T!TypeOK, T!Phases
<1>4. FedBound /\ Places
  BY <1>1 DEF FedBound, Places, Once
<1>5. Kept /\ Drained /\ DrainedAll /\ Feeding /\ Polled
  BY <1>1 DEF Kept, Drained, DrainedAll, Feeding, Polled, Once
<1>6. Accounted
  BY <1>2 DEF Accounted
<1> QED BY <1>3, <1>4, <1>5, <1>6 DEF PollingInv

(* A new update follows all others: nothing of it has been fed. *)
LEMMA PollArrives == ASSUME PollingInv, T!Arrive PROVE PollingInv'
<1>1. PICK a \in Users \cup {None} : arrived' = Append(arrived, a)
  BY DEF T!Arrive
<1>2. /\ Len(arrived) < MaxUpdates
      /\ UNCHANGED <<confirmed, phase, offset, late, updates, selected, handling, fed, again, dropped, ends>>
  BY DEF T!Arrive
<1>3. PICK len \in Nat : len = Len(arrived)
  BY PollFacts DEF PollingInv
<1>4. /\ arrived' \in Seq(Users \cup {None}) /\ Len(arrived') = len + 1
      /\ \A i \in T!Sent : arrived'[i] = arrived[i]
      /\ T!Sent = 1..len /\ T!Sent' = 1..(len + 1)
  BY <1>1, <1>3, PollFacts DEF PollingInv, T!Sent
<1>5. /\ len + 1 <= MaxUpdates /\ confirmed \in Nat /\ confirmed <= len /\ offset \in Nat /\ offset <= len + 1
      /\ late \in Nat /\ late <= len
  BY <1>2, <1>3, PollFacts, PollConstants DEF PollingInv
<1>6. T!TypeOK'
  <2>1. confirmed' \in 0..Len(arrived') /\ late' \in 0..Len(arrived') /\ offset' \in 0..(Len(arrived') + 1)
    BY <1>2, <1>4, <1>5
  <2>2. /\ updates' \subseteq T!Sent' /\ selected' \subseteq T!Sent' /\ handling' \subseteq T!Sent'
        /\ again' \subseteq T!Sent' /\ dropped' \subseteq T!Sent'
    BY <1>2, <1>4 DEF PollingInv, T!TypeOK
  <2>3. phase' \in T!Phases /\ fed' \in [T!Ids -> Nat] /\ ends' \in 0..MaxEnds
    BY <1>2 DEF PollingInv, T!TypeOK
  <2> QED BY <1>4, <1>5, <2>1, <2>2, <2>3 DEF T!TypeOK, T!Phases, T!Ids
<1>7. T!Confirms' = T!Confirms /\ T!Confirms \in Nat /\ T!Confirms <= len
  BY <1>2, <1>3, ConfirmsBound DEF PollingInv, T!Confirms
<1>8. FedBound'
  BY <1>2, <1>3, <1>4, PollConstants DEF PollingInv, FedBound, Once
<1>9. Places' /\ Kept' /\ DrainedAll' /\ Feeding'
  BY <1>2, <1>7 DEF PollingInv, Places, Kept, DrainedAll, Feeding, Once, T!Ids
<1>10. Drained'
  BY <1>2, <1>4, <1>7 DEF PollingInv, Drained, Once
<1>11. Polled'
  BY <1>2, <1>4, <1>7 DEF PollingInv, Polled, T!Ids
<1>12. Accounted'
  <2> SUFFICES ASSUME NEW i \in T!Sent', i <= confirmed', fed'[i] = 0
               PROVE  i \in updates' \cup selected' \cup dropped' \/ Yields(i)'
    BY DEF Accounted
  <2>1. i \in T!Sent
    BY <1>2, <1>4, <1>5
  <2>2. CASE i \in updates \cup selected \cup dropped
    BY <1>2, <2>2
  <2>3. CASE Yields(i)
    <3>1. PICK j \in T!Sent : T!Stale(i, j) /\ (fed[j] > 0 \/ j \in selected \cup dropped)
      BY <2>3 DEF Yields
    <3>2. j \in T!Sent' /\ T!Stale(i, j)'
      BY <1>2, <1>4, <2>1, <3>1 DEF T!Stale
    <3> QED BY <1>2, <3>1, <3>2 DEF Yields
  <2> QED BY <1>2, <2>1, <2>2, <2>3 DEF PollingInv, Accounted
<1> QED BY <1>6, <1>8, <1>9, <1>10, <1>11, <1>12 DEF PollingInv

LEMMA PollStarts == ASSUME PollingInv, T!Start PROVE PollingInv'
<1>1. /\ phase = "down" /\ phase' = "drain" /\ offset' = 0 /\ late' \in late..Len(arrived)
      /\ UNCHANGED <<arrived, confirmed, updates, selected, handling, fed, again, dropped, ends>>
  BY DEF T!Start
<1>2. late' \in 0..Len(arrived) /\ late <= late' /\ T!Sent' = T!Sent
  BY <1>1, PollFacts DEF PollingInv, T!Sent
<1>3. T!TypeOK'
  BY <1>1, <1>2, PollFacts DEF PollingInv, T!TypeOK, T!Phases, T!Ids
<1>4. T!Confirms' = confirmed
  BY <1>1 DEF T!Confirms
<1>5. FedBound' /\ Places' /\ Kept' /\ DrainedAll' /\ Feeding' /\ Polled'
  BY <1>1 DEF PollingInv, FedBound, Places, Kept, DrainedAll, Feeding, Polled, Once, T!Ids
<1>6. Drained'
  BY <1>1, <1>2, <1>4, PollFacts DEF PollingInv, Places, Drained
<1>7. Accounted'
  <2> SUFFICES ASSUME NEW i \in T!Sent, i <= confirmed, fed[i] = 0
               PROVE  i \in updates' \cup selected' \cup dropped' \/ Yields(i)'
    BY <1>1, <1>2 DEF Accounted
  <2>1. CASE Yields(i)
    <3>1. PICK j \in T!Sent : T!Stale(i, j) /\ (fed[j] > 0 \/ j \in selected \cup dropped)
      BY <2>1 DEF Yields
    <3>2. late \in Nat /\ late' \in Nat /\ j \in Nat
      BY <1>2, PollFacts DEF PollingInv
    <3>3. T!Stale(i, j)'
      BY <1>1, <1>2, <3>1, <3>2 DEF T!Stale
    <3> QED BY <1>1, <1>2, <3>1, <3>3 DEF Yields
  <2> QED BY <1>1, <2>1 DEF PollingInv, Accounted
<1> QED BY <1>3, <1>5, <1>6, <1>7 DEF PollingInv

(* One turn of the drain: a short batch has all that was sent. *)
LEMMA PollDrains == ASSUME PollingInv, T!Drain PROVE PollingInv'
<1>1. /\ phase = "drain" /\ confirmed' = T!Confirms /\ updates' = updates \cup T!Batch
      /\ offset' = T!After(T!Batch)
      /\ phase' = IF T!Cardinality(T!Batch) < BatchLimit THEN "confirm" ELSE "drain"
      /\ UNCHANGED <<arrived, late, selected, handling, fed, again, dropped, ends>>
  BY DEF T!Drain
<1>2. PICK n \in Nat :
        /\ T!Batch = (T!Confirms + 1)..(T!Confirms + n) /\ T!Confirms + n <= Len(arrived)
        /\ T!Cardinality(T!Batch) < BatchLimit => T!Confirms + n = Len(arrived)
        /\ T!Confirms' = T!Confirms + n
        /\ offset' \in 0..(Len(arrived) + 1)
  BY <1>1, TurnTaken DEF PollingInv
<1>3. PICK m \in Nat, len \in Nat :
        m = T!Confirms /\ len = Len(arrived) /\ m <= len /\ confirmed <= m /\ confirmed \in Nat
  BY PollFacts, ConfirmsBound DEF PollingInv
<1>4. /\ T!Sent = 1..len /\ T!Sent' = T!Sent /\ T!Sent \subseteq T!Ids /\ T!Ids = 1..MaxUpdates
      /\ \A i \in T!Ids : i \in Nat /\ fed[i] \in Nat
  BY <1>1, <1>3, PollFacts, PollConstants DEF PollingInv, T!Sent
<1>5. T!Batch \subseteq T!Sent
  BY DEF T!Batch
<1>6. T!TypeOK'
  <2>1. confirmed' \in 0..Len(arrived') /\ late' \in 0..Len(arrived') /\ offset' \in 0..(Len(arrived') + 1)
    BY <1>1, <1>2, <1>3 DEF PollingInv, T!TypeOK
  <2>2. /\ updates' \subseteq T!Sent' /\ selected' \subseteq T!Sent' /\ handling' \subseteq T!Sent'
        /\ again' \subseteq T!Sent' /\ dropped' \subseteq T!Sent'
    BY <1>1, <1>4, <1>5 DEF PollingInv, T!TypeOK
  <2>3. phase' \in T!Phases /\ fed' \in [T!Ids -> Nat] /\ ends' \in 0..MaxEnds
        /\ arrived' \in Seq(Users \cup {None}) /\ Len(arrived') <= MaxUpdates
    BY <1>1 DEF PollingInv, T!TypeOK, T!Phases
  <2> QED BY <2>1, <2>2, <2>3 DEF T!TypeOK, T!Phases, T!Ids
<1>7. phase' \in {"drain", "confirm"}
  BY <1>1
<1>8. FedBound' /\ Places' /\ Feeding' /\ Polled'
  BY <1>1, <1>7 DEF PollingInv, FedBound, Places, Feeding, Polled, Once, T!Ids
<1>9. \A i \in T!Ids : i > confirmed => fed[i] <= Once(i)
  BY <1>1 DEF PollingInv, Kept
<1>10. Kept'
  BY <1>1, <1>3, <1>4, <1>9 DEF Kept, Once, T!Ids
<1>11. Drained'
  <2>1. ASSUME NEW i \in updates' PROVE i <= m + n /\ fed[i] <= Once(i)
    <3>1. CASE i \in updates
      BY <1>1, <1>3, <1>4, <3>1 DEF PollingInv, Drained, T!TypeOK
    <3>2. CASE i \in T!Batch
      BY <1>2, <1>3, <1>4, <1>5, <1>9, <3>2
    <3> QED BY <1>1, <2>1, <3>1, <3>2
  <2>2. ASSUME NEW i \in T!Sent, i > m, i <= m + n PROVE i \in updates'
    BY <1>1, <1>2, <1>3, <1>4, <2>2
  <2> QED BY <1>1, <1>2, <1>3, <1>4, <2>1, <2>2 DEF Drained, Once
<1>12. DrainedAll'
  <2>1. ASSUME phase' = "confirm", NEW i \in T!Ids, i > m + n PROVE fed[i] = 0
    <3>1. m + n = len
      BY <1>1, <1>2, <1>3, <2>1
    <3> QED BY <1>3, <2>1, <3>1 DEF PollingInv, FedBound
  <2> QED BY <1>1, <1>2, <1>3, <2>1 DEF DrainedAll, T!Ids
<1>13. Accounted'
  <2> SUFFICES ASSUME NEW i \in T!Sent, i <= m, fed[i] = 0
               PROVE  i \in updates' \cup selected' \cup dropped' \/ Yields(i)'
    BY <1>1, <1>3, <1>4 DEF Accounted
  <2>1. CASE i <= confirmed
    <3>1. i \in updates \/ i \in selected' \cup dropped' \/ Yields(i)'
      BY <1>1, <1>4, <2>1, StillAccounted DEF PollingInv
    <3> QED BY <1>1, <3>1
  <2>2. CASE i > confirmed
    BY <1>1, <1>3, <2>2 DEF PollingInv, Drained
  <2> QED BY <1>3, <1>4, <2>1, <2>2
<1> QED BY <1>6, <1>8, <1>10, <1>11, <1>12, <1>13 DEF PollingInv

(* Of the messages of an actor that are late the greatest one is kept. *)
LEMMA LastIsKept ==
  ASSUME PollingInv, NEW i \in updates, i \notin T!LatestBacklog
  PROVE  \E j \in T!LatestBacklog : T!Stale(i, j) /\ j \in T!Sent
<1> DEFINE D == {late - j : j \in {k \in updates : T!Stale(i, k)}}
           R == {ss \in Nat \X Nat : ss[1] < ss[2]}
<1>1. \A k \in updates : k \in T!Sent /\ k \in Nat /\ late \in Nat
  BY PollFacts DEF PollingInv, T!TypeOK
<1>2. \A k \in updates : T!Stale(i, k) => late - k \in Nat
  BY <1>1 DEF T!Stale
<1>3. D \subseteq Nat /\ D # {}
  BY <1>2 DEF T!LatestBacklog
<1>4. IsWellFoundedOn(R, Nat)
  BY NatLessThanWellFounded DEF OpToRel
<1>5. PICK d \in D : \A y \in D : ~(<<y, d>> \in R)
  <2> HIDE DEF D, R
  <2> QED BY <1>3, <1>4, WFMin
<1>6. PICK j \in updates : T!Stale(i, j) /\ d = late - j
  OBVIOUS
<1>7. ASSUME NEW k \in updates, T!Stale(j, k) PROVE FALSE
  <2>1. T!Stale(i, k)
    BY <1>1, <1>6, <1>7 DEF T!Stale
  <2>2. late - k \in D /\ late - k \in Nat /\ d \in Nat
    BY <1>2, <1>3, <2>1
  <2>3. ~(late - k < d)
    BY <1>5, <2>2
  <2>4. j < k /\ j \in Nat /\ k \in Nat /\ late \in Nat
    BY <1>1, <1>7 DEF T!Stale
  <2> QED BY <1>6, <2>3, <2>4
<1>8. j \in T!LatestBacklog
  BY <1>7 DEF T!LatestBacklog
<1> QED BY <1>1, <1>6, <1>8

LEMMA PollConfirms == ASSUME PollingInv, T!Confirm PROVE PollingInv'
<1>1. /\ phase = "confirm" /\ confirmed' = T!Confirms /\ phase' = "feed"
      /\ selected' = T!LatestBacklog /\ updates' = {}
      /\ UNCHANGED <<arrived, offset, late, handling, fed, again, dropped, ends>>
  BY DEF T!Confirm
<1>2. PICK m \in Nat : /\ m = T!Confirms /\ m <= Len(arrived) /\ confirmed <= m /\ confirmed \in Nat
                       /\ Len(arrived) \in Nat
  BY PollFacts, ConfirmsBound DEF PollingInv
<1>3. /\ T!Sent' = T!Sent /\ T!Sent \subseteq T!Ids
      /\ \A i \in T!Ids : i \in Nat /\ fed[i] \in Nat
  BY <1>1, PollFacts DEF PollingInv, T!Sent
<1>4. T!LatestBacklog \subseteq updates /\ updates \subseteq T!Sent
  BY DEF T!LatestBacklog, PollingInv, T!TypeOK
<1>5. T!TypeOK'
  <2>1. confirmed' \in 0..Len(arrived') /\ late' \in 0..Len(arrived') /\ offset' \in 0..(Len(arrived') + 1)
    BY <1>1, <1>2 DEF PollingInv, T!TypeOK
  <2>2. /\ updates' \subseteq T!Sent' /\ selected' \subseteq T!Sent' /\ handling' \subseteq T!Sent'
        /\ again' \subseteq T!Sent' /\ dropped' \subseteq T!Sent'
    BY <1>1, <1>3, <1>4 DEF PollingInv, T!TypeOK
  <2>3. phase' \in T!Phases /\ fed' \in [T!Ids -> Nat] /\ ends' \in 0..MaxEnds
        /\ arrived' \in Seq(Users \cup {None}) /\ Len(arrived') <= MaxUpdates
    BY <1>1 DEF PollingInv, T!TypeOK, T!Phases
  <2> QED BY <2>1, <2>2, <2>3 DEF T!TypeOK, T!Phases, T!Ids
<1>6. FedBound' /\ Places' /\ Kept' /\ Drained' /\ DrainedAll' /\ Polled'
  BY <1>1 DEF PollingInv, FedBound, Places, Kept, Drained, DrainedAll, Polled, Once, T!Ids
<1>7. Feeding'
  <2>1. \A i \in T!Ids : i > m => fed[i] = 0
    BY <1>1, <1>2 DEF PollingInv, DrainedAll
  <2>2. \A i \in T!LatestBacklog : i <= m /\ fed[i] <= Once(i)
    BY <1>1, <1>2, <1>4 DEF PollingInv, Drained
  <2> QED BY <1>1, <1>2, <2>1, <2>2 DEF Feeding, Once, T!Ids
<1>8. Accounted'
  <2> SUFFICES ASSUME NEW i \in T!Sent, i <= m, fed[i] = 0
               PROVE  i \in selected' \cup dropped' \/ Yields(i)'
    BY <1>1, <1>2, <1>3 DEF Accounted
  <2>1. CASE i \in updates
    <3>1. CASE i \in T!LatestBacklog
      BY <1>1, <3>1
    <3>2. CASE i \notin T!LatestBacklog
      <4>1. PICK j \in T!LatestBacklog : T!Stale(i, j) /\ j \in T!Sent
        BY <2>1, <3>2, LastIsKept
      <4>2. T!Stale(i, j)' /\ j \in T!Sent' /\ j \in selected'
        BY <1>1, <1>3, <4>1 DEF T!Stale
      <4> QED BY <4>2 DEF Yields
    <3> QED BY <3>1, <3>2
  <2>2. CASE i \notin updates
    <3>1. i <= confirmed
      BY <1>1, <1>2, <1>3, <2>2 DEF PollingInv, Drained
    <3>2. selected = {}
      BY <1>1 DEF PollingInv, Places
    <3>3. i \in updates \/ i \in selected' \cup dropped' \/ Yields(i)'
      BY <1>1, <1>3, <3>1, <3>2, StillAccounted DEF PollingInv
    <3> QED BY <2>2, <3>3
  <2> QED BY <2>1, <2>2
<1> QED BY <1>5, <1>6, <1>7, <1>8 DEF PollingInv

LEMMA PollFeeds == ASSUME PollingInv, T!Feed PROVE PollingInv'
<1>1. /\ phase = "feed"
      /\ UNCHANGED <<arrived, confirmed, phase, offset, late, updates, again, dropped, ends>>
  BY DEF T!Feed
<1>2. PICK k \in selected : /\ selected' = selected \ {k} /\ handling' = handling \cup {k}
                            /\ fed' = [i \in T!Ids |-> IF i \in {k} THEN fed[i] + 1 ELSE fed[i]]
  BY DEF T!Feed, T!Handle
<1>3. /\ T!Sent' = T!Sent /\ T!Sent \subseteq T!Ids /\ selected \subseteq T!Sent
      /\ \A i \in T!Ids : i \in Nat /\ fed[i] \in Nat
      /\ Len(arrived) \in Nat /\ \A i \in T!Sent : i <= Len(arrived)
  BY <1>1, PollFacts DEF PollingInv, T!Sent, T!TypeOK
<1>4. k \in T!Sent /\ k <= confirmed /\ fed[k] <= Once(k) /\ confirmed \in Nat /\ fed'[k] = fed[k] + 1
      /\ \A i \in T!Ids : i # k => fed'[i] = fed[i]
  BY <1>1, <1>2, <1>3, PollFacts DEF PollingInv, Feeding
<1>5. T!TypeOK'
  <2>1. handling' \subseteq T!Sent' /\ selected' \subseteq T!Sent'
    BY <1>2, <1>3, <1>4 DEF PollingInv, T!TypeOK
  <2>2. fed' \in [T!Ids -> Nat]
    BY <1>2, <1>3
  <2> QED BY <1>1, <2>1, <2>2 DEF PollingInv, T!TypeOK, T!Phases, T!Ids, T!Sent
<1>6. FedBound'
  <2> SUFFICES ASSUME NEW i \in T!Ids PROVE fed'[i] <= 1 + Once(i) /\ (i > Len(arrived) => fed'[i] = 0)
    BY <1>1 DEF FedBound, Once, T!Ids
  <2>1. CASE i = k
    BY <1>3, <1>4, <2>1 DEF Once
  <2>2. CASE i # k
    BY <1>4, <2>2 DEF PollingInv, FedBound
  <2> QED BY <2>1, <2>2
<1>7. Places' /\ Kept' /\ Drained' /\ DrainedAll' /\ Polled'
  BY <1>1 DEF PollingInv, Places, Kept, Drained, DrainedAll, Polled
<1>8. Feeding'
  <2>1. \A i \in T!Ids : i > confirmed => fed'[i] = 0
    BY <1>1, <1>3, <1>4 DEF PollingInv, Feeding
  <2>2. \A i \in selected' : i <= confirmed /\ fed'[i] <= Once(i)
    BY <1>1, <1>2, <1>3, <1>4 DEF PollingInv, Feeding
  <2> QED BY <1>1, <2>1, <2>2 DEF Feeding, Once, T!Ids
<1>9. Accounted'
  <2> SUFFICES ASSUME NEW i \in T!Sent, i <= confirmed, fed'[i] = 0
               PROVE  i \in updates' \cup selected' \cup dropped' \/ Yields(i)'
    BY <1>1, <1>3 DEF Accounted
  <2>1. \A j \in T!Sent : fed[j] <= fed'[j] /\ fed'[j] \in Nat
    BY <1>3, <1>4
  <2>2. \A j \in selected \cup dropped : j \in selected' \cup dropped' \/ fed'[j] > 0
    BY <1>1, <1>2, <1>3, <1>4
  <2>3. i \in updates \/ i \in selected' \cup dropped' \/ Yields(i)'
    BY <1>1, <2>1, <2>2, StillAccounted DEF PollingInv
  <2> QED BY <1>1, <2>3
<1> QED BY <1>5, <1>6, <1>7, <1>8, <1>9 DEF PollingInv

LEMMA PollIdles == ASSUME PollingInv, T!HandlerEnds \/ T!StartPolling \/ UNCHANGED T!vars PROVE PollingInv'
<1>1. UNCHANGED <<arrived, confirmed, late, updates, selected, fed, again, dropped, ends>>
  BY DEF T!HandlerEnds, T!StartPolling, T!vars
<1>2. \A i \in T!Sent : fed[i] <= fed'[i] /\ fed'[i] \in Nat
  BY <1>1, PollFacts DEF PollingInv
<1>3. handling' \subseteq handling /\ T!Sent' = T!Sent
  BY <1>1 DEF T!HandlerEnds, T!StartPolling, T!vars, T!Sent
<1>4. Accounted' /\ FedBound'
  BY <1>1, <1>3 DEF PollingInv, Accounted, FedBound, Yields, T!Stale, Once, T!Ids
<1>5. CASE T!HandlerEnds \/ UNCHANGED T!vars
  <2>1. UNCHANGED <<phase, offset>>
    BY <1>5 DEF T!HandlerEnds, T!vars
  <2>2. T!TypeOK'
    BY <1>1, <1>3, <2>1 DEF PollingInv, T!TypeOK, T!Phases, T!Ids
  <2>3. T!Confirms' = T!Confirms
    BY <1>1, <2>1 DEF T!Confirms
  <2>4. Places' /\ Kept' /\ Drained' /\ DrainedAll' /\ Feeding' /\ Polled'
    BY <1>1, <1>3, <2>1, <2>3 DEF PollingInv, Places, Kept, Drained, DrainedAll, Feeding, Polled, Once, T!Ids
  <2> QED BY <1>4, <2>2, <2>4 DEF PollingInv
<1>6. CASE T!StartPolling
  <2>1. phase = "feed" /\ selected = {} /\ phase' = "poll" /\ offset' = 0
    BY <1>6 DEF T!StartPolling
  <2>2. T!TypeOK'
    BY <1>1, <1>3, <2>1, PollFacts DEF PollingInv, T!TypeOK, T!Phases, T!Ids
  <2>3. T!Confirms' = confirmed
    BY <1>1, <2>1 DEF T!Confirms
  <2>4. Places' /\ Kept' /\ Drained' /\ DrainedAll' /\ Feeding'
    BY <1>1, <2>1 DEF PollingInv, Places, Kept, Drained, DrainedAll, Feeding
  <2>5. Polled'
    <3>1. \A i \in T!Ids : i > confirmed => fed[i] <= (IF i < 0 THEN 1 ELSE 0)
      BY <2>1, PollFacts DEF PollingInv, Feeding
    <3>2. \A i \in T!Sent : ~(i > confirmed /\ i <= confirmed)
      BY PollFacts DEF PollingInv
    <3> QED BY <1>1, <1>3, <2>1, <2>3, <3>1, <3>2 DEF Polled, T!Ids
  <2> QED BY <1>4, <2>2, <2>4, <2>5 DEF PollingInv
<1> QED BY <1>5, <1>6

(* A batch of the poll was never fed before, and is behind the offset.     *)
LEMMA PollPolls == ASSUME PollingInv, T!Poll PROVE PollingInv'
<1>1. /\ phase = "poll" /\ confirmed' = T!Confirms /\ offset' = T!After(T!Batch)
      /\ handling' = handling \cup T!Batch
      /\ fed' = [i \in T!Ids |-> IF i \in T!Batch THEN fed[i] + 1 ELSE fed[i]]
      /\ UNCHANGED <<arrived, phase, late, updates, selected, again, dropped, ends>>
  BY DEF T!Poll, T!Handle
<1>2. PICK n \in Nat :
        /\ T!Batch = (T!Confirms + 1)..(T!Confirms + n) /\ T!Confirms + n <= Len(arrived)
        /\ T!Confirms' = T!Confirms + n
        /\ offset' \in 0..(Len(arrived) + 1) /\ (n > 0 => offset' = T!Confirms + n + 1)
  BY <1>1, TurnTaken DEF PollingInv
<1>3. PICK m \in Nat, len \in Nat :
        /\ m = T!Confirms /\ len = Len(arrived) /\ m <= len /\ confirmed <= m /\ confirmed \in Nat
        /\ offset <= m + 1 /\ offset \in Nat
  BY PollFacts, ConfirmsBound DEF PollingInv
<1>4. /\ T!Sent = 1..len /\ T!Sent' = T!Sent /\ T!Sent \subseteq T!Ids
      /\ \A i \in T!Ids : i \in Nat /\ fed[i] \in Nat
  BY <1>1, <1>3, PollFacts DEF PollingInv, T!Sent
<1>5. T!Batch = (m + 1)..(m + n) /\ T!Batch \subseteq T!Sent /\ m + n <= len
  BY <1>2, <1>3 DEF T!Batch
<1>6. \A i \in T!Ids : i > m => fed[i] = 0
  <2> SUFFICES ASSUME NEW i \in T!Ids, i > m PROVE fed[i] = 0
    OBVIOUS
  <2>1. i > confirmed /\ ~(i < offset)
    BY <1>3, <1>4
  <2>2. fed[i] <= (IF i < offset THEN 1 ELSE 0)
    BY <1>1, <2>1 DEF PollingInv, Polled
  <2> QED BY <1>4, <2>1, <2>2
<1>7. \A i \in T!Ids : fed'[i] = IF i \in T!Batch THEN 1 ELSE fed[i]
  BY <1>1, <1>3, <1>4, <1>5, <1>6
<1>8. T!TypeOK'
  <2>1. confirmed' \in 0..Len(arrived') /\ late' \in 0..Len(arrived') /\ offset' \in 0..(Len(arrived') + 1)
    BY <1>1, <1>2, <1>3 DEF PollingInv, T!TypeOK
  <2>2. handling' \subseteq T!Sent' /\ fed' \in [T!Ids -> Nat]
    BY <1>1, <1>4, <1>5 DEF PollingInv, T!TypeOK
  <2>3. /\ updates' \subseteq T!Sent' /\ selected' \subseteq T!Sent'
        /\ again' \subseteq T!Sent' /\ dropped' \subseteq T!Sent'
    BY <1>1, <1>4 DEF PollingInv, T!TypeOK
  <2>4. phase' \in T!Phases /\ ends' \in 0..MaxEnds
        /\ arrived' \in Seq(Users \cup {None}) /\ Len(arrived') <= MaxUpdates
    BY <1>1 DEF PollingInv, T!TypeOK, T!Phases
  <2> QED BY <2>1, <2>2, <2>3, <2>4 DEF T!TypeOK, T!Phases, T!Ids
<1>9. FedBound'
  <2> SUFFICES ASSUME NEW i \in T!Ids PROVE fed'[i] <= 1 + Once(i) /\ (i > len => fed'[i] = 0)
    BY <1>1, <1>3 DEF FedBound, Once, T!Ids
  <2>1. CASE i \in T!Batch
    BY <1>3, <1>4, <1>5, <1>7, <2>1 DEF Once
  <2>2. CASE i \notin T!Batch
    BY <1>3, <1>7, <2>2 DEF PollingInv, FedBound
  <2> QED BY <2>1, <2>2
<1>10. Places' /\ Kept' /\ Drained' /\ DrainedAll' /\ Feeding'
  BY <1>1 DEF PollingInv, Places, Kept, Drained, DrainedAll, Feeding
<1>11. Polled'
  <2>1. ASSUME NEW i \in T!Ids, i > m PROVE fed'[i] <= (IF i < offset' THEN 1 ELSE 0)
    <3>1. CASE i \in T!Batch
      <4>1. n > 0 /\ i <= m + n /\ fed'[i] = 1
        BY <1>4, <1>5, <1>7, <2>1, <3>1
      <4>2. i < offset'
        BY <1>2, <1>3, <1>4, <4>1
      <4> QED BY <4>1, <4>2
    <3>2. CASE i \notin T!Batch
      <4>1. fed'[i] = 0
        BY <1>6, <1>7, <2>1, <3>2
      <4> QED BY <4>1
    <3> QED BY <3>1, <3>2
  <2>2. ASSUME NEW i \in T!Sent, i > m, i <= m + n PROVE fed'[i] > 0
    <3>1. i \in T!Batch
      BY <1>4, <1>5, <2>2
    <3> QED BY <1>4, <1>7, <3>1
  <2> QED BY <1>1, <1>2, <1>3, <1>4, <2>1, <2>2 DEF Polled, T!Ids
<1>12. Accounted'
  <2> SUFFICES ASSUME NEW i \in T!Sent, i <= m, fed'[i] = 0
               PROVE  i \in updates' \cup selected' \cup dropped' \/ Yields(i)'
    BY <1>1, <1>3, <1>4 DEF Accounted
  <2>1. CASE i <= confirmed
    <3>1. \A k \in T!Sent : fed[k] <= fed'[k] /\ fed'[k] \in Nat
      <4>1. \A k \in T!Batch : fed[k] = 0
        BY <1>4, <1>5, <1>6
      <4> QED BY <1>4, <1>7, <4>1
    <3>2. i \in updates \/ i \in selected' \cup dropped' \/ Yields(i)'
      BY <1>1, <2>1, <3>1, StillAccounted DEF PollingInv
    <3> QED BY <1>1, <3>2
  <2>2. CASE i > confirmed
    <3>1. fed[i] > 0
      BY <1>1, <1>3, <2>2 DEF PollingInv, Polled
    <3> QED BY <1>4, <1>7, <3>1
  <2> QED BY <1>3, <1>4, <2>1, <2>2
<1> QED BY <1>8, <1>9, <1>10, <1>11, <1>12 DEF PollingInv

(* What the process had not confirmed is told of again: in the drain none  *)
(* of it had been fed, and in the poll it is counted in again.             *)
LEMMA PollEnds == ASSUME PollingInv, T!End PROVE PollingInv'
<1>1. /\ phase # "down" /\ ends < MaxEnds /\ ends' = ends + 1 /\ phase' = "down"
      /\ confirmed' \in {confirmed, IF phase = "feed" THEN confirmed ELSE T!Confirms}
      /\ dropped' = dropped \cup selected \cup {i \in updates \cup handling : i <= confirmed'}
      /\ again' = again \cup {i \in T!Sent : phase = "poll" /\ confirmed' < i /\ i < offset}
      /\ updates' = {} /\ selected' = {} /\ handling' = {}
      /\ UNCHANGED <<arrived, offset, late, fed>>
  BY DEF T!End
<1>2. PICK m \in Nat, len \in Nat :
        /\ m = T!Confirms /\ len = Len(arrived) /\ m <= len /\ confirmed <= m /\ confirmed \in Nat
        /\ offset <= m + 1 /\ offset \in Nat
  BY PollFacts, ConfirmsBound DEF PollingInv
<1>3. confirmed' \in Nat /\ confirmed <= confirmed' /\ confirmed' <= m /\ (phase = "feed" => confirmed' = confirmed)
  BY <1>1, <1>2
<1>4. /\ T!Sent = 1..len /\ T!Sent' = T!Sent /\ T!Sent \subseteq T!Ids
      /\ \A i \in T!Ids : i \in Nat /\ i > 0 /\ fed[i] \in Nat
      /\ phase \in {"drain", "confirm", "feed", "poll"}
  BY <1>1, <1>2, PollFacts DEF PollingInv, T!Sent, T!TypeOK, T!Phases
<1>5. again \subseteq again' /\ again' \subseteq T!Sent
  BY <1>1 DEF PollingInv, T!TypeOK
<1>6. T!TypeOK'
  <2>1. confirmed' \in 0..Len(arrived') /\ late' \in 0..Len(arrived') /\ offset' \in 0..(Len(arrived') + 1)
    BY <1>1, <1>2, <1>3 DEF PollingInv, T!TypeOK
  <2>2. dropped' \subseteq T!Sent'
    BY <1>1, <1>4 DEF PollingInv, T!TypeOK
  <2>3. ends' \in 0..MaxEnds
    BY <1>1, PollConstants DEF PollingInv, T!TypeOK
  <2>4. /\ fed' \in [T!Ids -> Nat] /\ phase' \in T!Phases
        /\ arrived' \in Seq(Users \cup {None}) /\ Len(arrived') <= MaxUpdates
    BY <1>1 DEF PollingInv, T!TypeOK, T!Phases
  <2>5. updates' \subseteq T!Sent' /\ selected' \subseteq T!Sent' /\ handling' \subseteq T!Sent' /\ again' \subseteq T!Sent'
    BY <1>1, <1>4, <1>5
  <2> QED BY <2>1, <2>2, <2>3, <2>4, <2>5 DEF T!TypeOK, T!Phases, T!Ids
<1>7. Once(1) \in Nat /\ \A i \in T!Ids : Once(i) <= Once(i)' /\ Once(i) \in {0, 1} /\ Once(i)' \in {0, 1}
  BY <1>5 DEF Once
<1>8. FedBound'
  <2> SUFFICES ASSUME NEW i \in T!Ids PROVE fed[i] <= 1 + Once(i)' /\ (i > len => fed[i] = 0)
    BY <1>1, <1>2 DEF FedBound, T!Ids
  <2>1. fed[i] <= 1 + Once(i) /\ (i > len => fed[i] = 0)
    BY <1>2 DEF PollingInv, FedBound
  <2> QED BY <1>4, <1>7, <2>1
<1>9. Places' /\ Drained' /\ DrainedAll' /\ Feeding' /\ Polled'
  BY <1>1 DEF Places, Drained, DrainedAll, Feeding, Polled
<1>10. Kept'
  <2> SUFFICES ASSUME NEW i \in T!Ids, i > confirmed' PROVE fed[i] <= Once(i)'
    BY <1>1 DEF Kept, T!Ids
  <2>1. i > confirmed
    BY <1>2, <1>3, <1>4
  <2>2. CASE phase \in {"drain", "confirm"}
    <3>1. fed[i] <= Once(i)
      BY <2>1, <2>2 DEF PollingInv, Kept
    <3> QED BY <1>4, <1>7, <3>1
  <2>3. CASE phase = "feed"
    <3>1. fed[i] = 0
      BY <2>1, <2>3 DEF PollingInv, Feeding
    <3> QED BY <1>7, <3>1
  <2>4. CASE phase = "poll"
    <3>1. fed[i] <= (IF i < offset THEN 1 ELSE 0)
      BY <2>1, <2>4 DEF PollingInv, Polled
    <3>2. CASE i < offset
      <4>1. i \in T!Sent
        <5>1. offset <= len + 1
          BY <1>2
        <5> QED BY <1>2, <1>4, <3>2, <5>1
      <4>2. i \in again'
        BY <1>1, <2>4, <3>2, <4>1
      <4> QED BY <3>1, <3>2, <4>2 DEF Once
    <3>3. CASE ~(i < offset)
      BY <1>4, <1>7, <3>1, <3>3
    <3> QED BY <3>2, <3>3
  <2> QED BY <1>4, <2>2, <2>3, <2>4
<1>11. Accounted'
  <2> SUFFICES ASSUME NEW i \in T!Sent, i <= confirmed', fed[i] = 0
               PROVE  i \in dropped' \/ Yields(i)'
    BY <1>1, <1>4 DEF Accounted
  <2>1. i \in updates => i \in dropped'
    BY <1>1
  <2>2. CASE i <= confirmed
    <3>1. i \in updates \/ i \in selected' \cup dropped' \/ Yields(i)'
      BY <1>1, <1>4, <2>2, StillAccounted DEF PollingInv
    <3> QED BY <1>1, <2>1, <3>1
  <2>3. CASE i > confirmed
    <3>1. phase # "feed" /\ i <= m
      BY <1>2, <1>3, <1>4, <2>3
    <3>2. CASE phase \in {"drain", "confirm"}
      <4>1. i \in updates
        BY <1>2, <2>3, <3>1, <3>2 DEF PollingInv, Drained
      <4> QED BY <2>1, <4>1
    <3>3. CASE phase = "poll"
      <4>1. fed[i] > 0
        BY <1>2, <2>3, <3>1, <3>3 DEF PollingInv, Polled
      <4> QED BY <4>1
    <3> QED BY <1>4, <3>1, <3>2, <3>3
  <2> QED BY <1>2, <1>4, <2>2, <2>3
<1> QED BY <1>6, <1>8, <1>9, <1>10, <1>11 DEF PollingInv

LEMMA PollingInvariance == ASSUME PollingInv, [T!Next]_T!vars PROVE PollingInv'
<1>1. CASE T!Arrive BY <1>1, PollArrives
<1>2. CASE T!Start BY <1>2, PollStarts
<1>3. CASE T!Drain BY <1>3, PollDrains
<1>4. CASE T!Confirm BY <1>4, PollConfirms
<1>5. CASE T!Feed BY <1>5, PollFeeds
<1>6. CASE T!HandlerEnds \/ T!StartPolling \/ UNCHANGED T!vars BY <1>6, PollIdles
<1>7. CASE T!Poll BY <1>7, PollPolls
<1>8. CASE T!End BY <1>8, PollEnds
<1> QED BY <1>1, <1>2, <1>3, <1>4, <1>5, <1>6, <1>7, <1>8 DEF T!Next

LEMMA PollingInvariant == T!Spec => []PollingInv
<1>1. T!Init => PollingInv
  BY PollingInitially
<1>2. PollingInv /\ [T!Next]_T!vars => PollingInv'
  BY PollingInvariance
<1> QED BY <1>1, <1>2, PTL DEF T!Spec

(* However often the process ends, an update that Telegram has dropped was *)
(* fed, gave way to a newer late message of its actor, or was lost with a  *)
(* process; and none is fed twice but one an ended poll had not confirmed. *)
THEOREM FedOnceOrTold == T!Spec => []FedOnce
<1>1. PollingInv => FedOnce
  <2> SUFFICES ASSUME PollingInv, NEW i \in T!Sent
               PROVE  /\ fed[i] <= 1 + T!Cardinality({i} \cap again)
                      /\ i <= confirmed /\ fed[i] = 0 =>
                           \/ i \in updates \cup selected \cup dropped
                           \/ \E j \in T!Sent : T!Stale(i, j) /\ (fed[j] > 0 \/ j \in selected \cup dropped)
    BY DEF FedOnce, T!FedOnce
  <2>1. T!Cardinality({i} \cap again) = Once(i)
    <3>1. CASE i \in again
      <4>1. {i} \cap again = {i}
        BY <3>1
      <4> QED BY <3>1, <4>1, FS_Singleton, PollConstants DEF Once
    <3>2. CASE i \notin again
      <4>1. {i} \cap again = {}
        BY <3>2
      <4> QED BY <3>2, <4>1, FS_EmptySet, PollConstants DEF Once
    <3> QED BY <3>1, <3>2
  <2>2. fed[i] <= 1 + Once(i)
    BY PollFacts DEF PollingInv, FedBound
  <2> QED BY <2>1, <2>2 DEF PollingInv, Accounted, Yields
<1> QED BY <1>1, PollingInvariant, PTL

-----------------------------------------------------------------------------
(* The components together: each takes its own steps or stutters.          *)

LEMMA EachComponent ==
  /\ MCSpec => Spec
  /\ MCSpec => G!Spec
  /\ MCSpec => L!Spec
  /\ MCSpec => F!Spec
  /\ MCSpec => T!Spec
<1> USE DEF MCNext, MCvars, StateStep, GroupsStep, MailingsStep, PhotosStep, PollingStep,
        state, groups, mailings, photos, polling
<1>1. MCInit => Init /\ G!Init /\ L!Init /\ F!Init /\ T!Init
  BY DEF MCInit
<1>2. [MCNext]_MCvars => [Next]_vars
  BY DEF vars, states, slots, switches
<1>3. [MCNext]_MCvars => [G!Next]_(G!vars)
  BY DEF G!vars
<1>4. [MCNext]_MCvars => [L!Next]_(L!vars)
  BY DEF L!vars, L!prompts, L!schedules
<1>5. [MCNext]_MCvars => [F!Next]_(F!vars)
  BY DEF F!vars
<1>6. [MCNext]_MCvars => [T!Next]_(T!vars)
  BY DEF T!vars
<1> QED BY <1>1, <1>2, <1>3, <1>4, <1>5, <1>6, PTL DEF MCSpec, Spec, G!Spec, L!Spec, F!Spec, T!Spec

(* Every variable of the five components keeps its type, for any sets of   *)
(* holders, users, groups and schedules and any of the limits that the     *)
(* assumptions of the modules admit.                                       *)
THEOREM BackgroundTyped == MCSpec => []TypesOK
<1>1. StateInv /\ GroupsInv /\ MailingsInv /\ PhotosInv /\ PollingInv => TypesOK
  BY MailingsTyped DEF StateInv, GroupsInv, PhotosInv, PollingInv, TypesOK
<1> QED BY <1>1, EachComponent, StateInvariant, GroupsInvariant, MailingsInvariant, PhotosInvariant,
           PollingInvariant, PTL
=============================================================================
