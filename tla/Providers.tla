------------------------------- MODULE Providers -------------------------------
(***************************************************************************)
(* The AI provider client: services/ai_provider_client.py, the provider    *)
(* pages of the panel (admin/services.py) and /admin_provider.             *)
(*                                                                         *)
(* A call goes through the providers in the order of the config file and   *)
(* through the keys of each, from a shared cursor on, until one answers.   *)
(* Calls run in threads of their own (asyncio.to_thread) and meet in the   *)
(* cursors, the cooldowns, the key rows of the database and the list of    *)
(* providers; a call is cut at its requests.  A key is its position in its *)
(* provider's list, as in the table ai_provider_key_status.  What a prompt *)
(* and an answer say is left out.                                          *)
(***************************************************************************)
EXTENDS Naturals, FiniteSets, Sequences, SequencesExt

CONSTANTS
  Names,     \* provider ids
  Forced,    \* those that admins force on chats
  Calls,     \* threads that may call at once
  Failures,  \* a subset of Telling \cup Silent
  Shipped,   \* the config files to start from, and how many of MaxEdits are left out for each
  MaxKeys,   \* bound: keys of a provider
  MaxEdits,  \* bound: changes of the config file
  None

Telling == {"limited", "refused", "server", "rejected"}   \* with a time to wait
Silent == {"no_answer", "bad_answer"}                     \* without
Keys == 0..(MaxKeys - 1)

VARIABLES
  file,      \* the config file
  writing,   \* the config a panel request has begun to write, or None
  edits,
  read,      \* the text behind the fingerprint
  list,      \* the providers in use
  cursor,    \* where the next call starts, by provider
  resting,   \* providers in a cooldown
  status,    \* rows of ai_provider_key_status
  healthy,   \* keys whose health check is cached
  call,      \* the running calls
  told,      \* keys told to wait and not called back since
  late       \* calls that were asking a key when it was told to wait, and have not ended

vars == <<file, writing, edits, read, list, cursor, resting, status, healthy, call, told, late>>
config == <<file, writing, edits>>
keyRows == <<status, told, late>>
shared == <<read, list, cursor, resting, healthy, keyRows>>

Torn == <<>>  \* what a reader finds between the two halves of write_text

Entries == [id : Names, enabled : BOOLEAN, health : BOOLEAN, keys : 0..MaxKeys]

Begun(forced) ==
  [at |-> "loading", forced |-> forced, new |-> None, rest |-> <<>>, keys |-> <<>>, key |-> None,
   seen |-> {}, repeated |-> FALSE, turns |-> {}]
Idle == [Begun(None) EXCEPT !.at = "idle"]

Init ==
  /\ \E s \in Shipped : file = s.file /\ edits = s.edits
  /\ writing = None
  /\ read = file /\ list = file
  /\ cursor = [p \in Names |-> 0]
  /\ resting = {}
  /\ status = [x \in Names \X Keys |-> [errors |-> 0, off |-> FALSE]]
  /\ healthy = {}
  /\ call = [c \in Calls |-> Idle]
  /\ told = {}
  /\ late = [x \in Names \X Keys |-> {}]

-----------------------------------------------------------------------------
(* The config file. *)

Write(config1) ==
  /\ writing = None /\ edits < MaxEdits
  /\ writing' = config1 /\ file' = Torn /\ edits' = edits + 1
  /\ UNCHANGED <<shared, call>>

AddProviderKey(i) == file[i].keys < MaxKeys /\ Write([file EXCEPT ![i].keys = @ + 1])
DeleteProviderKey(i) == file[i].keys > 0 /\ Write([file EXCEPT ![i].keys = @ - 1])

(* The form also moves a provider, by its priority. *)
UpdateProvider(i) ==
  \E on, health \in BOOLEAN :
    \E order \in SetToSeqs(ToSet([file EXCEPT ![i].enabled = on, ![i].health = health])) : Write(order)

Written ==
  /\ writing # None
  /\ file' = writing /\ writing' = None
  /\ UNCHANGED <<shared, edits, call>>

-----------------------------------------------------------------------------
(* A call *)

Steps(c, record) == call' = [call EXCEPT ![c] = record]

(* _reload_providers_if_changed keeps the fingerprint of a file it could   *)
(* not parse; the call fails, the next one goes on with the old list.  The *)
(* provider that an admin forces on a chat may change at any time.         *)
Begin(c) ==
  /\ call[c].at = "idle"
  /\ \E forced \in Forced \cup {None} :
       IF file = read
       THEN Steps(c, Begun(forced)) /\ UNCHANGED read
       ELSE /\ read' = file
            /\ Steps(c, IF file = Torn THEN Idle ELSE [Begun(forced) EXCEPT !.new = file])
  /\ UNCHANGED <<config, list, cursor, resting, healthy, keyRows>>

(* The list that was read has been put in use. *)
Loaded(c) ==
  /\ call[c].at = "loading"
  /\ list' = IF call[c].new = None THEN list ELSE call[c].new
  /\ Steps(c, [call[c] EXCEPT !.at = "provider", !.new = None, !.rest = list'])
  /\ UNCHANGED <<config, read, cursor, resting, healthy, keyRows>>

(* mutant: from the cursor to the last key, without going round *)
OrderedKeysToEnd(start, n) == [i \in 1..(n - start) |-> start + i - 1]

(* Every key once, from the cursor on. *)
OrderedKeys(start, n) == [i \in 1..n |-> (start + i - 1) % n]

(* _candidate_providers: a forced provider is the only one that counts. *)
Candidate(c, p) == call[c].forced = None \/ p.id = call[c].forced

TakesProvider(c) ==
  LET p == Head(call[c].rest) IN
  /\ call[c].at = "provider" /\ call[c].rest # <<>>
  /\ IF ~Candidate(c, p) \/ ~p.enabled \/ p.id \in resting \/ p.keys = 0
     THEN Steps(c, [call[c] EXCEPT !.rest = Tail(@)])
     ELSE Steps(c, [call[c] EXCEPT !.at = "key", !.keys = OrderedKeys(cursor[p.id], p.keys)])
  /\ UNCHANGED <<config, shared>>

Current(c) == Head(call[c].rest)
Row(c) == <<Current(c).id, call[c].key>>

(* mutant: the row of the key is not looked at *)
TakesKeyAnyway(c) ==
  /\ call[c].at = "key" /\ call[c].keys # <<>>
  /\ Steps(c, [call[c] EXCEPT !.at = "request", !.key = Head(call[c].keys),
                      !.keys = Tail(@), !.turns = @ \cup {Head(call[c].keys)}])
  /\ UNCHANGED <<config, shared>>

TakesKey(c) ==
  LET k == Head(call[c].keys)
      x == <<Current(c).id, k>>
  IN /\ call[c].at = "key" /\ call[c].keys # <<>>
     /\ Steps(c, IF status[x].off
                 THEN [call[c] EXCEPT !.keys = Tail(@), !.turns = @ \cup {k}]
                 ELSE [call[c] EXCEPT !.at = IF Current(c).health /\ x \notin healthy THEN "health" ELSE "request",
                                      !.keys = Tail(@), !.key = k, !.turns = @ \cup {k}])
     /\ UNCHANGED <<config, shared>>

Asking(c) == call[c].at \in {"health", "request"}
UnderWay(c) == {d \in Calls \ {c} : Asking(d) /\ Row(d) = Row(c)}

(* A key is told to wait; who is asking it then has not been told.         *)
Tells(c) ==
  /\ told' = told \cup {Row(c)}
  /\ late' = [late EXCEPT ![Row(c)] = UnderWay(c)]

(* What a late request writes stands in place of the time to wait.         *)
CallsBack(c) ==
  /\ told' = IF c \in late[Row(c)] THEN told \ {Row(c)} ELSE told
  /\ late' = [late EXCEPT ![Row(c)] = @ \ {c}]

(* A failure without a time to wait puts a key out of use from the third   *)
(* in a row on, and before that back into use.                             *)
RecordFailure(row, tells) == [errors |-> IF row.errors < 3 THEN row.errors + 1 ELSE 3, off |-> tells \/ row.errors >= 2]

KeyFailed(c, why) ==
  LET x == Row(c) IN
  /\ status' = [status EXCEPT ![x] = RecordFailure(@, why \in Telling)]
  /\ IF why \in Telling THEN Tells(c) ELSE CallsBack(c)
  /\ Steps(c, [call[c] EXCEPT !.at = "key", !.key = None,
                              !.repeated = @ \/ why \in call[c].seen, !.seen = @ \cup {why}])

HealthChecked(c) ==
  /\ call[c].at = "health"
  /\ \/ healthy' = healthy \cup {Row(c)} /\ Steps(c, [call[c] EXCEPT !.at = "request"]) /\ UNCHANGED keyRows
     \/ KeyFailed(c, "unhealthy") /\ UNCHANGED healthy
  /\ UNCHANGED <<config, read, list, cursor, resting>>

(* mutant: the cursor runs past the last key *)
AdvanceKeyCursorPast(c) == cursor' = [cursor EXCEPT ![Current(c).id] = call[c].key + 1]

AdvanceKeyCursor(c) == cursor' = [cursor EXCEPT ![Current(c).id] = (call[c].key + 1) % Current(c).keys]

Failed(c, why) ==
  /\ call[c].at = "request"
  /\ KeyFailed(c, why) /\ AdvanceKeyCursor(c)
  /\ UNCHANGED <<config, read, list, resting, healthy>>

(* An answer that cannot be decoded is no failure here: it ends the call.  *)
Answered(c) ==
  /\ call[c].at = "request"
  /\ status' = [status EXCEPT ![Row(c)] = [errors |-> 0, off |-> FALSE]]
  /\ CallsBack(c)
  /\ AdvanceKeyCursor(c) /\ Steps(c, Idle)
  /\ UNCHANGED <<config, read, list, resting, healthy>>

(* Two equal failures put the provider itself out of use for a while. *)
LeavesProvider(c) ==
  /\ call[c].at = "key" /\ call[c].keys = <<>>
  /\ resting' = IF call[c].repeated THEN resting \cup {Current(c).id} ELSE resting
  /\ Steps(c, [Begun(call[c].forced) EXCEPT !.at = "provider", !.rest = Tail(call[c].rest)])
  /\ UNCHANGED <<config, read, list, cursor, healthy, keyRows>>

(* The call raises: its last error, or that nothing could be asked. *)
GivesUp(c) ==
  /\ call[c].at = "provider" /\ call[c].rest = <<>>
  /\ Steps(c, Idle)
  /\ UNCHANGED <<config, shared>>

-----------------------------------------------------------------------------
(* Time *)

KeyReturns(x) ==
  /\ status[x].off
  /\ status' = [status EXCEPT ![x].off = FALSE] /\ told' = told \ {x} /\ UNCHANGED late
  /\ UNCHANGED <<config, read, list, cursor, resting, healthy, call>>

ProviderReturns(p) ==
  /\ p \in resting /\ resting' = resting \ {p}
  /\ UNCHANGED <<config, read, list, cursor, healthy, keyRows, call>>

HealthExpires(x) ==
  /\ x \in healthy /\ healthy' = healthy \ {x}
  /\ UNCHANGED <<config, read, list, cursor, resting, keyRows, call>>

Next ==
  \/ \E i \in DOMAIN file : AddProviderKey(i) \/ DeleteProviderKey(i) \/ UpdateProvider(i)
  \/ Written
  \/ \E p \in Names : ProviderReturns(p)
  \/ \E c \in Calls :
       \/ Begin(c) \/ Loaded(c) \/ TakesProvider(c) \/ TakesKey(c) \/ HealthChecked(c)
       \/ Answered(c) \/ LeavesProvider(c) \/ GivesUp(c)
       \/ \E why \in Failures : Failed(c, why)
  \/ \E x \in Names \X Keys : KeyReturns(x) \/ HealthExpires(x)

Spec == Init /\ [][Next]_vars

-----------------------------------------------------------------------------
(* Types of what the threads share and of a running call.                  *)
TypeOK ==
  /\ {file, read, list} \cup ({writing} \ {None}) \subseteq BoundedSeq(Entries, Cardinality(Names))
  /\ cursor \in [Names -> Keys] /\ resting \subseteq Names
  /\ status \in [Names \X Keys -> [errors : 0..3, off : BOOLEAN]]
  /\ healthy \subseteq Names \X Keys /\ told \subseteq Names \X Keys
  /\ late \in [Names \X Keys -> SUBSET Calls]
  /\ \A c \in Calls :
       /\ call[c].at \in {"idle", "loading", "provider", "key", "health", "request"}
       /\ call[c].at \in {"health", "request"} => Row(c) \in Names \X Keys

(* The failover misses nothing: a call leaves a provider only when each of *)
(* its keys was asked, or was out of use when its turn came, though other  *)
(* calls move the cursor and admins change the list meanwhile.             *)
EveryKeyHadItsTurn ==
  \A c \in Calls :
    call[c].at = "key" /\ call[c].keys = <<>> =>
      0..(Current(c).keys - 1) \subseteq call[c].turns

(* A key told to wait (429, 401, 5xx, ...) is out of use until that time   *)
(* has passed, and nobody asks it but the calls that were asking it when   *)
(* it was told; only one of these may call it back, by an answer or by a   *)
(* failure that names no time (ai_provider_client.py:1013-1047).           *)
RestIsKept ==
  \A x \in told :
    /\ status[x].off
    /\ \A c \in Calls : Asking(c) /\ Row(c) = x => c \in late[x]
=============================================================================
