------------------------------- MODULE Polling -------------------------------
(***************************************************************************)
(* The polling entry point: bot/polling.py.  At start-up the process       *)
(* drains what Telegram kept while it was down, confirms it, and feeds the *)
(* newest late message of each actor and every other update, one after the *)
(* other; then aiogram polls, and starts a task for each update.           *)
(*                                                                         *)
(* Telegram numbers updates 1, 2, ... and keeps them until a get_updates   *)
(* asks for a later one.  An update without a message has no actor.  A     *)
(* message is late when it was sent before the last start-up, less the     *)
(* grace (TELEGRAM_BACKLOG_LATEST_ONLY has its default, true).             *)
(***************************************************************************)
EXTENDS Naturals, Sequences, FiniteSets

CONSTANTS
  Actors,      \* a chat and a user
  MaxUpdates,  \* bound: updates sent to the bot
  BatchLimit,  \* 100: updates of one get_updates
  MaxEnds,     \* bound: times the process ends
  None

VARIABLES
  arrived,    \* the actor of each update sent to the bot so far
  confirmed,  \* Telegram has dropped the updates up to this one
  phase,      \* how far run_polling has come
  offset,     \* asked for next; 0 when no offset has been given
  late,       \* the updates up to this one are offline backlog
  updates,    \* drained by _drain_startup_backlog
  selected,   \* still to be fed by it
  handling,   \* updates whose handler runs
  fed,        \* times an update has been fed
  again,      \* updates the process was told of but ended before confirming
  dropped,    \* confirmed updates the process ended without answering
  ends

vars == <<arrived, confirmed, phase, offset, late, updates, selected, handling, fed, again, dropped, ends>>

Phases == {"down", "drain", "confirm", "feed", "poll"}
Ids == 1..MaxUpdates
Sent == 1..Len(arrived)
Larger(m, n) == IF m > n THEN m ELSE n

Init ==
  /\ arrived = <<>> /\ confirmed = 0
  /\ phase = "down" /\ offset = 0 /\ late = 0
  /\ updates = {} /\ selected = {} /\ handling = {}
  /\ fed = [i \in Ids |-> 0] /\ again = {} /\ dropped = {}
  /\ ends = 0

(* Telegram has an update for the bot. *)
Arrive ==
  /\ Len(arrived) < MaxUpdates
  /\ \E a \in Actors \cup {None} : arrived' = Append(arrived, a)
  /\ UNCHANGED <<confirmed, phase, offset, late, updates, selected, handling, fed, again, dropped, ends>>

(* What a get_updates with this offset confirms, and what it returns. *)
Confirms == IF offset = 0 THEN confirmed ELSE Larger(confirmed, offset - 1)
Batch == {i \in Sent : i > Confirms /\ i <= Confirms + BatchLimit}
After(batch) == IF batch = {} THEN offset ELSE Confirms + Cardinality(batch) + 1

-----------------------------------------------------------------------------
(* run_polling *)

(* Later start-ups find no fewer updates late. *)
Start ==
  /\ phase = "down"
  /\ phase' = "drain"
  /\ offset' = 0
  /\ late' \in late..Len(arrived)
  /\ UNCHANGED <<arrived, confirmed, updates, selected, handling, fed, again, dropped, ends>>

(* One turn of the loop; a short batch is the last one. *)
Drain ==
  /\ phase = "drain"
  /\ confirmed' = Confirms
  /\ updates' = updates \cup Batch
  /\ offset' = After(Batch)
  /\ phase' = IF Cardinality(Batch) < BatchLimit THEN "confirm" ELSE "drain"
  /\ UNCHANGED <<arrived, late, selected, handling, fed, again, dropped, ends>>

(* _latest_backlog_updates *)
Stale(i, j) == arrived[i] # None /\ arrived[j] = arrived[i] /\ i < j /\ j <= late
LatestBacklog == {i \in updates : \A j \in updates : ~Stale(i, j)}

(* mutant: the drain leaves its last batch to the next get_updates *)
ConfirmNothing ==
  /\ phase = "confirm"
  /\ phase' = "feed"
  /\ selected' = LatestBacklog
  /\ updates' = {}
  /\ UNCHANGED <<arrived, confirmed, offset, late, handling, fed, again, dropped, ends>>

(* The last get_updates of the drain, only for its offset. *)
Confirm ==
  /\ phase = "confirm"
  /\ confirmed' = Confirms
  /\ phase' = "feed"
  /\ selected' = LatestBacklog
  /\ updates' = {}
  /\ UNCHANGED <<arrived, offset, late, handling, fed, again, dropped, ends>>

Handle(batch) ==
  /\ handling' = handling \cup batch
  /\ fed' = [i \in Ids |-> IF i \in batch THEN fed[i] + 1 ELSE fed[i]]

Feed ==
  /\ phase = "feed" /\ handling = {}
  /\ \E i \in selected :
       /\ \A j \in selected : i <= j
       /\ selected' = selected \ {i}
       /\ Handle({i})
  /\ UNCHANGED <<arrived, confirmed, phase, offset, late, updates, again, dropped, ends>>

(* In the poll a handler that raises ends like one that returns. *)
HandlerEnds ==
  /\ \E i \in handling : handling' = handling \ {i}
  /\ UNCHANGED <<arrived, confirmed, phase, offset, late, updates, selected, fed, again, dropped, ends>>

StartPolling ==
  /\ phase = "feed" /\ selected = {} /\ handling = {}
  /\ phase' = "poll"
  /\ offset' = 0
  /\ UNCHANGED <<arrived, confirmed, late, updates, selected, handling, fed, again, dropped, ends>>

(* aiogram: a get_updates, and a task for each update it returns. *)
Poll ==
  /\ phase = "poll"
  /\ confirmed' = Confirms
  /\ offset' = After(Batch)
  /\ Handle(Batch)
  /\ UNCHANGED <<arrived, phase, late, updates, selected, again, dropped, ends>>

(* The process ends: killed, or by a get_updates or, in the drain, by a    *)
(* handler that raises.  A get_updates that fails may have been heard.     *)
End ==
  /\ phase # "down" /\ ends < MaxEnds
  /\ ends' = ends + 1
  /\ phase' = "down"
  /\ confirmed' \in {confirmed, IF phase = "feed" THEN confirmed ELSE Confirms}
  /\ dropped' = dropped \cup selected
       \cup {i \in updates \cup handling : i <= confirmed'}
  /\ again' = again \cup {i \in Sent : phase = "poll" /\ confirmed' < i /\ i < offset}
  /\ updates' = {} /\ selected' = {} /\ handling' = {}
  /\ UNCHANGED <<arrived, offset, late, fed>>

Next ==
  \/ Arrive \/ Start \/ Drain \/ Confirm \/ Feed
  \/ HandlerEnds \/ StartPolling \/ Poll \/ End

Spec == Init /\ [][Next]_vars

-----------------------------------------------------------------------------
(* The variables have the types the code gives them. *)
TypeOK ==
  /\ arrived \in Seq(Actors \cup {None}) /\ Len(arrived) <= MaxUpdates
  /\ confirmed \in 0..Len(arrived) /\ late \in 0..Len(arrived)
  /\ offset \in 0..(Len(arrived) + 1)
  /\ phase \in Phases
  /\ updates \subseteq Sent /\ selected \subseteq Sent /\ handling \subseteq Sent
  /\ fed \in [Ids -> Nat]
  /\ again \subseteq Sent /\ dropped \subseteq Sent
  /\ ends \in 0..MaxEnds

(* An update Telegram has dropped was fed, is about to be, gave way to a   *)
(* newer late message of its actor, or was lost with a process that ended  *)
(* (polling.py:81); and none is fed twice, unless the process ended in the *)
(* poll before it confirmed the update.                                    *)
FedOnce ==
  \A i \in Sent :
    /\ fed[i] <= 1 + Cardinality({i} \cap again)
    /\ i <= confirmed /\ fed[i] = 0 =>
         \/ i \in updates \cup selected \cup dropped
         \/ \E j \in Sent : Stale(i, j) /\ (fed[j] > 0 \/ j \in selected \cup dropped)
===============================================================================
