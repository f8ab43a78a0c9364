------------------------------ MODULE Moderation ------------------------------
(***************************************************************************)
(* Warnings and blocks: bot/services/moderation_service.py, as the chat    *)
(* turn, the admin commands and the panel call it.                         *)
(*                                                                         *)
(* Calls are synchronous: none is cut by another one of the same process.  *)
(* A block is measured in units of time that are left; a row whose time is *)
(* over stays in user_blocks with 0 left.                                  *)
(***************************************************************************)
EXTENDS Naturals

CONSTANTS
  Users,
  Week, Month,  \* lengths of automatic blocks
  ManualDays,   \* lengths an admin chooses, after block_user has clamped them
  MaxWarnings, MaxLeft

VARIABLES
  warnings,  \* number of user_warning_events
  left,      \* time left of the user_blocks row
  row,       \* "none", or who wrote the row: the count of "warnings", an "admin"
  counted    \* its warning_count

vars == <<warnings, left, row, counted>>

Init ==
  /\ warnings = [u \in Users |-> 0]
  /\ left = [u \in Users |-> 0]
  /\ row = [u \in Users |-> "none"]
  /\ counted = [u \in Users |-> 0]

Blocked(u) == left[u] > 0
BlockCount(n) == IF n > 3 THEN n ELSE 3

(* mutant: the third warning starts its week anew, over a longer block *)
BlockForShorter(u, count) ==
  CASE count < 3 -> 0
    [] count = 3 -> Week
    [] count = 4 -> IF Blocked(u) THEN left[u] ELSE Week
    [] OTHER -> left[u] + Month

(* _block_until_for_count; 0 for no block. *)
BlockFor(u, count) ==
  CASE count < 3 -> 0
    [] count = 3 -> left[u] + Week
    [] count = 4 -> IF Blocked(u) THEN left[u] ELSE Week
    [] OTHER -> left[u] + Month

WriteRow(u, author, until, count) ==
  /\ row' = [row EXCEPT ![u] = author]
  /\ left' = [left EXCEPT ![u] = until]
  /\ counted' = [counted EXCEPT ![u] = count]

DeleteRow(u) == WriteRow(u, "none", 0, 0)

(* By the model, by the security gate, or by an admin. *)
ApplyWarning(u) ==
  LET count == warnings[u] + 1
      until == BlockFor(u, count)
  IN /\ warnings[u] < MaxWarnings /\ until <= MaxLeft
     /\ warnings' = [warnings EXCEPT ![u] = count]
     /\ IF until > 0 THEN WriteRow(u, "warnings", until, count) ELSE UNCHANGED <<left, row, counted>>

BlockUser(u) ==
  /\ \E days \in ManualDays : WriteRow(u, "admin", days, BlockCount(warnings[u]))
  /\ UNCHANGED warnings

UnblockUser(u) ==
  /\ row[u] # "none"
  /\ DeleteRow(u)
  /\ UNCHANGED warnings

(* mutant: the block is left as it is *)
DeleteWarningOnly(u) ==
  /\ warnings[u] > 0
  /\ warnings' = [warnings EXCEPT ![u] = @ - 1]
  /\ UNCHANGED <<left, row, counted>>

(* The events are renumbered, and any block below three warnings goes. *)
DeleteWarning(u) ==
  /\ warnings[u] > 0
  /\ warnings' = [warnings EXCEPT ![u] = @ - 1]
  /\ IF row[u] = "none" THEN UNCHANGED <<left, row, counted>>
     ELSE IF warnings[u] - 1 < 3 THEN DeleteRow(u)
     ELSE counted' = [counted EXCEPT ![u] = warnings[u] - 1] /\ UNCHANGED <<left, row>>

TimePasses ==
  /\ \E u \in Users : Blocked(u)
  /\ left' = [u \in Users |-> IF Blocked(u) THEN left[u] - 1 ELSE 0]
  /\ UNCHANGED <<warnings, row, counted>>

Next ==
  \/ TimePasses
  \/ \E u \in Users : ApplyWarning(u) \/ BlockUser(u) \/ UnblockUser(u) \/ DeleteWarning(u)

Spec == Init /\ [][Next]_vars

-----------------------------------------------------------------------------
(* Types of the two tables (orm.py).                                       *)
TypeOK ==
  /\ warnings \in [Users -> 0..MaxWarnings]
  /\ left \in [Users -> Nat]
  /\ row \in [Users -> {"none", "warnings", "admin"}]
  /\ counted \in [Users -> Nat]

(* A warning never shortens a block, an admin's included, and from the     *)
(* third one on it leaves the user blocked: also the fourth one, which     *)
(* adds nothing to a running block and may meet one that has run out or    *)
(* was lifted (_block_until_for_count).                                    *)
WarningsAddUp ==
  [][\A u \in Users :
       warnings'[u] > warnings[u] =>
         /\ left'[u] >= left[u]
         /\ warnings'[u] >= 3 => left'[u] > 0]_vars

(* A user is blocked by the count only with three warnings or more, after  *)
(* any deletion of warnings; and the number that the block message tells   *)
(* the user is the number of warnings that are left, or three for an       *)
(* admin's block of a user with fewer.                                     *)
BlockHasItsWarnings ==
  \A u \in Users :
    /\ row[u] = "warnings" => warnings[u] >= 3
    /\ row[u] # "none" => counted[u] = BlockCount(warnings[u])
=============================================================================
