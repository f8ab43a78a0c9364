------------------------------ MODULE MCBackground ------------------------------
(***************************************************************************)
(* What goes on beside the answers: the shared state and its scheduler     *)
(* (extended here), the groups with their rewards, the mailings, the sync  *)
(* of profile photos, and the polling entry point.  They share no          *)
(* variable; "part" names the component that takes the steps of a          *)
(* behaviour, as in MCPeople.                                              *)
(***************************************************************************)
EXTENDS SharedState, FiniteSets, TLC

CONSTANTS
  Users, Chats, MaxEvents, MaxLost,
  Prompts, Schedules, MaxFaults, MaxSends,
  Images, MaxPhotos, Interval,
  MaxUpdates, BatchLimit, MaxEnds

VARIABLES
  part,
  status, events, overtaken, row, misled, member, admin, net, lost,
  round, sent, marked, received, faults, schedule, sweep, delivered, uncounted, cast,
  photos_age, marks, descriptions, inflight, sync,
  arrived, confirmed, phase, offset, late, updates, selected, handling, fed, again, dropped, ends

G == INSTANCE Groups
L == INSTANCE Mailings WITH Groups <- Users  \* as many groups as users
F == INSTANCE ProfilePhotos
T == INSTANCE Polling WITH Actors <- Users         \* as many actors as users

(* There are finitely many users and groups, and rows are told from None.  *)
ASSUME MailingsAssumption ==
  /\ IsFiniteSet(Users) /\ MaxFaults \in Nat /\ MaxSends \in Nat
  /\ None \notin Users \cup [enabled : BOOLEAN, due : BOOLEAN, sentCount : Nat]
  /\ None \notin [schedule : Schedules, waiting : SUBSET Schedules, left : Nat, sent : Nat]

ASSUME GroupsAssumption ==
  /\ MaxEvents \in Nat /\ MaxLost \in Nat
  /\ None \notin [bot : G!Status, active : BOOLEAN]

(* Photos are synced every so many hours, of a user who may have none.     *)
ASSUME PhotosAssumption == MaxPhotos \in Nat /\ Interval \in Nat \ {0}

(* A get_updates has room for an update. *)
ASSUME PollingAssumption == MaxUpdates \in Nat /\ BatchLimit \in Nat \ {0} /\ MaxEnds \in Nat

state == <<version, outdated, cache, slot, run, attempt, slotWrites, cuts, crashes, enabled, flipped, switch>>
groups == <<status, events, overtaken, row, misled, member, admin, net, lost>>
mailings == <<round, sent, marked, received, faults, schedule, sweep, delivered, uncounted, cast>>
photos == <<photos_age, marks, descriptions, inflight, sync>>
polling == <<arrived, confirmed, phase, offset, late, updates, selected, handling, fed, again, dropped, ends>>
MCvars == <<state, groups, mailings, photos, polling, part>>

MCInit ==
  /\ part \in {"state", "groups", "mailings", "photos", "polling"}
  /\ Init /\ G!Init /\ L!Init /\ F!Init /\ T!Init

StateStep == part = "state" /\ Next /\ UNCHANGED <<part, groups, mailings, photos, polling>>
GroupsStep == part = "groups" /\ G!Next /\ UNCHANGED <<part, state, mailings, photos, polling>>
MailingsStep == part = "mailings" /\ L!Next /\ UNCHANGED <<part, state, groups, photos, polling>>
PhotosStep == part = "photos" /\ F!Next /\ UNCHANGED <<part, state, groups, mailings, polling>>
PollingStep == part = "polling" /\ T!Next /\ UNCHANGED <<part, state, groups, mailings, photos>>

MCNext == StateStep \/ GroupsStep \/ MailingsStep \/ PhotosStep \/ PollingStep

MCSpec == MCInit /\ [][MCNext]_MCvars

Symmetry == Permutations(Users)

(* The variables of each component have their types. *)
TypesOK == TypeOK /\ G!TypeOK /\ L!TypeOK /\ F!TypeOK /\ T!TypeOK

(* The rewards of a group follow what the bot is in it.                    *)
RewardsFollowTheBot == G!RewardsFollowTheBot

(* Messages go to the groups the bot is in.                                *)
TargetsFollowTheBot == G!TargetsFollowTheBot

(* A prompt comes once, but for restarts and failures after the send.      *)
PromptedOnce == L!PromptedOnce

(* The counts the panel shows are those of what was sent.                  *)
CountsAddUp == L!CountsAddUp

(* A user's photos are fetched twice an interval at most.                  *)
SyncedTwiceAtMost == F!SyncedTwiceAtMost

(* No update is lost or fed twice but for a process that ended.            *)
FedOnce == T!FedOnce
===============================================================================
