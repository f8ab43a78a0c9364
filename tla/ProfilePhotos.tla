----------------------------- MODULE ProfilePhotos -----------------------------
(***************************************************************************)
(* The profile photos of a user: services/profile_photo_service.py over    *)
(* the rows of services/media_service.py.  A message of the user schedules *)
(* a sync; a background loop syncs every known user; both run in one       *)
(* process and interleave at their awaits.                                 *)
(*                                                                         *)
(* One user is modelled, an image is the hash of its content, and of the   *)
(* rows only what is asked of them is kept: the age of the newest one, the *)
(* ages of the marks (profile_photo_sync), and whether an image has a      *)
(* description.  force is never given.                                     *)
(***************************************************************************)
EXTENDS Naturals, Sequences

CONSTANTS
  Images,
  MaxPhotos,  \* get_user_profile_photos' limit (3)
  Interval    \* sync_interval_hours

VARIABLES
  photos_age,   \* of the newest row of the user
  marks,        \* ages of the marks written within the interval, the last one first
  descriptions, \* how often an image was described
  inflight,     \* whether _inflight holds the user
  sync          \* what each sync does

vars == <<photos_age, marks, descriptions, inflight, sync>>

Syncs == {"first", "second", "loop"}  \* bound: two scheduled syncs at once
Scheduled == {"first", "second"}
Steps == {"idle", "scheduled", "fetching", "storing", "describing"}
Galleries == UNION {[1..n -> Images] : n \in 0..MaxPhotos}
NoSync == [step |-> "idle", photos |-> <<>>]

Init ==
  /\ photos_age = Interval
  /\ marks = <<>>
  /\ descriptions = [i \in Images |-> 0]
  /\ inflight = FALSE
  /\ sync = [s \in Syncs |-> NoSync]

RecentlySynced == photos_age < Interval

(* What sync_user does last; _sync_user_guarded then discards the user. *)
Ends(s) ==
  /\ sync' = [sync EXCEPT ![s] = NoSync]
  /\ inflight' = (inflight /\ s = "loop")

Goes(s, step, photos) ==
  /\ sync' = [sync EXCEPT ![s] = [step |-> step, photos |-> photos]]
  /\ UNCHANGED inflight

(* The rest of the photos, from the next one on. *)
Continues(s, photos) ==
  IF photos = <<>> THEN Ends(s) ELSE Goes(s, "storing", photos)

-----------------------------------------------------------------------------
(* mutant: a user may have several scheduled syncs *)
ScheduleAnySync(s) ==
  /\ ~RecentlySynced
  /\ sync[s] = NoSync
  /\ inflight' = TRUE
  /\ sync' = [sync EXCEPT ![s].step = "scheduled"]
  /\ UNCHANGED <<photos_age, marks, descriptions>>

ScheduleSync(s) ==
  /\ ~inflight /\ ~RecentlySynced
  /\ sync[s] = NoSync
  /\ inflight' = TRUE
  /\ sync' = [sync EXCEPT ![s].step = "scheduled"]
  /\ UNCHANGED <<photos_age, marks, descriptions>>

(* sync_user: the task of a message begins, or the loop is at this user. *)
SyncUser(s) ==
  /\ sync[s].step = IF s = "loop" THEN "idle" ELSE "scheduled"
  /\ IF RecentlySynced THEN Ends(s) ELSE Goes(s, "fetching", <<>>)
  /\ UNCHANGED <<photos_age, marks, descriptions>>

(* get_user_profile_photos returns: the sync is marked before it is done. *)
Marked(s) ==
  /\ sync[s].step = "fetching"
  /\ photos_age' = 0
  /\ marks' = <<0>> \o marks
  /\ \E photos \in Galleries : Continues(s, photos)
  /\ UNCHANGED descriptions

(* A download: stored, with the description of an equal image if there is  *)
(* one.                                                                    *)
StoreProfilePhoto(s) ==
  LET photos == sync[s].photos
  IN /\ sync[s].step = "storing"
     /\ photos_age' = 0
     /\ IF descriptions[Head(photos)] > 0
        THEN Continues(s, Tail(photos))
        ELSE Goes(s, "describing", photos)
     /\ UNCHANGED <<marks, descriptions>>

(* Too large or not to be had; the vision provider fails: the next one. *)
Skip(s) ==
  /\ sync[s].step \in {"storing", "describing"}
  /\ Continues(s, Tail(sync[s].photos))
  /\ UNCHANGED <<photos_age, marks, descriptions>>

SetVisionDescription(s) ==
  LET photos == sync[s].photos
  IN /\ sync[s].step = "describing"
     /\ descriptions' = [descriptions EXCEPT ![Head(photos)] = @ + 1]
     /\ Continues(s, Tail(photos))
     /\ UNCHANGED <<photos_age, marks>>

(* Telegram or the network fails in any other way: logged, and given up. *)
SyncFails(s) ==
  /\ sync[s].step \in {"fetching", "storing", "describing"}
  /\ Ends(s)
  /\ UNCHANGED <<photos_age, marks, descriptions>>

Restart ==
  /\ sync' = [s \in Syncs |-> NoSync]
  /\ inflight' = FALSE
  /\ UNCHANGED <<photos_age, marks, descriptions>>

Tick ==
  /\ photos_age' = IF photos_age = Interval THEN Interval ELSE photos_age + 1
  /\ \E n \in 0..Len(marks) :
       /\ \A k \in DOMAIN marks : k <= n <=> marks[k] + 1 < Interval
       /\ marks' = [k \in 1..n |-> marks[k] + 1]
  /\ UNCHANGED <<descriptions, inflight, sync>>

Next ==
  \/ \E s \in Scheduled : ScheduleSync(s)
  \/ \E s \in Syncs :
       \/ SyncUser(s) \/ Marked(s) \/ StoreProfilePhoto(s) \/ Skip(s)
       \/ SetVisionDescription(s) \/ SyncFails(s)
  \/ Restart \/ Tick

Spec == Init /\ [][Next]_vars

-----------------------------------------------------------------------------
(* The variables have the types the code gives them. *)
TypeOK ==
  /\ photos_age \in 0..Interval
  /\ marks \in Seq(0..(Interval - 1))
  /\ descriptions \in [Images -> Nat]
  /\ inflight \in BOOLEAN
  /\ sync \in [Syncs -> [step : Steps, photos : Galleries]]

(* A user's photos are fetched twice an interval at most, once for the     *)
(* messages of the user and once by the loop, and no image is described    *)
(* more often than those two at once can: the loop does not look at        *)
(* _inflight, and the rows that stop a sync are written after an await     *)
(* (profile_photo_service.py:58).                                          *)
SyncedTwiceAtMost ==
  /\ Len(marks) <= 2
  /\ \A i \in Images : descriptions[i] <= 2
===============================================================================
