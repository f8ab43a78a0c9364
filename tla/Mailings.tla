------------------------------- MODULE Mailings -------------------------------
(***************************************************************************)
(* Messages the bot sends unasked: services/reengagement_service.py,       *)
(* services/group_invite_prompt_service.py, the scheduled messages of      *)
(* services/group_service.py and the broadcasts of the panel.              *)
(*                                                                         *)
(* Each one reads its targets, sends, and writes down afterwards what it   *)
(* sent.  Sending suspends: the panel may change a schedule under a round  *)
(* that is under way, and a restart forgets the round but no message.      *)
(***************************************************************************)
EXTENDS Naturals, Sequences, FiniteSets

CONSTANTS
  Prompts,    \* one-time messages: "reengagement", "invite"
  Users,      \* whom they may concern
  Groups,     \* target groups of schedules and broadcasts
  Schedules,  \* ids of scheduled_group_messages
  MaxFaults,  \* bound: restarts, and writes that fail after a message was sent
  MaxSends,   \* bound: deliveries of a schedule
  None

VARIABLES
  round,     \* users left of a prompt's round, in memory
  sent,      \* the user who was just sent the prompt and is not marked
  marked,    \* last_reengagement_sent_at, group_invite_prompt_sent
  received,  \* prompts each user received
  faults,    \* restarts and failed writes that left one of them unmarked
  schedule,  \* rows of scheduled_group_messages
  sweep,     \* the schedule being sent, those read with it, the groups left
  delivered, \* messages of each schedule that reached a group
  uncounted, \* of these, those a restart or a deletion kept out of sent_count
  cast       \* the broadcast: its row, and what is left to send

prompts == <<round, sent, marked, received, faults>>
schedules == <<schedule, sweep, delivered, uncounted>>
vars == <<prompts, schedules, cast>>

Init ==
  /\ round = [p \in Prompts |-> <<>>]
  /\ sent = [p \in Prompts |-> None]
  /\ marked = [p \in Prompts |-> {}]
  /\ received = [p \in Prompts |-> [u \in Users |-> 0]]
  /\ faults = received
  /\ schedule = [s \in Schedules |-> None]
  /\ sweep = None
  /\ delivered = [s \in Schedules |-> 0]
  /\ uncounted = delivered
  /\ cast = None

-----------------------------------------------------------------------------
(* One-time prompts *)

TotalFaults(p) == Cardinality({x \in Users \X (1..MaxFaults) : x[2] <= faults[p][x[1]]})

(* mutant: the users who are marked are not left out *)
RoundBeginsAgain(p) ==
  /\ round[p] = <<>> /\ sent[p] = None
  /\ \E u \in Users : received[p][u] < 3 /\ round' = [round EXCEPT ![p] = <<u>>]
  /\ UNCHANGED <<sent, marked, received, faults, schedules, cast>>

(* due_users: of those it may concern, the ones without a marker. *)
RoundBegins(p) ==
  /\ round[p] = <<>> /\ sent[p] = None
  /\ \E n \in 1..Cardinality(Users) :
       \E due \in [1..n -> Users \ marked[p]] :
         /\ \A i, j \in 1..n : due[i] = due[j] => i = j
         /\ round' = [round EXCEPT ![p] = due]
  /\ UNCHANGED <<sent, marked, received, faults, schedules, cast>>

Sends(p) ==
  /\ round[p] # <<>> /\ sent[p] = None
  /\ sent' = [sent EXCEPT ![p] = Head(round[p])]
  /\ received' = [received EXCEPT ![p][Head(round[p])] = @ + 1]
  /\ round' = [round EXCEPT ![p] = Tail(@)]
  /\ UNCHANGED <<marked, faults, schedules, cast>>

(* The user has blocked the bot, or the send failed: the round goes on. *)
SendFails(p) ==
  /\ round[p] # <<>> /\ sent[p] = None
  /\ round' = [round EXCEPT ![p] = Tail(@)]
  /\ UNCHANGED <<sent, marked, received, faults, schedules, cast>>

MarkSent(p) ==
  /\ sent[p] # None
  /\ marked' = [marked EXCEPT ![p] = @ \cup {sent[p]}]
  /\ sent' = [sent EXCEPT ![p] = None]
  /\ UNCHANGED <<round, received, faults, schedules, cast>>

(* The history row or the marker is not written. *)
MarkFails(p) ==
  /\ sent[p] # None /\ TotalFaults(p) < MaxFaults
  /\ faults' = [faults EXCEPT ![p][sent[p]] = @ + 1]
  /\ sent' = [sent EXCEPT ![p] = None]
  /\ UNCHANGED <<round, marked, received, schedules, cast>>

-----------------------------------------------------------------------------
(* Scheduled messages *)

(* The id of a deleted row may be given again. *)
CreateSchedule(s) ==
  /\ schedule[s] = None
  /\ \E on \in BOOLEAN :
       schedule' = [schedule EXCEPT ![s] = [enabled |-> on, due |-> FALSE, sentCount |-> 0]]
  /\ UNCHANGED <<sweep, delivered, uncounted, prompts, cast>>

(* Switching it on or off starts or removes next_run_at. *)
UpdateSchedule(s) ==
  /\ schedule[s] # None
  /\ schedule' = [schedule EXCEPT ![s].enabled = ~@, ![s].due = FALSE]
  /\ UNCHANGED <<sweep, delivered, uncounted, prompts, cast>>

InSweep(s) == IF sweep # None /\ sweep.schedule = s THEN sweep.sent ELSE 0

DeleteSchedule(s) ==
  /\ schedule[s] # None
  /\ schedule' = [schedule EXCEPT ![s] = None]
  /\ uncounted' = [uncounted EXCEPT ![s] = delivered[s] - InSweep(s)]
  /\ UNCHANGED <<sweep, delivered, prompts, cast>>

(* next_run_at passes. *)
FallsDue(s) ==
  /\ schedule[s] # None /\ schedule[s].enabled /\ ~schedule[s].due
  /\ schedule' = [schedule EXCEPT ![s].due = TRUE]
  /\ UNCHANGED <<sweep, delivered, uncounted, prompts, cast>>

Due == {s \in Schedules : schedule[s] # None /\ schedule[s].enabled /\ schedule[s].due}

Sweep(s, waiting) == [schedule |-> s, waiting |-> waiting, left |-> Cardinality(Groups), sent |-> 0]

(* run_once: target_group_ids and due_schedules.  What the round sends are *)
(* the rows as they were read here.                                        *)
SweepBegins ==
  /\ sweep = None
  /\ \A s \in Due : delivered[s] + Cardinality(Groups) <= MaxSends
  /\ \E s \in Due : sweep' = Sweep(s, Due \ {s})
  /\ UNCHANGED <<schedule, delivered, uncounted, prompts, cast>>

SweepSends ==
  /\ sweep # None /\ sweep.left > 0
  /\ \E ok \in {0, 1} :
       /\ sweep' = [sweep EXCEPT !.left = @ - 1, !.sent = @ + ok]
       /\ delivered' = [delivered EXCEPT ![sweep.schedule] = @ + ok]
  /\ UNCHANGED <<schedule, uncounted, prompts, cast>>

(* mutant: the messages that failed are counted as sent *)
MarkScheduleRunAll ==
  /\ sweep # None /\ sweep.left = 0
  /\ LET s == sweep.schedule
     IN IF schedule[s] = None
        THEN UNCHANGED schedule
        ELSE schedule' = [schedule EXCEPT ![s].sentCount = @ + Cardinality(Groups), ![s].due = FALSE]
  /\ sweep' = None
  /\ UNCHANGED <<delivered, uncounted, prompts, cast>>

(* mark_schedule_run; next_run_at is set whether or not it is enabled. *)
MarkScheduleRun ==
  /\ sweep # None /\ sweep.left = 0
  /\ LET s == sweep.schedule
     IN IF schedule[s] = None
        THEN /\ uncounted' = [uncounted EXCEPT ![s] = @ + sweep.sent]
             /\ UNCHANGED schedule
        ELSE /\ schedule' = [schedule EXCEPT ![s].sentCount = @ + sweep.sent, ![s].due = FALSE]
             /\ UNCHANGED uncounted
  /\ \/ sweep.waiting = {} /\ sweep' = None
     \/ \E next \in sweep.waiting : sweep' = Sweep(next, sweep.waiting \ {next})
  /\ UNCHANGED <<delivered, prompts, cast>>

-----------------------------------------------------------------------------
(* A broadcast *)

Broadcasting == cast # None /\ cast.live

(* target_user_ids or target_group_ids, then create_broadcast. *)
CreateBroadcast ==
  /\ cast = None
  /\ \E n \in 0..Cardinality(Groups) :
       cast' = [status |-> "running", targets |-> n, left |-> n, reached |-> 0, missed |-> 0,
                sentCount |-> 0, failedCount |-> 0, live |-> TRUE]
  /\ UNCHANGED <<prompts, schedules>>

BroadcastSends ==
  /\ Broadcasting /\ cast.left > 0
  /\ \/ cast' = [cast EXCEPT !.left = @ - 1, !.reached = @ + 1]
     \/ cast' = [cast EXCEPT !.left = @ - 1, !.missed = @ + 1]
  /\ UNCHANGED <<prompts, schedules>>

FinishBroadcast ==
  /\ Broadcasting /\ cast.left = 0
  /\ cast' = [cast EXCEPT !.status = IF cast.missed > 0 THEN "failed" ELSE "done",
                          !.sentCount = cast.reached, !.failedCount = cast.missed, !.live = FALSE]
  /\ UNCHANGED <<prompts, schedules>>

-----------------------------------------------------------------------------
(* A restart forgets the rounds, and nothing takes up a broadcast. *)

Restart ==
  /\ \A p \in Prompts : sent[p] # None => TotalFaults(p) < MaxFaults
  /\ \/ sweep # None \/ Broadcasting
     \/ \E p \in Prompts : round[p] # <<>> \/ sent[p] # None
  /\ round' = [p \in Prompts |-> <<>>]
  /\ sent' = [p \in Prompts |-> None]
  /\ faults' = [p \in Prompts |-> [u \in Users |-> faults[p][u] + (IF sent[p] = u THEN 1 ELSE 0)]]
  /\ sweep' = None
  /\ uncounted' = [s \in Schedules |-> uncounted[s] + InSweep(s)]
  /\ cast' = IF Broadcasting THEN [cast EXCEPT !.live = FALSE] ELSE cast
  /\ UNCHANGED <<marked, received, schedule, delivered>>

Next ==
  \/ \E p \in Prompts :
       RoundBegins(p) \/ Sends(p) \/ SendFails(p) \/ MarkSent(p) \/ MarkFails(p)
  \/ \E s \in Schedules :
       CreateSchedule(s) \/ UpdateSchedule(s) \/ DeleteSchedule(s) \/ FallsDue(s)
  \/ SweepBegins \/ SweepSends \/ MarkScheduleRun
  \/ CreateBroadcast \/ BroadcastSends \/ FinishBroadcast
  \/ Restart

Spec == Init /\ [][Next]_vars

-----------------------------------------------------------------------------
(* Properties *)

(* The variables have their types. *)
TypeOK ==
  /\ round \in [Prompts -> Seq(Users)]
  /\ sent \in [Prompts -> Users \cup {None}]
  /\ marked \in [Prompts -> SUBSET Users]
  /\ received \in [Prompts -> [Users -> Nat]]
  /\ faults \in [Prompts -> [Users -> 0..MaxFaults]]
  /\ schedule \in [Schedules -> [enabled : BOOLEAN, due : BOOLEAN, sentCount : Nat] \cup {None}]
  /\ sweep = None \/ sweep \in [schedule : Schedules, waiting : SUBSET Schedules, left : Nat, sent : Nat]
  /\ delivered \in [Schedules -> 0..MaxSends]
  /\ uncounted \in [Schedules -> 0..MaxSends]
  /\ cast # None => cast.status \in {"running", "done", "failed"}

(* The one-time prompts come once: a user gets another one only for each   *)
(* time the bot stopped or failed between sending and marking              *)
(* (reengagement_service.py:112, group_invite_prompt_service.py:74), and a *)
(* user who is marked did get it.  Who is deleted in the panel and         *)
(* registers again is another user here.                                   *)
PromptedOnce ==
  \A p \in Prompts, u \in Users :
    /\ received[p][u] <= 1 + faults[p][u]
    /\ u \in marked[p] => received[p][u] > 0

(* What the panel shows of a schedule and of a broadcast is what was sent, *)
(* though a round works on a row the panel may change, switch off or       *)
(* delete: between rounds each delivery is counted, but for those of a     *)
(* round that was cut or whose row is gone; a broadcast that ended         *)
(* accounts for every target.                                              *)
CountsAddUp ==
  /\ \A s \in Schedules :
       delivered[s] = (IF schedule[s] = None THEN 0 ELSE schedule[s].sentCount) + InSweep(s) + uncounted[s]
  /\ cast # None /\ cast.status # "running" =>
       /\ cast.sentCount + cast.failedCount = cast.targets
       /\ cast.sentCount = cast.reached
===============================================================================
