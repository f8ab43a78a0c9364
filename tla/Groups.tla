-------------------------------- MODULE Groups --------------------------------
(***************************************************************************)
(* The groups the bot is in, and the reward of the user who invited it:    *)
(* services/group_service.py with my_chat_member_handler and               *)
(* track_group_message of handlers.py.                                     *)
(*                                                                         *)
(* Telegram reports each change of the bot's status in order, but these    *)
(* updates have no actor key and each handler first awaits the member      *)
(* count, so one may overtake another.  A handler whose credit fails is    *)
(* run again by the worker or given up; the flags it committed stay.       *)
(* A reward counts one for the membership and one for the admin rights.    *)
(***************************************************************************)
EXTENDS Naturals, Integers, Sequences, SequencesExt, FiniteSets

CONSTANTS
  Users, Chats,
  MaxEvents,  \* bound: changes of status that are waiting or being handled, by chat
  MaxLost,    \* bound: credits that fail
  None

VARIABLES
  status,    \* the bot in each chat, as Telegram knows it
  events,    \* changes whose handlers have not ended
  overtaken, \* chats where a handler overtook an earlier one
  row,       \* rows of group_chats
  misled,    \* chats whose row a late message or a failing send contradicted last
  member,    \* users with a membership reward, by chat (group_invite_rewards)
  admin,     \* users with an admin reward
  net,       \* grants less revocations written to the ledger, by chat and user
  lost       \* the same for those that failed

vars == <<status, events, overtaken, row, misled, member, admin, net, lost>>
rewards == <<member, admin, net, lost>>

Active == {"member", "administrator"}  \* creator acts as administrator
Hidden == {"left"}                     \* kicked acts as left
Status == Active \cup Hidden \cup {"restricted"}

Init ==
  /\ status = [c \in Chats |-> "left"]
  /\ events = [c \in Chats |-> <<>>]
  /\ overtaken = {}
  /\ row = [c \in Chats |-> None] /\ misled = {}
  /\ member = [c \in Chats |-> {}] /\ admin = [c \in Chats |-> {}]
  /\ net = [c \in Chats |-> [u \in Users |-> 0]]
  /\ lost = net

-----------------------------------------------------------------------------
(* upsert_group and mark_group_removed *)

KeepsRights(old, s) == s = "member" /\ old = "administrator"

(* mutant: a row that is there keeps its active flag *)
UpsertGroupOnce(c, s) ==
  row' = [row EXCEPT ![c] = [bot |-> IF @ # None /\ KeepsRights(@.bot, s) THEN @.bot ELSE s,
                             active |-> IF @ # None THEN @.active ELSE s \in Active]]

UpsertGroup(c, s) ==
  row' = [row EXCEPT ![c] = [bot |-> IF @ # None /\ KeepsRights(@.bot, s) THEN @.bot ELSE s,
                             active |-> s \in Active]]

MarkGroupRemoved(c) == row' = [row EXCEPT ![c] = [bot |-> "left", active |-> FALSE]]

(* target_group_ids *)
Target(c) == row[c] # None /\ row[c].active /\ row[c].bot \notin Hidden

-----------------------------------------------------------------------------
(* Rewards *)

OwnerForChat(c, actor) == IF member[c] # {} THEN CHOOSE u \in member[c] : TRUE ELSE actor

Books(table, c, amount) == table' = [table EXCEPT ![c] = [u \in Users |-> @[u] + amount[u]]]
Nobody == [u \in Users |-> 0]
CanLose == \A c \in Chats, u \in Users : lost[c][u] \in -MaxLost..MaxLost
Only(u, n) == [Nobody EXCEPT ![u] = n]

(* The flags are committed, then the credits are written one by one; the   *)
(* first failure raises.                                                   *)
Grants(c, o, s, failed) ==
  LET due == (IF o \in member[c] THEN 0 ELSE 1) + (IF s = "administrator" /\ o \notin admin[c] THEN 1 ELSE 0)
  IN /\ member' = [member EXCEPT ![c] = @ \cup {o}]
     /\ admin' = [admin EXCEPT ![c] = IF s = "administrator" THEN @ \cup {o} ELSE @]
     /\ failed \in 0..due
     /\ Books(net, c, Only(o, due - failed)) /\ Books(lost, c, Only(o, failed))

RevokedMember(c, s) == IF s \in Hidden THEN member[c] ELSE {}
(* mutant: a demotion leaves the admin reward *)
RevokedAdminWhenOut(c, s) == IF s \in Hidden THEN admin[c] ELSE {}

RevokedAdmin(c, s) == IF s # "administrator" THEN admin[c] ELSE {}

RemovedOrDemoted(c, s, failed) ==
  LET m == RevokedMember(c, s)
      a == RevokedAdmin(c, s)
      due == [u \in Users |-> (IF u \in m THEN 1 ELSE 0) + (IF u \in a THEN 1 ELSE 0)]
  IN /\ member' = [member EXCEPT ![c] = @ \ m]
     /\ admin' = [admin EXCEPT ![c] = @ \ a]
     /\ \A u \in Users : failed[u] \in 0..due[u]
     /\ Books(net, c, [u \in Users |-> failed[u] - due[u]])
     /\ Books(lost, c, [u \in Users |-> -failed[u]])

-----------------------------------------------------------------------------
(* my_chat_member_handler.  Whether it ends or raises, the row is what its *)
(* change says; the worker runs it again or gives it up.                   *)

Writes(c, i) ==
  /\ overtaken' = IF i > 1 THEN overtaken \cup {c} ELSE overtaken
  /\ misled' = misled \ {c}
Handled(c, i) == Writes(c, i) /\ events' = [events EXCEPT ![c] = RemoveAt(@, i)]
Raised(c, i) == Handled(c, i) \/ (Writes(c, i) /\ UNCHANGED events)

Ends(c, i, failed) == IF failed THEN CanLose /\ Raised(c, i) ELSE Handled(c, i)

(* Joined or promoted, in a group that is large enough; a plain member is  *)
(* then demoted, which is another action since one of the two has nothing  *)
(* to write.                                                               *)
Joined(c, i) ==
  LET e == events[c][i]
      o == OwnerForChat(c, e.actor)
  IN /\ e.status \in Active /\ o # None
     /\ e.status = "member" => RevokedAdmin(c, e.status) = {}
     /\ UpsertGroup(c, e.status)
     /\ \E failed \in 0..2 : Grants(c, o, e.status, failed) /\ Ends(c, i, failed > 0)
     /\ UNCHANGED status

TooSmall(c, i) ==
  LET e == events[c][i] IN
  /\ e.status = "administrator" \/ (e.status = "member" /\ RevokedAdmin(c, e.status) = {})
  /\ UpsertGroup(c, e.status) /\ Handled(c, i)
  /\ UNCHANGED <<status, rewards>>

RemovedOrDemotedHandler(c, i) ==
  LET e == events[c][i] IN
  /\ e.status \notin Active \/ (e.status = "member" /\ RevokedAdmin(c, e.status) # {})
  /\ UpsertGroup(c, e.status)
  /\ \E failed \in [Users -> 0..2] :
       RemovedOrDemoted(c, e.status, failed) /\ Ends(c, i, failed # Nobody)
  /\ UNCHANGED status

-----------------------------------------------------------------------------
(* Telegram, and the two other writers of a group's row. *)

StatusChanges(c, s, actor) ==
  /\ s # status[c] /\ Len(events[c]) < MaxEvents
  /\ status' = [status EXCEPT ![c] = s]
  /\ events' = [events EXCEPT ![c] = Append(@, [status |-> s, actor |-> actor])]
  /\ UNCHANGED <<overtaken, row, misled, rewards>>

(* The message of a group, whose handler may be late. *)
TrackGroupMessage(c) ==
  /\ UpsertGroup(c, "member")
  /\ misled' = IF status[c] \in Active THEN misled \ {c} ELSE misled \cup {c}
  /\ UNCHANGED <<status, events, overtaken, rewards>>

(* A message to the group fails with an error that sounds like removal.    *)
SendFails(c) ==
  /\ Target(c) /\ MarkGroupRemoved(c)
  /\ misled' = IF status[c] \in Active THEN misled \cup {c} ELSE misled \ {c}
  /\ UNCHANGED <<status, events, overtaken, rewards>>

Next ==
  \E c \in Chats :
    \/ \E s \in Status, actor \in Users \cup {None} : StatusChanges(c, s, actor)
    \/ \E i \in DOMAIN events[c] : Joined(c, i) \/ TooSmall(c, i) \/ RemovedOrDemotedHandler(c, i)
    \/ TrackGroupMessage(c) \/ SendFails(c)

Spec == Init /\ [][Next]_vars

-----------------------------------------------------------------------------
(* Types of the group and reward rows.                                     *)
TypeOK ==
  /\ status \in [Chats -> Status]
  /\ events \in [Chats -> BoundedSeq([status : Status, actor : Users \cup {None}], MaxEvents)]
  /\ overtaken \subseteq Chats /\ misled \subseteq Chats
  /\ row \in [Chats -> [bot : Status, active : BOOLEAN] \cup {None}]
  /\ member \in [Chats -> SUBSET Users] /\ admin \in [Chats -> SUBSET Users]
  /\ net \in [Chats -> [Users -> Int]] /\ lost \in [Chats -> [Users -> Int]]

(* The rewards of a group follow the bot through it: one inviter at a time *)
(* holds them, whoever promotes the bot; what he was credited, less what   *)
(* was taken back, is what his flags say, but for writes that failed; and  *)
(* once all changes are handled, none in the wrong order, nobody keeps a   *)
(* reward for a bot that is out or an admin reward for one that is none.   *)
RewardsFollowTheBot ==
  \A c \in Chats :
    /\ Cardinality(member[c]) <= 1 /\ admin[c] \subseteq member[c]
    /\ \A u \in Users :
         net[c][u] + lost[c][u] = (IF u \in member[c] THEN 1 ELSE 0) + (IF u \in admin[c] THEN 1 ELSE 0)
    /\ events[c] = <<>> /\ c \notin overtaken =>
         /\ status[c] \in Hidden => member[c] = {}
         /\ status[c] # "administrator" => admin[c] = {}

(* Broadcasts, schedules and prompts go to the groups the bot is in: once  *)
(* all changes are handled in order, target_group_ids lists a group if and *)
(* only if the bot is a member there, unless a message that came late or a *)
(* send that failed wrote the opposite since; a message of the group, or   *)
(* the next change, puts that right (group_service.py:53-93, 97-109).      *)
TargetsFollowTheBot ==
  \A c \in Chats : events[c] = <<>> /\ c \notin overtaken \cup misled =>
    (Target(c) <=> status[c] \in Active)
=============================================================================
