----------------------------- MODULE GroupReplies -----------------------------
(***************************************************************************)
(* What the bot says in groups: group_message_handler and                  *)
(* guest_message_handler of handlers.py, services/group_ai_service.py, and *)
(* the automatic reactions of services/group_service.py.                   *)
(*                                                                         *)
(* Each limit counts rows of group_engine_events that are written only     *)
(* after the provider has answered, while the messages of other users are  *)
(* handled.  From the counts to the generation gate of the quota service   *)
(* nothing suspends (its lock is never held over a suspension), so these   *)
(* are one step.  Only the updates of one user in one chat are serial, and *)
(* guest messages have no actor key at all.                                *)
(***************************************************************************)
EXTENDS Naturals, FiniteSets

CONSTANTS
  Users, Chats,           \* users without the debug bypass of the quota service
  MaxMessages,            \* bound: messages that are answered
  Kinds,                  \* subset of {"mention", "guest", "photo"} the users send
  ChatLimit, UserLimit,   \* answers by chat, and by user (and guest), in a window
  ChatWindow, UserWindow, \* 60 and 120 seconds
  Cooldown, AutoCooldown, \* of photos and of automatic reactions
  None

ASSUME RepliesAssumption ==
  /\ IsFiniteSet(Users) /\ None \notin Users
  /\ MaxMessages \in Nat
  /\ Kinds \subseteq {"mention", "guest", "photo"}
  /\ ChatLimit \in Nat \ {0} /\ UserLimit \in Nat
  /\ {ChatWindow, UserWindow, Cooldown, AutoCooldown} \subseteq Nat

VARIABLES
  work,   \* messages being answered: who, where, what and how far
  events, \* rows of group_engine_events the limits read, with their age
  auto,   \* the chat the scheduler chooses a reaction for
  begun   \* messages so far whose answer was begun

vars == <<work, events, auto, begun>>

Init ==
  /\ work = [m \in {} |-> None]
  /\ events = {}
  /\ auto = None
  /\ begun = 0

-----------------------------------------------------------------------------
(* event_count_since *)

Response(kind) == CASE kind = "mention" -> "mention_response"
                    [] kind = "guest" -> "guest_response"
                    [] OTHER -> "photo_reaction"

InChat(type, c, window) == {e \in events : e.type = type /\ e.chat = c /\ e.age < window}
ByUser(type, u, window) == {e \in events : e.type = type /\ e.user = u /\ e.age < window}

CooldownActive(type, c, window) == InChat(type, c, window) # {}

(* How long a row matters to a limit; older rows are left out. *)
Matters(type) == CASE type = "mention_response" -> IF ChatWindow > UserWindow THEN ChatWindow ELSE UserWindow
                   [] type = "guest_response" -> UserWindow
                   [] type = "auto_reaction_check" -> AutoCooldown
                   [] OTHER -> Cooldown

Event(type, m, u, c) == [type |-> type, message |-> m, user |-> u, chat |-> c, age |-> 0]

(* mutant: a photo looks for reactions only *)
WithinLimitsUnseen(kind, u, c) ==
  CASE kind = "mention" ->
         /\ Cardinality(InChat("mention_response", c, ChatWindow)) < ChatLimit
         /\ Cardinality(ByUser("mention_response", u, UserWindow)) < UserLimit
    [] kind = "guest" -> Cardinality(ByUser("guest_response", u, UserWindow)) < UserLimit
    [] OTHER -> ~CooldownActive("photo_reaction", c, Cooldown) /\ ByUser("photo_reaction", u, Cooldown) = {}

(* The counts of each handler that let a message through. *)
WithinLimits(kind, u, c) ==
  CASE kind = "mention" ->
         /\ Cardinality(InChat("mention_response", c, ChatWindow)) < ChatLimit
         /\ Cardinality(ByUser("mention_response", u, UserWindow)) < UserLimit
    [] kind = "guest" -> Cardinality(ByUser("guest_response", u, UserWindow)) < UserLimit
    [] OTHER ->
         /\ ~CooldownActive("photo_seen", c, Cooldown)
         /\ ~CooldownActive("photo_reaction", c, Cooldown)
         /\ ByUser("photo_reaction", u, Cooldown) = {}

-----------------------------------------------------------------------------
(* A message: counts, gate, answer, charge and event, delivery *)

(* mutant: the gate is open to group messages *)
GeneratingNever(u) == FALSE

Generating(u) == \E m \in DOMAIN work : work[m].user = u

Without(m) == [n \in DOMAIN work \ {m} |-> work[n]]

(* The worker takes the next message of a user in a chat when the one      *)
(* before it has ended.                                                    *)
MayBeHandled(kind, u, c) ==
  kind = "guest" \/ \A m \in DOMAIN work : ~(work[m].user = u /\ work[m].chat = c /\ work[m].kind # "guest")

(* Passes the counts and begin_group_generation; a photo is seen at once. *)
Begins(kind, u, c) ==
  LET m == begun + 1 IN
  /\ begun < MaxMessages
  /\ MayBeHandled(kind, u, c)
  /\ WithinLimits(kind, u, c)
  /\ ~Generating(u)
  /\ begun' = m
  /\ work' = [n \in DOMAIN work \cup {m} |->
                IF n = m THEN [user |-> u, chat |-> c, kind |-> kind, at |-> "answering"] ELSE work[n]]
  /\ events' = events \cup (IF kind = "photo" THEN {Event("photo_seen", m, u, c)} ELSE {})
  /\ UNCHANGED auto

(* The provider's answer came: consume_group_reply and the event. *)
Answered(m) ==
  /\ m \in DOMAIN work /\ work[m].at = "answering"
  /\ events' = events \cup {Event(Response(work[m].kind), m, work[m].user, work[m].chat)}
  /\ work' = [work EXCEPT ![m].at = "sending"]
  /\ UNCHANGED <<auto, begun>>

(* Sent, or an exception at any point: finish_generation.  What the answer *)
(* cost and its event stay.                                                *)
Finishes(m) ==
  /\ m \in DOMAIN work
  /\ work' = Without(m)
  /\ UNCHANGED <<events, auto, begun>>

-----------------------------------------------------------------------------
(* The scheduler's automatic reactions, one chat after the other; the      *)
(* check counts before the provider is asked.                              *)

AutoAsks(c) ==
  /\ auto = None
  /\ ~CooldownActive("auto_reaction_check", c, AutoCooldown)
  /\ auto' = c
  /\ events' = events \cup {Event("auto_reaction_check", 0, None, c)}
  /\ UNCHANGED <<work, begun>>

AutoEnds ==
  /\ auto # None
  /\ auto' = None
  /\ UNCHANGED <<work, events, begun>>

-----------------------------------------------------------------------------
(* Time passes; an answer may take as long as it likes. *)

Tick ==
  /\ events # {}
  /\ events' = {[e EXCEPT !.age = @ + 1] : e \in {d \in events : d.age + 1 < Matters(d.type)}}
  /\ UNCHANGED <<work, auto, begun>>

Next ==
  \/ \E kind \in Kinds, u \in Users, c \in Chats : Begins(kind, u, c)
  \/ \E m \in 1..MaxMessages : Answered(m) \/ Finishes(m)
  \/ \E c \in Chats : AutoAsks(c)
  \/ AutoEnds
  \/ Tick

Spec == Init /\ [][Next]_vars

-----------------------------------------------------------------------------
(* Properties *)

Events == [type : {"mention_response", "guest_response", "photo_seen", "photo_reaction", "auto_reaction_check"},
           message : 0..MaxMessages, user : Users \cup {None}, chat : Chats, age : Nat]

(* The variables have their types. *)
TypeOK ==
  /\ DOMAIN work \subseteq 1..begun
  /\ \A m \in DOMAIN work :
       work[m] \in [user : Users, chat : Chats, kind : Kinds, at : {"answering", "sending"}]
  /\ events \subseteq Events
  /\ auto \in Chats \cup {None}
  /\ begun \in 0..MaxMessages

(* A user never gets more answers in a window than the limit of            *)
(* handlers.py:1138 or 1237, although the count is read before the         *)
(* provider is asked and the same user writes in several chats at once:    *)
(* the generation gate closes the gap.  The limit of a chat                *)
(* (handlers.py:1228) has no such gate: it is exceeded by the answers that *)
(* were under way when it was read, never by more than one for each other  *)
(* user.                                                                   *)
AnswersBounded ==
  /\ \A u \in Users, type \in {"mention_response", "guest_response"} :
       Cardinality(ByUser(type, u, UserWindow)) <= UserLimit
  /\ \A c \in Chats :
       Cardinality(InChat("mention_response", c, ChatWindow)) <= ChatLimit + Cardinality(Users) - 1

(* The bot looks at one photo of a chat in a cooldown, whoever sends the   *)
(* photos: photo_seen is written before the first suspension.              *)
OnePhotoPerCooldown ==
  \A c \in Chats : \A e, f \in InChat("photo_seen", c, Cooldown) : e = f
===============================================================================
