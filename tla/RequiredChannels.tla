--------------------------- MODULE RequiredChannels ---------------------------
(***************************************************************************)
(* The membership check and its cache:                                     *)
(* bot/services/required_channel_service.py, the channel commands of       *)
(* bot/handlers.py and the channel pages of the panel.                     *)
(*                                                                         *)
(* check_user reads the list of channels and then awaits Telegram once for *)
(* every channel that has no fresh cache row; an admin may change the list *)
(* during each of these awaits.  Positions and titles are left out.        *)
(***************************************************************************)
EXTENDS Naturals, FiniteSets

CONSTANTS
  Users,
  Channels,  \* ids of required_channels
  Chats,     \* Telegram chats
  Checks,    \* check_user calls that may run at once
  None

VARIABLES
  chat,      \* the chat of a channel's row, or None without a row
  active,    \* the channels whose row is active
  cache,     \* rows of membership_cache
  member,    \* the users of each chat, as Telegram knows them
  bypass,    \* users with a bypass that has not run out
  check,     \* the running checks
  overtaken  \* channels that were changed while Telegram was asked about them

vars == <<chat, active, cache, member, bypass, check, overtaken>>
rows == <<chat, active>>

NoRow == [chat |-> None, isMember |-> FALSE, fresh |-> FALSE]
NoCheck == [user |-> None, cached |-> FALSE, todo |-> [c \in {} |-> None], asking |-> None, missing |-> {}]

Init ==
  /\ chat = [c \in Channels |-> None]
  /\ active = {}
  /\ cache = [x \in Users \X Channels |-> NoRow]
  /\ member \in [Chats -> SUBSET Users]
  /\ bypass = {}
  /\ check = [k \in Checks |-> NoCheck]
  /\ overtaken = {}

-----------------------------------------------------------------------------
(* check_user *)

Begin(k, u) ==
  /\ check[k] = NoCheck
  /\ u \notin bypass /\ active # {}
  /\ \E cached \in BOOLEAN :
       check' = [check EXCEPT ![k] = [NoCheck EXCEPT !.user = u, !.cached = cached,
                                                     !.todo = [c \in active |-> chat[c]]]]
  /\ UNCHANGED <<rows, cache, member, bypass, overtaken>>

Without(f, c) == [x \in DOMAIN f \ {c} |-> f[x]]
Judged(k, c, ok) ==
  check' = [check EXCEPT ![k].todo = Without(@, c), ![k].asking = None,
                         ![k].missing = IF ok THEN @ ELSE @ \cup {c}]

(* _get_cached *)
Usable(k, c) == check[k].cached /\ cache[<<check[k].user, c>>].fresh /\ chat[c] # None

FromCache(k, c) ==
  /\ check[k].asking = None /\ c \in DOMAIN check[k].todo
  /\ Usable(k, c)
  /\ Judged(k, c, cache[<<check[k].user, c>>].isMember)
  /\ UNCHANGED <<rows, cache, member, bypass, overtaken>>

Ask(k, c) ==
  /\ check[k].asking = None /\ c \in DOMAIN check[k].todo
  /\ ~Usable(k, c)
  /\ check' = [check EXCEPT ![k].asking = c]
  /\ UNCHANGED <<rows, cache, member, bypass, overtaken>>

(* _fetch_membership: Telegram answers for the chat that was asked about,  *)
(* or fails, which is cached as well.                                      *)
Answered(k) ==
  LET c == check[k].asking
      u == check[k].user
      about == check[k].todo[c]
  IN /\ c # None
     /\ \E ok \in BOOLEAN :
          /\ ok => u \in member[about]
          /\ cache' = [cache EXCEPT ![<<u, c>>] = [chat |-> about, isMember |-> ok, fresh |-> TRUE]]
          /\ Judged(k, c, ok)
     /\ UNCHANGED <<rows, member, bypass, overtaken>>

End(k) ==
  /\ check[k] # NoCheck /\ DOMAIN check[k].todo = {}
  /\ check' = [check EXCEPT ![k] = NoCheck]
  /\ UNCHANGED <<rows, cache, member, bypass, overtaken>>

-----------------------------------------------------------------------------
(* Admins. *)

AskedAbout(c) == \E k \in Checks : check[k].asking = c \/ c \in DOMAIN check[k].todo
Overtakes(c) == overtaken' = IF AskedAbout(c) THEN overtaken \cup {c} ELSE overtaken
ClearCache == cache' = [x \in Users \X Channels |-> NoRow]

(* chat_id is unique; the row of a known chat is activated again. *)
AddChannel(c, t) ==
  /\ IF \E d \in Channels : chat[d] = t THEN chat[c] = t ELSE chat[c] = None
  /\ chat' = [chat EXCEPT ![c] = t]
  /\ active' = active \cup {c}
  /\ ClearCache
  /\ UNCHANGED <<member, bypass, check, overtaken>>

(* mutant: the rows of the cache stay *)
UpdateChannelKeepsCache(c, t) ==
  /\ chat[c] # None
  /\ \A d \in Channels \ {c} : chat[d] # t
  /\ chat' = [chat EXCEPT ![c] = t]
  /\ active' \in {active \cup {c}, active \ {c}}
  /\ IF t # chat[c] THEN Overtakes(c) ELSE UNCHANGED overtaken
  /\ UNCHANGED <<cache, member, bypass, check>>

UpdateChannel(c, t) ==
  /\ chat[c] # None
  /\ \A d \in Channels \ {c} : chat[d] # t
  /\ chat' = [chat EXCEPT ![c] = t]
  /\ active' \in {active \cup {c}, active \ {c}}
  /\ ClearCache
  /\ IF t # chat[c] THEN Overtakes(c) ELSE UNCHANGED overtaken
  /\ UNCHANGED <<member, bypass, check>>

MoveChannel(c) ==
  /\ chat[c] # None
  /\ ClearCache
  /\ UNCHANGED <<rows, member, bypass, check, overtaken>>

RemoveChannel(c) ==
  /\ chat[c] # None
  /\ chat' = [chat EXCEPT ![c] = None]
  /\ active' = active \ {c}
  /\ cache' = [x \in Users \X Channels |-> IF x[2] = c THEN NoRow ELSE cache[x]]
  /\ Overtakes(c)
  /\ UNCHANGED <<member, bypass, check>>

GrantAdminBypass(u) ==
  /\ bypass' = bypass \cup {u}
  /\ UNCHANGED <<rows, cache, member, check, overtaken>>

-----------------------------------------------------------------------------
(* Time, and users who join and leave. *)

Expires(x) ==
  /\ cache[x].fresh
  /\ cache' = [cache EXCEPT ![x].fresh = FALSE]
  /\ UNCHANGED <<rows, member, bypass, check, overtaken>>

BypassEnds(u) ==
  /\ u \in bypass /\ bypass' = bypass \ {u}
  /\ UNCHANGED <<rows, cache, member, check, overtaken>>

JoinOrLeave(u, t) ==
  /\ member' = [member EXCEPT ![t] = IF u \in @ THEN @ \ {u} ELSE @ \cup {u}]
  /\ UNCHANGED <<rows, cache, bypass, check, overtaken>>

Next ==
  \/ \E k \in Checks :
       \/ \E u \in Users : Begin(k, u)
       \/ \E c \in Channels : FromCache(k, c) \/ Ask(k, c)
       \/ Answered(k) \/ End(k)
  \/ \E c \in Channels : MoveChannel(c) \/ RemoveChannel(c) \/ \E t \in Chats : AddChannel(c, t) \/ UpdateChannel(c, t)
  \/ \E u \in Users : GrantAdminBypass(u) \/ BypassEnds(u) \/ \E t \in Chats : JoinOrLeave(u, t)
  \/ \E x \in Users \X Channels : Expires(x)

Spec == Init /\ [][Next]_vars

-----------------------------------------------------------------------------
(* Types of the two tables and of a running check.                         *)
TypeOK ==
  /\ chat \in [Channels -> Chats \cup {None}]
  /\ active \subseteq {c \in Channels : chat[c] # None}
  /\ cache \in [Users \X Channels -> [chat : Chats \cup {None}, isMember : BOOLEAN, fresh : BOOLEAN]]
  /\ member \in [Chats -> SUBSET Users]
  /\ bypass \subseteq Users /\ overtaken \subseteq Channels
  /\ \A k \in Checks :
       /\ check[k].user \in Users \cup {None} /\ check[k].missing \subseteq Channels
       /\ DOMAIN check[k].todo \subseteq Channels
       /\ check[k].asking # None => check[k].asking \in DOMAIN check[k].todo

(* A cached membership is about the chat that its channel names now, also  *)
(* while checks and changes of the list overlap: every change throws the   *)
(* rows away.  The exception is a check that read the list before the      *)
(* change and writes its row after it.                                     *)
CacheIsAboutItsChannel ==
  \A u \in Users, c \in Channels \ overtaken :
    cache[<<u, c>>] # NoRow => chat[c] = cache[<<u, c>>].chat
=============================================================================
