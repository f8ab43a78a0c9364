------------------------------ MODULE QuotaLedger ------------------------------
(***************************************************************************)
(* The message allowance of bot/services/quota_service.py.                 *)
(*                                                                         *)
(* The code keeps an append-only table of quota events and recomputes an   *)
(* account from its sums at every call.  Here each user has those four     *)
(* sums.  A charge and a revocation are several database sessions: they    *)
(* read the account, choose the kind of event, and write it, and between   *)
(* two of them midnight can pass or the admin panel, when it runs as a     *)
(* process of its own (bot/admin_server.py), can write.  "op" is the call  *)
(* the bot's event loop is in the middle of; the loop runs one at a time.  *)
(***************************************************************************)
EXTENDS Naturals

CONSTANTS
  Users,
  Scale,         \* QUOTA_UNIT_SCALE, units per message
  FreeDaily,     \* settings.free_daily_quota, in messages
  FreeMonthly,   \* settings.free_monthly_quota, in messages
  ReplyCosts,    \* the unit costs a private reply can have
  MaxCost,       \* the largest of them
  GroupCost,     \* GROUP_REPLY_COST_UNITS
  Grants,        \* the amounts, in messages, that add_extra_credit is called with
  Revocations,   \* the amounts, in messages, that revoke_credit is called with
  MaxRevoked,    \* the largest of them, in units
  GrantCap,      \* bound: units that may be granted to one user
  PanelInBot     \* is the admin panel mounted in the bot's own process?

ASSUME QuotaAssumption ==
  /\ Scale \in Nat \ {0}
  /\ FreeDaily \in Nat /\ FreeMonthly \in Nat
  /\ MaxCost \in Nat \ {0}
  /\ ReplyCosts \subseteq 1 .. MaxCost
  /\ GroupCost = 1
  /\ Grants \subseteq Nat \ {0}
  /\ Revocations \subseteq Nat \ {0}
  /\ MaxRevoked \in Nat
  /\ \A n \in Revocations : n * Scale <= MaxRevoked
  /\ GrantCap \in Nat
  /\ PanelInBot \in BOOLEAN

VARIABLES
  dayUsed,    \* quota_consume units since the start of the day
  monthUsed,  \* quota_consume units since the start of the month
  granted,    \* extra_grant units ever
  extraUsed,  \* extra_consume units ever
  op          \* the charge or revocation in progress

vars == <<dayUsed, monthUsed, granted, extraUsed, op>>
sums == <<dayUsed, monthUsed, granted, extraUsed>>

DailyLimit == FreeDaily * Scale
MonthlyLimit == FreeMonthly * Scale

Least(a, b) == IF a <= b THEN a ELSE b

(* mutant: an overdrawn account is not floored *)
Floor0Missing(a, b) == a - b

Floor0(a, b) == IF a <= b THEN 0 ELSE a - b     \* max(0, a - b)

(***************************************************************************)
(* AccountQuota.  Every figure of an account is floored at zero.           *)
(***************************************************************************)
DailyRemaining(u) == Floor0(DailyLimit, dayUsed[u])
MonthlyRemaining(u) == Floor0(MonthlyLimit, monthUsed[u])
ExtraRemaining(u) == Floor0(granted[u], extraUsed[u])
FreeRemaining(u) == Least(DailyRemaining(u), MonthlyRemaining(u))
EffectiveRemaining(u) == FreeRemaining(u) + ExtraRemaining(u)

(***************************************************************************)
(* op.need is the cost that can_consume_reply has agreed to and that       *)
(* consume_successful_reply has still to look at; op.extra and op.free are *)
(* the events that are decided and not yet written.                        *)
(***************************************************************************)
Charge(u, need, extra, free, by) ==
  [user |-> u, need |-> need, extra |-> extra, free |-> free, by |-> by]
Idle == op.by = "none"
NoOp(u) == Charge(u, 0, 0, 0, "none")
Done(o) == IF o.need = 0 /\ o.extra = 0 /\ o.free = 0 THEN NoOp(o.user) ELSE o

(* mutant: the month is not looked at *)
PaidFreeByDay(u, cost) == DailyRemaining(u) >= cost

(* The kind of event a charge becomes: free units only when both the day   *)
(* and the month can pay the whole of it.                                  *)
PaidFree(u, cost) == DailyRemaining(u) >= cost /\ MonthlyRemaining(u) >= cost
Decided(u, cost, by) ==
  IF PaidFree(u, cost) THEN Charge(u, 0, 0, cost, by) ELSE Charge(u, 0, cost, 0, by)

Init ==
  /\ dayUsed = [u \in Users |-> 0]
  /\ monthUsed = [u \in Users |-> 0]
  /\ granted = [u \in Users |-> 0]
  /\ extraUsed = [u \in Users |-> 0]
  /\ \E u \in Users : op = NoOp(u)

-----------------------------------------------------------------------------
(* mutant: a private turn does not look at its account *)
CanConsumeReplyUnchecked(u, cost) ==
  /\ Idle
  /\ op' = Charge(u, cost, 0, 0, "reply")
  /\ UNCHANGED sums

(* can_consume_reply, the guard of a private turn *)
CanConsumeReply(u, cost) ==
  /\ Idle
  /\ EffectiveRemaining(u) >= cost
  /\ op' = Charge(u, cost, 0, 0, "reply")
  /\ UNCHANGED sums

(* consume_successful_reply reads the account again and picks the kind *)
ConsumeSuccessfulReply ==
  /\ op.need > 0
  /\ op' = Decided(op.user, op.need, "reply")
  /\ UNCHANGED sums

(* consume_group_reply checks and picks from one reading *)
ConsumeGroupReply(u) ==
  /\ Idle
  /\ EffectiveRemaining(u) >= GroupCost
  /\ op' = Decided(u, GroupCost, "group")
  /\ UNCHANGED sums

(* mutant: a revocation takes the free units first *)
RevokeCreditFreeFirst(u, n) ==
  LET units == n * Scale
      free  == Least(units, FreeRemaining(u))
      extra == Least(units - free, ExtraRemaining(u))
  IN /\ Idle
     /\ op' = Done(Charge(u, 0, extra, free, "revoke"))
     /\ UNCHANGED sums

(* revoke_credit takes extra units first and what is left from the free quota *)
RevokeCredit(u, n) ==
  LET units == n * Scale
      extra == Least(units, ExtraRemaining(u))
      free  == Least(units - extra, FreeRemaining(u))
  IN /\ Idle
     /\ op' = Done(Charge(u, 0, extra, free, "revoke"))
     /\ UNCHANGED sums

(* _record_event of an extra_consume *)
RecordExtra ==
  /\ op.extra > 0
  /\ extraUsed' = [extraUsed EXCEPT ![op.user] = @ + op.extra]
  /\ op' = Done([op EXCEPT !.extra = 0])
  /\ UNCHANGED <<dayUsed, monthUsed, granted>>

(* _record_event of a quota_consume *)
RecordFree ==
  /\ op.extra = 0 /\ op.free > 0
  /\ dayUsed' = [dayUsed EXCEPT ![op.user] = @ + op.free]
  /\ monthUsed' = [monthUsed EXCEPT ![op.user] = @ + op.free]
  /\ op' = Done([op EXCEPT !.free = 0])
  /\ UNCHANGED <<granted, extraUsed>>

(* A write that raises, or a crash: what was not recorded never is *)
Abandon ==
  /\ ~Idle
  /\ op' = NoOp(op.user)
  /\ UNCHANGED sums

-----------------------------------------------------------------------------
(* The bot itself grants between two calls; the admin panel of another     *)
(* process at any moment.                                                  *)
MayWrite == PanelInBot => Idle

AddExtraCredit(u, n) ==
  /\ MayWrite
  /\ granted[u] + n * Scale <= GrantCap
  /\ granted' = [granted EXCEPT ![u] = @ + n * Scale]
  /\ UNCHANGED <<dayUsed, monthUsed, extraUsed, op>>

(* delete_user_completely removes the user's events, the spent ones too *)
DeleteUserCompletely(u) ==
  /\ MayWrite
  /\ dayUsed' = [dayUsed EXCEPT ![u] = 0]
  /\ monthUsed' = [monthUsed EXCEPT ![u] = 0]
  /\ granted' = [granted EXCEPT ![u] = 0]
  /\ extraUsed' = [extraUsed EXCEPT ![u] = 0]
  /\ UNCHANGED op

(* Midnight UTC: _start_of_day moves, so the day's sum is empty again *)
NewDay ==
  /\ dayUsed' = [u \in Users |-> 0]
  /\ UNCHANGED <<monthUsed, granted, extraUsed, op>>

(* The first of a month is a new day too *)
NewMonth ==
  /\ dayUsed' = [u \in Users |-> 0]
  /\ monthUsed' = [u \in Users |-> 0]
  /\ UNCHANGED <<granted, extraUsed, op>>

Next ==
  \/ \E u \in Users, c \in ReplyCosts : CanConsumeReply(u, c)
  \/ ConsumeSuccessfulReply
  \/ \E u \in Users : ConsumeGroupReply(u)
  \/ \E u \in Users, n \in Revocations : RevokeCredit(u, n)
  \/ RecordExtra
  \/ RecordFree
  \/ Abandon
  \/ \E u \in Users, n \in Grants : AddExtraCredit(u, n)
  \/ \E u \in Users : DeleteUserCompletely(u)
  \/ NewDay
  \/ NewMonth

Spec == Init /\ [][Next]_vars

-----------------------------------------------------------------------------
(* Shape of the state: sums are naturals, at most one call is in progress. *)
TypeOK ==
  /\ dayUsed \in [Users -> Nat]
  /\ monthUsed \in [Users -> Nat]
  /\ granted \in [Users -> Nat]
  /\ extraUsed \in [Users -> Nat]
  /\ op \in [user : Users, need : Nat, extra : Nat, free : Nat,
             by : {"none", "reply", "group", "revoke"}]

(* The free quota is never overdrawn, whatever is between the reading and  *)
(* the writing of a charge: no day hands out more than free_daily_quota    *)
(* messages and no month more than free_monthly_quota.                     *)
FreeWithinLimits ==
  \A u \in Users : dayUsed[u] <= DailyLimit /\ monthUsed[u] <= MonthlyLimit

(* An account can spend extra units it does not have: a reply that the     *)
(* free and the extra units can only pay together is charged wholly to the *)
(* extra ones.  The hidden debt stays below one reply.  A panel of another *)
(* process can delete the account under a call, which costs one more unit  *)
(* or the whole of a revocation.                                           *)
DebtBound ==
  IF PanelInBot THEN MaxCost - 1
  ELSE IF MaxCost <= MaxRevoked THEN MaxRevoked ELSE MaxCost

DebtBounded == \A u \in Users : extraUsed[u] <= granted[u] + DebtBound

(* A group reply and a revocation never put an account into debt: they     *)
(* take extra units only when they are there.                              *)
OnlyRepliesIndebt ==
  [][ \A u \in Users :
        (op.by \in {"group", "revoke"} /\ op.extra > 0 /\ op.user = u
           /\ extraUsed'[u] > extraUsed[u])
        => extraUsed'[u] <= granted[u] ]_vars

(* A revocation spends the extra units first: it takes free units only     *)
(* from an account whose extra units it takes entirely (a panel of another *)
(* process may grant in between).                                          *)
RevokeSpendsExtraFirst ==
  PanelInBot /\ op.by = "revoke" /\ op.free > 0
    => ExtraRemaining(op.user) <= op.extra
=============================================================================
