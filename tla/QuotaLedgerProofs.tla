-------------------------- MODULE QuotaLedgerProofs --------------------------
(***************************************************************************)
(* The bounds of QuotaLedger for every set of users, every limit, cost and *)
(* grant.  FreeWithinLimits and DebtBounded are not inductive: a charge    *)
(* that has been decided and not yet written must still fit when it is     *)
(* written, and a reply that can_consume_reply has agreed to must still be *)
(* payable when consume_successful_reply looks at the account again.       *)
(***************************************************************************)
EXTENDS QuotaLedger, TLAPS

(* What the phases of a call look like. *)
Phases ==
  /\ op.by = "none" => op.need = 0 /\ op.extra = 0 /\ op.free = 0
  /\ op.need > 0 => /\ op.by = "reply" /\ op.need <= MaxCost
                    /\ op.extra = 0 /\ op.free = 0

(* A decided free charge fits in the day and in the month. *)
FreePending ==
  op.free > 0 => /\ dayUsed[op.user] + op.free <= DailyLimit
                 /\ monthUsed[op.user] + op.free <= MonthlyLimit

(* A decided extra charge keeps the debt within its bound; a group reply   *)
(* or a revocation leaves no debt at all.                                  *)
ExtraPending ==
  op.extra > 0 =>
    /\ ~PanelInBot => op.extra <= DebtBound
    /\ extraUsed[op.user] + op.extra <= granted[op.user] + DebtBound
    /\ PanelInBot /\ op.by \in {"group", "revoke"}
         => extraUsed[op.user] + op.extra <= granted[op.user]

(* What can_consume_reply agreed to is still payable, or another process   *)
(* has emptied the account, its debt included.                             *)
NeedPending ==
  op.need > 0 => \/ EffectiveRemaining(op.user) >= op.need
                 \/ ~PanelInBot /\ extraUsed[op.user] <= granted[op.user]

IInv ==
  /\ TypeOK
  /\ FreeWithinLimits
  /\ DebtBounded
  /\ Phases
  /\ FreePending
  /\ ExtraPending
  /\ NeedPending
  /\ RevokeSpendsExtraFirst

-----------------------------------------------------------------------------
(* Products of naturals are naturals: the limits and the amounts in units. *)
LEMMA Units ==
  /\ DailyLimit \in Nat /\ MonthlyLimit \in Nat
  /\ \A n \in Grants : n * Scale \in Nat
  /\ \A n \in Revocations : n * Scale \in Nat
BY QuotaAssumption DEF QuotaAssumption, DailyLimit, MonthlyLimit

(* The bound on the debt is a natural. *)
LEMMA DebtBoundNat == DebtBound \in Nat /\ DebtBound >= MaxCost - 1
BY QuotaAssumption DEF QuotaAssumption, DebtBound

(* An account's figures are naturals, floored as AccountQuota floors them. *)
LEMMA AccountFigures ==
  ASSUME TypeOK, NEW u \in Users
  PROVE  /\ DailyRemaining(u) \in Nat /\ MonthlyRemaining(u) \in Nat
         /\ ExtraRemaining(u) \in Nat /\ FreeRemaining(u) \in Nat
         /\ EffectiveRemaining(u) \in Nat
         /\ FreeRemaining(u) <= DailyRemaining(u)
         /\ FreeRemaining(u) <= MonthlyRemaining(u)
BY Units DEF TypeOK, DailyRemaining, MonthlyRemaining, ExtraRemaining,
             FreeRemaining, EffectiveRemaining, Floor0, Least

(* A charge decided as free fits in the day and in the month. *)
LEMMA PaidFreeFits ==
  ASSUME TypeOK, NEW u \in Users, NEW cost \in Nat, cost > 0, PaidFree(u, cost)
  PROVE  dayUsed[u] + cost <= DailyLimit /\ monthUsed[u] + cost <= MonthlyLimit
BY Units DEF TypeOK, PaidFree, DailyRemaining, MonthlyRemaining, Floor0

(* A cost the account covers but its free units alone do not: there is at  *)
(* least one extra unit, so the charge leaves a debt below the cost.       *)
LEMMA PaidExtraDebt ==
  ASSUME TypeOK, NEW u \in Users, NEW cost \in Nat, cost > 0,
         ~PaidFree(u, cost), EffectiveRemaining(u) >= cost
  PROVE  extraUsed[u] + 1 <= granted[u]
<1>1. FreeRemaining(u) < cost
  BY AccountFigures, Units
     DEF TypeOK, PaidFree, FreeRemaining, Least, DailyRemaining, MonthlyRemaining, Floor0
<1>2. ExtraRemaining(u) > 0
  BY <1>1, AccountFigures DEF EffectiveRemaining
<1> QED
  BY <1>2 DEF TypeOK, ExtraRemaining, Floor0

-----------------------------------------------------------------------------
(* The invariant holds for an empty ledger. *)
LEMMA InitInv == Init => IInv
<1> SUFFICES ASSUME Init PROVE IInv
  OBVIOUS
<1> USE QuotaAssumption, Units, DebtBoundNat
<1>1. PICK u \in Users : op = NoOp(u)
  BY DEF Init
<1>2. TypeOK
  BY <1>1 DEF Init, TypeOK, NoOp, Charge
<1>3. FreeWithinLimits /\ DebtBounded
  BY DEF Init, FreeWithinLimits, DebtBounded
<1>4. Phases /\ FreePending /\ ExtraPending /\ NeedPending /\ RevokeSpendsExtraFirst
  BY <1>1 DEF NoOp, Charge, Phases, FreePending, ExtraPending, NeedPending,
              RevokeSpendsExtraFirst
<1> QED
  BY <1>2, <1>3, <1>4 DEF IInv

(* A decision taken from an account that covers the cost keeps IInv. *)
LEMMA DecisionInv ==
  ASSUME IInv, UNCHANGED sums, NEW u \in Users, NEW cost \in 1 .. MaxCost,
         NEW by \in {"reply", "group"}, op' = Decided(u, cost, by),
         by = "group" => cost = 1,
         \/ EffectiveRemaining(u) >= cost
         \/ by = "reply" /\ ~PanelInBot /\ extraUsed[u] <= granted[u]
  PROVE  IInv'
<1> USE QuotaAssumption, Units, DebtBoundNat
<1>s. UNCHANGED <<dayUsed, monthUsed, granted, extraUsed>>
  BY DEF sums
<1>k. TypeOK /\ FreeWithinLimits /\ DebtBounded
  BY DEF IInv
<1>c. cost \in Nat /\ cost > 0 /\ cost <= MaxCost /\ MaxCost \in Nat
  BY DEF QuotaAssumption
<1>1. FreeWithinLimits' /\ DebtBounded'
  BY <1>s, <1>k DEF FreeWithinLimits, DebtBounded, DailyLimit, MonthlyLimit, DebtBound
<1>2. CASE PaidFree(u, cost)
  <2>1. op' = Charge(u, 0, 0, cost, by)
    BY <1>2 DEF Decided
  <2>2. TypeOK'
    BY <2>1, <1>s, <1>k, <1>c DEF TypeOK, Charge
  <2>3. FreePending'
    BY <2>1, <1>s, <1>k, <1>c, <1>2, PaidFreeFits
       DEF FreePending, Charge, DailyLimit, MonthlyLimit
  <2>4. Phases' /\ ExtraPending' /\ NeedPending' /\ RevokeSpendsExtraFirst'
    BY <2>1, <1>c DEF Charge, Phases, ExtraPending, NeedPending, RevokeSpendsExtraFirst
  <2> QED
    BY <1>1, <2>2, <2>3, <2>4 DEF IInv
<1>3. CASE ~PaidFree(u, cost)
  <2>1. op' = Charge(u, 0, cost, 0, by)
    BY <1>3 DEF Decided
  <2>2. TypeOK'
    BY <2>1, <1>s, <1>k, <1>c DEF TypeOK, Charge
  <2>3. \/ extraUsed[u] + 1 <= granted[u]
        \/ by = "reply" /\ ~PanelInBot /\ extraUsed[u] <= granted[u]
    BY <1>k, <1>c, <1>3, PaidExtraDebt
  <2>4. ~PanelInBot => cost <= DebtBound
    BY <1>c DEF QuotaAssumption, DebtBound
  <2>5. extraUsed[u] + cost <= granted[u] + DebtBound
    BY <2>3, <2>4, <1>k, <1>c DEF TypeOK
  <2>6. by = "group" => extraUsed[u] + cost <= granted[u]
    BY <2>3, <1>k, <1>c DEF TypeOK
  <2>7. ExtraPending'
    BY <2>1, <2>4, <2>5, <2>6, <1>s, <1>c DEF ExtraPending, Charge, DebtBound
  <2>8. Phases' /\ FreePending' /\ NeedPending' /\ RevokeSpendsExtraFirst'
    BY <2>1, <1>c DEF Charge, Phases, FreePending, NeedPending, RevokeSpendsExtraFirst
  <2> QED
    BY <1>1, <2>2, <2>7, <2>8 DEF IInv
<1> QED
  BY <1>2, <1>3

(* The idle call keeps the parts of IInv that speak of a call in progress. *)
LEMMA IdleParts ==
  ASSUME NEW u \in Users, op' = NoOp(u)
  PROVE  /\ Phases' /\ FreePending' /\ ExtraPending' /\ NeedPending'
         /\ RevokeSpendsExtraFirst'
BY DEF NoOp, Charge, Phases, FreePending, ExtraPending, NeedPending,
       RevokeSpendsExtraFirst

(* What Done leaves of a call. *)
LEMMA DoneFields ==
  ASSUME NEW o, o \in [user : Users, need : Nat, extra : Nat, free : Nat,
                       by : {"none", "reply", "group", "revoke"}]
  PROVE  /\ Done(o) \in [user : Users, need : Nat, extra : Nat, free : Nat,
                          by : {"none", "reply", "group", "revoke"}]
         /\ Done(o).user = o.user /\ Done(o).need = o.need
         /\ Done(o).extra = o.extra /\ Done(o).free = o.free
         /\ Done(o).by = o.by \/ Done(o).by = "none"
         /\ Done(o).by = "none" =>
              (Done(o).need = 0 /\ Done(o).extra = 0 /\ Done(o).free = 0) \/ o.by = "none"
BY DEF Done, NoOp, Charge

(* Every step keeps it. *)
LEMMA NextInv == IInv /\ [Next]_vars => IInv'
<1> SUFFICES ASSUME IInv, [Next]_vars PROVE IInv'
  OBVIOUS
<1> USE QuotaAssumption, Units, DebtBoundNat
<1>t. /\ TypeOK /\ FreeWithinLimits /\ DebtBounded /\ Phases
      /\ FreePending /\ ExtraPending /\ NeedPending /\ RevokeSpendsExtraFirst
  BY DEF IInv
<1>u. op.user \in Users /\ op.need \in Nat /\ op.extra \in Nat /\ op.free \in Nat
  BY <1>t DEF TypeOK
<1>1. ASSUME NEW u \in Users, NEW c \in ReplyCosts, CanConsumeReply(u, c)
      PROVE  IInv'
  <2>1. op' = Charge(u, c, 0, 0, "reply") /\ UNCHANGED <<dayUsed, monthUsed, granted, extraUsed>>
    BY <1>1 DEF CanConsumeReply, sums
  <2>2. c \in Nat /\ c > 0 /\ c <= MaxCost
    BY DEF QuotaAssumption
  <2>3. TypeOK'
    BY <2>1, <2>2, <1>t DEF TypeOK, Charge
  <2>4. FreeWithinLimits' /\ DebtBounded'
    BY <2>1, <1>t DEF FreeWithinLimits, DebtBounded, DailyLimit, MonthlyLimit, DebtBound
  <2>5. NeedPending'
    BY <2>1, <1>1 DEF CanConsumeReply, NeedPending, Charge, EffectiveRemaining,
         FreeRemaining, DailyRemaining, MonthlyRemaining, ExtraRemaining
  <2>6. Phases' /\ FreePending' /\ ExtraPending' /\ RevokeSpendsExtraFirst'
    BY <2>1, <2>2 DEF Charge, Phases, FreePending, ExtraPending, RevokeSpendsExtraFirst
  <2> QED
    BY <2>3, <2>4, <2>5, <2>6 DEF IInv
<1>2. CASE ConsumeSuccessfulReply
  <2>1. op.need \in 1 .. MaxCost
    BY <1>2, <1>t, <1>u DEF ConsumeSuccessfulReply, Phases, QuotaAssumption
  <2>2. \/ EffectiveRemaining(op.user) >= op.need
        \/ ~PanelInBot /\ extraUsed[op.user] <= granted[op.user]
    BY <2>1, <1>2, <1>t DEF ConsumeSuccessfulReply, NeedPending
  <2>3. UNCHANGED sums /\ op' = Decided(op.user, op.need, "reply")
    BY <1>2 DEF ConsumeSuccessfulReply
  <2> QED
    BY <2>1, <2>2, <2>3, <1>u, DecisionInv
<1>3. ASSUME NEW u \in Users, ConsumeGroupReply(u)
      PROVE  IInv'
  <2>1. GroupCost = 1 /\ GroupCost \in 1 .. MaxCost
    BY DEF QuotaAssumption
  <2>2. UNCHANGED sums /\ op' = Decided(u, GroupCost, "group") /\ EffectiveRemaining(u) >= GroupCost
    BY <1>3 DEF ConsumeGroupReply
  <2> QED
    BY <2>1, <2>2, DecisionInv
<1>4. ASSUME NEW u \in Users, NEW n \in Revocations, RevokeCredit(u, n)
      PROVE  IInv'
  <2> DEFINE units == n * Scale
             extra == Least(units, ExtraRemaining(u))
             free == Least(units - extra, FreeRemaining(u))
             o == Charge(u, 0, extra, free, "revoke")
  <2>1. op' = Done(o) /\ UNCHANGED <<dayUsed, monthUsed, granted, extraUsed>>
    BY <1>4 DEF RevokeCredit, sums
  <2>2. units \in Nat /\ units <= MaxRevoked
    BY DEF QuotaAssumption
  <2>f. /\ ExtraRemaining(u) \in Nat /\ FreeRemaining(u) \in Nat
        /\ DailyRemaining(u) \in Nat /\ MonthlyRemaining(u) \in Nat
        /\ FreeRemaining(u) <= DailyRemaining(u) /\ FreeRemaining(u) <= MonthlyRemaining(u)
    BY <1>t, AccountFigures
  <2> HIDE DEF units
  <2>3. /\ extra \in Nat /\ free \in Nat
        /\ extra <= units /\ extra <= ExtraRemaining(u) /\ free <= FreeRemaining(u)
        /\ free > 0 => extra = ExtraRemaining(u)
    BY <2>2, <2>f DEF Least
  <2> HIDE DEF extra, free
  <2>4. o \in [user : Users, need : Nat, extra : Nat, free : Nat,
               by : {"none", "reply", "group", "revoke"}]
    BY <2>3 DEF Charge
  <2>5. o.user = u /\ o.need = 0 /\ o.extra = extra /\ o.free = free /\ o.by = "revoke"
    BY DEF Charge
  <2> HIDE DEF o
  <2>6. /\ op' \in [user : Users, need : Nat, extra : Nat, free : Nat,
                    by : {"none", "reply", "group", "revoke"}]
        /\ op'.user = u /\ op'.need = 0 /\ op'.extra = extra /\ op'.free = free
        /\ op'.by \in {"none", "revoke"}
        /\ op'.by = "none" => extra = 0 /\ free = 0
    BY <2>1, <2>4, <2>5, DoneFields
  <2>7. TypeOK'
    BY <2>1, <2>6, <1>t DEF TypeOK
  <2>8. FreeWithinLimits' /\ DebtBounded'
    BY <2>1, <1>t DEF FreeWithinLimits, DebtBounded, DailyLimit, MonthlyLimit, DebtBound
  <2>9. FreePending'
    <3>1. free > 0 => dayUsed[u] + free <= DailyLimit /\ monthUsed[u] + free <= MonthlyLimit
      BY <2>3, <2>f, <1>t DEF TypeOK, DailyRemaining, MonthlyRemaining, Floor0
    <3> QED
      BY <3>1, <2>1, <2>6 DEF FreePending, DailyLimit, MonthlyLimit
  <2>10. ExtraPending'
    <3>1. extra > 0 => extraUsed[u] + extra <= granted[u]
      BY <2>3, <1>t DEF TypeOK, ExtraRemaining, Floor0
    <3>2. ~PanelInBot => extra <= DebtBound
      BY <2>2, <2>3 DEF QuotaAssumption, DebtBound
    <3>3. extra > 0 => extraUsed[u] + extra <= granted[u] + DebtBound
      BY <3>1, <2>3, <1>t DEF TypeOK
    <3> QED
      BY <3>1, <3>2, <3>3, <2>1, <2>6 DEF ExtraPending, DebtBound
  <2>11. Phases' /\ NeedPending'
    BY <2>6 DEF Phases, NeedPending
  <2>12. RevokeSpendsExtraFirst'
    <3>1. ExtraRemaining(u)' = ExtraRemaining(u)
      BY <2>1 DEF ExtraRemaining
    <3>2. free > 0 => ExtraRemaining(u)' <= extra
      BY <3>1, <2>3, <2>f
    <3> QED
      BY <3>2, <2>6 DEF RevokeSpendsExtraFirst, ExtraRemaining
  <2> QED
    BY <2>7, <2>8, <2>9, <2>10, <2>11, <2>12 DEF IInv
<1>5. CASE RecordExtra
  <2> DEFINE o == [op EXCEPT !.extra = 0]
  <2>1. /\ op.extra > 0 /\ op' = Done(o)
        /\ extraUsed' = [extraUsed EXCEPT ![op.user] = @ + op.extra]
        /\ UNCHANGED <<dayUsed, monthUsed, granted>>
    BY <1>5 DEF RecordExtra
  <2>2. /\ o \in [user : Users, need : Nat, extra : Nat, free : Nat,
                  by : {"none", "reply", "group", "revoke"}]
        /\ o.user = op.user /\ o.need = op.need /\ o.extra = 0
        /\ o.free = op.free /\ o.by = op.by
    BY <1>t DEF TypeOK
  <2> HIDE DEF o
  <2>3. /\ op' \in [user : Users, need : Nat, extra : Nat, free : Nat,
                    by : {"none", "reply", "group", "revoke"}]
        /\ op'.user = op.user /\ op'.need = op.need /\ op'.extra = 0 /\ op'.free = op.free
        /\ op'.by = op.by \/ op'.by = "none"
        /\ op'.by = "none" => op'.need = 0 /\ op'.free = 0
    BY <2>1, <2>2, DoneFields, <1>t DEF Phases
  <2>n. op.need = 0
    BY <2>1, <1>t, <1>u DEF Phases
  <2>4. TypeOK'
    BY <2>1, <2>3, <1>t, <1>u DEF TypeOK
  <2>5. DebtBounded' /\ FreeWithinLimits'
    BY <2>1, <1>t, <1>u DEF TypeOK, ExtraPending, DebtBounded, FreeWithinLimits,
         DailyLimit, MonthlyLimit, DebtBound
  <2>6. Phases' /\ NeedPending' /\ ExtraPending'
    BY <2>3, <2>n DEF Phases, NeedPending, ExtraPending
  <2>7. FreePending'
    BY <2>1, <2>3, <1>t DEF FreePending, DailyLimit, MonthlyLimit
  <2>8. RevokeSpendsExtraFirst'
    <3> SUFFICES ASSUME PanelInBot, op.by = "revoke", op.free > 0
                 PROVE  (granted[op.user] - extraUsed'[op.user] \leq 0)
      BY <2>1, <2>3, <1>t, <1>u DEF TypeOK, RevokeSpendsExtraFirst, ExtraRemaining, Floor0
    <3>1. ExtraRemaining(op.user) <= op.extra
      BY <1>t DEF RevokeSpendsExtraFirst
    <3> QED
      BY <3>1, <2>1, <1>t, <1>u DEF TypeOK, ExtraRemaining, Floor0
  <2> QED
    BY <2>4, <2>5, <2>6, <2>7, <2>8 DEF IInv
<1>6. CASE RecordFree
  <2> DEFINE o == [op EXCEPT !.free = 0]
  <2>1. /\ op.free > 0 /\ op.extra = 0 /\ op' = Done(o)
        /\ dayUsed' = [dayUsed EXCEPT ![op.user] = @ + op.free]
        /\ monthUsed' = [monthUsed EXCEPT ![op.user] = @ + op.free]
        /\ UNCHANGED <<granted, extraUsed>>
    BY <1>6 DEF RecordFree
  <2>2. /\ o \in [user : Users, need : Nat, extra : Nat, free : Nat,
                  by : {"none", "reply", "group", "revoke"}]
        /\ o.user = op.user /\ o.need = op.need /\ o.extra = 0
        /\ o.free = 0 /\ o.by = op.by
    BY <2>1, <1>t DEF TypeOK
  <2> HIDE DEF o
  <2>n. op.need = 0
    BY <2>1, <1>t, <1>u DEF Phases
  <2>3. /\ op' \in [user : Users, need : Nat, extra : Nat, free : Nat,
                    by : {"none", "reply", "group", "revoke"}]
        /\ op'.user = op.user /\ op'.need = 0 /\ op'.extra = 0 /\ op'.free = 0
    BY <2>1, <2>2, <2>n, DoneFields
  <2>4. TypeOK'
    BY <2>1, <2>3, <1>t, <1>u DEF TypeOK
  <2>5. DebtBounded' /\ FreeWithinLimits'
    BY <2>1, <1>t, <1>u DEF TypeOK, FreePending, DebtBounded, FreeWithinLimits,
         DailyLimit, MonthlyLimit, DebtBound
  <2>6. Phases' /\ NeedPending' /\ ExtraPending' /\ FreePending' /\ RevokeSpendsExtraFirst'
    BY <2>3 DEF Phases, NeedPending, ExtraPending, FreePending, RevokeSpendsExtraFirst
  <2> QED
    BY <2>4, <2>5, <2>6 DEF IInv
<1>7. CASE Abandon
  <2>1. op' = NoOp(op.user) /\ UNCHANGED <<dayUsed, monthUsed, granted, extraUsed>>
    BY <1>7 DEF Abandon, sums
  <2>2. TypeOK'
    BY <2>1, <1>t, <1>u DEF TypeOK, NoOp, Charge
  <2>3. FreeWithinLimits' /\ DebtBounded'
    BY <2>1, <1>t DEF FreeWithinLimits, DebtBounded, DailyLimit, MonthlyLimit, DebtBound
  <2> QED
    BY <2>1, <2>2, <2>3, <1>u, IdleParts DEF IInv
<1>i. Idle => op.need = 0 /\ op.extra = 0 /\ op.free = 0
  BY <1>t DEF Idle, Phases
<1>8. ASSUME NEW u \in Users, NEW n \in Grants, AddExtraCredit(u, n)
      PROVE  IInv'
  <2> DEFINE units == n * Scale
  <2>1. /\ PanelInBot => Idle
        /\ granted' = [granted EXCEPT ![u] = @ + units]
        /\ UNCHANGED <<dayUsed, monthUsed, extraUsed, op>>
    BY <1>8 DEF AddExtraCredit, MayWrite
  <2>2. units \in Nat
    OBVIOUS
  <2> HIDE DEF units
  <2>3. TypeOK'
    BY <2>1, <2>2, <1>t DEF TypeOK
  <2>4. \A w \in Users : granted[w] <= granted'[w] /\ granted'[w] \in Nat
    BY <2>1, <2>2, <1>t DEF TypeOK
  <2>5. FreeWithinLimits' /\ DebtBounded'
    BY <2>1, <2>4, <1>t DEF TypeOK, FreeWithinLimits, DebtBounded, DailyLimit,
         MonthlyLimit, DebtBound
  <2>6. Phases' /\ FreePending'
    BY <2>1, <1>t DEF Phases, FreePending, DailyLimit, MonthlyLimit
  <2>7. ExtraPending'
    BY <2>1, <2>4, <1>t, <1>u DEF TypeOK, ExtraPending, DebtBound
  <2>8. NeedPending'
    <3>1. EffectiveRemaining(op.user)' >= EffectiveRemaining(op.user)
      BY <2>1, <2>4, <1>t, <1>u DEF TypeOK, EffectiveRemaining, FreeRemaining, DailyRemaining,
           MonthlyRemaining, ExtraRemaining, DailyLimit, MonthlyLimit, Floor0, Least
    <3>2. EffectiveRemaining(op.user)' \in Nat
      BY <2>1, <2>3, <1>u DEF TypeOK, EffectiveRemaining, FreeRemaining, DailyRemaining,
           MonthlyRemaining, ExtraRemaining, DailyLimit, MonthlyLimit, Floor0, Least
    <3>3. EffectiveRemaining(op.user) \in Nat
      BY <1>t, <1>u, AccountFigures
    <3>4. op.need > 0 => \/ EffectiveRemaining(op.user)' >= op.need
                         \/ ~PanelInBot /\ extraUsed[op.user] <= granted'[op.user]
      BY <3>1, <3>2, <3>3, <2>4, <1>t, <1>u DEF TypeOK, NeedPending
    <3> QED
      BY <3>4, <2>1 DEF NeedPending, EffectiveRemaining, FreeRemaining, DailyRemaining,
           MonthlyRemaining, ExtraRemaining, DailyLimit, MonthlyLimit
  <2>9. RevokeSpendsExtraFirst'
    BY <2>1, <1>i DEF RevokeSpendsExtraFirst
  <2> QED
    BY <2>3, <2>5, <2>6, <2>7, <2>8, <2>9 DEF IInv
<1>9. ASSUME NEW u \in Users, DeleteUserCompletely(u)
      PROVE  IInv'
  <2>1. /\ PanelInBot => Idle
        /\ dayUsed' = [dayUsed EXCEPT ![u] = 0]
        /\ monthUsed' = [monthUsed EXCEPT ![u] = 0]
        /\ granted' = [granted EXCEPT ![u] = 0]
        /\ extraUsed' = [extraUsed EXCEPT ![u] = 0]
        /\ op' = op
    BY <1>9 DEF DeleteUserCompletely, MayWrite
  <2>2. TypeOK'
    BY <2>1, <1>t DEF TypeOK
  <2>3. FreeWithinLimits' /\ DebtBounded'
    BY <2>1, <1>t DEF TypeOK, FreeWithinLimits, DebtBounded, DailyLimit, MonthlyLimit, DebtBound
  <2>4. Phases' /\ RevokeSpendsExtraFirst'
    BY <2>1, <1>i, <1>t DEF Phases, RevokeSpendsExtraFirst
  <2>5. FreePending'
    BY <2>1, <1>t, <1>u DEF TypeOK, FreePending, DailyLimit, MonthlyLimit
  <2>6. ExtraPending'
    BY <2>1, <1>i, <1>t, <1>u DEF TypeOK, ExtraPending, DebtBound
  <2>7. NeedPending'
    <3>1. CASE op.user = u
      BY <3>1, <2>1, <1>i, <1>t, <1>u DEF TypeOK, NeedPending
    <3>2. CASE op.user # u
      BY <3>2, <2>1, <1>t, <1>u DEF TypeOK, NeedPending, EffectiveRemaining, FreeRemaining,
           DailyRemaining, MonthlyRemaining, ExtraRemaining, DailyLimit, MonthlyLimit
    <3> QED
      BY <3>1, <3>2
  <2> QED
    BY <2>2, <2>3, <2>4, <2>5, <2>6, <2>7 DEF IInv
<1>10. ASSUME dayUsed' = [u \in Users |-> 0],
              monthUsed' = monthUsed \/ monthUsed' = [u \in Users |-> 0],
              UNCHANGED <<granted, extraUsed, op>>
       PROVE  IInv'
  <2>1. TypeOK'
    BY <1>10, <1>t DEF TypeOK
  <2>2. FreeWithinLimits' /\ DebtBounded'
    BY <1>10, <1>t DEF TypeOK, FreeWithinLimits, DebtBounded, DailyLimit, MonthlyLimit, DebtBound
  <2>3. Phases' /\ ExtraPending'
    BY <1>10, <1>t DEF Phases, ExtraPending, DebtBound
  <2>4. RevokeSpendsExtraFirst'
    BY <1>10, <1>t DEF RevokeSpendsExtraFirst, ExtraRemaining
  <2>5. FreePending'
    BY <1>10, <1>t, <1>u DEF TypeOK, FreePending, DailyLimit, MonthlyLimit
  <2>6. NeedPending'
    <3>1. /\ EffectiveRemaining(op.user) \in Nat
          /\ EffectiveRemaining(op.user)' \in Nat
          /\ EffectiveRemaining(op.user)' >= EffectiveRemaining(op.user)
      BY <1>10, <2>1, <1>t, <1>u DEF TypeOK, EffectiveRemaining, FreeRemaining, DailyRemaining,
           MonthlyRemaining, ExtraRemaining, DailyLimit, MonthlyLimit, Floor0, Least
    <3>2. op.need > 0 => \/ EffectiveRemaining(op.user)' >= op.need
                         \/ ~PanelInBot /\ extraUsed[op.user] <= granted[op.user]
      BY <3>1, <1>t, <1>u DEF NeedPending
    <3> QED
      BY <3>2, <1>10 DEF NeedPending, EffectiveRemaining, FreeRemaining, DailyRemaining,
           MonthlyRemaining, ExtraRemaining, DailyLimit, MonthlyLimit
  <2> QED
    BY <2>1, <2>2, <2>3, <2>4, <2>5, <2>6 DEF IInv
<1>11. CASE NewDay
  BY <1>10, <1>11 DEF NewDay
<1>12. CASE NewMonth
  BY <1>10, <1>12 DEF NewMonth
<1>13. CASE UNCHANGED vars
  BY <1>13, <1>t DEF vars, IInv, TypeOK, FreeWithinLimits, DebtBounded, Phases, FreePending,
       ExtraPending, NeedPending, RevokeSpendsExtraFirst, EffectiveRemaining, FreeRemaining,
       DailyRemaining, MonthlyRemaining, ExtraRemaining, DailyLimit, MonthlyLimit, DebtBound
<1> QED
  BY <1>1, <1>2, <1>3, <1>4, <1>5, <1>6, <1>7, <1>8, <1>9, <1>11, <1>12, <1>13 DEF Next

-----------------------------------------------------------------------------
(* IInv holds in every state of every behaviour. *)
THEOREM Invariance == Spec => []IInv
BY InitInv, NextInv, PTL DEF Spec

(* The sums stay naturals and the call in progress stays well formed. *)
THEOREM TypeCorrect == Spec => []TypeOK
<1>1. IInv => TypeOK
  BY DEF IInv
<1> QED
  BY <1>1, Invariance, PTL

(* No day and no month hands out more free units than its limit. *)
THEOREM FreeQuotaSafe == Spec => []FreeWithinLimits
<1>1. IInv => FreeWithinLimits
  BY DEF IInv
<1> QED
  BY <1>1, Invariance, PTL

(* The hidden debt of an account stays below one reply (with the panel in  *)
(* a process of its own: below a reply or a revocation, and one unit).     *)
THEOREM DebtSafe == Spec => []DebtBounded
<1>1. IInv => DebtBounded
  BY DEF IInv
<1> QED
  BY <1>1, Invariance, PTL

(* A revocation takes extra units before free ones. *)
THEOREM RevocationOrder == Spec => []RevokeSpendsExtraFirst
<1>1. IInv => RevokeSpendsExtraFirst
  BY DEF IInv
<1> QED
  BY <1>1, Invariance, PTL

(* With the panel in the bot's process, only a private reply can leave an  *)
(* account in debt.                                                        *)
THEOREM RepliesAlone == ASSUME PanelInBot PROVE Spec => OnlyRepliesIndebt
<1> DEFINE Kept == \A u \in Users :
        (op.by \in {"group", "revoke"} /\ op.extra > 0 /\ op.user = u
           /\ extraUsed'[u] > extraUsed[u])
        => extraUsed'[u] <= granted[u]
<1>1. IInv /\ [Next]_vars => [Kept]_vars
  <2> SUFFICES ASSUME IInv, Next, NEW u \in Users,
                      op.by \in {"group", "revoke"}, op.extra > 0, op.user = u,
                      extraUsed'[u] > extraUsed[u]
               PROVE  extraUsed'[u] <= granted[u]
    BY DEF vars
  <2>1. TypeOK /\ ExtraPending
    BY DEF IInv
  <2>2. ~Idle
    BY DEF Idle
  <2>3. RecordExtra
    BY <2>1, <2>2, PanelInBot DEF Next, TypeOK, CanConsumeReply, ConsumeSuccessfulReply, ConsumeGroupReply,
         RevokeCredit, RecordFree, Abandon, AddExtraCredit, DeleteUserCompletely, NewDay,
         NewMonth, MayWrite, sums
  <2> QED
    BY <2>1, <2>3 DEF TypeOK, ExtraPending, RecordExtra
<1> QED
  BY <1>1, Invariance, PTL DEF Spec, OnlyRepliesIndebt
=============================================================================
