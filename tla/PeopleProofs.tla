---------------------------- MODULE PeopleProofs ----------------------------
(***************************************************************************)
(* The components of MCPeople, for every set of users, channels, chats,    *)
(* owners and memory ids and every bound.                                  *)
(*                                                                         *)
(* No property is inductive by itself.  A referral's claim relies on a row *)
(* that is not there being neither invited nor claimed (Sound), since a   *)
(* row written anew begins without both.  Each phone bonus is a session    *)
(* that failed until the marker is written (BonusesAreFailures).  A        *)
(* membership is about its channel because what a running check has read   *)
(* of the channel still holds, or the check was overtaken (ReadHolds).  A  *)
(* fact is not remembered twice because the list that a suggestion is      *)
(* compared with has every fact of the user, or is stale (Holds).          *)
(***************************************************************************)
EXTENDS MCPeople, TLAPS, FiniteSetTheorems

ProfileRows ==
  [exists : BOOLEAN, onboarding : OnboardingStates, registration : OnboardingStates,
   named : BOOLEAN, suggested : BOOLEAN, pending : BOOLEAN, attempted : BOOLEAN,
   inviter : Users \cup Inviters \cup {None}, question : BOOLEAN, claimed : BOOLEAN]

(* A row as the handlers leave it. *)
Sound(p) ==
  /\ p \in ProfileRows
  /\ p.claimed => p.question
  /\ ~p.exists => ~p.claimed /\ p.inviter = None

(* The row q may stand where p stood, without a credit. *)
Keeps(p, q) == Sound(q) /\ q.claimed = p.claimed

OnboardingInv ==
  /\ profile \in [Users -> ProfileRows]
  /\ \A u \in Users : Sound(profile[u])
  /\ referral \in [Users -> Nat] /\ lost \in [Users -> Nat]
  /\ ReferralPaidOnce

-----------------------------------------------------------------------------
(* The rows the operators of the model make. *)

LEMMA RowIsNew == ASSUME NEW b \in BOOLEAN PROVE Sound(NewRow(b)) /\ ~NewRow(b).claimed
  BY DEF Sound, NewRow, ProfileRows, OnboardingStates, NameStates

LEMMA UpsertKeeps == ASSUME NEW p, Sound(p) PROVE Keeps(p, Upsert(p)) /\ Upsert(p).exists
<1>1. CASE p.exists
  BY <1>1 DEF Upsert, Keeps
<1>2. CASE ~p.exists
  <2>1. ~p.claimed /\ p.claimed \in BOOLEAN /\ NewRow(TRUE).claimed = FALSE /\ NewRow(TRUE).exists = TRUE
    BY <1>2 DEF Sound, ProfileRows, NewRow
  <2>2. p.claimed = FALSE
    BY <2>1
  <2> QED BY <1>2, <2>1, <2>2, RowIsNew DEF Upsert, Keeps
<1> QED BY <1>1, <1>2

LEMMA StateKeeps ==
  ASSUME NEW p, Sound(p), NEW s \in OnboardingStates
  PROVE  Keeps(p, SetState(p, s)) /\ Keeps(p, SetOnboardingState(p, s))
  BY DEF Sound, Keeps, ProfileRows, SetState, SetOnboardingState, Update

LEMMA SuggestionKeeps ==
  ASSUME NEW p, Sound(p), NEW s \in BOOLEAN
  PROVE  Keeps(p, [p EXCEPT !.suggested = s])
  BY DEF Sound, Keeps, ProfileRows

LEMMA AttemptKeeps ==
  ASSUME NEW p, Sound(p)
  PROVE  Keeps(p, [p EXCEPT !.pending = TRUE, !.attempted = TRUE])
  BY DEF Sound, Keeps, ProfileRows

LEMMA SavedNameKeeps ==
  ASSUME NEW p, Sound(p)
  PROVE  Keeps(p, SaveDisplayName(p)) /\ Keeps(p, KeepName(p))
<1>1. Keeps(p, [p EXCEPT !.named = p.exists, !.pending = FALSE, !.suggested = FALSE])
  BY DEF Sound, Keeps, ProfileRows
<1>2. Keeps(p, SaveDisplayName(p))
  BY <1>1, StateKeeps DEF SaveDisplayName, Keeps, OnboardingStates, NameStates
<1>3. Keeps(p, KeepName(p))
  BY DEF Sound, Keeps, ProfileRows, KeepName, OnboardingStates
<1> QED BY <1>2, <1>3

LEMMA QuestionKeeps ==
  ASSUME NEW p, Sound(p)
  PROVE  Keeps(p, Update(p, [p EXCEPT !.question = TRUE]))
  BY DEF Sound, Keeps, ProfileRows, Update

LEMMA InvitationKeeps ==
  ASSUME NEW p, Sound(p), p.exists, NEW i \in Users \cup Inviters \cup {None}
  PROVE  Keeps(p, SetReferredBy(p, i))
<1> DEFINE inviter == IF p.inviter = None THEN i ELSE p.inviter
<1>1. inviter \in Users \cup Inviters \cup {None}
  BY DEF Sound, ProfileRows
<1>2. SetReferredBy(p, i) = [p EXCEPT !.inviter = inviter]
  BY DEF SetReferredBy
<1> HIDE DEF inviter
<1> QED BY <1>1, <1>2 DEF Sound, Keeps, ProfileRows

(* A row that loses its inviter keeps its claim. *)
LEMMA DeletionKeeps == ASSUME NEW p, Sound(p), NEW gone PROVE Keeps(p, Uninvited(p, gone))
<1> DEFINE inviter == IF p.inviter = gone THEN None ELSE p.inviter
<1>1. inviter \in Users \cup Inviters \cup {None} /\ (p.inviter = None => inviter = None)
  BY DEF Sound, ProfileRows
<1>2. Uninvited(p, gone) = [p EXCEPT !.inviter = inviter]
  BY DEF Uninvited
<1> HIDE DEF inviter
<1> QED BY <1>1, <1>2 DEF Sound, Keeps, ProfileRows

-----------------------------------------------------------------------------
(* What a handler's pieces do to the invariant. *)

LEMMA Unmoved == ASSUME OnboardingInv, UNCHANGED <<profile, bonuses>> PROVE OnboardingInv'
  BY DEF OnboardingInv, ReferralPaidOnce, bonuses

LEMMA Rewritten ==
  ASSUME OnboardingInv, NEW u \in Users, NEW q, Keeps(profile[u], q), Writes(u, q), UNCHANGED bonuses
  PROVE  OnboardingInv'
<1>1. profile' = [profile EXCEPT ![u] = q] /\ referral' = referral /\ lost' = lost
  BY DEF Writes, bonuses
<1>2. profile' \in [Users -> ProfileRows]
  BY <1>1 DEF OnboardingInv, Keeps, Sound
<1>3. /\ profile'[u] = q /\ \A v \in Users \ {u} : profile'[v] = profile[v]
  BY <1>1 DEF OnboardingInv
<1>4. \A v \in Users : Sound(profile'[v]) /\ profile'[v].claimed = profile[v].claimed
  BY <1>3 DEF OnboardingInv, Keeps
<1>5. ReferralPaidOnce'
  BY <1>1, <1>4 DEF OnboardingInv, ReferralPaidOnce, Sound
<1>6. (\A v \in Users : Sound(profile[v]))'
  BY <1>4 DEF Sound
<1> QED BY <1>1, <1>2, <1>5, <1>6 DEF OnboardingInv

(* The claim pays or loses one credit, for a row that had none. *)
LEMMA ClaimStep ==
  ASSUME OnboardingInv, NEW u \in Users, NEW p, Keeps(profile[u], p), Claims(u, p)
  PROVE  OnboardingInv'
<1>1. CASE ~(Qualified(p) /\ ~p.claimed)
  BY <1>1, Rewritten DEF Claims
<1>2. CASE Qualified(p) /\ ~p.claimed
  <2> DEFINE q == [p EXCEPT !.claimed = TRUE]
  <2>1. /\ q \in ProfileRows /\ q.claimed = TRUE
        /\ q.question = p.question /\ q.exists = p.exists
    BY DEF Keeps, Sound, ProfileRows
  <2>2. p.question /\ p.exists
    BY <1>2 DEF Qualified, Keeps, Sound, ProfileRows
  <2>3. /\ Writes(u, q)
       /\ \/ referral' = [referral EXCEPT ![u] = @ + 1] /\ lost' = lost
          \/ lost' = [lost EXCEPT ![u] = @ + 1] /\ referral' = referral
    BY <1>2 DEF Claims
  <2> HIDE DEF q
  <2>4. profile' = [profile EXCEPT ![u] = q]
    BY <2>3 DEF Writes
  <2>5. /\ profile' \in [Users -> ProfileRows] /\ profile'[u] = q
        /\ \A v \in Users \ {u} : profile'[v] = profile[v]
    BY <2>1, <2>4 DEF OnboardingInv
  <2>6. \A v \in Users : Sound(profile'[v])
    BY <2>1, <2>2, <2>5 DEF OnboardingInv, Sound
  <2>7. referral[u] + lost[u] = 0
    BY <1>2 DEF OnboardingInv, ReferralPaidOnce, Keeps
  <2>8. referral' \in [Users -> Nat] /\ lost' \in [Users -> Nat] /\ referral'[u] + lost'[u] = 1
    BY <2>3, <2>7 DEF OnboardingInv
  <2>9. \A v \in Users \ {u} : referral'[v] = referral[v] /\ lost'[v] = lost[v]
    BY <2>3 DEF OnboardingInv
  <2>10. ReferralPaidOnce'
    <3> SUFFICES ASSUME NEW v \in Users
                 PROVE  /\ referral'[v] + lost'[v] = IF profile'[v].claimed THEN 1 ELSE 0
                        /\ profile'[v].claimed => profile'[v].question
      BY DEF ReferralPaidOnce
    <3>1. CASE v = u
      BY <2>1, <2>2, <2>5, <2>8, <3>1
    <3>2. CASE v # u
      BY <2>5, <2>9, <3>2 DEF OnboardingInv, ReferralPaidOnce
    <3> QED BY <3>1, <3>2
  <2>11. (\A v \in Users : Sound(profile[v]))'
    BY <2>6 DEF Sound
  <2> QED BY <2>5, <2>8, <2>10, <2>11 DEF OnboardingInv
<1> QED BY <1>1, <1>2

LEMMA AskingKeeps ==
  ASSUME OnboardingInv, NEW u \in Users
  PROVE  /\ AskForName(u) => OnboardingInv'
         /\ AskForGender(u) => OnboardingInv'
         /\ AskForNameInput(u) => OnboardingInv'
         /\ AskForNameOfBot(u) => OnboardingInv'
         /\ ShowAccount(u) => OnboardingInv'
         /\ Nothing(u) => OnboardingInv'
<1> DEFINE p == profile[u]
<1>1. Sound(p) /\ p.exists \in BOOLEAN
  BY DEF OnboardingInv, Sound, ProfileRows
<1>2. {"ask_name_confirm", "ask_name_input", "ask_gender"} \subseteq OnboardingStates
  BY DEF OnboardingStates, NameStates
<1>3. /\ Keeps(p, SetState([p EXCEPT !.suggested = p.exists], "ask_name_confirm"))
      /\ Keeps(p, SetState([p EXCEPT !.suggested = FALSE], "ask_name_input"))
  <2> DEFINE q(b) == [p EXCEPT !.suggested = b]
  <2> HIDE DEF p, q
  <2>1. ASSUME NEW b \in BOOLEAN, NEW s \in OnboardingStates PROVE Keeps(p, SetState(q(b), s))
    <3>1. Keeps(p, q(b))
      BY <1>1, SuggestionKeeps DEF q
    <3>2. Sound(q(b)) /\ q(b).claimed = p.claimed
      BY <3>1 DEF Keeps
    <3>3. Keeps(q(b), SetState(q(b), s))
      BY <3>2, StateKeeps
    <3> QED BY <3>2, <3>3 DEF Keeps
  <2> QED BY <1>1, <1>2, <2>1 DEF q
<1>4. Keeps(p, SetState(p, "ask_gender")) /\ Keeps(p, SetState(p, "ask_name_input"))
  BY <1>1, <1>2, StateKeeps
<1>5. AskForName(u) => OnboardingInv'
  BY <1>3, Rewritten DEF AskForName
<1>6. AskForGender(u) => OnboardingInv'
  BY <1>4, Rewritten DEF AskForGender
<1>7. AskForNameInput(u) => OnboardingInv'
  BY <1>4, Rewritten DEF AskForNameInput
<1>8. /\ AskForNameOfBot(u) => OnboardingInv'
      /\ ShowAccount(u) => OnboardingInv'
      /\ Nothing(u) => OnboardingInv'
  BY Unmoved DEF AskForNameOfBot, ShowAccount, Nothing
<1> QED BY <1>5, <1>6, <1>7, <1>8

-----------------------------------------------------------------------------
(* Messages and the row's deletion. *)
LEMMA MessageStep ==
  ASSUME OnboardingInv, NEW u \in Users,
         \/ StartHandler(u) \/ GatedMessage(u) \/ NameText(u) \/ OtherText(u)
         \/ GateRefuses(u) \/ StartPasses(u) \/ AccountPasses(u) \/ TextPasses(u) \/ PhotoPasses(u)
         \/ ChatEnds(u) \/ DeleteUser(u)
  PROVE  OnboardingInv'
<1> DEFINE p == profile[u]
<1>0. Sound(p) /\ Keeps(p, p) /\ Keeps(p, Upsert(p)) /\ Sound(Upsert(p)) /\ Upsert(p).exists
  BY UpsertKeeps DEF OnboardingInv, Keeps
<1>1. CASE StartHandler(u)
  <2>1. PICK i \in Users \cup Inviters \cup {None} : Opens(u, "message", SetReferredBy(Upsert(p), i), "start")
    BY <1>1 DEF StartHandler
  <2>2. Keeps(p, SetReferredBy(Upsert(p), i))
    BY <1>0, InvitationKeeps DEF Keeps
  <2> QED BY <2>1, <2>2, Rewritten DEF Opens
<1>2. CASE GatedMessage(u) \/ OtherText(u)
  BY <1>0, <1>2, Rewritten DEF GatedMessage, OtherText, Opens
<1>3. CASE NameText(u)
  <2>1. Keeps(p, SetState([p EXCEPT !.pending = TRUE, !.attempted = TRUE], "name_ambiguous_confirm"))
    <3>1. PICK q : q = [p EXCEPT !.pending = TRUE, !.attempted = TRUE]
      OBVIOUS
    <3>2. Keeps(p, q)
      BY <1>0, <3>1, AttemptKeeps
    <3>3. Keeps(q, SetState(q, "name_ambiguous_confirm"))
      BY <3>2, StateKeeps DEF Keeps, OnboardingStates, NameStates
    <3> QED BY <3>1, <3>2, <3>3 DEF Keeps
  <2>2. \/ Writes(u, p) /\ UNCHANGED bonuses
        \/ /\ Writes(u, SetState([p EXCEPT !.pending = TRUE, !.attempted = TRUE], "name_ambiguous_confirm"))
           /\ UNCHANGED bonuses
        \/ UNCHANGED <<profile, bonuses>>
    BY <1>3 DEF NameText, Opens
  <2> QED BY <1>0, <2>1, <2>2, Rewritten, Unmoved
<1>4. CASE GateRefuses(u)
  BY <1>4, Unmoved DEF GateRefuses
<1>5. CASE StartPasses(u) \/ AccountPasses(u) \/ TextPasses(u) \/ PhotoPasses(u)
  <2>1. AskForGender(u) \/ AskForName(u) \/ ShowAccount(u) \/ Nothing(u)
    BY <1>5 DEF StartPasses, AccountPasses, TextPasses, PhotoPasses
  <2> QED BY <2>1, AskingKeeps
<1>6. CASE ChatEnds(u)
  <2>1. Nothing(u) \/ Claims(u, Update(p, [p EXCEPT !.question = TRUE]))
    BY <1>6 DEF ChatEnds
  <2>2. Keeps(p, Update(p, [p EXCEPT !.question = TRUE]))
    BY <1>0, QuestionKeeps
  <2> QED BY <2>1, <2>2, AskingKeeps, ClaimStep
<1>7. CASE DeleteUser(u)
  <2>1. /\ profile' = [v \in Users |-> IF v = u THEN NewRow(FALSE) ELSE Uninvited(profile[v], u)]
        /\ referral' = [referral EXCEPT ![u] = 0] /\ lost' = [lost EXCEPT ![u] = 0]
    BY <1>7 DEF DeleteUser
  <2>2. Sound(NewRow(FALSE)) /\ ~NewRow(FALSE).claimed
    BY RowIsNew
  <2>0. \A v \in Users : Keeps(profile[v], Uninvited(profile[v], u))
    BY DeletionKeeps DEF OnboardingInv
  <2>3. /\ profile' \in [Users -> ProfileRows] /\ referral' \in [Users -> Nat] /\ lost' \in [Users -> Nat]
        /\ profile'[u] = NewRow(FALSE) /\ referral'[u] = 0 /\ lost'[u] = 0
        /\ \A v \in Users \ {u} : /\ Keeps(profile[v], profile'[v])
                                  /\ referral'[v] = referral[v] /\ lost'[v] = lost[v]
    BY <2>0, <2>1, <2>2 DEF OnboardingInv, Keeps, Sound
  <2>4. (\A v \in Users : Sound(profile[v]))'
    BY <2>2, <2>3 DEF Keeps, Sound
  <2>5. ReferralPaidOnce'
    <3> SUFFICES ASSUME NEW v \in Users
                 PROVE  /\ referral'[v] + lost'[v] = IF profile'[v].claimed THEN 1 ELSE 0
                        /\ profile'[v].claimed => profile'[v].question
      BY DEF ReferralPaidOnce
    <3>1. CASE v = u
      <4>1. ~profile'[v].claimed
        BY <2>2, <2>3, <3>1
      <4>2. referral'[v] + lost'[v] = 0
        BY <2>3, <3>1
      <4> QED BY <4>1, <4>2
    <3>2. CASE v # u
      BY <2>3, <3>2 DEF OnboardingInv, ReferralPaidOnce, Keeps, Sound
    <3> QED BY <3>1, <3>2
  <2> QED BY <2>3, <2>4, <2>5 DEF OnboardingInv
<1> QED BY <1>1, <1>2, <1>3, <1>4, <1>5, <1>6, <1>7

(* Clicks, and the handlers that end in either slot. *)
LEMMA ClickStep ==
  ASSUME OnboardingInv, NEW u \in Users, NEW s \in Slots,
         \/ CheckChannels(u, s) \/ CheckAnswered(u, s) \/ ConfirmName(u, s) \/ ChangeName(u, s)
         \/ CancelName(u, s) \/ CancelAnswered(u, s) \/ AmbiguousName(u, s) \/ FinishNameUpdate(u, s)
         \/ Gender(u, s) \/ FinishGenderUpdate(u, s) \/ EditName(u, s) \/ EditGender(u, s)
         \/ EditGenderAnswered(u, s)
  PROVE  OnboardingInv'
<1> DEFINE p == profile[u]
<1>0. Sound(p) /\ Keeps(p, p) /\ Keeps(p, Upsert(p))
  BY UpsertKeeps DEF OnboardingInv, Keeps
<1>1. {"ready", "ask_name_input"} \subseteq OnboardingStates
  BY DEF OnboardingStates, NameStates
<1>2. CASE CheckChannels(u, s)
  BY <1>0, <1>2, Rewritten DEF CheckChannels, Opens
<1>3. CASE CancelName(u, s) \/ AmbiguousName(u, s) \/ Gender(u, s) \/ EditGender(u, s)
  BY <1>0, <1>3, Rewritten DEF CancelName, AmbiguousName, Gender, EditGender, Opens
<1>4. CASE CheckAnswered(u, s) \/ EditGenderAnswered(u, s) \/ ChangeName(u, s)
  <2>1. Nothing(u) \/ AskForGender(u) \/ AskForNameOfBot(u) \/ AskForNameInput(u)
    BY <1>4 DEF CheckAnswered, EditGenderAnswered, ChangeName
  <2> QED BY <2>1, AskingKeeps
<1>5. CASE ConfirmName(u, s)
  <2>1. (Writes(u, p) /\ UNCHANGED bonuses) \/ AskForNameInput(u)
    BY <1>5 DEF ConfirmName, Opens
  <2> QED BY <1>0, <2>1, AskingKeeps, Rewritten
<1>6. CASE CancelAnswered(u, s)
  <2>1. \/ Writes(u, SetOnboardingState(p, "ready")) /\ UNCHANGED bonuses
        \/ AskForNameOfBot(u)
    BY <1>6 DEF CancelAnswered
  <2>2. Keeps(p, SetOnboardingState(p, "ready"))
    BY <1>0, <1>1, StateKeeps
  <2> QED BY <2>1, <2>2, AskingKeeps, Rewritten
<1>7. CASE FinishNameUpdate(u, s)
  <2>1. (Writes(u, KeepName(p)) \/ Writes(u, SaveDisplayName(p))) /\ UNCHANGED bonuses
    BY <1>7 DEF FinishNameUpdate
  <2> QED BY <1>0, <2>1, SavedNameKeeps, Rewritten
<1>8. CASE FinishGenderUpdate(u, s)
  BY <1>0, <1>1, <1>8, StateKeeps, ClaimStep DEF FinishGenderUpdate
<1>9. CASE EditName(u, s)
  BY <1>0, <1>1, <1>9, StateKeeps, Rewritten DEF EditName
<1> QED BY <1>2, <1>3, <1>4, <1>5, <1>6, <1>7, <1>8, <1>9

(* The deletion of an inviter takes no claim back. *)
LEMMA InviterStep == ASSUME OnboardingInv, NEW i \in Inviters, DeleteInviter(i) PROVE OnboardingInv'
<1>1. profile' = [v \in Users |-> Uninvited(profile[v], i)] /\ referral' = referral /\ lost' = lost
  BY DEF DeleteInviter, bonuses
<1>2. \A v \in Users : Keeps(profile[v], profile'[v])
  BY <1>1, DeletionKeeps DEF OnboardingInv
<1>3. profile' \in [Users -> ProfileRows]
  BY <1>1, <1>2 DEF Keeps, Sound
<1>4. (\A v \in Users : Sound(profile[v]))'
  BY <1>2 DEF Keeps, Sound
<1>5. ReferralPaidOnce'
  BY <1>1, <1>2 DEF OnboardingInv, ReferralPaidOnce, Keeps, Sound
<1> QED BY <1>1, <1>3, <1>4, <1>5 DEF OnboardingInv

LEMMA OnboardingInitially == Init => OnboardingInv
<1> SUFFICES ASSUME Init PROVE OnboardingInv
  OBVIOUS
<1>1. Sound(NewRow(FALSE)) /\ ~NewRow(FALSE).claimed
  BY RowIsNew
<1>2. \A u \in Users : profile[u] = NewRow(FALSE)
  BY DEF Init
<1>3. profile \in [Users -> ProfileRows] /\ referral \in [Users -> Nat] /\ lost \in [Users -> Nat]
  BY <1>1 DEF Init, Sound
<1>4. ReferralPaidOnce
  <2>1. ASSUME NEW u \in Users PROVE ~profile[u].claimed
    BY <1>1, <1>2
  <2>2. ASSUME NEW u \in Users PROVE referral[u] + lost[u] = 0
    BY DEF Init
  <2> QED BY <2>1, <2>2 DEF ReferralPaidOnce
<1> QED BY <1>1, <1>2, <1>3, <1>4 DEF OnboardingInv

(* No step of a message, a click or the panel breaks the invariant. *)
LEMMA OnboardingInvariance == OnboardingInv /\ [Next]_vars => OnboardingInv'
<1> SUFFICES ASSUME OnboardingInv, [Next]_vars PROVE OnboardingInv'
  OBVIOUS
<1>1. CASE UNCHANGED vars
  BY <1>1, Unmoved DEF vars, bonuses
<1>2. CASE Next
  BY <1>2, MessageStep, ClickStep, InviterStep DEF Next, UserStep
<1> QED BY <1>1, <1>2

(* A row's referral bonus is paid or lost at most once, exactly when it is *)
(* claimed, and never before its owner has asked something                 *)
(* (claim_referral_bonus_if_ready in bot/handlers.py), for any number of   *)
(* users and of clicks that run at once, also when the panel deletes the   *)
(* inviter and another user invites its owner.                             *)
THEOREM ReferralSettledOnce == Spec => []ReferralPaidOnce
<1>1. OnboardingInv => ReferralPaidOnce
  BY DEF OnboardingInv
<1> QED BY <1>1, OnboardingInitially, OnboardingInvariance, PTL DEF Spec

-----------------------------------------------------------------------------
(* The buttons, the awaits, the questions and the deleted users.           *)

Screens == buttons \in [Users -> SUBSET Buttons]
Handlers == doing \in [Users \X Slots -> Awaits]
Questions == asked \in [Users -> {"nothing", "name", "gender"}]

UserMessage(u) ==
  \/ StartHandler(u) \/ GatedMessage(u) \/ NameText(u) \/ OtherText(u)
  \/ GateRefuses(u) \/ StartPasses(u) \/ AccountPasses(u) \/ TextPasses(u) \/ PhotoPasses(u)
  \/ ChatEnds(u) \/ DeleteUser(u)

UserClick(u, s) ==
  \/ CheckChannels(u, s) \/ CheckAnswered(u, s) \/ ConfirmName(u, s) \/ ChangeName(u, s)
  \/ CancelName(u, s) \/ CancelAnswered(u, s) \/ AmbiguousName(u, s) \/ FinishNameUpdate(u, s)
  \/ Gender(u, s) \/ FinishGenderUpdate(u, s) \/ EditName(u, s) \/ EditGender(u, s)
  \/ EditGenderAnswered(u, s)

LEMMA Offering ==
  ASSUME Screens, NEW u \in Users, NEW keys \in SUBSET Buttons,
         Offers(u, keys) \/ UNCHANGED buttons
  PROVE  Screens'
  BY DEF Screens, Offers

LEMMA Going ==
  ASSUME Handlers, NEW u \in Users, NEW s \in Slots, NEW next \in Awaits,
         Goes(u, s, next) \/ UNCHANGED doing
  PROVE  Handlers'
<1>1. <<u, s>> \in Users \X Slots
  OBVIOUS
<1> QED BY <1>1 DEF Handlers, Goes

LEMMA Asking ==
  ASSUME Questions, NEW u \in Users, NEW what \in {"nothing", "name", "gender"},
         Asks(u, what) \/ UNCHANGED asked
  PROVE  Questions'
  BY DEF Questions, Asks

(* A dialogue offers some of the buttons, or leaves the screen alone. *)
LEMMA DialogueOffers ==
  ASSUME Screens, NEW u \in Users
  PROVE  /\ AskForName(u) => Screens'
         /\ AskForGender(u) => Screens'
         /\ AskForNameInput(u) => Screens'
         /\ AskForNameOfBot(u) => Screens'
         /\ ShowAccount(u) => Screens'
         /\ Nothing(u) => Screens'
<1>1. /\ {"name_confirm", "name_change"} \in SUBSET Buttons /\ {"gender"} \in SUBSET Buttons
      /\ {"account"} \in SUBSET Buttons /\ {} \in SUBSET Buttons
  BY DEF Buttons
<1> QED BY <1>1, Offering
        DEF AskForName, AskForGender, AskForNameInput, AskForNameOfBot, ShowAccount, Nothing

LEMMA MessageOffers == ASSUME Screens, NEW u \in Users, UserMessage(u) PROVE Screens'
<1>1. /\ {"ambiguous_confirm", "name_change"} \in SUBSET Buttons /\ {"check"} \in SUBSET Buttons
      /\ {} \in SUBSET Buttons
      /\ {"name_change"} \cup (IF profile[u].registration = "ready" THEN {"name_cancel"} ELSE {}) \in SUBSET Buttons
  BY DEF Buttons
<1>2. CASE StartHandler(u) \/ GatedMessage(u) \/ OtherText(u) \/ DeleteUser(u)
  BY <1>1, <1>2, Offering DEF StartHandler, GatedMessage, OtherText, DeleteUser, Opens
<1>3. CASE NameText(u) \/ GateRefuses(u)
  BY <1>1, <1>3, Offering DEF NameText, GateRefuses, Opens
<1>4. CASE StartPasses(u) \/ AccountPasses(u) \/ TextPasses(u) \/ PhotoPasses(u)
  <2>1. AskForGender(u) \/ AskForName(u) \/ ShowAccount(u) \/ Nothing(u)
    BY <1>4 DEF StartPasses, AccountPasses, TextPasses, PhotoPasses
  <2> QED BY <2>1, DialogueOffers
<1>5. CASE ChatEnds(u)
  BY <1>1, <1>5, DialogueOffers, Offering DEF ChatEnds
<1> QED BY <1>2, <1>3, <1>4, <1>5 DEF UserMessage

LEMMA ClickOffers == ASSUME Screens, NEW u \in Users, NEW s \in Slots, UserClick(u, s) PROVE Screens'
<1>1. /\ {} \in SUBSET Buttons /\ {"gender"} \in SUBSET Buttons
      /\ (IF s = "message" THEN {"account"} ELSE {}) \in SUBSET Buttons
  BY DEF Buttons
<1>2. CASE CheckChannels(u, s) \/ CancelName(u, s) \/ AmbiguousName(u, s) \/ Gender(u, s) \/ EditGender(u, s)
           \/ FinishGenderUpdate(u, s) \/ EditName(u, s)
  BY <1>1, <1>2, Offering
     DEF CheckChannels, CancelName, AmbiguousName, Gender, EditGender, FinishGenderUpdate, EditName, Opens
<1>3. CASE CheckAnswered(u, s) \/ EditGenderAnswered(u, s) \/ ChangeName(u, s)
  <2>1. Nothing(u) \/ AskForGender(u) \/ AskForNameOfBot(u) \/ AskForNameInput(u)
    BY <1>3 DEF CheckAnswered, EditGenderAnswered, ChangeName
  <2> QED BY <2>1, DialogueOffers
<1>4. CASE ConfirmName(u, s)
  <2>1. UNCHANGED buttons \/ AskForNameInput(u)
    BY <1>4 DEF ConfirmName, Opens
  <2> QED BY <1>1, <2>1, DialogueOffers, Offering
<1>5. CASE CancelAnswered(u, s)
  <2>1. UNCHANGED buttons \/ AskForNameOfBot(u)
    BY <1>5 DEF CancelAnswered
  <2> QED BY <1>1, <2>1, DialogueOffers, Offering
<1>6. CASE FinishNameUpdate(u, s)
  BY <1>1, <1>6, Offering DEF FinishNameUpdate
<1> QED BY <1>2, <1>3, <1>4, <1>5, <1>6 DEF UserClick

(* A handler goes to one of its awaits, or ends. *)
LEMMA MessageGoes == ASSUME Handlers, NEW u \in Users, UserMessage(u) PROVE Handlers'
<1>1. /\ "message" \in Slots
      /\ {"idle", "start", "text", "photo", "account", "chat", "name"} \subseteq Awaits
  BY DEF Slots, Awaits, MessageGates
<1>2. CASE StartHandler(u) \/ GatedMessage(u) \/ OtherText(u)
  <2>1. \E next \in {"start", "text", "photo", "account"} : Goes(u, "message", next)
    BY <1>2 DEF StartHandler, GatedMessage, OtherText, Opens
  <2> QED BY <1>1, <2>1, Going
<1>3. CASE NameText(u)
  <2>1. UNCHANGED doing \/ Goes(u, "message", "name")
    BY <1>3 DEF NameText, Opens
  <2> QED BY <1>1, <2>1, Going
<1>4. CASE GateRefuses(u) \/ StartPasses(u) \/ AccountPasses(u) \/ ChatEnds(u)
  <2>1. Goes(u, "message", "idle")
    BY <1>4 DEF GateRefuses, StartPasses, AccountPasses, ChatEnds, Ends
  <2> QED BY <1>1, <2>1, Going
<1>5. CASE TextPasses(u) \/ PhotoPasses(u)
  <2>1. Goes(u, "message", "idle") \/ Goes(u, "message", "chat")
    BY <1>5 DEF TextPasses, PhotoPasses, Ends
  <2> QED BY <1>1, <2>1, Going
<1>6. CASE DeleteUser(u)
  BY <1>1, <1>6, Going DEF DeleteUser
<1> QED BY <1>2, <1>3, <1>4, <1>5, <1>6 DEF UserMessage

LEMMA ClickGoes == ASSUME Handlers, NEW u \in Users, NEW s \in Slots, UserClick(u, s) PROVE Handlers'
<1>1. {"idle", "check", "name", "cancel_ready", "cancel_new", "gender", "edit_gender"} \subseteq Awaits
  BY DEF Awaits
<1>2. CASE CheckChannels(u, s) \/ AmbiguousName(u, s) \/ Gender(u, s) \/ EditGender(u, s)
  <2>1. \E next \in {"check", "name", "gender", "edit_gender"} : Goes(u, s, next)
    BY <1>2 DEF CheckChannels, AmbiguousName, Gender, EditGender, Opens
  <2> QED BY <1>1, <2>1, Going
<1>3. CASE CancelName(u, s)
  <2>1. Goes(u, s, IF profile[u].registration = "ready" THEN "cancel_ready" ELSE "cancel_new")
    BY <1>3 DEF CancelName, Opens
  <2> QED BY <1>1, <2>1, Going
<1>4. CASE ConfirmName(u, s)
  <2>1. UNCHANGED doing \/ Goes(u, s, "name")
    BY <1>4 DEF ConfirmName, Opens
  <2> QED BY <1>1, <2>1, Going
<1>5. CASE ChangeName(u, s) \/ EditName(u, s)
  BY <1>1, <1>5, Going DEF ChangeName, EditName
<1>6. CASE CheckAnswered(u, s) \/ CancelAnswered(u, s) \/ FinishNameUpdate(u, s)
           \/ FinishGenderUpdate(u, s) \/ EditGenderAnswered(u, s)
  <2>1. Goes(u, s, "idle")
    BY <1>6 DEF CheckAnswered, CancelAnswered, FinishNameUpdate, FinishGenderUpdate, EditGenderAnswered, Ends
  <2> QED BY <1>1, <2>1, Going
<1> QED BY <1>2, <1>3, <1>4, <1>5, <1>6 DEF UserClick

(* A question is a name, a gender or none. *)
LEMMA DialogueAsks ==
  ASSUME Questions, NEW u \in Users
  PROVE  /\ AskForName(u) => Questions'
         /\ AskForGender(u) => Questions'
         /\ AskForNameInput(u) => Questions'
         /\ AskForNameOfBot(u) => Questions'
         /\ ShowAccount(u) => Questions'
         /\ Nothing(u) => Questions'
  BY Asking DEF AskForName, AskForGender, AskForNameInput, AskForNameOfBot, ShowAccount, Nothing

LEMMA MessageAsks == ASSUME Questions, NEW u \in Users, UserMessage(u) PROVE Questions'
<1>1. CASE StartHandler(u) \/ GatedMessage(u) \/ NameText(u) \/ OtherText(u) \/ GateRefuses(u) \/ DeleteUser(u)
  <2>1. UNCHANGED asked \/ Asks(u, "nothing")
    BY <1>1 DEF StartHandler, GatedMessage, NameText, OtherText, GateRefuses, DeleteUser, Opens
  <2> QED BY <2>1, Asking
<1>2. CASE StartPasses(u) \/ AccountPasses(u) \/ TextPasses(u) \/ PhotoPasses(u)
  <2>1. AskForGender(u) \/ AskForName(u) \/ ShowAccount(u) \/ Nothing(u)
    BY <1>2 DEF StartPasses, AccountPasses, TextPasses, PhotoPasses
  <2> QED BY <2>1, DialogueAsks
<1>3. CASE ChatEnds(u)
  <2>1. UNCHANGED asked
    BY <1>3 DEF ChatEnds, Nothing
  <2> QED BY <2>1 DEF Questions
<1> QED BY <1>1, <1>2, <1>3 DEF UserMessage

LEMMA ClickAsks == ASSUME Questions, NEW u \in Users, NEW s \in Slots, UserClick(u, s) PROVE Questions'
<1>1. CASE CheckChannels(u, s) \/ CancelName(u, s) \/ AmbiguousName(u, s) \/ Gender(u, s) \/ EditGender(u, s)
           \/ FinishGenderUpdate(u, s) \/ EditName(u, s) \/ FinishNameUpdate(u, s)
  <2>1. \E what \in {"nothing", "name", "gender"} : UNCHANGED asked \/ Asks(u, what)
    BY <1>1 DEF CheckChannels, CancelName, AmbiguousName, Gender, EditGender, FinishGenderUpdate, EditName,
                FinishNameUpdate, Opens
  <2> QED BY <2>1, Asking
<1>2. CASE CheckAnswered(u, s) \/ EditGenderAnswered(u, s) \/ ChangeName(u, s)
  <2>1. Nothing(u) \/ AskForGender(u) \/ AskForNameOfBot(u) \/ AskForNameInput(u)
    BY <1>2 DEF CheckAnswered, EditGenderAnswered, ChangeName
  <2> QED BY <2>1, DialogueAsks
<1>3. CASE ConfirmName(u, s)
  <2>1. UNCHANGED asked \/ AskForNameInput(u)
    BY <1>3 DEF ConfirmName, Opens
  <2> QED BY <2>1, DialogueAsks DEF Questions
<1>4. CASE CancelAnswered(u, s)
  <2>1. Asks(u, "nothing") \/ AskForNameOfBot(u)
    BY <1>4 DEF CancelAnswered
  <2> QED BY <2>1, DialogueAsks, Asking
<1> QED BY <1>1, <1>2, <1>3, <1>4 DEF UserClick

LEMMA WipedAreUsers ==
  ASSUME wiped \subseteq Users, NEW u \in Users,
         UserMessage(u) \/ \E s \in Slots : UserClick(u, s)
  PROVE  wiped' \subseteq Users
<1>1. CASE DeleteUser(u)
  BY <1>1 DEF DeleteUser
<1>2. CASE UserMessage(u) /\ ~DeleteUser(u)
  BY <1>2 DEF UserMessage, StartHandler, GatedMessage, NameText, OtherText, GateRefuses, StartPasses,
              AccountPasses, TextPasses, PhotoPasses, ChatEnds, Opens
<1>3. ASSUME NEW s \in Slots, UserClick(u, s) PROVE wiped' \subseteq Users
  BY <1>3 DEF UserClick, CheckChannels, CheckAnswered, ConfirmName, ChangeName, CancelName, CancelAnswered,
              AmbiguousName, FinishNameUpdate, Gender, FinishGenderUpdate, EditName, EditGender,
              EditGenderAnswered, Opens
<1> QED BY <1>1, <1>2, <1>3

SlotsInv == Screens /\ Handlers /\ Questions /\ wiped \subseteq Users

LEMMA SlotsInvariance == SlotsInv /\ [Next]_vars => SlotsInv'
<1> SUFFICES ASSUME SlotsInv, [Next]_vars PROVE SlotsInv'
  OBVIOUS
<1>1. CASE UNCHANGED vars
  BY <1>1 DEF vars, SlotsInv, Screens, Handlers, Questions
<1>2. CASE Next
  <2>0. CASE \E i \in Inviters : DeleteInviter(i)
    BY <2>0 DEF DeleteInviter, SlotsInv, Screens, Handlers, Questions
  <2>1. CASE \E u \in Users : UserMessage(u) \/ \E s \in Slots : UserClick(u, s)
    <3>1. PICK u \in Users : UserMessage(u) \/ \E s \in Slots : UserClick(u, s)
      BY <2>1
    <3> QED BY <3>1, MessageOffers, ClickOffers, MessageGoes, ClickGoes, MessageAsks, ClickAsks, WipedAreUsers
            DEF SlotsInv
  <2> QED BY <1>2, <2>0, <2>1 DEF Next, UserStep, UserMessage, UserClick
<1> QED BY <1>1, <1>2

LEMMA SlotsInitially == Init => SlotsInv
<1> SUFFICES ASSUME Init PROVE SlotsInv
  OBVIOUS
<1>1. Screens
  BY DEF Init, Screens
<1>2. Handlers
  BY DEF Init, Handlers, Awaits
<1>3. Questions
  BY DEF Init, Questions
<1> QED BY <1>1, <1>2, <1>3 DEF Init, SlotsInv

LEMMA OnboardingTyped == OnboardingInv /\ SlotsInv => TypeOK
  BY DEF OnboardingInv, SlotsInv, Screens, Handlers, Questions, TypeOK, ProfileRows

LEMMA OnboardingInvariant == Spec => [](OnboardingInv /\ SlotsInv)
  BY OnboardingInitially, OnboardingInvariance, SlotsInitially, SlotsInvariance, PTL DEF Spec
-----------------------------------------------------------------------------
(* Profiles *)

(* Before the marker no more credits than failures, with it one more. *)
BonusesAreFailures ==
  \A u \in Users :
    /\ claimed[u] => phone[u] /\ granted[u] >= 1 /\ granted[u] <= failed[u] + 1
    /\ ~claimed[u] => granted[u] <= failed[u]

ProfileInv == P!TypeOK /\ BonusesAreFailures

BonusTypes ==
  /\ phone \in [Users -> BOOLEAN] /\ claimed \in [Users -> BOOLEAN]
  /\ granted \in [Users -> Nat] /\ failed \in [Users -> 0..MaxFailures]
DialogueTypes ==
  /\ completion \in [Users -> {"idle", "awaiting_bio", "awaiting_phone", "completed"}]
  /\ invalid \in [Users -> 0..1]
ContactTypes ==
  /\ offered \in [Users -> BOOLEAN]
  /\ contact \in [Users -> [own : BOOLEAN, try : 0..Attempts]]

LEMMA ProfileTypes == P!TypeOK <=> BonusTypes /\ DialogueTypes /\ ContactTypes
  BY DEF P!TypeOK, BonusTypes, DialogueTypes, ContactTypes

LEMMA ProfileNumbers ==
  ASSUME P!TypeOK, NEW u \in Users
  PROVE  /\ granted[u] \in Nat /\ failed[u] \in Nat /\ failed[u] <= MaxFailures
         /\ contact[u].try \in 0..Attempts /\ contact[u] \in [own : BOOLEAN, try : 0..Attempts]
<1>1. failed[u] \in 0..MaxFailures /\ granted[u] \in Nat
  BY DEF P!TypeOK
<1>2. contact[u] \in [own : BOOLEAN, try : 0..Attempts]
  BY DEF P!TypeOK
<1> QED BY <1>1, <1>2, ProfileAssumption DEF ProfileAssumption

(* The steps of the dialogue. *)
LEMMA DialogueMoves ==
  ASSUME P!TypeOK, NEW u \in Users,
         \/ P!RegisterInvalidAttempt(u)
         \/ \E to \in {"idle", "awaiting_bio", "awaiting_phone", "completed"} : P!Moves(u, to)
         \/ UNCHANGED <<completion, invalid>>
  PROVE  DialogueTypes'
<1>1. DialogueTypes
  BY ProfileTypes
<1>2. ASSUME NEW to \in {"idle", "awaiting_bio", "awaiting_phone", "completed"}, P!Moves(u, to)
      PROVE  DialogueTypes'
  BY <1>1, <1>2 DEF DialogueTypes, P!Moves
<1>3. CASE P!RegisterInvalidAttempt(u)
  <2>1. CASE P!Moves(u, "idle")
    BY <1>2, <2>1
  <2>2. CASE invalid' = [invalid EXCEPT ![u] = 1] /\ UNCHANGED completion
    BY <1>1, <2>2 DEF DialogueTypes
  <2> QED BY <1>3, <2>1, <2>2 DEF P!RegisterInvalidAttempt
<1>4. CASE UNCHANGED <<completion, invalid>>
  BY <1>1, <1>4 DEF DialogueTypes
<1> QED BY <1>2, <1>3, <1>4

(* The contact that a user's slot holds afterwards. *)
LEMMA ContactMoves ==
  ASSUME P!TypeOK, NEW u \in Users,
         \/ P!Done(u)
         \/ offered' = offered /\ \E x \in [own : BOOLEAN, try : 0..Attempts] : contact' = [contact EXCEPT ![u] = x]
         \/ UNCHANGED <<offered, contact>>
  PROVE  ContactTypes'
<1>1. P!NoContact \in [own : BOOLEAN, try : 0..Attempts]
  BY ProfileAssumption DEF P!NoContact, ProfileAssumption
<1> QED BY <1>1 DEF P!TypeOK, ContactTypes, P!Done

LEMMA BonusUnmoved ==
  ASSUME ProfileInv, UNCHANGED P!bonus
  PROVE  BonusTypes' /\ BonusesAreFailures'
  BY DEF ProfileInv, P!TypeOK, BonusTypes, BonusesAreFailures, P!bonus

(* A contact that is handled to its end. *)
LEMMA ContactHandled ==
  ASSUME ProfileInv, NEW u \in Users, P!OwnContact(u)
  PROVE  ProfileInv'
<1>1. /\ phone' = [phone EXCEPT ![u] = TRUE] /\ failed' = failed /\ P!Done(u)
  BY DEF P!OwnContact, P!Verify
<1>2. ContactTypes'
  BY <1>1, ContactMoves DEF ProfileInv
<1>3. phone' \in [Users -> BOOLEAN] /\ phone'[u] /\ \A v \in Users \ {u} : phone'[v] = phone[v]
  BY <1>1 DEF ProfileInv, P!TypeOK
<1>4. CASE claimed[u]
  <2>1. UNCHANGED <<completion, invalid, claimed, granted>>
    BY <1>4 DEF P!OwnContact
  <2>2. DialogueTypes'
    BY <2>1, DialogueMoves DEF ProfileInv
  <2>3. BonusTypes'
    BY <1>1, <1>3, <2>1 DEF ProfileInv, P!TypeOK, BonusTypes
  <2>4. BonusesAreFailures'
    BY <1>1, <1>3, <2>1 DEF ProfileInv, BonusesAreFailures
  <2> QED BY <1>2, <2>2, <2>3, <2>4, ProfileTypes, PTL DEF ProfileInv
<1>5. CASE ~claimed[u]
  <2>1. /\ P!Moves(u, "completed")
        /\ claimed' = [claimed EXCEPT ![u] = TRUE] /\ granted' = [granted EXCEPT ![u] = @ + 1]
    BY <1>5 DEF P!OwnContact, P!Grants
  <2>2. DialogueTypes'
    BY <2>1, DialogueMoves DEF ProfileInv
  <2>3. /\ claimed' \in [Users -> BOOLEAN] /\ claimed'[u]
        /\ \A v \in Users \ {u} : claimed'[v] = claimed[v]
    BY <2>1 DEF ProfileInv, P!TypeOK
  <2>4. /\ granted' \in [Users -> Nat] /\ granted'[u] = granted[u] + 1
        /\ \A v \in Users \ {u} : granted'[v] = granted[v]
    BY <2>1 DEF ProfileInv, P!TypeOK
  <2>5. BonusTypes'
    BY <1>1, <1>3, <2>3, <2>4 DEF ProfileInv, P!TypeOK, BonusTypes
  <2>6. granted[u] \in Nat /\ failed[u] \in Nat /\ granted[u] <= failed[u]
    BY <1>5, ProfileNumbers DEF ProfileInv, BonusesAreFailures
  <2>7. granted'[u] >= 1 /\ granted'[u] <= failed'[u] + 1
    BY <1>1, <2>4, <2>6
  <2>8. BonusesAreFailures'
    <3> SUFFICES ASSUME NEW v \in Users
                 PROVE  /\ claimed'[v] => phone'[v] /\ granted'[v] >= 1 /\ granted'[v] <= failed'[v] + 1
                        /\ ~claimed'[v] => granted'[v] <= failed'[v]
      BY DEF BonusesAreFailures
    <3>1. CASE v = u
      BY <1>3, <2>3, <2>7, <3>1
    <3>2. CASE v # u
      BY <1>1, <1>3, <2>3, <2>4, <3>2 DEF ProfileInv, BonusesAreFailures
    <3> QED BY <3>1, <3>2
  <2> QED BY <1>2, <2>2, <2>5, <2>8, ProfileTypes, PTL DEF ProfileInv
<1> QED BY <1>4, <1>5

(* A contact whose credit or marker fails: one more failure, and no more   *)
(* than one more credit.                                                   *)
LEMMA ContactRaises ==
  ASSUME ProfileInv, NEW u \in Users, P!OwnContactRaises(u)
  PROVE  ProfileInv'
<1>1. /\ phone' = [phone EXCEPT ![u] = TRUE] /\ claimed' = claimed /\ ~claimed[u]
      /\ completion' = completion /\ invalid' = invalid /\ offered' = offered
      /\ failed[u] < MaxFailures /\ failed' = [failed EXCEPT ![u] = @ + 1]
      /\ granted' = [granted EXCEPT ![u] = @ + 1] \/ granted' = granted
  BY DEF P!OwnContactRaises, P!Verify, P!Grants
<1>2. ContactTypes'
  <2>1. contact[u] \in [own : BOOLEAN, try : 0..Attempts] /\ Attempts \in Nat \ {0}
    BY ProfileNumbers, ProfileAssumption DEF ProfileInv, ProfileAssumption
  <2> DEFINE x == IF contact[u].try = Attempts THEN P!NoContact ELSE [own |-> TRUE, try |-> contact[u].try + 1]
  <2>2. x \in [own : BOOLEAN, try : 0..Attempts]
    <3>1. CASE contact[u].try = Attempts
      BY <2>1, <3>1 DEF P!NoContact
    <3>2. CASE contact[u].try # Attempts
      <4>1. contact[u].try + 1 \in 0..Attempts
        BY <2>1, <3>2
      <4> QED BY <3>2, <4>1
    <3> QED BY <3>1, <3>2
  <2>3. contact' = [contact EXCEPT ![u] = x]
    BY DEF P!OwnContactRaises
  <2> HIDE DEF x
  <2> QED BY <1>1, <2>2, <2>3, ContactMoves DEF ProfileInv
<1>3. DialogueTypes'
  BY <1>1, DialogueMoves DEF ProfileInv
<1>4. granted[u] \in Nat /\ failed[u] \in Nat /\ granted[u] <= failed[u] /\ MaxFailures \in Nat
  BY <1>1, ProfileNumbers, ProfileAssumption DEF ProfileInv, BonusesAreFailures, ProfileAssumption
<1>5. /\ failed' \in [Users -> 0..MaxFailures] /\ failed'[u] = failed[u] + 1
      /\ \A v \in Users \ {u} : failed'[v] = failed[v]
  BY <1>1, <1>4 DEF ProfileInv, P!TypeOK
<1>6. /\ granted' \in [Users -> Nat] /\ granted'[u] <= granted[u] + 1 /\ granted'[u] \in Nat
      /\ \A v \in Users \ {u} : granted'[v] = granted[v]
  BY <1>1, <1>4 DEF ProfileInv, P!TypeOK
<1>7. BonusTypes'
  BY <1>1, <1>5, <1>6 DEF ProfileInv, P!TypeOK, BonusTypes
<1>8. granted'[u] <= failed'[u]
  BY <1>4, <1>5, <1>6
<1>9. \A v \in Users \ {u} : phone'[v] = phone[v]
  BY <1>1 DEF ProfileInv, P!TypeOK
<1>10. BonusesAreFailures'
  <2> SUFFICES ASSUME NEW v \in Users
               PROVE  /\ claimed'[v] => phone'[v] /\ granted'[v] >= 1 /\ granted'[v] <= failed'[v] + 1
                      /\ ~claimed'[v] => granted'[v] <= failed'[v]
    BY DEF BonusesAreFailures
  <2>1. CASE v = u
    BY <1>1, <1>8, <2>1
  <2>2. CASE v # u
    BY <1>1, <1>5, <1>6, <1>9, <2>2 DEF ProfileInv, BonusesAreFailures
  <2> QED BY <2>1, <2>2
<1> QED BY <1>2, <1>3, <1>7, <1>10, ProfileTypes, PTL DEF ProfileInv

(* The other steps grant nothing. *)
LEMMA DialogueStep ==
  ASSUME ProfileInv, NEW u \in Users,
         \/ P!ProfileStart(u) \/ P!ProfileCancel(u) \/ P!Text(u) \/ P!OfferForQuota(u)
         \/ P!Contact(u) \/ P!ContactIgnored(u) \/ P!ForeignContact(u)
  PROVE  ProfileInv'
<1>1. UNCHANGED P!bonus
  BY DEF P!ProfileStart, P!ProfileCancel, P!Text, P!OfferForQuota, P!Contact, P!ContactIgnored, P!ForeignContact
<1>2. DialogueTypes'
  <2>1. \/ P!RegisterInvalidAttempt(u)
        \/ \E to \in {"idle", "awaiting_bio", "awaiting_phone", "completed"} : P!Moves(u, to)
        \/ UNCHANGED <<completion, invalid>>
    BY DEF P!ProfileStart, P!ProfileCancel, P!Text, P!OfferForQuota, P!Contact, P!ContactIgnored, P!ForeignContact
  <2> QED BY <2>1, DialogueMoves DEF ProfileInv
<1>3. ContactTypes'
  <2>1. CASE P!OfferForQuota(u)
    BY <2>1 DEF P!OfferForQuota, ProfileInv, P!TypeOK, ContactTypes
  <2>2. CASE P!Contact(u)
    <3>1. offered' = offered /\ \E own \in BOOLEAN : contact' = [contact EXCEPT ![u] = [own |-> own, try |-> 1]]
      BY <2>2 DEF P!Contact
    <3>2. 1 \in 0..Attempts
      BY ProfileAssumption DEF ProfileAssumption
    <3>3. \A own \in BOOLEAN : [own |-> own, try |-> 1] \in [own : BOOLEAN, try : 0..Attempts]
      BY <3>2
    <3> QED BY <3>1, <3>3, ContactMoves DEF ProfileInv
  <2>3. CASE P!Done(u) \/ UNCHANGED <<offered, contact>>
    BY <2>3, ContactMoves DEF ProfileInv
  <2> QED BY <2>1, <2>2, <2>3 DEF P!ProfileStart, P!ProfileCancel, P!Text, P!ContactIgnored, P!ForeignContact
<1> QED BY <1>1, <1>2, <1>3, BonusUnmoved, ProfileTypes, PTL DEF ProfileInv

LEMMA ProfileInitially == P!Init => ProfileInv
<1> SUFFICES ASSUME P!Init PROVE ProfileInv
  OBVIOUS
<1>1. 0 \in 0..MaxFailures /\ P!NoContact \in [own : BOOLEAN, try : 0..Attempts]
  BY ProfileAssumption DEF ProfileAssumption, P!NoContact
<1>2. P!TypeOK
  BY <1>1 DEF P!Init, P!TypeOK
<1>3. \A u \in Users : ~claimed[u] /\ granted[u] = 0 /\ failed[u] = 0
  BY DEF P!Init
<1> QED BY <1>2, <1>3 DEF ProfileInv, BonusesAreFailures

LEMMA ProfileInvariant == P!Spec => []ProfileInv
<1>1. ProfileInv /\ [P!Next]_(P!vars) => ProfileInv'
  <2> SUFFICES ASSUME ProfileInv, [P!Next]_(P!vars) PROVE ProfileInv'
    OBVIOUS
  <2>1. CASE UNCHANGED P!vars
    BY <2>1 DEF ProfileInv, P!TypeOK, BonusesAreFailures, P!vars
  <2>2. CASE P!Next
    BY <2>2, DialogueStep, ContactHandled, ContactRaises DEF P!Next
  <2> QED BY <2>1, <2>2
<1> QED BY <1>1, ProfileInitially, PTL DEF P!Spec

(* The phone bonus is paid once for a user, and once more for each session *)
(* that failed between the credit and its marker (contact_handler), for    *)
(* any number of tries and failures.                                       *)
THEOREM PhoneBonusPaid == P!Spec => []PhoneBonusPerFailure
<1>1. ProfileInv => PhoneBonusPerFailure
  <2> SUFFICES ASSUME ProfileInv, NEW u \in Users
               PROVE  /\ granted[u] <= failed[u] + 1
                      /\ claimed[u] => phone[u] /\ granted[u] >= 1
                      /\ failed[u] = 0 => (granted[u] = 1 <=> claimed[u])
    BY DEF PhoneBonusPerFailure, P!PhoneBonusPerFailure
  <2>1. granted[u] \in Nat /\ failed[u] \in Nat
    BY ProfileNumbers DEF ProfileInv
  <2>2. CASE claimed[u]
    <3>1. phone[u] /\ granted[u] >= 1 /\ granted[u] <= failed[u] + 1
      BY <2>2 DEF ProfileInv, BonusesAreFailures
    <3>2. failed[u] = 0 => granted[u] = 1
      BY <2>1, <3>1
    <3> QED BY <2>2, <3>1, <3>2
  <2>3. CASE ~claimed[u]
    <3>1. granted[u] <= failed[u]
      BY <2>3 DEF ProfileInv, BonusesAreFailures
    <3>2. granted[u] <= failed[u] + 1 /\ (failed[u] = 0 => granted[u] # 1)
      BY <2>1, <3>1
    <3> QED BY <2>3, <3>2
  <2> QED BY <2>2, <2>3
<1> QED BY <1>1, ProfileInvariant, PTL
-----------------------------------------------------------------------------
(* Required channels *)

Todos == UNION {[s -> Chats] : s \in SUBSET Channels}
CheckRecords ==
  [user : Users \cup {None}, cached : BOOLEAN, todo : Todos,
   asking : Channels \cup {None}, missing : SUBSET Channels]
CacheRows == [chat : Chats \cup {None}, isMember : BOOLEAN, fresh : BOOLEAN]

RowTypes == chat \in [Channels -> Chats \cup {None}] /\ active \subseteq {c \in Channels : chat[c] # None}
CacheTypes == cache \in [Users \X Channels -> CacheRows]
OtherTypes == member \in [Chats -> SUBSET Users] /\ bypass \subseteq Users /\ overtaken \subseteq Channels
CheckTypes ==
  /\ check \in [Checks -> CheckRecords]
  /\ \A k \in Checks : check[k].asking # None => check[k].asking \in DOMAIN check[k].todo

(* What a running check has read of a channel still holds, or the channel  *)
(* is in overtaken.                                                        *)
ReadHolds ==
  \A k \in Checks, c \in Channels \ overtaken :
    c \in DOMAIN check[k].todo => check[k].todo[c] = chat[c]

ChannelsInv ==
  /\ RowTypes /\ CacheTypes /\ OtherTypes /\ CheckTypes
  /\ ReadHolds /\ CacheIsAboutItsChannel

LEMMA ChannelsTyped == ChannelsInv => C!TypeOK
<1> SUFFICES ASSUME ChannelsInv PROVE C!TypeOK
  OBVIOUS
<1>1. ASSUME NEW k \in Checks
      PROVE  /\ check[k].user \in Users \cup {None} /\ check[k].missing \subseteq Channels
             /\ DOMAIN check[k].todo \subseteq Channels
             /\ check[k].asking # None => check[k].asking \in DOMAIN check[k].todo
  <2>1. check[k] \in CheckRecords
    BY DEF ChannelsInv, CheckTypes
  <2>2. check[k].todo \in Todos
    BY <2>1 DEF CheckRecords
  <2>3. DOMAIN check[k].todo \subseteq Channels
    BY <2>2 DEF Todos
  <2> QED BY <2>1, <2>3 DEF ChannelsInv, CheckTypes, CheckRecords
<1> QED BY <1>1 DEF ChannelsInv, RowTypes, CacheTypes, OtherTypes, CacheRows, C!TypeOK

(* A check in progress: what it has to do is a table of chats. *)
LEMMA CheckRead ==
  ASSUME CheckTypes, NEW k \in Checks
  PROVE  /\ check[k] \in CheckRecords
         /\ DOMAIN check[k].todo \subseteq Channels
         /\ \A c \in DOMAIN check[k].todo : check[k].todo[c] \in Chats
<1>1. check[k] \in CheckRecords
  BY DEF CheckTypes
<1>2. check[k].todo \in Todos
  BY <1>1 DEF CheckRecords
<1>3. PICK s \in SUBSET Channels : check[k].todo \in [s -> Chats]
  BY <1>2 DEF Todos
<1> QED BY <1>1, <1>3

LEMMA NoCheckTyped == C!NoCheck \in CheckRecords /\ C!NoCheck.asking = None /\ DOMAIN C!NoCheck.todo = {}
<1>1. [c \in {} |-> None] \in [{} -> Chats]
  OBVIOUS
<1>2. [c \in {} |-> None] \in Todos
  BY <1>1 DEF Todos
<1> QED BY <1>2 DEF C!NoCheck, CheckRecords

(* The steps that change one check, to a record that reads the table.      *)
LEMMA CheckChanged ==
  ASSUME ChannelsInv, NEW k \in Checks, NEW r \in CheckRecords,
         r.asking # None => r.asking \in DOMAIN r.todo,
         \A c \in DOMAIN r.todo : r.todo[c] = chat[c] \/ (c \in DOMAIN check[k].todo /\ r.todo[c] = check[k].todo[c]),
         check' = [check EXCEPT ![k] = r], UNCHANGED <<chat, active, overtaken>>
  PROVE  CheckTypes' /\ ReadHolds' /\ RowTypes'
<1>1. /\ check' \in [Checks -> CheckRecords] /\ check'[k] = r
      /\ \A l \in Checks \ {k} : check'[l] = check[l]
  BY DEF ChannelsInv, CheckTypes
<1>2. CheckTypes'
  BY <1>1 DEF ChannelsInv, CheckTypes
<1>3. ReadHolds'
  <2> SUFFICES ASSUME NEW l \in Checks, NEW c \in Channels \ overtaken, c \in DOMAIN check'[l].todo
               PROVE  check'[l].todo[c] = chat[c]
    BY DEF ReadHolds
  <2>1. CASE l = k
    <3>1. r.todo[c] = chat[c] \/ (c \in DOMAIN check[k].todo /\ r.todo[c] = check[k].todo[c])
      BY <1>1, <2>1
    <3> QED BY <1>1, <2>1, <3>1 DEF ChannelsInv, ReadHolds
  <2>2. CASE l # k
    BY <1>1, <2>2 DEF ChannelsInv, ReadHolds
  <2> QED BY <2>1, <2>2
<1> QED BY <1>2, <1>3 DEF ChannelsInv, RowTypes

LEMMA JudgedRecord ==
  ASSUME ChannelsInv, NEW k \in Checks, NEW c \in DOMAIN check[k].todo, NEW ok, C!Judged(k, c, ok),
         UNCHANGED <<chat, active, overtaken>>
  PROVE  CheckTypes' /\ ReadHolds' /\ RowTypes'
<1>1. check[k] \in CheckRecords /\ c \in Channels /\ DOMAIN check[k].todo \subseteq Channels
  BY CheckRead DEF ChannelsInv
<1> DEFINE todo == C!Without(check[k].todo, c)
           missing == IF ok THEN check[k].missing ELSE check[k].missing \cup {c}
           r == [check[k] EXCEPT !.todo = todo, !.asking = None, !.missing = missing]
<1>2. /\ DOMAIN todo \subseteq DOMAIN check[k].todo
      /\ \A x \in DOMAIN todo : todo[x] = check[k].todo[x] /\ todo[x] \in Chats
  BY CheckRead DEF ChannelsInv, C!Without
<1>3. todo \in [DOMAIN todo -> Chats]
  BY <1>2 DEF C!Without
<1>4. todo \in Todos
  BY <1>1, <1>2, <1>3 DEF Todos
<1>5. check' = [check EXCEPT ![k] = [check[k] EXCEPT !.todo = todo, !.asking = None, !.missing = missing]]
  BY DEF C!Judged, ChannelsInv, CheckTypes
<1> HIDE DEF todo, missing
<1>7. r \in CheckRecords
  <2>1. missing \subseteq Channels
    BY <1>1 DEF missing, CheckRecords
  <2> QED BY <1>1, <1>4, <2>1 DEF CheckRecords
<1>8. check' = [check EXCEPT ![k] = r]
  BY <1>5
<1>9. r.asking = None /\ r.todo = todo
  BY <1>1 DEF CheckRecords
<1> HIDE DEF r
<1> QED BY <1>2, <1>7, <1>8, <1>9, CheckChanged

(* The steps of a check that write no row of the cache. *)
LEMMA CheckGoesOn ==
  ASSUME ChannelsInv, NEW k \in Checks,
         \/ \E u \in Users : C!Begin(k, u)
         \/ \E c \in Channels : C!FromCache(k, c) \/ C!Ask(k, c)
         \/ C!End(k)
  PROVE  ChannelsInv'
<1>1. UNCHANGED <<chat, active, cache, member, bypass, overtaken>>
  BY DEF C!Begin, C!FromCache, C!Ask, C!End, C!rows
<1>2. CheckTypes' /\ ReadHolds' /\ RowTypes'
  <2>1. CASE \E u \in Users : C!Begin(k, u)
    <3>1. PICK u \in Users, cached \in BOOLEAN :
            check' = [check EXCEPT ![k] = [C!NoCheck EXCEPT !.user = u, !.cached = cached, !.todo = [c \in active |-> chat[c]]]]
      BY <2>1 DEF C!Begin
    <3> DEFINE todo == [c \in active |-> chat[c]]
               r == [C!NoCheck EXCEPT !.user = u, !.cached = cached, !.todo = todo]
    <3>3. active \subseteq Channels /\ \A c \in active : chat[c] \in Chats
      BY DEF ChannelsInv, RowTypes
    <3>4. todo \in [active -> Chats]
      BY <3>3
    <3>5. todo \in Todos
      BY <3>3, <3>4 DEF Todos
    <3>6. DOMAIN todo = active /\ \A c \in active : todo[c] = chat[c]
      OBVIOUS
    <3>2. check' = [check EXCEPT ![k] = r]
      BY <3>1
    <3> HIDE DEF todo
    <3>7. r \in CheckRecords
      BY <3>5, NoCheckTyped DEF CheckRecords
    <3>8. r.asking = None /\ r.todo = todo
      BY NoCheckTyped DEF CheckRecords
    <3> HIDE DEF r
    <3> QED BY <1>1, <3>2, <3>6, <3>7, <3>8, CheckChanged
  <2>2. CASE \E c \in Channels : C!FromCache(k, c)
    BY <1>1, <2>2, JudgedRecord DEF C!FromCache
  <2>3. CASE \E c \in Channels : C!Ask(k, c)
    <3>1. PICK c \in Channels : c \in DOMAIN check[k].todo /\ check' = [check EXCEPT ![k].asking = c]
      BY <2>3 DEF C!Ask
    <3>2. check[k] \in CheckRecords
      BY CheckRead DEF ChannelsInv
    <3> DEFINE r == [check[k] EXCEPT !.asking = c]
    <3>3. check' = [check EXCEPT ![k] = r]
      BY <3>1
    <3>4. r \in CheckRecords /\ r.asking = c /\ r.todo = check[k].todo
      BY <3>2 DEF CheckRecords
    <3> HIDE DEF r
    <3> QED BY <1>1, <3>1, <3>3, <3>4, CheckChanged
  <2>4. CASE C!End(k)
    <3>1. check' = [check EXCEPT ![k] = C!NoCheck]
      BY <2>4 DEF C!End
    <3> QED BY <1>1, <3>1, NoCheckTyped, CheckChanged
  <2> QED BY <2>1, <2>2, <2>3, <2>4
<1>3. CacheTypes' /\ OtherTypes' /\ CacheIsAboutItsChannel'
  BY <1>1 DEF ChannelsInv, CacheTypes, OtherTypes, CacheIsAboutItsChannel, C!CacheIsAboutItsChannel
<1> QED BY <1>2, <1>3 DEF ChannelsInv

(* Telegram's answer is about the chat that the check has read. *)
LEMMA AnswerCached ==
  ASSUME ChannelsInv, NEW k \in Checks, C!Answered(k)
  PROVE  ChannelsInv'
<1> DEFINE c == check[k].asking
           u == check[k].user
           about == check[k].todo[c]
<1>1. /\ c # None
      /\ \E ok \in BOOLEAN :
           /\ cache' = [cache EXCEPT ![<<u, c>>] = [chat |-> about, isMember |-> ok, fresh |-> TRUE]]
           /\ C!Judged(k, c, ok)
      /\ UNCHANGED <<chat, active, member, bypass, overtaken>>
  BY DEF C!Answered, C!rows
<1>2. c \in DOMAIN check[k].todo
  BY <1>1 DEF ChannelsInv, CheckTypes
<1>3. c \in Channels /\ about \in Chats
  BY <1>2, CheckRead DEF ChannelsInv
<1>4. PICK ok \in BOOLEAN :
        /\ cache' = [cache EXCEPT ![<<u, c>>] = [chat |-> about, isMember |-> ok, fresh |-> TRUE]]
        /\ C!Judged(k, c, ok)
  BY <1>1
<1>5. c \notin overtaken => about = chat[c]
  BY <1>2, <1>3 DEF ChannelsInv, ReadHolds
<1>6. CheckTypes' /\ ReadHolds' /\ RowTypes'
  BY <1>1, <1>2, <1>4, JudgedRecord
<1> HIDE DEF c, u, about
<1>7. [chat |-> about, isMember |-> ok, fresh |-> TRUE] \in CacheRows
  BY <1>3 DEF CacheRows
<1>8. CacheTypes'
  BY <1>4, <1>7 DEF ChannelsInv, CacheTypes
<1>9. CacheIsAboutItsChannel'
  <2> SUFFICES ASSUME NEW v \in Users, NEW d \in Channels \ overtaken, cache'[<<v, d>>] # C!NoRow
               PROVE  chat[d] = cache'[<<v, d>>].chat
    BY <1>1 DEF CacheIsAboutItsChannel, C!CacheIsAboutItsChannel
  <2>1. <<v, d>> \in Users \X Channels
    OBVIOUS
  <2>2. CASE <<v, d>> = <<u, c>>
    <3>1. d = c
      BY <2>2
    <3>2. cache'[<<v, d>>] = [chat |-> about, isMember |-> ok, fresh |-> TRUE]
      BY <1>4, <2>1, <2>2 DEF ChannelsInv, CacheTypes
    <3> QED BY <1>5, <3>1, <3>2
  <2>3. CASE <<v, d>> # <<u, c>>
    <3>1. cache'[<<v, d>>] = cache[<<v, d>>]
      BY <1>4, <2>1, <2>3 DEF ChannelsInv, CacheTypes
    <3> QED BY <3>1 DEF ChannelsInv, CacheIsAboutItsChannel, C!CacheIsAboutItsChannel
  <2> QED BY <2>2, <2>3
<1> QED BY <1>1, <1>6, <1>8, <1>9 DEF ChannelsInv, OtherTypes

LEMMA NoRowTyped == C!NoRow \in CacheRows
  BY DEF C!NoRow, CacheRows

(* An admin's change of the list: a channel whose chat changes is one that *)
(* no running check has read, or it is overtaken.                          *)
LEMMA ListChanged ==
  ASSUME ChannelsInv, NEW c \in Channels, NEW t \in Chats \cup {None},
         chat' = [chat EXCEPT ![c] = t],
         \/ t # None /\ active' \subseteq active \cup {c}
         \/ active' \subseteq active \ {c},
         \/ t = chat[c] /\ overtaken' = overtaken
         \/ chat[c] = None /\ overtaken' = overtaken
         \/ C!Overtakes(c),
         \A x \in Users \X Channels : cache'[x] = C!NoRow \/ (x[2] # c /\ cache'[x] = cache[x]),
         CacheTypes', UNCHANGED <<member, bypass, check>>
  PROVE  ChannelsInv'
<1>1. /\ chat' \in [Channels -> Chats \cup {None}] /\ chat'[c] = t
      /\ \A d \in Channels \ {c} : chat'[d] = chat[d]
  BY DEF ChannelsInv, RowTypes
<1>2. RowTypes'
  BY <1>1 DEF ChannelsInv, RowTypes
<1>3. overtaken \subseteq overtaken' /\ overtaken' \subseteq Channels
  BY DEF ChannelsInv, OtherTypes, C!Overtakes
<1>4. OtherTypes'
  BY <1>3 DEF ChannelsInv, OtherTypes
<1>5. ReadHolds'
  <2> SUFFICES ASSUME NEW k \in Checks, NEW d \in Channels \ overtaken', d \in DOMAIN check[k].todo
               PROVE  check[k].todo[d] = chat'[d]
    BY DEF ReadHolds
  <2>1. check[k].todo[d] = chat[d] /\ check[k].todo[d] \in Chats
    BY <1>3, CheckRead DEF ChannelsInv, ReadHolds
  <2>2. CASE d # c
    BY <1>1, <2>1, <2>2
  <2>3. CASE d = c
    <3>1. ~C!Overtakes(c)
      BY <2>3 DEF C!Overtakes, C!AskedAbout
    <3>2. chat[c] # None
      BY <2>1, <2>3, ChannelsAssumption DEF ChannelsAssumption
    <3> QED BY <1>1, <2>1, <2>3, <3>1, <3>2
  <2> QED BY <2>2, <2>3
<1>6. CacheIsAboutItsChannel'
  <2> SUFFICES ASSUME NEW u \in Users, NEW d \in Channels \ overtaken', cache'[<<u, d>>] # C!NoRow
               PROVE  chat'[d] = cache'[<<u, d>>].chat
    BY DEF CacheIsAboutItsChannel, C!CacheIsAboutItsChannel
  <2>1. <<u, d>> \in Users \X Channels /\ <<u, d>>[2] = d
    OBVIOUS
  <2>2. d # c /\ cache'[<<u, d>>] = cache[<<u, d>>]
    BY <2>1
  <2>3. chat[d] = cache[<<u, d>>].chat
    BY <1>3, <2>2 DEF ChannelsInv, CacheIsAboutItsChannel, C!CacheIsAboutItsChannel
  <2> QED BY <1>1, <2>2, <2>3
<1>7. CheckTypes'
  BY DEF ChannelsInv, CheckTypes
<1> QED BY <1>2, <1>4, <1>5, <1>6, <1>7 DEF ChannelsInv

LEMMA AdminStep ==
  ASSUME ChannelsInv, NEW c \in Channels,
         \/ C!MoveChannel(c) \/ C!RemoveChannel(c)
         \/ \E t \in Chats : C!AddChannel(c, t) \/ C!UpdateChannel(c, t)
  PROVE  ChannelsInv'
<1>1. UNCHANGED <<member, bypass, check>>
  BY DEF C!MoveChannel, C!RemoveChannel, C!AddChannel, C!UpdateChannel
<1>2. ASSUME C!ClearCache
      PROVE  CacheTypes' /\ \A x \in Users \X Channels : cache'[x] = C!NoRow
  BY <1>2, NoRowTyped DEF C!ClearCache, CacheTypes
<1>3. CASE C!MoveChannel(c)
  <2>1. UNCHANGED <<chat, active, overtaken>> /\ C!ClearCache
    BY <1>3 DEF C!MoveChannel, C!rows
  <2>2. CacheTypes' /\ \A x \in Users \X Channels : cache'[x] = C!NoRow
    BY <1>2, <2>1
  <2>3. CacheIsAboutItsChannel'
    BY <2>2 DEF CacheIsAboutItsChannel, C!CacheIsAboutItsChannel
  <2> QED BY <1>1, <2>1, <2>2, <2>3 DEF ChannelsInv, RowTypes, OtherTypes, CheckTypes, ReadHolds
<1>4. CASE C!RemoveChannel(c)
  <2>1. /\ chat' = [chat EXCEPT ![c] = None] /\ active' = active \ {c} /\ C!Overtakes(c)
        /\ cache' = [x \in Users \X Channels |-> IF x[2] = c THEN C!NoRow ELSE cache[x]]
    BY <1>4 DEF C!RemoveChannel
  <2>2. CacheTypes' /\ \A x \in Users \X Channels : cache'[x] = C!NoRow \/ (x[2] # c /\ cache'[x] = cache[x])
    BY <2>1, NoRowTyped DEF ChannelsInv, CacheTypes
  <2> QED BY <1>1, <2>1, <2>2, ListChanged
<1>5. ASSUME NEW t \in Chats, C!AddChannel(c, t)
      PROVE  ChannelsInv'
  <2>1. /\ chat' = [chat EXCEPT ![c] = t] /\ active' = active \cup {c} /\ C!ClearCache
        /\ overtaken' = overtaken /\ (chat[c] = t \/ chat[c] = None)
    BY <1>5 DEF C!AddChannel
  <2>2. CacheTypes' /\ \A x \in Users \X Channels : cache'[x] = C!NoRow
    BY <1>2, <2>1
  <2>3. t # None
    BY ChannelsAssumption DEF ChannelsAssumption
  <2> QED BY <1>1, <2>1, <2>2, <2>3, ListChanged
<1>6. ASSUME NEW t \in Chats, C!UpdateChannel(c, t)
      PROVE  ChannelsInv'
  <2>1. /\ chat' = [chat EXCEPT ![c] = t] /\ active' \subseteq active \cup {c} /\ C!ClearCache
        /\ (t = chat[c] /\ overtaken' = overtaken) \/ C!Overtakes(c)
    BY <1>6 DEF C!UpdateChannel
  <2>2. CacheTypes' /\ \A x \in Users \X Channels : cache'[x] = C!NoRow
    BY <1>2, <2>1
  <2>3. t # None
    BY ChannelsAssumption DEF ChannelsAssumption
  <2> QED BY <1>1, <2>1, <2>2, <2>3, ListChanged
<1> QED BY <1>3, <1>4, <1>5, <1>6

LEMMA RowExpires ==
  ASSUME ChannelsInv, NEW x \in Users \X Channels, C!Expires(x)
  PROVE  ChannelsInv'
<1>1. /\ cache[x].fresh /\ cache' = [cache EXCEPT ![x].fresh = FALSE]
      /\ UNCHANGED <<chat, active, member, bypass, check, overtaken>>
  BY DEF C!Expires, C!rows
<1>2. cache[x] \in CacheRows
  BY DEF ChannelsInv, CacheTypes
<1>3. [cache[x] EXCEPT !.fresh = FALSE] \in CacheRows /\ [cache[x] EXCEPT !.fresh = FALSE].chat = cache[x].chat
  BY <1>2 DEF CacheRows
<1>4. cache' \in [Users \X Channels -> CacheRows] /\ cache'[x].chat = cache[x].chat
      /\ \A y \in (Users \X Channels) \ {x} : cache'[y] = cache[y]
  BY <1>1, <1>3 DEF ChannelsInv, CacheTypes
<1>5. cache[x] # C!NoRow
  BY <1>1 DEF C!NoRow
<1>6. CacheIsAboutItsChannel'
  <2> SUFFICES ASSUME NEW u \in Users, NEW c \in Channels \ overtaken, cache'[<<u, c>>] # C!NoRow
               PROVE  chat[c] = cache'[<<u, c>>].chat
    BY <1>1 DEF CacheIsAboutItsChannel, C!CacheIsAboutItsChannel
  <2>1. <<u, c>> \in Users \X Channels
    OBVIOUS
  <2>2. cache[<<u, c>>] # C!NoRow /\ cache'[<<u, c>>].chat = cache[<<u, c>>].chat
    BY <1>4, <1>5, <2>1
  <2> QED BY <2>2 DEF ChannelsInv, CacheIsAboutItsChannel, C!CacheIsAboutItsChannel
<1> QED BY <1>1, <1>4, <1>6 DEF ChannelsInv, RowTypes, CacheTypes, OtherTypes, CheckTypes, ReadHolds

LEMMA MembershipStep ==
  ASSUME ChannelsInv, NEW u \in Users,
         C!GrantAdminBypass(u) \/ C!BypassEnds(u) \/ \E t \in Chats : C!JoinOrLeave(u, t)
  PROVE  ChannelsInv'
<1>1. UNCHANGED <<chat, active, cache, check, overtaken>>
  BY DEF C!GrantAdminBypass, C!BypassEnds, C!JoinOrLeave, C!rows
<1>2. OtherTypes'
  BY <1>1 DEF ChannelsInv, OtherTypes, C!GrantAdminBypass, C!BypassEnds, C!JoinOrLeave
<1> QED BY <1>1, <1>2 DEF ChannelsInv, RowTypes, CacheTypes, CheckTypes, ReadHolds,
                           CacheIsAboutItsChannel, C!CacheIsAboutItsChannel

LEMMA ChannelsInitially == C!Init => ChannelsInv
<1> SUFFICES ASSUME C!Init PROVE ChannelsInv
  OBVIOUS
<1>1. RowTypes /\ OtherTypes
  BY DEF C!Init, RowTypes, OtherTypes
<1>2. CacheTypes /\ \A x \in Users \X Channels : cache[x] = C!NoRow
  BY NoRowTyped DEF C!Init, CacheTypes
<1>3. CheckTypes /\ \A k \in Checks : check[k] = C!NoCheck
  BY NoCheckTyped DEF C!Init, CheckTypes
<1>4. ReadHolds
  BY <1>3, NoCheckTyped DEF ReadHolds
<1>5. CacheIsAboutItsChannel
  BY <1>2 DEF CacheIsAboutItsChannel, C!CacheIsAboutItsChannel
<1> QED BY <1>1, <1>2, <1>3, <1>4, <1>5 DEF ChannelsInv

LEMMA ChannelsInvariant == C!Spec => []ChannelsInv
<1>1. ChannelsInv /\ [C!Next]_(C!vars) => ChannelsInv'
  <2> SUFFICES ASSUME ChannelsInv, [C!Next]_(C!vars) PROVE ChannelsInv'
    OBVIOUS
  <2>1. CASE UNCHANGED C!vars
    BY <2>1 DEF ChannelsInv, RowTypes, CacheTypes, OtherTypes, CheckTypes, ReadHolds,
                CacheIsAboutItsChannel, C!CacheIsAboutItsChannel, C!vars
  <2>2. CASE C!Next
    BY <2>2, CheckGoesOn, AnswerCached, AdminStep, MembershipStep, RowExpires DEF C!Next
  <2> QED BY <2>1, <2>2
<1> QED BY <1>1, ChannelsInitially, PTL DEF C!Spec

(* A cached membership is about the chat its channel names now, for any    *)
(* number of checks and of changes of the list that overlap, unless a      *)
(* check that had read the list before a change wrote after it             *)
(* (check_user of required_channel_service.py).                            *)
THEOREM CacheFollowsItsChannel == C!Spec => []CacheIsAboutItsChannel
<1>1. ChannelsInv => CacheIsAboutItsChannel
  BY DEF ChannelsInv
<1> QED BY <1>1, ChannelsInvariant, PTL
-----------------------------------------------------------------------------
(* Moderation *)

ModerationInv == M!TypeOK /\ BlockHasItsWarnings

(* The length of a block is a number, nothing below three warnings, and    *)
(* no less than the block that runs from three on.                         *)
LEMMA BlockIsNoShorter ==
  ASSUME M!TypeOK, NEW u \in Users, NEW count \in Nat
  PROVE  /\ M!BlockFor(u, count) \in Nat
         /\ count < 3 => M!BlockFor(u, count) = 0
         /\ count >= 3 => M!BlockFor(u, count) > 0 /\ M!BlockFor(u, count) >= left[u]
<1>1. left[u] \in Nat /\ Week \in Nat \ {0} /\ Month \in Nat \ {0}
  BY ModerationAssumption DEF M!TypeOK, ModerationAssumption
<1>2. CASE count < 3
  BY <1>2 DEF M!BlockFor
<1>3. CASE count = 3
  BY <1>1, <1>3 DEF M!BlockFor
<1>4. CASE count = 4
  BY <1>1, <1>4 DEF M!BlockFor, M!Blocked
<1>5. CASE count > 4
  <2>1. M!BlockFor(u, count) = left[u] + Month
    BY <1>5 DEF M!BlockFor
  <2> QED BY <1>1, <1>5, <2>1
<1> QED BY <1>2, <1>3, <1>4, <1>5

(* A row that is written or deleted leaves the rows of the others alone. *)
LEMMA RowWritten ==
  ASSUME M!TypeOK, NEW u \in Users, NEW author \in {"none", "warnings", "admin"},
         NEW until \in Nat, NEW count \in Nat, M!WriteRow(u, author, until, count)
  PROVE  /\ row' \in [Users -> {"none", "warnings", "admin"}]
         /\ left' \in [Users -> Nat] /\ counted' \in [Users -> Nat]
         /\ row'[u] = author /\ left'[u] = until /\ counted'[u] = count
         /\ \A v \in Users \ {u} : row'[v] = row[v] /\ left'[v] = left[v] /\ counted'[v] = counted[v]
  BY DEF M!TypeOK, M!WriteRow

LEMMA WarningApplied ==
  ASSUME ModerationInv, NEW u \in Users, M!ApplyWarning(u)
  PROVE  /\ ModerationInv'
         /\ \A v \in Users :
              warnings'[v] > warnings[v] => /\ left'[v] >= left[v]
                                            /\ warnings'[v] >= 3 => left'[v] > 0
<1> DEFINE count == warnings[u] + 1
           until == M!BlockFor(u, count)
<1>1. /\ count \in Nat /\ warnings[u] \in 0..MaxWarnings /\ warnings[u] < MaxWarnings
      /\ \A v \in Users : warnings[v] \in Nat /\ left[v] \in Nat
  BY ModerationAssumption DEF ModerationInv, M!TypeOK, M!ApplyWarning, ModerationAssumption
<1>2. count \in 0..MaxWarnings
  BY <1>1, ModerationAssumption DEF ModerationAssumption
<1>3. /\ warnings' = [warnings EXCEPT ![u] = count]
      /\ IF until > 0 THEN M!WriteRow(u, "warnings", until, count) ELSE UNCHANGED <<left, row, counted>>
  BY DEF M!ApplyWarning
<1>4. /\ until \in Nat
      /\ count < 3 => until = 0
      /\ count >= 3 => until > 0 /\ until >= left[u]
  BY <1>1, BlockIsNoShorter DEF ModerationInv
<1> HIDE DEF until
<1>5. /\ warnings' \in [Users -> 0..MaxWarnings] /\ warnings'[u] = count
      /\ \A v \in Users \ {u} : warnings'[v] = warnings[v]
  BY <1>2, <1>3 DEF ModerationInv, M!TypeOK
<1>6. CASE until > 0
  <2>1. M!WriteRow(u, "warnings", until, count)
    BY <1>3, <1>6
  <2> HIDE DEF count
  <2>2. /\ row' \in [Users -> {"none", "warnings", "admin"}]
        /\ left' \in [Users -> Nat] /\ counted' \in [Users -> Nat]
        /\ row'[u] = "warnings" /\ left'[u] = until /\ counted'[u] = count
        /\ \A v \in Users \ {u} : row'[v] = row[v] /\ left'[v] = left[v] /\ counted'[v] = counted[v]
    BY <1>1, <1>4, <2>1, RowWritten DEF ModerationInv
  <2>3. count >= 3 /\ until >= left[u]
    BY <1>1, <1>4, <1>6
  <2>4. BlockHasItsWarnings'
    <3> SUFFICES ASSUME NEW v \in Users
                 PROVE  /\ row'[v] = "warnings" => warnings'[v] >= 3
                        /\ row'[v] # "none" => counted'[v] = M!BlockCount(warnings'[v])
      BY DEF BlockHasItsWarnings, M!BlockHasItsWarnings
    <3>1. CASE v = u
      BY <1>1, <1>5, <2>2, <2>3, <3>1 DEF M!BlockCount
    <3>2. CASE v # u
      BY <1>5, <2>2, <3>2 DEF ModerationInv, BlockHasItsWarnings, M!BlockHasItsWarnings
    <3> QED BY <3>1, <3>2
  <2>5. ModerationInv'
    BY <1>5, <2>2, <2>4 DEF ModerationInv, M!TypeOK
  <2>6. ASSUME NEW v \in Users, warnings'[v] > warnings[v]
        PROVE  left'[v] >= left[v] /\ (warnings'[v] >= 3 => left'[v] > 0)
    <3>1. v = u
      BY <1>1, <1>5, <2>6
    <3> QED BY <1>1, <1>4, <1>6, <2>2, <2>3, <3>1
  <2> QED BY <2>5, <2>6
<1>7. CASE ~(until > 0)
  <2>1. left' = left /\ row' = row /\ counted' = counted
    BY <1>3, <1>7
  <2>2. count < 3
    BY <1>1, <1>4, <1>7
  <2>3. BlockHasItsWarnings'
    <3> SUFFICES ASSUME NEW v \in Users
                 PROVE  /\ row'[v] = "warnings" => warnings'[v] >= 3
                        /\ row'[v] # "none" => counted'[v] = M!BlockCount(warnings'[v])
      BY DEF BlockHasItsWarnings, M!BlockHasItsWarnings
    <3>1. /\ row[v] = "warnings" => warnings[v] >= 3
          /\ row[v] # "none" => counted[v] = M!BlockCount(warnings[v])
      BY DEF ModerationInv, BlockHasItsWarnings, M!BlockHasItsWarnings
    <3>2. CASE v = u
      BY <1>1, <1>5, <2>1, <2>2, <3>1, <3>2 DEF M!BlockCount
    <3>3. CASE v # u
      BY <1>5, <2>1, <3>1, <3>3
    <3> QED BY <3>2, <3>3
  <2>4. ModerationInv'
    BY <1>5, <2>1, <2>3 DEF ModerationInv, M!TypeOK
  <2>5. ASSUME NEW v \in Users, warnings'[v] > warnings[v]
        PROVE  left'[v] >= left[v] /\ (warnings'[v] >= 3 => left'[v] > 0)
    <3>1. v = u
      BY <1>1, <1>5, <2>5
    <3> QED BY <1>1, <1>5, <2>1, <2>2, <3>1
  <2> QED BY <2>4, <2>5
<1> QED BY <1>1, <1>4, <1>6, <1>7

LEMMA WarningDeleted ==
  ASSUME ModerationInv, NEW u \in Users, M!DeleteWarning(u)
  PROVE  ModerationInv' /\ \A v \in Users : ~(warnings'[v] > warnings[v])
<1> DEFINE count == warnings[u] - 1
<1>1. \A v \in Users : warnings[v] \in 0..MaxWarnings /\ warnings[v] \in Nat /\ counted[v] \in Nat
  BY ModerationAssumption DEF ModerationInv, M!TypeOK, ModerationAssumption
<1>2. count \in 0..MaxWarnings /\ count \in Nat /\ count < warnings[u]
  BY <1>1, ModerationAssumption DEF M!DeleteWarning, ModerationAssumption
<1>3. /\ warnings' \in [Users -> 0..MaxWarnings] /\ warnings'[u] = count
      /\ \A v \in Users \ {u} : warnings'[v] = warnings[v]
  BY <1>2 DEF ModerationInv, M!TypeOK, M!DeleteWarning
<1>4. \A v \in Users : ~(warnings'[v] > warnings[v])
  BY <1>1, <1>2, <1>3
<1>5. \/ row[u] = "none" /\ UNCHANGED <<left, row, counted>>
      \/ count < 3 /\ M!WriteRow(u, "none", 0, 0)
      \/ /\ row[u] # "none" /\ ~(count < 3) /\ UNCHANGED <<left, row>>
         /\ counted' = [counted EXCEPT ![u] = count]
  BY DEF M!DeleteWarning, M!DeleteRow
<1> HIDE DEF count
<1>6. /\ row' \in [Users -> {"none", "warnings", "admin"}]
      /\ left' \in [Users -> Nat] /\ counted' \in [Users -> Nat]
      /\ \A v \in Users \ {u} : row'[v] = row[v] /\ counted'[v] = counted[v]
      /\ row'[u] # "none" => count >= 3 /\ counted'[u] = count
  <2>1. CASE row[u] = "none" /\ UNCHANGED <<left, row, counted>>
    BY <2>1 DEF ModerationInv, M!TypeOK
  <2>2. CASE count < 3 /\ M!WriteRow(u, "none", 0, 0)
    BY <2>2, RowWritten DEF ModerationInv
  <2>3. CASE /\ row[u] # "none" /\ ~(count < 3) /\ UNCHANGED <<left, row>>
             /\ counted' = [counted EXCEPT ![u] = count]
    BY <1>2, <2>3 DEF ModerationInv, M!TypeOK
  <2> QED BY <1>5, <2>1, <2>2, <2>3
<1>7. BlockHasItsWarnings'
  <2> SUFFICES ASSUME NEW v \in Users
               PROVE  /\ row'[v] = "warnings" => warnings'[v] >= 3
                      /\ row'[v] # "none" => counted'[v] = M!BlockCount(warnings'[v])
    BY DEF BlockHasItsWarnings, M!BlockHasItsWarnings
  <2>1. CASE v = u
    BY <1>2, <1>3, <1>6, <2>1 DEF M!BlockCount
  <2>2. CASE v # u
    BY <1>3, <1>6, <2>2 DEF ModerationInv, BlockHasItsWarnings, M!BlockHasItsWarnings
  <2> QED BY <2>1, <2>2
<1> QED BY <1>3, <1>4, <1>6, <1>7 DEF ModerationInv, M!TypeOK

(* What an admin or the clock does to a block. *)
LEMMA BlockChanged ==
  ASSUME ModerationInv,
         M!TimePasses \/ \E u \in Users : M!BlockUser(u) \/ M!UnblockUser(u)
  PROVE  ModerationInv' /\ \A v \in Users : ~(warnings'[v] > warnings[v])
<1>1. \A v \in Users : warnings[v] \in Nat /\ left[v] \in Nat
  BY ModerationAssumption DEF ModerationInv, M!TypeOK, ModerationAssumption
<1>2. warnings' = warnings
  BY DEF M!TimePasses, M!BlockUser, M!UnblockUser
<1>3. CASE M!TimePasses
  <2>1. row' = row /\ counted' = counted /\ left' = [u \in Users |-> IF M!Blocked(u) THEN left[u] - 1 ELSE 0]
    BY <1>3 DEF M!TimePasses
  <2>2. ASSUME NEW u \in Users PROVE (IF M!Blocked(u) THEN left[u] - 1 ELSE 0) \in Nat
    <3>1. left[u] \in Nat
      BY <1>1
    <3>2. left[u] > 0 => left[u] - 1 \in Nat
      BY <3>1
    <3> QED BY <3>2 DEF M!Blocked
  <2>3. left' \in [Users -> Nat]
    BY <2>1, <2>2
  <2> QED BY <1>1, <1>2, <2>1, <2>3 DEF ModerationInv, M!TypeOK, BlockHasItsWarnings, M!BlockHasItsWarnings
<1>4. CASE \E u \in Users : M!BlockUser(u) \/ M!UnblockUser(u)
  <2>1. PICK u \in Users : M!BlockUser(u) \/ M!UnblockUser(u)
    BY <1>4
  <2>2. PICK author \in {"none", "admin"}, until \in Nat, count \in Nat :
          /\ M!WriteRow(u, author, until, count)
          /\ author = "admin" => count = M!BlockCount(warnings[u])
    <3>1. CASE M!UnblockUser(u)
      BY <3>1 DEF M!UnblockUser, M!DeleteRow
    <3>2. CASE M!BlockUser(u)
      <4>1. PICK days \in ManualDays : M!WriteRow(u, "admin", days, M!BlockCount(warnings[u]))
        BY <3>2 DEF M!BlockUser
      <4>2. days \in Nat /\ M!BlockCount(warnings[u]) \in Nat
        BY <1>1, ModerationAssumption DEF ModerationAssumption, M!BlockCount
      <4> QED BY <4>1, <4>2
    <3> QED BY <2>1, <3>1, <3>2
  <2>3. /\ row' \in [Users -> {"none", "warnings", "admin"}]
        /\ left' \in [Users -> Nat] /\ counted' \in [Users -> Nat]
        /\ row'[u] = author /\ counted'[u] = count
        /\ \A v \in Users \ {u} : row'[v] = row[v] /\ counted'[v] = counted[v]
    BY <2>2, RowWritten DEF ModerationInv
  <2>4. BlockHasItsWarnings'
    <3> SUFFICES ASSUME NEW v \in Users
                 PROVE  /\ row'[v] = "warnings" => warnings'[v] >= 3
                        /\ row'[v] # "none" => counted'[v] = M!BlockCount(warnings'[v])
      BY DEF BlockHasItsWarnings, M!BlockHasItsWarnings
    <3>1. CASE v = u
      BY <1>2, <2>2, <2>3, <3>1
    <3>2. CASE v # u
      BY <1>2, <2>3, <3>2 DEF ModerationInv, BlockHasItsWarnings, M!BlockHasItsWarnings
    <3> QED BY <3>1, <3>2
  <2> QED BY <1>1, <1>2, <2>3, <2>4 DEF ModerationInv, M!TypeOK
<1> QED BY <1>3, <1>4

LEMMA ModerationInvariance ==
  ModerationInv /\ [M!Next]_(M!vars)
    => /\ ModerationInv'
       /\ [\A u \in Users : warnings'[u] > warnings[u] => /\ left'[u] >= left[u]
                                                          /\ warnings'[u] >= 3 => left'[u] > 0]_(M!vars)
<1> SUFFICES ASSUME ModerationInv, [M!Next]_(M!vars)
             PROVE  /\ ModerationInv'
                    /\ [\A u \in Users : warnings'[u] > warnings[u] => /\ left'[u] >= left[u]
                                                                       /\ warnings'[u] >= 3 => left'[u] > 0]_(M!vars)
  OBVIOUS
<1>1. CASE UNCHANGED M!vars
  BY <1>1 DEF ModerationInv, M!TypeOK, BlockHasItsWarnings, M!BlockHasItsWarnings, M!vars
<1>2. CASE M!Next
  <2>1. CASE M!TimePasses \/ \E u \in Users : M!BlockUser(u) \/ M!UnblockUser(u)
    BY <2>1, BlockChanged
  <2>2. CASE \E u \in Users : M!ApplyWarning(u)
    BY <2>2, WarningApplied
  <2>3. CASE \E u \in Users : M!DeleteWarning(u)
    BY <2>3, WarningDeleted
  <2> QED BY <1>2, <2>1, <2>2, <2>3 DEF M!Next
<1> QED BY <1>1, <1>2

LEMMA ModerationInitially == M!Init => ModerationInv
  BY ModerationAssumption DEF M!Init, ModerationInv, M!TypeOK, BlockHasItsWarnings, M!BlockHasItsWarnings, ModerationAssumption

LEMMA ModerationInvariant == M!Spec => []ModerationInv
  BY ModerationInitially, ModerationInvariance, PTL DEF M!Spec

(* A block written by a count of warnings has its three warnings, and the  *)
(* number every block shows is that of the warnings left, or three for an  *)
(* admin's block of a user with fewer, after any deletion of warnings and  *)
(* for any lengths of blocks (delete_warning of moderation_service.py).    *)
THEOREM BlockKeepsItsWarnings == M!Spec => []BlockHasItsWarnings
<1>1. ModerationInv => BlockHasItsWarnings
  BY DEF ModerationInv
<1> QED BY <1>1, ModerationInvariant, PTL

(* No warning shortens a block, an admin's included, and the third and     *)
(* every later one leaves the user blocked (_block_until_for_count), for   *)
(* any lengths of blocks that are not zero.                                *)
THEOREM WarningsLengthenBlocks == M!Spec => WarningsAddUp
<1>1. M!Spec => M!Init /\ [][M!Next]_(M!vars)
  BY DEF M!Spec
<1> QED BY <1>1, ModerationInitially, ModerationInvariance, PTL DEF WarningsAddUp, M!WarningsAddUp
-----------------------------------------------------------------------------
(* Memories *)

Tables == [Ids -> R!Rows \cup {None}]
Lists == UNION {[s -> Facts] : s \in SUBSET Ids}
WorkRecords ==
  [user : Owners \cup {None}, action : R!Actions, fact : Facts \cup {None}, id : Ids \cup {None},
   existing : Lists, stale : BOOLEAN]

(* A user's active rows in a table. *)
ActiveIn(table, u) == {i \in Ids : table[i] # None /\ table[i].user = u /\ table[i].status = "active"}

(* The list of a suggestion at work names rows of its user; one that is    *)
(* not stale names all the active ones, and their facts.                   *)
Holds(table, r) ==
  /\ r.user \in Owners /\ r.fact \in Facts
  /\ \A i \in DOMAIN r.existing : table[i] \in R!Rows /\ table[i].user = r.user
  /\ ~r.stale => /\ DOMAIN r.existing = ActiveIn(table, r.user)
                 /\ \A i \in DOMAIN r.existing : r.existing[i] = table[i].fact

(* The facts that a table holds twice are excused. *)
NoneTwice(table, excuses) ==
  \A u \in Owners, i, j \in Ids :
    i \in ActiveIn(table, u) /\ j \in ActiveIn(table, u) /\ i # j /\ table[i].fact = table[j].fact
    => <<u, table[i].fact>> \in excuses

MemoryTypes ==
  /\ memory \in Tables /\ work \in [Workers -> WorkRecords] /\ excused \subseteq Owners \X Facts
MemoryInv ==
  /\ MemoryTypes
  /\ \A w \in Workers : work[w] = R!Idle \/ Holds(memory, work[w])
  /\ NoneTwice(memory, excused)

LEMMA ActiveRows ==
  ASSUME NEW u
  PROVE  R!Active(u) = ActiveIn(memory, u) /\ R!Active(u) \subseteq R!Own(u) /\ R!Own(u) \subseteq Ids
  BY DEF R!Active, R!Own, R!Used, ActiveIn

LEMMA ActiveMeans ==
  ASSUME NEW table \in Tables, NEW u, NEW i \in ActiveIn(table, u)
  PROVE  i \in Ids /\ table[i] \in R!Rows /\ table[i].user = u /\ table[i].status = "active" /\ table[i].fact \in Facts
<1>1. table[i] \in R!Rows \cup {None} /\ table[i] # None
  BY DEF Tables, ActiveIn
<1> QED BY <1>1 DEF ActiveIn, R!Rows

(* What a record in progress needs of a table stays true when rows of one  *)
(* user change, if it is another user's or is stale.                       *)
LEMMA HoldsAcross ==
  ASSUME NEW table \in Tables, NEW after \in Tables, NEW u \in Owners, NEW r \in WorkRecords,
         Holds(table, r), r.user # u \/ r.stale,
         \A i \in Ids : \/ after[i] = table[i]
                        \/ (table[i] = None \/ table[i].user = u) /\ after[i] \in R!Rows /\ after[i].user = u
  PROVE  Holds(after, r)
<1>1. DOMAIN r.existing \subseteq Ids
  BY DEF WorkRecords, Lists
<1>2. None \notin R!Rows
  BY MemoryAssumption DEF MemoryAssumption
<1>3. ASSUME NEW i \in DOMAIN r.existing
      PROVE  after[i] \in R!Rows /\ after[i].user = r.user /\ (r.user # u => after[i] = table[i])
  <2>1. i \in Ids /\ table[i] \in R!Rows /\ table[i].user = r.user
    BY <1>1 DEF Holds
  <2>2. \/ after[i] = table[i]
        \/ (table[i] = None \/ table[i].user = u) /\ after[i] \in R!Rows /\ after[i].user = u
    BY <2>1
  <2> QED BY <1>2, <2>1, <2>2
<1>4. CASE r.user # u
  <2>1. ActiveIn(after, r.user) = ActiveIn(table, r.user)
    BY <1>4 DEF ActiveIn
  <2> QED BY <1>3, <1>4, <2>1 DEF Holds
<1>5. CASE r.stale
  BY <1>3, <1>5 DEF Holds
<1> QED BY <1>4, <1>5

(* Marking a record stale asks less of the table. *)
LEMMA MarkedHolds ==
  ASSUME NEW table \in Tables, NEW r \in WorkRecords, NEW b \in BOOLEAN, Holds(table, r)
  PROVE  /\ [r EXCEPT !.stale = b] \in WorkRecords /\ [r EXCEPT !.stale = b].stale = b
         /\ [r EXCEPT !.stale = b].user = r.user
         /\ b \/ ~r.stale => Holds(table, [r EXCEPT !.stale = b])
<1> DEFINE q == [r EXCEPT !.stale = b]
<1>1. /\ q \in WorkRecords /\ q.stale = b /\ q.user = r.user /\ q.fact = r.fact
      /\ q.existing = r.existing
  BY DEF WorkRecords
<1> HIDE DEF q
<1>2. ASSUME b \/ ~r.stale PROVE Holds(table, q)
  BY <1>1, <1>2 DEF Holds
<1> QED BY <1>1, <1>2 DEF q

LEMMA IdleTyped == R!Idle \in WorkRecords
<1>1. [i \in {} |-> None] \in [{} -> Facts]
  OBVIOUS
<1>2. [i \in {} |-> None] \in Lists
  BY <1>1 DEF Lists
<1> QED BY <1>2 DEF R!Idle, WorkRecords, R!Actions

(* The records of the other workers, after rows of one user have changed.  *)
LEMMA OthersMarked ==
  ASSUME MemoryInv, memory' \in Tables, NEW u \in Owners, NEW v \in Workers, NEW b \in BOOLEAN,
         work'[v] = [work[v] EXCEPT !.stale = @ \/ (work[v].user = u /\ b)],
         memory' # memory => b,
         \A i \in Ids : \/ memory'[i] = memory[i]
                        \/ (memory[i] = None \/ memory[i].user = u) /\ memory'[i] \in R!Rows /\ memory'[i].user = u
  PROVE  work'[v] \in WorkRecords /\ (work'[v] = R!Idle \/ Holds(memory', work'[v]))
<1>1. work[v] \in WorkRecords /\ (work[v] = R!Idle \/ Holds(memory, work[v])) /\ memory \in Tables
  BY DEF MemoryInv, MemoryTypes
<1>2. work[v].stale \in BOOLEAN
  BY <1>1 DEF WorkRecords
<1>3. CASE work[v] = R!Idle
  <2>1. R!Idle.user = None /\ R!Idle.stale = FALSE
    BY DEF R!Idle
  <2>2. ~(R!Idle.stale \/ (R!Idle.user = u /\ b))
    BY <2>1, MemoryAssumption DEF MemoryAssumption
  <2>3. (R!Idle.stale \/ (R!Idle.user = u /\ b)) = FALSE
    BY <2>2
  <2>4. work'[v] = [R!Idle EXCEPT !.stale = FALSE]
    BY <1>3, <2>3
  <2>5. [R!Idle EXCEPT !.stale = FALSE] = R!Idle
    <3>1. R!Idle \in WorkRecords /\ R!Idle.stale = FALSE
      BY <2>1, IdleTyped
    <3> QED BY <3>1 DEF WorkRecords
  <2> QED BY <2>4, <2>5, IdleTyped
<1>4. CASE Holds(memory, work[v])
  <2> DEFINE c == work[v].stale \/ (work[v].user = u /\ b)
             q == [work[v] EXCEPT !.stale = c]
  <2>1. c \in BOOLEAN /\ (c \/ ~work[v].stale)
    BY <1>2
  <2>2. work'[v] = q
    OBVIOUS
  <2>3. ~c => work[v].user # u \/ ~b
    OBVIOUS
  <2> HIDE DEF c
  <2>4. /\ q \in WorkRecords /\ q.user = work[v].user /\ q.stale = c
        /\ Holds(memory, q)
    BY <1>1, <1>4, <2>1, MarkedHolds
  <2> HIDE DEF q
  <2>5. CASE memory' = memory
    BY <2>2, <2>4, <2>5
  <2>6. CASE memory' # memory
    <3>1. b
      BY <2>6
    <3>2. q.user # u \/ q.stale
      BY <2>3, <2>4, <3>1
    <3>3. Holds(memory', q)
      BY <1>1, <2>4, <3>2, HoldsAcross
    <3> QED BY <2>2, <2>4, <3>3
  <2> QED BY <2>5, <2>6
<1> QED BY <1>1, <1>3, <1>4

(* One row is written, or none: what that asks of the facts of the others. *)
LEMMA NoneTwiceAfter ==
  ASSUME NEW table \in Tables, NEW i \in Ids, NEW r \in R!Rows, NEW old, NEW new, old \subseteq new,
         NoneTwice(table, old),
         r.status = "active" =>
           \A j \in ActiveIn(table, r.user) \ {i} : table[j].fact = r.fact => <<r.user, r.fact>> \in new
  PROVE  NoneTwice([table EXCEPT ![i] = r], new)
<1> DEFINE after == [table EXCEPT ![i] = r]
<1>1. after[i] = r /\ \A j \in Ids \ {i} : after[j] = table[j]
  BY DEF Tables
<1> HIDE DEF after
<1>2. ASSUME NEW u, NEW j \in Ids, j # i
      PROVE  j \in ActiveIn(after, u) <=> j \in ActiveIn(table, u)
  BY <1>1, <1>2 DEF ActiveIn
<1>3. ASSUME NEW u \in Owners, NEW j \in Ids, NEW k \in Ids, j \in ActiveIn(after, u), k \in ActiveIn(after, u),
             j # k, after[j].fact = after[k].fact
      PROVE  <<u, after[j].fact>> \in new
  <2>1. ASSUME i \in ActiveIn(after, u) PROVE r.user = u /\ r.status = "active"
    BY <1>1, <2>1 DEF ActiveIn
  <2>2. CASE j = i
    <3>1. k \in ActiveIn(table, r.user) \ {i} /\ table[k].fact = r.fact /\ after[j] = r
      BY <1>1, <1>2, <1>3, <2>1, <2>2
    <3> QED BY <1>3, <2>1, <2>2, <3>1
  <2>3. CASE k = i
    <3>1. j \in ActiveIn(table, r.user) \ {i} /\ table[j].fact = r.fact /\ after[j] = table[j]
      BY <1>1, <1>2, <1>3, <2>1, <2>3
    <3> QED BY <1>3, <2>1, <2>3, <3>1
  <2>4. CASE j # i /\ k # i
    <3>1. /\ j \in ActiveIn(table, u) /\ k \in ActiveIn(table, u)
          /\ after[j] = table[j] /\ after[k] = table[k]
      BY <1>1, <1>2, <1>3, <2>4
    <3> QED BY <1>3, <3>1 DEF NoneTwice
  <2> QED BY <2>2, <2>3, <2>4
<1>4. NoneTwice(after, new)
  BY <1>3 DEF NoneTwice
<1> QED BY <1>4 DEF after

(* A worker ends: it has written one row of its user, or none. *)
LEMMA WorkEnds ==
  ASSUME MemoryInv, NEW w \in Workers, R!Busy(w), NEW excuses \in BOOLEAN, R!Ends(w, excuses),
         \/ memory' = memory
         \/ \E i \in Ids, r \in R!Rows :
              /\ memory' = [memory EXCEPT ![i] = r]
              /\ r.user = work[w].user /\ (memory[i] = None \/ memory[i].user = work[w].user)
              /\ r.status = "active" =>
                   \A j \in ActiveIn(memory, r.user) \ {i} : memory[j].fact = r.fact => <<r.user, r.fact>> \in excused'
  PROVE  MemoryInv'
<1> DEFINE u == work[w].user
<1>1. /\ memory \in Tables /\ work[w] \in WorkRecords /\ Holds(memory, work[w])
      /\ u \in Owners /\ work[w].fact \in Facts
  BY DEF MemoryInv, MemoryTypes, R!Busy, Holds
<1>2. /\ work' = [v \in Workers |->
                    IF v = w THEN R!Idle
                    ELSE [work[v] EXCEPT !.stale = @ \/ (work[v].user = u /\ memory' # memory)]]
      /\ excused \subseteq excused' /\ excused' \subseteq excused \cup {<<u, work[w].fact>>}
  BY DEF R!Ends
<1>3. excused' \subseteq Owners \X Facts
  BY <1>1, <1>2 DEF MemoryInv, MemoryTypes
<1> HIDE DEF u
<1>4. /\ memory' \in Tables
      /\ \A i \in Ids : \/ memory'[i] = memory[i]
                        \/ (memory[i] = None \/ memory[i].user = u) /\ memory'[i] \in R!Rows /\ memory'[i].user = u
      /\ NoneTwice(memory', excused')
  <2>1. CASE memory' = memory
    BY <1>1, <1>2, <2>1 DEF MemoryInv, NoneTwice
  <2>2. CASE memory' # memory
    <3>1. PICK i \in Ids, r \in R!Rows :
              /\ memory' = [memory EXCEPT ![i] = r]
              /\ r.user = u /\ (memory[i] = None \/ memory[i].user = u)
              /\ r.status = "active" =>
                   \A j \in ActiveIn(memory, r.user) \ {i} : memory[j].fact = r.fact => <<r.user, r.fact>> \in excused'
      BY <2>2 DEF u
    <3>2. NoneTwice(memory, excused)
      BY DEF MemoryInv
    <3>3. NoneTwice([memory EXCEPT ![i] = r], excused')
      BY <1>1, <1>2, <3>1, <3>2, NoneTwiceAfter
    <3> QED BY <1>1, <3>1, <3>3 DEF Tables
  <2> QED BY <2>1, <2>2
<1>5. ASSUME NEW v \in Workers PROVE work'[v] \in WorkRecords /\ (work'[v] = R!Idle \/ Holds(memory', work'[v]))
  <2>1. CASE v = w
    BY <1>2, <2>1, IdleTyped
  <2>2. CASE v # w
    <3> DEFINE b == memory' # memory
    <3>1. b \in BOOLEAN /\ work'[v] = [work[v] EXCEPT !.stale = @ \/ (work[v].user = u /\ b)] /\ (memory' # memory => b)
      BY <1>2, <2>2
    <3> HIDE DEF b
    <3> QED BY <1>1, <1>4, <3>1, OthersMarked DEF u
  <2> QED BY <2>1, <2>2
<1>6. work' \in [Workers -> WorkRecords]
  <2>1. DOMAIN work' = Workers /\ work' = [v \in Workers |-> work'[v]]
    BY <1>2
  <2> QED BY <1>5, <2>1
<1> QED BY <1>3, <1>4, <1>5, <1>6 DEF MemoryInv, MemoryTypes

(* Memory takes Cardinality from its own copy of FiniteSets. *)
LEMMA MemoryCardinality == ASSUME NEW S PROVE R!Cardinality(S) = Cardinality(S)
  BY DEF R!Cardinality, Cardinality

(* Begin: the list that is read holds all the active rows, or is stale. *)
LEMMA WorkBegins ==
  ASSUME MemoryInv, NEW w \in Workers, NEW u \in Owners, R!Begin(w, u)
  PROVE  MemoryInv'
<1>1. memory' = memory /\ excused' = excused /\ memory \in Tables
  BY DEF R!Begin, MemoryInv, MemoryTypes
<1>2. PICK s \in R!Extracted(u) \cup R!Suggested \cup R!Entered, existing \in R!ListActive(u) :
        work' = [work EXCEPT ![w] = [user |-> u, action |-> s.action, fact |-> s.fact, id |-> s.id,
                                     existing |-> [i \in existing |-> memory[i].fact],
                                     stale |-> Cardinality(R!Active(u)) > Window]]
  BY MemoryCardinality DEF R!Begin
<1>3. s.action \in R!Actions /\ s.fact \in Facts /\ s.id \in Ids \cup {None}
  BY ActiveRows DEF R!Extracted, R!Suggested, R!Entered, R!Actions, R!Used
<1>4. R!Active(u) = ActiveIn(memory, u) /\ ActiveIn(memory, u) \subseteq Ids
  BY ActiveRows
<1>5. /\ existing \subseteq ActiveIn(memory, u)
      /\ Cardinality(existing) =
           IF Cardinality(ActiveIn(memory, u)) < Window THEN Cardinality(ActiveIn(memory, u)) ELSE Window
  BY <1>4, MemoryCardinality DEF R!ListActive
<1> DEFINE list == [i \in existing |-> memory[i].fact]
           b == Cardinality(R!Active(u)) > Window
           r == [user |-> u, action |-> s.action, fact |-> s.fact, id |-> s.id, existing |-> list, stale |-> b]
<1>6. IsFiniteSet(ActiveIn(memory, u)) /\ Window \in Nat
  BY <1>4, FS_Subset, MemoryAssumption DEF MemoryAssumption
<1>7. ~b => existing = ActiveIn(memory, u)
  <2> SUFFICES ASSUME ~(Cardinality(ActiveIn(memory, u)) > Window) PROVE existing = ActiveIn(memory, u)
    BY <1>4
  <2>1. Cardinality(ActiveIn(memory, u)) \in Nat
    BY <1>6, FS_CardinalityType
  <2>2. Cardinality(existing) = Cardinality(ActiveIn(memory, u))
    BY <1>5, <1>6, <2>1
  <2> QED BY <1>5, <1>6, <2>2, FS_Subset
<1>8. \A i \in existing : memory[i] \in R!Rows /\ memory[i].user = u /\ memory[i].fact \in Facts
  BY <1>1, <1>5, ActiveMeans
<1>9. list \in [existing -> Facts] /\ existing \subseteq Ids
  BY <1>4, <1>5, <1>8
<1>10. list \in Lists
  BY <1>9 DEF Lists
<1>11. DOMAIN list = existing /\ \A i \in existing : list[i] = memory[i].fact
  OBVIOUS
<1>12. b \in BOOLEAN
  OBVIOUS
<1>13. work' = [work EXCEPT ![w] = r]
  BY <1>2
<1> HIDE DEF list, b
<1>14. r \in WorkRecords
  BY <1>3, <1>10, <1>12 DEF WorkRecords
<1>15. /\ r.user = u /\ r.fact = s.fact /\ r.existing = list /\ r.stale = b
  OBVIOUS
<1> HIDE DEF r
<1>16. Holds(memory, r)
  BY <1>3, <1>7, <1>8, <1>11, <1>15 DEF Holds
<1> QED BY <1>1, <1>13, <1>14, <1>16 DEF MemoryInv, MemoryTypes

(* A row's change by update_memory or deactivate. *)
LEMMA RowChanged ==
  ASSUME memory \in Tables, NEW i \in Ids, NEW r, R!Change(i, r)
  PROVE  memory' = memory \/ memory' = [memory EXCEPT ![i] = r]
<1>1. memory' = [memory EXCEPT ![i] = IF memory[i].status = "gone" THEN memory[i] ELSE r]
  BY DEF R!Change
<1>2. [memory EXCEPT ![i] = memory[i]] = memory
  BY DEF Tables
<1> QED BY <1>1, <1>2

LEMMA UpdatedRow ==
  ASSUME memory \in Tables, NEW i \in Ids, NEW f \in Facts, memory[i] \in R!Rows
  PROVE  /\ R!UpdateRow(i, f) => \/ memory' = memory
                                 \/ \E r \in R!Rows : /\ memory' = [memory EXCEPT ![i] = r]
                                                       /\ r.user = memory[i].user /\ r.fact = f
         /\ R!Deactivate(i) => \/ memory' = memory
                               \/ \E r \in R!Rows : /\ memory' = [memory EXCEPT ![i] = r]
                                                     /\ r.user = memory[i].user /\ r.status # "active"
<1> DEFINE q == [memory[i] EXCEPT !.fact = f, !.status = "active"]
           d == [memory[i] EXCEPT !.status = "inactive"]
<1>1. q \in R!Rows /\ q.user = memory[i].user /\ q.fact = f
  BY DEF R!Rows, R!Status
<1>2. d \in R!Rows /\ d.user = memory[i].user /\ d.status # "active"
  BY DEF R!Rows, R!Status
<1>3. R!UpdateRow(i, f) => memory' = memory \/ memory' = [memory EXCEPT ![i] = q]
  BY RowChanged DEF R!UpdateRow
<1>4. R!Deactivate(i) => memory' = memory \/ memory' = [memory EXCEPT ![i] = d]
  BY RowChanged DEF R!Deactivate
<1> HIDE DEF q, d
<1> QED BY <1>1, <1>2, <1>3, <1>4

(* A row that the list names with the fact of the suggestion: with it      *)
(* there is none that has the fact as well, or it is excused.              *)
LEMMA TargetAlone ==
  ASSUME MemoryInv, NEW w \in Workers, R!Busy(w), NEW excuses \in BOOLEAN, R!Ends(w, excuses)
  PROVE  /\ R!Target(w) \subseteq Ids
         /\ \A i \in R!Target(w) : memory[i] \in R!Rows /\ memory[i].user = work[w].user
         /\ R!Target(w) = {} =>
              \A j \in ActiveIn(memory, work[w].user) :
                memory[j].fact = work[w].fact => <<work[w].user, work[w].fact>> \in excused'
         /\ \A i \in R!Target(w) : \A j \in ActiveIn(memory, work[w].user) \ {i} :
                memory[j].fact = work[w].fact => <<work[w].user, work[w].fact>> \in excused'
<1> DEFINE u == work[w].user
           f == work[w].fact
<1>1. /\ memory \in Tables /\ work[w] \in WorkRecords /\ Holds(memory, work[w])
      /\ NoneTwice(memory, excused)
  BY DEF MemoryInv, MemoryTypes, R!Busy
<1>2. work[w].existing \in Lists
  BY <1>1 DEF WorkRecords
<1>3. DOMAIN work[w].existing \subseteq Ids
  BY <1>2 DEF Lists
<1>4. R!Target(w) \subseteq DOMAIN work[w].existing /\ \A i \in R!Target(w) : work[w].existing[i] = f
  BY DEF R!Target
<1>5. \A i \in R!Target(w) : memory[i] \in R!Rows /\ memory[i].user = u
  BY <1>1, <1>4 DEF Holds
<1>6. excused \subseteq excused' /\ (work[w].stale => <<u, f>> \in excused')
  BY DEF R!Ends
<1>7. ASSUME ~work[w].stale, NEW j \in ActiveIn(memory, u), memory[j].fact = f
      PROVE  j \in R!Target(w)
  BY <1>1, <1>7 DEF Holds, R!Target
<1>8. ASSUME ~work[w].stale, NEW i \in R!Target(w), NEW j \in ActiveIn(memory, u) \ {i}, memory[j].fact = f
      PROVE  <<u, f>> \in excused'
  <2>1. i \in ActiveIn(memory, u) /\ memory[i].fact = f /\ i \in Ids /\ j \in Ids /\ u \in Owners
    BY <1>1, <1>3, <1>4, <1>8 DEF Holds, ActiveIn
  <2>2. <<u, memory[i].fact>> \in excused
    BY <1>1, <1>8, <2>1 DEF NoneTwice
  <2> QED BY <1>6, <2>1, <2>2
<1> QED BY <1>3, <1>4, <1>5, <1>6, <1>7, <1>8

(* A new row, or the row of an equal memory, for the suggestion's fact. *)
LEMMA SavedOrUpdated ==
  ASSUME MemoryInv, NEW w \in Workers, R!Busy(w), NEW excuses \in BOOLEAN, R!Ends(w, excuses),
         \/ R!Target(w) = {} /\ R!Save(work[w].user, work[w].fact)
         \/ \E i \in R!Target(w) : R!UpdateRow(i, work[w].fact)
  PROVE  MemoryInv'
<1>1. memory \in Tables /\ work[w].user \in Owners /\ work[w].fact \in Facts
  BY DEF MemoryInv, MemoryTypes, R!Busy, Holds
<1>2. CASE R!Target(w) = {} /\ R!Save(work[w].user, work[w].fact)
  <2> DEFINE r == [user |-> work[w].user, fact |-> work[w].fact, status |-> "active"]
  <2>1. PICK i \in Ids \ R!Used : memory' = [memory EXCEPT ![i] = r]
    BY <1>2 DEF R!Save
  <2>2. memory[i] = None
    BY <2>1 DEF R!Used
  <2>3. r \in R!Rows /\ r.user = work[w].user /\ r.fact = work[w].fact
    BY <1>1 DEF R!Rows, R!Status
  <2> HIDE DEF r
  <2>4. \A j \in ActiveIn(memory, r.user) \ {i} : memory[j].fact = r.fact => <<r.user, r.fact>> \in excused'
    BY <1>2, <2>3, TargetAlone
  <2> QED BY <2>1, <2>2, <2>3, <2>4, WorkEnds
<1>3. CASE \E i \in R!Target(w) : R!UpdateRow(i, work[w].fact)
  <2>1. PICK i \in R!Target(w) : R!UpdateRow(i, work[w].fact)
    BY <1>3
  <2>2. i \in Ids /\ memory[i] \in R!Rows /\ memory[i].user = work[w].user
    BY TargetAlone
  <2>3. CASE memory' = memory
    BY <2>3, WorkEnds
  <2>4. CASE memory' # memory
    <3>1. PICK r \in R!Rows : /\ memory' = [memory EXCEPT ![i] = r]
                              /\ r.user = work[w].user /\ r.fact = work[w].fact
      BY <1>1, <2>1, <2>2, <2>4, UpdatedRow
    <3>2. \A j \in ActiveIn(memory, r.user) \ {i} : memory[j].fact = r.fact => <<r.user, r.fact>> \in excused'
      BY <3>1, TargetAlone
    <3> QED BY <2>2, <3>1, <3>2, WorkEnds
  <2> QED BY <2>3, <2>4
<1> QED BY <1>2, <1>3

LEMMA WorkStep ==
  ASSUME MemoryInv, NEW w \in Workers,
         R!Rejected(w) \/ R!CreateOrUpdateDuplicate(w) \/ R!UpsertExisting(w) \/ R!DeleteSimilar(w)
  PROVE  MemoryInv'
<1>1. memory \in Tables /\ R!Busy(w)
  BY DEF MemoryInv, MemoryTypes, R!Rejected, R!CreateOrUpdateDuplicate, R!UpsertExisting, R!DeleteSimilar
<1>2. work[w].user \in Owners /\ work[w].fact \in Facts
  BY <1>1 DEF MemoryInv, R!Busy, Holds
<1>3. ASSUME NEW i, R!Get(work[w].user, i)
      PROVE  i \in Ids /\ memory[i] \in R!Rows /\ memory[i].user = work[w].user
  <2>1. i \in R!Own(work[w].user)
    BY <1>3 DEF R!Get
  <2>2. i \in Ids /\ memory[i] # None /\ memory[i].user = work[w].user
    BY <2>1 DEF R!Own, R!Used
  <2> QED BY <1>1, <2>2 DEF Tables
<1>4. CASE R!Rejected(w)
  <2>1. memory' = memory /\ R!Ends(w, FALSE)
    BY <1>4 DEF R!Rejected
  <2> QED BY <1>1, <2>1, WorkEnds
<1>5. CASE R!CreateOrUpdateDuplicate(w)
  <2>1. R!Ends(w, FALSE) /\ \/ R!Target(w) = {} /\ R!Save(work[w].user, work[w].fact)
                            \/ \E i \in R!Target(w) : R!UpdateRow(i, work[w].fact)
    BY <1>5 DEF R!CreateOrUpdateDuplicate
  <2> QED BY <1>1, <2>1, SavedOrUpdated
<1>6. CASE R!UpsertExisting(w)
  <2> DEFINE i == work[w].id
             b == R!Get(work[w].user, i)
  <2>1. /\ R!Ends(w, b)
        /\ IF b THEN R!UpdateRow(i, work[w].fact)
           ELSE \/ R!Target(w) = {} /\ R!Save(work[w].user, work[w].fact)
                \/ \E j \in R!Target(w) : R!UpdateRow(j, work[w].fact)
    BY <1>6 DEF R!UpsertExisting
  <2>2. b \in BOOLEAN
    BY DEF R!Get
  <2>3. CASE ~b
    BY <1>1, <2>1, <2>2, <2>3, SavedOrUpdated
  <2>4. CASE b
    <3>1. /\ i \in Ids /\ memory[i] \in R!Rows /\ memory[i].user = work[w].user
          /\ R!UpdateRow(i, work[w].fact)
      BY <1>3, <2>1, <2>4
    <3>2. <<work[w].user, work[w].fact>> \in excused'
      BY <2>1, <2>4 DEF R!Ends
    <3> HIDE DEF i, b
    <3>3. memory' = memory \/ \E r \in R!Rows : /\ memory' = [memory EXCEPT ![i] = r]
                                                /\ r.user = work[w].user /\ r.fact = work[w].fact
      BY <1>1, <1>2, <3>1, UpdatedRow
    <3>4. CASE memory' = memory
      BY <1>1, <2>1, <2>2, <3>4, WorkEnds
    <3>5. CASE memory' # memory
      <4>1. PICK r \in R!Rows : /\ memory' = [memory EXCEPT ![i] = r]
                                /\ r.user = work[w].user /\ r.fact = work[w].fact
        BY <3>3, <3>5
      <4> QED BY <1>1, <2>1, <2>2, <3>1, <3>2, <4>1, WorkEnds
    <3> QED BY <3>4, <3>5
  <2> QED BY <2>3, <2>4
<1>7. CASE R!DeleteSimilar(w)
  <2>1. R!Ends(w, FALSE)
    BY <1>7 DEF R!DeleteSimilar
  <2>2. memory' = memory \/ \E i \in Ids : memory[i] \in R!Rows /\ memory[i].user = work[w].user /\ R!Deactivate(i)
    BY <1>1, <1>3, <1>7, <2>1, TargetAlone DEF R!DeleteSimilar
  <2>3. CASE memory' = memory
    BY <1>1, <2>1, <2>3, WorkEnds
  <2>4. CASE memory' # memory
    <3>1. PICK i \in Ids : memory[i] \in R!Rows /\ memory[i].user = work[w].user /\ R!Deactivate(i)
      BY <2>2, <2>4
    <3>2. PICK r \in R!Rows : /\ memory' = [memory EXCEPT ![i] = r]
                              /\ r.user = work[w].user /\ r.status # "active"
      BY <1>1, <1>2, <2>4, <3>1, UpdatedRow
    <3> QED BY <1>1, <2>1, <3>1, <3>2, WorkEnds
  <2> QED BY <2>3, <2>4
<1> QED BY <1>4, <1>5, <1>6, <1>7

(* The rows of one user go, are deactivated or expire. *)
LEMMA RowsEnd ==
  ASSUME MemoryInv, NEW u \in Owners, R!Overtakes(u), excused' = excused, memory' \in Tables,
         \A i \in Ids : \/ memory'[i] = memory[i]
                        \/ /\ memory[i].user = u /\ memory'[i] \in R!Rows /\ memory'[i].user = u
                           /\ memory'[i].status # "active"
  PROVE  MemoryInv'
<1>1. ASSUME NEW v \in Workers PROVE work'[v] \in WorkRecords /\ (work'[v] = R!Idle \/ Holds(memory', work'[v]))
  <2>1. work'[v] = [work[v] EXCEPT !.stale = @ \/ (work[v].user = u /\ TRUE)]
    BY DEF R!Overtakes
  <2> QED BY <2>1, OthersMarked
<1>2. work' \in [Workers -> WorkRecords]
  <2>1. DOMAIN work' = Workers /\ work' = [v \in Workers |-> work'[v]]
    BY DEF R!Overtakes
  <2> QED BY <1>1, <2>1
<1>3. NoneTwice(memory', excused')
  <2> SUFFICES ASSUME NEW v \in Owners, NEW i \in Ids, NEW j \in Ids, i # j,
                      i \in ActiveIn(memory', v), j \in ActiveIn(memory', v), memory'[i].fact = memory'[j].fact
               PROVE  <<v, memory'[i].fact>> \in excused'
    BY DEF NoneTwice
  <2>1. ASSUME NEW k \in ActiveIn(memory', v), k \in Ids PROVE memory'[k] = memory[k] /\ k \in ActiveIn(memory, v)
    BY <2>1 DEF ActiveIn
  <2> QED BY <2>1 DEF MemoryInv, NoneTwice
<1> QED BY <1>1, <1>2, <1>3 DEF MemoryInv, MemoryTypes

LEMMA RowsStep ==
  ASSUME MemoryInv,
         \/ \E u \in Owners : R!DeleteUser(u) \/ \E i \in Ids : R!Delete(u, i)
         \/ \E i \in Ids : R!Expires(i)
  PROVE  MemoryInv'
<1>1. memory \in Tables
  BY DEF MemoryInv, MemoryTypes
<1>2. ASSUME NEW u \in Owners, R!DeleteUser(u)
      PROVE  MemoryInv'
  <2>1. /\ memory' = [i \in Ids |-> IF i \in R!Own(u) THEN [memory[i] EXCEPT !.status = "gone"] ELSE memory[i]]
        /\ R!Overtakes(u) /\ excused' = excused
    BY <1>2 DEF R!DeleteUser
  <2>2. ASSUME NEW i \in R!Own(u)
        PROVE  /\ memory[i].user = u /\ [memory[i] EXCEPT !.status = "gone"] \in R!Rows
               /\ [memory[i] EXCEPT !.status = "gone"].user = u
               /\ [memory[i] EXCEPT !.status = "gone"].status # "active"
    <3>1. i \in Ids /\ memory[i] # None /\ memory[i].user = u
      BY DEF R!Own, R!Used
    <3>2. memory[i] \in R!Rows
      BY <1>1, <3>1 DEF Tables
    <3> QED BY <3>1, <3>2 DEF R!Rows, R!Status
  <2>3. memory' \in Tables
    BY <1>1, <2>1, <2>2 DEF Tables
  <2> QED BY <2>1, <2>2, <2>3, RowsEnd
<1>3. ASSUME NEW u \in Owners, NEW i \in Ids, R!Delete(u, i)
      PROVE  MemoryInv'
  <2>1. R!Deactivate(i) /\ R!Overtakes(u) /\ excused' = excused /\ i \in R!Own(u)
    BY <1>3 DEF R!Delete, R!Get
  <2>2. memory[i] # None /\ memory[i].user = u
    BY <2>1 DEF R!Own, R!Used
  <2>3. memory[i] \in R!Rows
    BY <1>1, <2>2 DEF Tables
  <2>4. CASE memory' = memory
    BY <1>1, <2>1, <2>4, RowsEnd
  <2>5. CASE memory' # memory
    <3> DEFINE d == [memory[i] EXCEPT !.status = "inactive"]
    <3>1. d \in R!Rows /\ d.user = u /\ d.status # "active"
      BY <2>2, <2>3 DEF R!Rows, R!Status
    <3>2. memory' = [memory EXCEPT ![i] = d]
      BY <1>1, <2>1, <2>5, RowChanged DEF R!Deactivate
    <3> HIDE DEF d
    <3>3. memory' \in Tables /\ memory'[i] = d /\ \A j \in Ids \ {i} : memory'[j] = memory[j]
      BY <1>1, <3>1, <3>2 DEF Tables
    <3> QED BY <2>1, <2>2, <3>1, <3>3, RowsEnd
  <2> QED BY <2>4, <2>5
<1>4. ASSUME NEW i \in Ids, R!Expires(i)
      PROVE  MemoryInv'
  <2>1. /\ memory[i] # None /\ memory' = [memory EXCEPT ![i].status = "expired"]
        /\ R!Overtakes(memory[i].user) /\ excused' = excused
    BY <1>4 DEF R!Expires
  <2>2. memory[i] \in R!Rows
    BY <1>1, <2>1 DEF Tables
  <2>3. memory[i].user \in Owners
    BY <2>2 DEF R!Rows
  <2> DEFINE d == [memory[i] EXCEPT !.status = "expired"]
  <2>4. d \in R!Rows /\ d.user = memory[i].user /\ d.status # "active"
    BY <2>2 DEF R!Rows, R!Status
  <2>5. memory' = [memory EXCEPT ![i] = d]
    BY <2>1
  <2> HIDE DEF d
  <2>6. memory' \in Tables /\ memory'[i] = d /\ \A j \in Ids \ {i} : memory'[j] = memory[j]
    BY <1>1, <2>4, <2>5 DEF Tables
  <2> QED BY <2>1, <2>3, <2>4, <2>6, RowsEnd
<1> QED BY <1>2, <1>3, <1>4

LEMMA MemoryInitially == R!Init => MemoryInv
<1> SUFFICES ASSUME R!Init PROVE MemoryInv
  OBVIOUS
<1>1. MemoryTypes /\ \A w \in Workers : work[w] = R!Idle
  BY IdleTyped DEF R!Init, MemoryTypes, Tables
<1>2. \A i \in Ids : memory[i] = None
  BY DEF R!Init
<1>3. NoneTwice(memory, excused)
  BY <1>2 DEF NoneTwice, ActiveIn
<1> QED BY <1>1, <1>3 DEF MemoryInv

LEMMA MemoryInvariant == R!Spec => []MemoryInv
<1>1. MemoryInv /\ [R!Next]_(R!vars) => MemoryInv'
  <2> SUFFICES ASSUME MemoryInv, [R!Next]_(R!vars) PROVE MemoryInv'
    OBVIOUS
  <2>1. CASE UNCHANGED R!vars
    BY <2>1 DEF MemoryInv, MemoryTypes, R!vars
  <2>2. CASE R!Next
    BY <2>2, WorkBegins, WorkStep, RowsStep DEF R!Next
  <2> QED BY <2>1, <2>2
<1> QED BY <1>1, MemoryInitially, PTL DEF R!Spec

LEMMA MemoryTyped == MemoryInv => R!TypeOK
<1> SUFFICES ASSUME MemoryInv PROVE R!TypeOK
  OBVIOUS
<1>1. ASSUME NEW w \in Workers
      PROVE  /\ work[w].user \in Owners \cup {None} /\ work[w].fact \in Facts \cup {None}
             /\ work[w].action \in R!Actions /\ work[w].id \in Ids \cup {None}
             /\ work[w].existing \in Lists
  <2>1. work[w] \in WorkRecords
    BY DEF MemoryInv, MemoryTypes
  <2> QED BY <2>1 DEF WorkRecords
<1> QED BY <1>1 DEF MemoryInv, MemoryTypes, Tables, Lists, R!TypeOK

(* No fact is remembered twice by a user, for any number of memories and   *)
(* of processes that apply suggestions, but for rows renamed by their id   *)
(* and for suggestions compared with a list that another process overtook  *)
(* or that list_active had cut off (apply_candidates of memory_service.py).*)
THEOREM FactRememberedOnce == R!Spec => []OneMemoryPerFact
<1>1. MemoryInv => OneMemoryPerFact
  BY ActiveRows DEF MemoryInv, NoneTwice, OneMemoryPerFact, R!OneMemoryPerFact
<1> QED BY <1>1, MemoryInvariant, PTL

-----------------------------------------------------------------------------
(* The components together: each takes its own steps or stutters.          *)

LEMMA EachComponent ==
  /\ MCSpec => Spec
  /\ MCSpec => P!Spec
  /\ MCSpec => C!Spec
  /\ MCSpec => M!Spec
  /\ MCSpec => R!Spec
<1> USE DEF MCNext, MCvars, OnboardingStep, ProfileStep, ChannelsStep, ModerationStep, MemoriesStep,
            profiles, channels, moderation, memories
<1>1. MCInit => Init /\ P!Init /\ C!Init /\ M!Init /\ R!Init
  BY DEF MCInit
<1>2. [MCNext]_MCvars => [Next]_vars
  OBVIOUS
<1>3. [MCNext]_MCvars => [P!Next]_(P!vars)
  BY DEF P!vars
<1>4. [MCNext]_MCvars => [C!Next]_(C!vars)
  BY DEF C!vars
<1>5. [MCNext]_MCvars => [M!Next]_(M!vars)
  BY DEF M!vars
<1>6. [MCNext]_MCvars => [R!Next]_(R!vars)
  BY DEF R!vars
<1> QED BY <1>1, <1>2, <1>3, <1>4, <1>5, <1>6, PTL
        DEF MCSpec, Spec, P!Spec, C!Spec, M!Spec, R!Spec

(* Every variable of the five components keeps its type, for any sets of   *)
(* users, channels, chats, facts and memory ids and any of the limits the  *)
(* assumptions of the module admit.                                        *)
THEOREM PeopleTyped == MCSpec => []TypesOK
<1>1. ProfileInv => P!TypeOK
  BY DEF ProfileInv
<1>2. ModerationInv => M!TypeOK
  BY DEF ModerationInv
<1>3. (OnboardingInv /\ SlotsInv) /\ ProfileInv /\ ChannelsInv /\ ModerationInv /\ MemoryInv => TypesOK
  BY <1>1, <1>2, OnboardingTyped, ChannelsTyped, MemoryTyped DEF TypesOK
<1> QED BY <1>3, EachComponent, OnboardingInvariant, ProfileInvariant, ChannelsInvariant,
           ModerationInvariant, MemoryInvariant, PTL
=============================================================================
