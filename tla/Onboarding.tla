------------------------------ MODULE Onboarding ------------------------------
(***************************************************************************)
(* A user's way from /start to READY, and the referral bonus on it:        *)
(* bot/services/user_service.py and the handlers of bot/handlers.py that   *)
(* write the name, the gender and the states of the users row.  Biography  *)
(* and phone number are in ProfileCompletion; a text taken by that dialogue *)
(* is no text here.                                                        *)
(*                                                                         *)
(* Messages of one user are handled one after the other (update_queue.py   *)
(* gives them an actor key), callbacks have no key and run beside them; a  *)
(* handler is cut at the awaits that separate what it read from what it    *)
(* writes.  A retry by the worker is the same message or click again, and  *)
(* any of them may come at any time.  Names are abstracted to whether they *)
(* are set; buttons stay in the chat, since deleting their message may     *)
(* fail and an old one may be clicked twice.                               *)
(***************************************************************************)
EXTENDS Naturals

CONSTANTS
  Users,
  Inviters,  \* users who invite others and whose own rows are not followed
  Clicks,    \* callbacks of a user that may run at once
  None

ASSUME OnboardingAssumption == None \notin Users \cup Inviters

Slots == {"message"} \cup Clicks

VARIABLES
  profile,   \* the users row
  buttons,   \* the inline buttons the user has been shown
  doing,     \* the await a handler stands at, by user and slot
  asked,     \* the question the bot put last, if nothing has answered it
  referral,  \* credits granted for this row, to whoever invited it then
  lost,      \* claims whose credit failed
  wiped      \* users whose row an admin has deleted

vars == <<profile, buttons, doing, asked, referral, lost, wiped>>
bonuses == <<referral, lost>>

NameStates == {"ask_name_confirm", "ask_name_input", "name_ambiguous_confirm"}
OnboardingStates == NameStates \cup {"not_started", "ask_gender", "ready"}
Buttons == {"check", "name_confirm", "name_change", "name_cancel", "ambiguous_confirm", "gender", "account"}
MessageGates == {"start", "text", "photo", "account"}
Awaits == MessageGates \cup {"idle", "chat", "name", "check", "cancel_ready", "cancel_new", "gender", "edit_gender"}

NewRow(exists) ==
  [exists |-> exists, onboarding |-> "not_started", registration |-> "not_started",
   named |-> FALSE, suggested |-> FALSE, pending |-> FALSE, attempted |-> FALSE,
   inviter |-> None, question |-> FALSE, claimed |-> FALSE]

Init ==
  /\ profile = [u \in Users |-> NewRow(FALSE)]
  /\ buttons = [u \in Users |-> {}]
  /\ doing = [x \in Users \X Slots |-> "idle"]
  /\ asked = [u \in Users |-> "nothing"]
  /\ referral = [u \in Users |-> 0]
  /\ lost = [u \in Users |-> 0]
  /\ wiped = {}

-----------------------------------------------------------------------------
(* The row: every update of a missing row does nothing. *)

Upsert(p) == IF p.exists THEN p ELSE NewRow(TRUE)
Update(p, q) == IF p.exists THEN q ELSE p
SetState(p, s) == Update(p, [p EXCEPT !.onboarding = s, !.registration = s])
SetOnboardingState(p, s) == Update(p, [p EXCEPT !.onboarding = s])
SaveDisplayName(p) == SetState([p EXCEPT !.named = p.exists, !.pending = FALSE, !.suggested = FALSE], "ask_gender")
KeepName(p) == [p EXCEPT !.named = TRUE, !.pending = FALSE, !.suggested = FALSE, !.onboarding = "ready"]
SetReferredBy(p, i) == [p EXCEPT !.inviter = IF @ = None THEN i ELSE @]
Uninvited(p, gone) == [p EXCEPT !.inviter = IF @ = gone THEN None ELSE @]
Qualified(p) == p.inviter # None /\ p.onboarding = "ready" /\ p.question

-----------------------------------------------------------------------------
(* Pieces of handlers. *)

Goes(u, s, next) == doing' = [doing EXCEPT ![<<u, s>>] = next]
Ends(u, s) == Goes(u, s, "idle")
Writes(u, p) == profile' = [profile EXCEPT ![u] = p]
Offers(u, keys) == buttons' = [buttons EXCEPT ![u] = @ \cup keys]
Asks(u, what) == asked' = [asked EXCEPT ![u] = what]

(* A handler up to its first await, writing at most the row. *)
Opens(u, s, p, next) ==
  /\ Writes(u, p)
  /\ Goes(u, s, next)
  /\ UNCHANGED <<buttons, asked, bonuses, wiped>>

AskForName(u) ==
  /\ \/ /\ Writes(u, SetState([profile[u] EXCEPT !.suggested = profile[u].exists], "ask_name_confirm"))
        /\ Offers(u, {"name_confirm", "name_change"})
     \/ /\ Writes(u, SetState([profile[u] EXCEPT !.suggested = FALSE], "ask_name_input"))
        /\ UNCHANGED buttons
  /\ Asks(u, IF profile[u].exists THEN "name" ELSE "nothing")
  /\ UNCHANGED bonuses

(* ask_for_name(callback.message): the sender of that message is the bot,  *)
(* which has no users row, so no state is written and no name suggested.   *)
AskForNameOfBot(u) == Asks(u, "name") /\ UNCHANGED <<profile, buttons, bonuses>>

AskForGender(u) ==
  /\ Writes(u, SetState(profile[u], "ask_gender"))
  /\ Offers(u, {"gender"})
  /\ Asks(u, "gender")
  /\ UNCHANGED bonuses

AskForNameInput(u) ==
  /\ Writes(u, SetState(profile[u], "ask_name_input"))
  /\ Asks(u, IF profile[u].exists THEN "name" ELSE "nothing")
  /\ UNCHANGED <<buttons, bonuses>>

(* mutant: the claim does not look whether there is one already *)
ClaimsAgain(u, p) ==
  IF Qualified(p)
  THEN /\ Writes(u, [p EXCEPT !.claimed = TRUE])
       /\ referral[u] < 2 /\ referral' = [referral EXCEPT ![u] = @ + 1] /\ UNCHANGED lost
  ELSE Writes(u, p) /\ UNCHANGED bonuses

(* The claim is committed before the credit is written, and is not undone. *)
Claims(u, p) ==
  IF Qualified(p) /\ ~p.claimed
  THEN /\ Writes(u, [p EXCEPT !.claimed = TRUE])
       /\ \/ referral' = [referral EXCEPT ![u] = @ + 1] /\ UNCHANGED lost
          \/ lost' = [lost EXCEPT ![u] = @ + 1] /\ UNCHANGED referral
  ELSE Writes(u, p) /\ UNCHANGED bonuses

Nothing(u) == UNCHANGED <<profile, buttons, asked, bonuses>>
ShowAccount(u) == Offers(u, {"account"}) /\ UNCHANGED <<profile, asked, bonuses>>

-----------------------------------------------------------------------------
(* Messages. *)

Free(u) == doing[u, "message"] = "idle"

StartHandler(u) ==
  /\ Free(u)
  /\ \E i \in {None} \cup Inviters \cup {v \in Users \ {u} : profile[v].exists} :
       Opens(u, "message", SetReferredBy(Upsert(profile[u]), i), "start")

GatedMessage(u) ==
  /\ Free(u)
  /\ \E gate \in {"photo", "account"} : Opens(u, "message", Upsert(profile[u]), gate)

TakesName(p) == p.onboarding \in {"ask_name_input", "name_ambiguous_confirm"}
FirstName(p) == p.registration # "ready" /\ p.onboarding = "ask_name_input" /\ ~p.attempted

NameText(u) ==
  LET p == profile[u] IN
  /\ Free(u) /\ TakesName(p)
  /\ \/ /\ p.pending \/ p.suggested \/ ~FirstName(p)  \* the same name, or a valid one
        /\ Opens(u, "message", p, "name")
     \/ /\ FirstName(p)
        /\ Writes(u, SetState([p EXCEPT !.pending = TRUE, !.attempted = TRUE], "name_ambiguous_confirm"))
        /\ Offers(u, {"ambiguous_confirm", "name_change"})
        /\ UNCHANGED <<doing, asked, bonuses, wiped>>
     \/ /\ Offers(u, {"name_change"} \cup IF p.registration = "ready" THEN {"name_cancel"} ELSE {})
        /\ UNCHANGED <<profile, doing, asked, bonuses, wiped>>

OtherText(u) ==
  /\ Free(u) /\ ~TakesName(profile[u])
  /\ Opens(u, "message", Upsert(profile[u]), "text")

(* The membership gate, between a message and the rest of its handler. *)
GateRefuses(u) ==
  /\ doing[u, "message"] \in MessageGates
  /\ Ends(u, "message") /\ Offers(u, {"check"})
  /\ UNCHANGED <<profile, asked, bonuses, wiped>>

StartPasses(u) ==
  /\ doing[u, "message"] = "start"
  /\ CASE profile[u].onboarding = "ready" -> Nothing(u)
       [] profile[u].onboarding = "ask_gender" -> AskForGender(u)
       [] OTHER -> AskForName(u)
  /\ Ends(u, "message") /\ UNCHANGED wiped

AccountPasses(u) ==
  /\ doing[u, "message"] = "account"
  /\ ShowAccount(u) /\ Ends(u, "message") /\ UNCHANGED wiped

TextPasses(u) ==
  /\ doing[u, "message"] = "text"
  /\ \/ profile[u].onboarding = "ask_gender" /\ AskForGender(u) /\ Ends(u, "message")
     \/ profile[u].onboarding \notin {"ask_gender", "ready"} /\ AskForName(u) /\ Ends(u, "message")
     \/ /\ profile[u].onboarding = "ready"
        /\ \/ ShowAccount(u) /\ Ends(u, "message")
           \/ Nothing(u) /\ Goes(u, "message", "chat")
  /\ UNCHANGED wiped

PhotoPasses(u) ==
  /\ doing[u, "message"] = "photo"
  /\ \/ Nothing(u) /\ Ends(u, "message")  \* blocked, or a receipt
     \/ profile[u].onboarding # "ready" /\ AskForName(u) /\ Ends(u, "message")
     \/ profile[u].onboarding = "ready" /\ Nothing(u) /\ Goes(u, "message", "chat")
  /\ UNCHANGED wiped

(* deliver_chat_result, or a turn that ends without an answer. *)
ChatEnds(u) ==
  /\ doing[u, "message"] = "chat"
  /\ \/ Nothing(u)
     \/ Claims(u, Update(profile[u], [profile[u] EXCEPT !.question = TRUE])) /\ UNCHANGED <<buttons, asked>>
  /\ Ends(u, "message") /\ UNCHANGED wiped

-----------------------------------------------------------------------------
(* Clicks. *)

Clicked(u, s, button) == s \in Clicks /\ doing[u, s] = "idle" /\ button \in buttons[u]

CheckChannels(u, s) == Clicked(u, s, "check") /\ Opens(u, s, Upsert(profile[u]), "check")

CheckAnswered(u, s) ==
  /\ doing[u, s] = "check"
  /\ \/ Nothing(u)  \* still not a member: the gate is shown again
     \/ CASE profile[u].onboarding = "ready" -> Nothing(u)
          [] profile[u].onboarding = "ask_gender" -> AskForGender(u)
          [] OTHER -> AskForNameOfBot(u)
  /\ Ends(u, s) /\ UNCHANGED wiped

ConfirmName(u, s) ==
  /\ Clicked(u, s, "name_confirm")
  /\ IF profile[u].suggested
     THEN Opens(u, s, profile[u], "name")
     ELSE AskForNameInput(u) /\ UNCHANGED <<doing, wiped>>

(* name_change and name_retry. *)
ChangeName(u, s) ==
  /\ Clicked(u, s, "name_change")
  /\ AskForNameInput(u) /\ UNCHANGED <<doing, wiped>>

CancelName(u, s) ==
  /\ Clicked(u, s, "name_cancel")
  /\ Opens(u, s, profile[u], IF profile[u].registration = "ready" THEN "cancel_ready" ELSE "cancel_new")

(* The registration was read before the callback was answered. *)
CancelAnswered(u, s) ==
  /\ \/ /\ doing[u, s] = "cancel_ready"
        /\ Writes(u, SetOnboardingState(profile[u], "ready"))
        /\ Asks(u, "nothing") /\ UNCHANGED <<buttons, bonuses>>
     \/ doing[u, s] = "cancel_new" /\ AskForNameOfBot(u)
  /\ Ends(u, s) /\ UNCHANGED wiped

AmbiguousName(u, s) ==
  /\ Clicked(u, s, "ambiguous_confirm") /\ profile[u].pending
  /\ Opens(u, s, profile[u], "name")

(* finish_name_update, after the deletion of the prompt. *)
FinishNameUpdate(u, s) ==
  /\ doing[u, s] = "name"
  /\ IF profile[u].exists /\ profile[u].registration = "ready"
     THEN /\ Writes(u, KeepName(profile[u])) /\ Asks(u, "nothing")
          /\ Offers(u, IF s = "message" THEN {"account"} ELSE {})
     ELSE /\ Writes(u, SaveDisplayName(profile[u])) /\ Asks(u, "gender")
          /\ Offers(u, {"gender"})
  /\ Ends(u, s) /\ UNCHANGED <<bonuses, wiped>>

Gender(u, s) == Clicked(u, s, "gender") /\ Opens(u, s, profile[u], "gender")

FinishGenderUpdate(u, s) ==
  /\ doing[u, s] = "gender"
  /\ Claims(u, SetState(profile[u], "ready"))
  /\ Asks(u, "nothing") /\ Ends(u, s) /\ UNCHANGED <<buttons, wiped>>

EditName(u, s) ==
  /\ Clicked(u, s, "account")
  /\ Writes(u, SetOnboardingState(profile[u], "ask_name_input"))
  /\ Asks(u, IF profile[u].exists THEN "name" ELSE "nothing")
  /\ UNCHANGED <<buttons, doing, bonuses, wiped>>

EditGender(u, s) == Clicked(u, s, "account") /\ Opens(u, s, profile[u], "edit_gender")

EditGenderAnswered(u, s) ==
  /\ doing[u, s] = "edit_gender"
  /\ AskForGender(u) /\ Ends(u, s) /\ UNCHANGED wiped

(* The row and its quota events go, and with them the inviter of everyone  *)
(* the user invited; the chat with its buttons stays.                      *)
DeleteUser(u) ==
  /\ profile[u].exists
  /\ profile' = [v \in Users |-> IF v = u THEN NewRow(FALSE) ELSE Uninvited(profile[v], u)]
  /\ Asks(u, "nothing")
  /\ referral' = [referral EXCEPT ![u] = 0] /\ lost' = [lost EXCEPT ![u] = 0]
  /\ wiped' = wiped \cup {u}
  /\ UNCHANGED <<buttons, doing>>

(* The same deletion, of a user whose own row is not followed. *)
DeleteInviter(i) ==
  /\ profile' = [v \in Users |-> Uninvited(profile[v], i)]
  /\ UNCHANGED <<buttons, doing, asked, bonuses, wiped>>

UserStep ==
  \E u \in Users :
    \/ StartHandler(u) \/ GatedMessage(u) \/ NameText(u) \/ OtherText(u)
    \/ GateRefuses(u) \/ StartPasses(u) \/ AccountPasses(u) \/ TextPasses(u) \/ PhotoPasses(u)
    \/ ChatEnds(u) \/ DeleteUser(u)
    \/ \E s \in Slots :
         \/ CheckChannels(u, s) \/ CheckAnswered(u, s) \/ ConfirmName(u, s) \/ ChangeName(u, s)
         \/ CancelName(u, s) \/ CancelAnswered(u, s) \/ AmbiguousName(u, s) \/ FinishNameUpdate(u, s)
         \/ Gender(u, s) \/ FinishGenderUpdate(u, s) \/ EditName(u, s) \/ EditGender(u, s)
         \/ EditGenderAnswered(u, s)

Next == UserStep \/ \E i \in Inviters : DeleteInviter(i)

Spec == Init /\ [][Next]_vars

-----------------------------------------------------------------------------
(* Types of the row and of what runs for it (models/user.py, orm.py).      *)
TypeOK ==
  /\ profile \in [Users -> [exists : BOOLEAN, onboarding : OnboardingStates, registration : OnboardingStates,
                           named : BOOLEAN, suggested : BOOLEAN, pending : BOOLEAN, attempted : BOOLEAN,
                           inviter : Users \cup Inviters \cup {None}, question : BOOLEAN, claimed : BOOLEAN]]
  /\ buttons \in [Users -> SUBSET Buttons]
  /\ doing \in [Users \X Slots -> Awaits]
  /\ asked \in [Users -> {"nothing", "name", "gender"}]
  /\ referral \in [Users -> Nat] /\ lost \in [Users -> Nat]
  /\ wiped \subseteq Users

(* A row's referral is paid at most once, and it is either paid or lost by *)
(* a failed credit exactly when it is claimed, which takes a first         *)
(* question (claim_referral_bonus_if_ready is reached from a delivered     *)
(* reply and from a gender button, which run at once).  It stays settled   *)
(* when the panel deletes the inviter, which makes the row one that nobody *)
(* invited, and another user invites it then.                              *)
ReferralPaidOnce ==
  \A u \in Users :
    /\ referral[u] + lost[u] = IF profile[u].claimed THEN 1 ELSE 0
    /\ profile[u].claimed => profile[u].question

(* A user who has just been asked for a name is listened to: the next text *)
(* is taken as the name, or the name's buttons are on the screen.          *)
AskedMeansListening == \A u \in Users : asked[u] = "name" => profile[u].onboarding \in NameStates
=============================================================================
