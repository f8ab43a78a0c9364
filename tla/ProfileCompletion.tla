--------------------------- MODULE ProfileCompletion ---------------------------
(***************************************************************************)
(* Completing the profile: a biography, the phone number of the account    *)
(* and the bonus for it.  bot/services/user_service.py and profile_start,  *)
(* profile_cancel, contact_handler and the head of message_handler of      *)
(* bot/handlers.py.                                                        *)
(*                                                                         *)
(* save_phone_number, add_extra_credit and mark_phone_bonus_claimed are    *)
(* three sessions; the last two may fail, and the worker then repeats the  *)
(* contact.  The buttons of the dialogue are clicked at any time, also     *)
(* while a contact waits for the membership check.                         *)
(***************************************************************************)
EXTENDS Naturals

CONSTANTS
  Users,
  MaxFailures,  \* failed sessions, per user
  Attempts      \* tries of one contact by the worker

VARIABLES
  completion,  \* profile_completion_state
  invalid,     \* profile_invalid_attempts
  phone,       \* whether phone_number is set
  claimed,     \* phone_bonus_claimed
  offered,     \* whether quota_profile_prompt_sent_at is set
  contact,     \* the contact that is being handled: its try, and whether it passed the gate
  granted,     \* phone bonuses in the ledger
  failed       \* failed sessions

vars == <<completion, invalid, phone, claimed, offered, contact, granted, failed>>
bonus == <<phone, claimed, granted, failed>>

NoContact == [own |-> FALSE, try |-> 0]

Init ==
  /\ completion = [u \in Users |-> "idle"]
  /\ invalid = [u \in Users |-> 0]
  /\ phone = [u \in Users |-> FALSE]
  /\ claimed = [u \in Users |-> FALSE]
  /\ offered = [u \in Users |-> FALSE]
  /\ contact = [u \in Users |-> NoContact]
  /\ granted = [u \in Users |-> 0]
  /\ failed = [u \in Users |-> 0]

Moves(u, to) == completion' = [completion EXCEPT ![u] = to] /\ invalid' = [invalid EXCEPT ![u] = 0]

(* mutant: every invalid answer is counted and none cancels *)
RegisterInvalidAttemptForever(u) ==
  invalid' = [invalid EXCEPT ![u] = @ + 1] /\ invalid[u] < 2 /\ UNCHANGED completion

(* The second invalid answer cancels the dialogue. *)
RegisterInvalidAttempt(u) ==
  IF invalid[u] >= 1
  THEN Moves(u, "idle")
  ELSE invalid' = [invalid EXCEPT ![u] = 1] /\ UNCHANGED completion

PhoneBonusAvailable(u) == ~phone[u] /\ ~claimed[u]

ProfileStart(u) ==
  /\ PhoneBonusAvailable(u)
  /\ Moves(u, "awaiting_bio")
  /\ UNCHANGED <<offered, contact, bonus>>

(* Without looking at what it cancels. *)
ProfileCancel(u) == Moves(u, "idle") /\ UNCHANGED <<offered, contact, bonus>>

(* Messages of a user are handled one after the other. *)
Text(u) ==
  /\ contact[u] = NoContact
  /\ \/ completion[u] = "awaiting_bio" /\ (Moves(u, "awaiting_phone") \/ RegisterInvalidAttempt(u))
     \/ completion[u] = "awaiting_phone" /\ RegisterInvalidAttempt(u)
  /\ UNCHANGED <<offered, contact, bonus>>

(* The quota has run out: the bonus is offered once in a life. *)
OfferForQuota(u) ==
  /\ ~claimed[u] /\ ~offered[u]
  /\ offered' = [offered EXCEPT ![u] = TRUE]
  /\ UNCHANGED <<completion, invalid, contact, bonus>>

Contact(u) ==
  /\ contact[u] = NoContact
  /\ \E own \in BOOLEAN : contact' = [contact EXCEPT ![u] = [own |-> own, try |-> 1]]
  /\ UNCHANGED <<completion, invalid, offered, bonus>>

Done(u) == contact' = [contact EXCEPT ![u] = NoContact] /\ UNCHANGED offered

(* Not a member, blocked, or not the answer to a question. *)
ContactIgnored(u) ==
  /\ contact[u] # NoContact
  /\ Done(u) /\ UNCHANGED <<completion, invalid, bonus>>

Asked(u) == contact[u] # NoContact /\ completion[u] = "awaiting_phone"

ForeignContact(u) ==
  /\ Asked(u) /\ ~contact[u].own
  /\ RegisterInvalidAttempt(u)
  /\ Done(u) /\ UNCHANGED bonus

Grants(u) == granted' = [granted EXCEPT ![u] = @ + 1]
Verify(u) == phone' = [phone EXCEPT ![u] = TRUE]

(* mutant: the marker is not written after the credit *)
OwnContactUnmarked(u) ==
  /\ Asked(u) /\ contact[u].own
  /\ Verify(u)
  /\ Grants(u) /\ Moves(u, "completed")
  /\ Done(u) /\ UNCHANGED <<claimed, failed>>

OwnContact(u) ==
  /\ Asked(u) /\ contact[u].own
  /\ Verify(u)
  /\ IF claimed[u]
     THEN UNCHANGED <<completion, invalid, claimed, granted>>
     ELSE Grants(u) /\ claimed' = [claimed EXCEPT ![u] = TRUE] /\ Moves(u, "completed")
  /\ Done(u) /\ UNCHANGED failed

(* The credit or its marker fails, and the worker tries again. *)
OwnContactRaises(u) ==
  /\ Asked(u) /\ contact[u].own /\ ~claimed[u]
  /\ failed[u] < MaxFailures
  /\ failed' = [failed EXCEPT ![u] = @ + 1]
  /\ Verify(u)
  /\ Grants(u) \/ UNCHANGED granted
  /\ contact' = [contact EXCEPT ![u] = IF @.try = Attempts THEN NoContact ELSE [own |-> TRUE, try |-> @.try + 1]]
  /\ UNCHANGED <<completion, invalid, claimed, offered>>

Next ==
  \E u \in Users :
    \/ ProfileStart(u) \/ ProfileCancel(u) \/ Text(u) \/ OfferForQuota(u)
    \/ Contact(u) \/ ContactIgnored(u) \/ ForeignContact(u) \/ OwnContact(u) \/ OwnContactRaises(u)

Spec == Init /\ [][Next]_vars

-----------------------------------------------------------------------------
(* Types of the columns the dialogue writes (user_service.py).             *)
TypeOK ==
  /\ completion \in [Users -> {"idle", "awaiting_bio", "awaiting_phone", "completed"}]
  /\ invalid \in [Users -> 0..1]
  /\ phone \in [Users -> BOOLEAN] /\ claimed \in [Users -> BOOLEAN] /\ offered \in [Users -> BOOLEAN]
  /\ contact \in [Users -> [own : BOOLEAN, try : 0..Attempts]]
  /\ granted \in [Users -> Nat] /\ failed \in [Users -> 0..MaxFailures]

(* The phone bonus is granted once, and again only for a session that      *)
(* failed: the marker is written after the credit, so a retry of the       *)
(* worker, or a second contact, pays once more for every failure between   *)
(* the two, and for nothing else (handlers.py:2307-2312).                  *)
PhoneBonusPerFailure ==
  \A u \in Users :
    /\ granted[u] <= failed[u] + 1
    /\ claimed[u] => phone[u] /\ granted[u] >= 1
    /\ failed[u] = 0 => (granted[u] = 1 <=> claimed[u])
=============================================================================
