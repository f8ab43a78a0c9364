------------------------------- MODULE ChatTurn -------------------------------
(***************************************************************************)
(* A turn with the model, from the worker that takes a message to the      *)
(* answer that is sent: message_handler, handle_ready_image and            *)
(* group_message_handler of bot/handlers.py, ChatService.answer, the       *)
(* generation gate of QuotaService, the worker's retries, and the second   *)
(* try that a failed private turn gets ten minutes later.                  *)
(*                                                                         *)
(* One action is what the event loop runs between two suspensions.  A text *)
(* turn opens and closes the gate inside answer; an image turn opens it    *)
(* around the vision call, answer and the typing task; a group turn keeps  *)
(* it until the reply is sent.  What quota an account has, and whether an  *)
(* input is refused, are left open: see QuotaLedger for the sums.          *)
(***************************************************************************)
EXTENDS Naturals

CONSTANTS
  Updates,    \* messages that reach the model
  Users,
  Owner,      \* the user of a message
  Kind,       \* "text", "image" or "group"
  Actor,      \* the (chat, user) pair whose messages a worker handles one by one
  Debug,      \* users whose debug mode bypasses the quota
  Attempts,   \* attempts of _feed_update_with_retries
  DbFaults    \* can the database refuse the turn_start event?

ASSUME TurnAssumption ==
  /\ Owner \in [Updates -> Users]
  /\ Kind \in [Updates -> {"text", "image", "group"}]
  /\ DOMAIN Actor = Updates
  /\ Debug \subseteq Users
  /\ Attempts \in Nat \ {0}
  /\ DbFaults \in BOOLEAN

VARIABLES
  pc,        \* where the handling of a message is
  attempt,   \* the worker's attempt at it
  active,    \* QuotaService._active_generations
  deferred,  \* retry_failed_chat_turn_later: the second try of each attempt
  charged    \* charges booked for each attempt, its second try included

vars == <<pc, attempt, active, deferred, charged>>

Tries == 1 .. Attempts
Over == {"ended", "lost"}

Init ==
  /\ pc = [x \in Updates |-> "queued"]
  /\ attempt = [x \in Updates |-> 1]
  /\ active = {}
  /\ deferred = [x \in Updates |-> [a \in Tries |-> "none"]]
  /\ charged = [x \in Updates |-> [a \in Tries |-> 0]]

Go(x, where) == pc' = [pc EXCEPT ![x] = where]
At(x, kind, where) == Kind[x] = kind /\ pc[x] = where

-----------------------------------------------------------------------------
(* mutant: the gate is not looked at *)
AdmittedAlways(u) == TRUE

(* QuotaService's gate.  A debug user passes it without a trace. *)
Admitted(u) == u \in Debug \/ u \notin active
Opened(u) == IF u \in Debug THEN active ELSE active \cup {u}
Closed(u) == active \ {u}

(* Which turns close the gate when answer returns: quota_started_here *)
StartedHere(x) == Kind[x] = "text"

Charge(x, a) ==
  charged' = IF Owner[x] \in Debug THEN charged
             ELSE [charged EXCEPT ![x][a] = @ + 1]

(* mutants: a retry without an end; a retry that is not counted *)
RaiseUnbounded(x) ==
  /\ Go(x, "backoff")
  /\ attempt' = [attempt EXCEPT ![x] = @ + 1]

RaiseUncounted(x) == Go(x, "backoff") /\ UNCHANGED attempt

(* The worker tries three times in all and then gives the message up. *)
Raise(x) ==
  IF attempt[x] < Attempts
  THEN /\ Go(x, "backoff")
       /\ attempt' = [attempt EXCEPT ![x] = @ + 1]
  ELSE /\ Go(x, "ended")
       /\ UNCHANGED attempt

Done(x) == Go(x, "ended") /\ UNCHANGED attempt

-----------------------------------------------------------------------------
(* A worker takes a message when it has the lock of its actor, and keeps   *)
(* the lock over its retries.                                              *)
Start(x) ==
  /\ pc[x] = "queued"
  /\ \A y \in Updates : y # x /\ Actor[y] = Actor[x] => pc[y] \in Over \cup {"queued"}
  /\ Go(x, "handling")
  /\ UNCHANGED <<attempt, active, deferred, charged>>

TryAgain(x) ==
  /\ pc[x] = "backoff"
  /\ Go(x, "handling")
  /\ UNCHANGED <<attempt, active, deferred, charged>>

(* Something before the turn raises: the profile, the membership check *)
HandlerRaises(x) ==
  /\ pc[x] = "handling"
  /\ Raise(x)
  /\ UNCHANGED <<active, deferred, charged>>

(* A refused input, an empty account, a rate limit, or the gate is closed. *)
(* A private user is told; a group is not.                                 *)
Refuse(x) ==
  /\ pc[x] = "handling"
  /\ Go(x, IF Kind[x] = "group" THEN "ended" ELSE "refused")
  /\ UNCHANGED <<attempt, active, deferred, charged>>

(* An exception in answer before it suspends: the gate, if it was opened,   *)
(* is closed again at once.                                                *)
BreakEarly(x) ==
  /\ At(x, "text", "handling")
  /\ Go(x, "apologising")
  /\ UNCHANGED <<attempt, active, deferred, charged>>

(* begin_generation or begin_group_generation lets the turn in *)
Begin(x) ==
  /\ pc[x] = "handling"
  /\ Admitted(Owner[x])
  /\ active' = Opened(Owner[x])
  /\ Go(x, IF Kind[x] = "image" THEN "vision" ELSE "calling")
  /\ UNCHANGED <<attempt, deferred, charged>>

(* The user is in the set and the turn_start event cannot be written: no   *)
(* try block has been entered yet.  A text turn apologises, the others are *)
(* tried again.                                                            *)
BeginFails(x) ==
  /\ DbFaults
  /\ pc[x] = "handling"
  /\ Owner[x] \notin Debug \cup active
  /\ active' = Opened(Owner[x])
  /\ IF Kind[x] = "text" THEN Go(x, "apologising") /\ UNCHANGED attempt ELSE Raise(x)
  /\ UNCHANGED <<deferred, charged>>

(* describe_image returns, or fails and is replaced by a sentence; then    *)
(* answer validates its input with the gate already open.                  *)
VisionReturns(x) ==
  /\ pc[x] = "vision"
  /\ \/ Go(x, "calling")
     \/ Go(x, "telling")
     \/ Go(x, "apologising")
  /\ UNCHANGED <<attempt, active, deferred, charged>>

(* An exception outside run_chat_turn: the media row cannot be written *)
VisionRaises(x) ==
  /\ pc[x] = "vision"
  /\ active' = Closed(Owner[x])
  /\ Raise(x)
  /\ UNCHANGED <<deferred, charged>>

-----------------------------------------------------------------------------
(* answer after the provider's thread: the reply is charged, stored and    *)
(* returned without another suspension.                                    *)
Private(x) == Kind[x] \in {"text", "image"} /\ pc[x] = "calling"
(* mutant: answer closes a gate that its caller opened *)
LeaveAnswerCloses(x) == active' = Closed(Owner[x])

LeaveAnswer(x) == active' = IF StartedHere(x) THEN Closed(Owner[x]) ELSE active
AfterAnswer(x) == IF StartedHere(x) THEN "delivering" ELSE "leaving"

Reply(x) ==
  /\ Private(x)
  /\ Charge(x, attempt[x])
  /\ LeaveAnswer(x)
  /\ Go(x, AfterAnswer(x))
  /\ UNCHANGED <<attempt, deferred>>

(* mutant: a canned reply is charged *)
FallBackCharged(x) ==
  /\ Private(x)
  /\ Charge(x, attempt[x])
  /\ deferred' = [deferred EXCEPT ![x][attempt[x]] = "asleep"]
  /\ LeaveAnswer(x)
  /\ Go(x, AfterAnswer(x))
  /\ UNCHANGED attempt

(* The provider failed, the model asked for a firm warning, or the account *)
(* cannot pay this reply: a canned reply, free, and a second try later.    *)
FallBack(x) ==
  /\ Private(x)
  /\ deferred' = [deferred EXCEPT ![x][attempt[x]] = "asleep"]
  /\ LeaveAnswer(x)
  /\ Go(x, AfterAnswer(x))
  /\ UNCHANGED <<attempt, charged>>

(* Any other exception, before the charge or after it: the user is asked   *)
(* to send the message again.                                              *)
Break(x) ==
  /\ Private(x)
  /\ Charge(x, attempt[x]) \/ UNCHANGED charged
  /\ LeaveAnswer(x)
  /\ Go(x, "apologising")
  /\ UNCHANGED <<attempt, deferred>>

(* A group reply is charged if the account can still pay it. *)
GroupReply(x) ==
  /\ At(x, "group", "calling")
  /\ Charge(x, attempt[x]) \/ UNCHANGED charged
  /\ Go(x, "sending")
  /\ UNCHANGED <<attempt, active, deferred>>

(* group_message_handler's end: sent, or failed and recorded as failed *)
GroupEnds(x) ==
  /\ Kind[x] = "group" /\ pc[x] \in {"calling", "sending"}
  /\ active' = Closed(Owner[x])
  /\ Go(x, "ended")
  /\ UNCHANGED <<attempt, deferred, charged>>

(* The failure cannot even be recorded *)
GroupRaises(x) ==
  /\ Kind[x] = "group" /\ pc[x] \in {"calling", "sending"}
  /\ active' = Closed(Owner[x])
  /\ Raise(x)
  /\ UNCHANGED <<deferred, charged>>

-----------------------------------------------------------------------------
(* mutant: the finally of an image turn is missing *)
LeaveImageOpen(x) ==
  /\ pc[x] = "leaving"
  /\ Go(x, "delivering")
  /\ UNCHANGED <<attempt, active, deferred, charged>>

(* handle_ready_image's finally, once the typing task has stopped *)
LeaveImage(x) ==
  /\ pc[x] = "leaving"
  /\ active' = Closed(Owner[x])
  /\ Go(x, "delivering")
  /\ UNCHANGED <<attempt, deferred, charged>>

(* The apology is sent, or cannot be: an image turn closes its gate now.   *)
(* Then run_chat_turn's finally raises if the typing task has failed.      *)
Apologised(x) ==
  /\ pc[x] = "apologising"
  /\ active' = IF Kind[x] = "image" THEN Closed(Owner[x]) ELSE active
  /\ Done(x) \/ Raise(x)
  /\ UNCHANGED <<deferred, charged>>

(* The refusal of a text turn, or of an image turn at the gate, is sent. *)
Refused(x) ==
  /\ pc[x] = "refused"
  /\ Done(x) \/ Raise(x)
  /\ UNCHANGED <<active, deferred, charged>>

(* The refusal of an image turn by answer is sent with the gate open. *)
Told(x) ==
  /\ pc[x] = "telling"
  /\ active' = Closed(Owner[x])
  /\ Done(x) \/ Raise(x)
  /\ UNCHANGED <<deferred, charged>>

(* deliver_chat_result: sending never raises, what follows it can. *)
Delivered(x) ==
  /\ pc[x] = "delivering"
  /\ Done(x) \/ Raise(x)
  /\ UNCHANGED <<active, deferred, charged>>

-----------------------------------------------------------------------------
(* retry_failed_chat_turn_later; every exception of it is logged only *)
SetDeferred(x, a, to) == deferred' = [deferred EXCEPT ![x][a] = to]

DeferredBegins(x, a) ==
  /\ deferred[x][a] = "asleep"
  /\ Admitted(Owner[x])
  /\ active' = Opened(Owner[x])
  /\ SetDeferred(x, a, "calling")
  /\ UNCHANGED <<pc, attempt, charged>>

(* A refusal ends it: the user who is busy at that moment gets no answer. *)
DeferredRefused(x, a) ==
  /\ deferred[x][a] = "asleep"
  /\ SetDeferred(x, a, "done")
  /\ UNCHANGED <<pc, attempt, active, charged>>

DeferredBeginFails(x, a) ==
  /\ DbFaults
  /\ deferred[x][a] = "asleep"
  /\ Owner[x] \notin Debug \cup active
  /\ active' = Opened(Owner[x])
  /\ SetDeferred(x, a, "done")
  /\ UNCHANGED <<pc, attempt, charged>>

DeferredReply(x, a) ==
  /\ deferred[x][a] = "calling"
  /\ Charge(x, a)
  /\ active' = Closed(Owner[x])
  /\ SetDeferred(x, a, "done")
  /\ UNCHANGED <<pc, attempt>>

(* It fails again, and there is no third try. *)
DeferredFails(x, a) ==
  /\ deferred[x][a] = "calling"
  /\ active' = Closed(Owner[x])
  /\ SetDeferred(x, a, "done")
  /\ UNCHANGED <<pc, attempt, charged>>

-----------------------------------------------------------------------------
(* Queue, gate and sleeping tasks are all in memory. *)
Crash ==
  /\ pc' = [x \in Updates |-> IF pc[x] \in Over THEN pc[x] ELSE "lost"]
  /\ active' = {}
  /\ deferred' = [x \in Updates |-> [a \in Tries |->
                    IF deferred[x][a] = "none" THEN "none" ELSE "done"]]
  /\ UNCHANGED <<attempt, charged>>

Turn(x) ==
  \/ Start(x) \/ TryAgain(x) \/ HandlerRaises(x) \/ Refuse(x) \/ BreakEarly(x) \/ Begin(x) \/ BeginFails(x)
  \/ VisionReturns(x) \/ VisionRaises(x) \/ Reply(x) \/ FallBack(x) \/ Break(x)
  \/ GroupReply(x) \/ GroupEnds(x) \/ GroupRaises(x)
  \/ LeaveImage(x) \/ Apologised(x) \/ Refused(x) \/ Told(x) \/ Delivered(x)

Deferred(x, a) ==
  \/ DeferredBegins(x, a) \/ DeferredRefused(x, a) \/ DeferredBeginFails(x, a)
  \/ DeferredReply(x, a) \/ DeferredFails(x, a)

(* Every message has come to its end and nothing is left to wake up. *)
Quiet ==
  /\ \A x \in Updates : pc[x] \in Over
  /\ \A x \in Updates, a \in Tries : deferred[x][a] \in {"none", "done"}
  /\ UNCHANGED vars

Next ==
  \/ \E x \in Updates : Turn(x)
  \/ \E x \in Updates, a \in Tries : Deferred(x, a)
  \/ Crash
  \/ Quiet

(* The event loop runs what can go on, and every provider and Telegram     *)
(* call has a timeout.                                                     *)
Fairness ==
  /\ \A x \in Updates : WF_vars(Turn(x))
  /\ \A x \in Updates, a \in Tries : WF_vars(Deferred(x, a))

Spec == Init /\ [][Next]_vars /\ Fairness

-----------------------------------------------------------------------------
TypeOK ==
  /\ pc \in [Updates -> Over \cup
       {"queued", "backoff", "handling", "refused", "vision", "calling", "sending",
        "telling", "apologising", "leaving", "delivering"}]
  /\ attempt \in [Updates -> Tries]
  /\ active \subseteq Users
  /\ deferred \in [Updates -> [Tries -> {"none", "asleep", "calling", "done"}]]
  /\ charged \in [Updates -> [Tries -> Nat]]

(* Who is between its begin_generation and its finish_generation: a        *)
(* message's own turn, or the second try of one of its attempts.           *)
InTurn(x) ==
  \/ pc[x] \in {"vision", "calling", "sending", "telling", "leaving"}
  \/ pc[x] = "apologising" /\ Kind[x] = "image"

Holders(u) ==
  {h \in Updates \X (0 .. Attempts) :
     Owner[h[1]] = u /\ IF h[2] = 0 THEN InTurn(h[1]) ELSE deferred[h[1]][h[2]] = "calling"}

(* docs/model_payload_guide.md: "there is never more than one active       *)
(* generation for a user", over private turns, group turns, retries of the *)
(* worker and second tries of failed turns alike.  Debug users are exempt. *)
OneGeneration ==
  \A u \in Users \ Debug : \A h, k \in Holders(u) : h = k

(* The gate stays closed behind a running turn: no finish_generation of    *)
(* another turn opens it early.                                            *)
GateHeld ==
  \A u \in Users \ Debug : Holders(u) # {} => u \in active

(* BUSY_MESSAGE: "wait until I have answered the previous one".  A user is *)
(* told so only while a turn of that user is being answered.               *)
BusyMeansWorking == \A u \in active : Holders(u) # {}

(* An attempt and its second try together cost at most one reply, and only *)
(* an attempt that cost nothing has a second try.                          *)
ChargedOnce ==
  \A x \in Updates, a \in Tries :
    /\ charged[x][a] <= 1
    /\ deferred[x][a] \in {"asleep", "calling"} => charged[x][a] = 0

(* What has been decided stays decided: a charge is never taken back, and  *)
(* it is booked only by the turn that holds its user's gate.               *)
ChargedInTurn ==
  [][\A x \in Updates, a \in Tries :
       charged'[x][a] # charged[x][a] =>
         /\ charged'[x][a] = charged[x][a] + 1
         /\ Holders(Owner[x]) # {} /\ Owner[x] \in active]_vars

(* No message is stuck behind another one of its actor, a retry or a       *)
(* provider: every message a worker may take comes to its end.             *)
EveryMessageEnds == \A x \in Updates : pc[x] = "queued" ~> pc[x] \in Over
=============================================================================
