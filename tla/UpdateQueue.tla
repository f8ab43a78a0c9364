----------------------------- MODULE UpdateQueue -----------------------------
(***************************************************************************)
(* The webhook's way of an update: bot/webhook.py's route, the queue and   *)
(* the idempotency store of bot/update_queue.py, the workers of            *)
(* bot/worker.py, and Telegram, which sends an update again until it hears *)
(* a 200.                                                                  *)
(*                                                                         *)
(* asyncio suspends only where a future is not ready, so everything        *)
(* between two such points is one action: a request suspends only while    *)
(* the queue is full, a worker while the queue is empty, while it          *)
(* debounces, while another worker holds the actor's lock, and in the      *)
(* handler.  The store's and the limiter's own locks never suspend.  The   *)
(* rate limiter, _latest_update_by_actor and _active_actors are written    *)
(* and decide nothing, so they are left out.                               *)
(***************************************************************************)
EXTENDS Integers, Sequences, SequencesExt, FiniteSets

CONSTANTS
  Updates,      \* update ids; Telegram numbers them upwards
  Actor,        \* the (chat, user) pair of an update that is a message
  NoActor,      \* extract_actor_key of every other update
  Requests,     \* webhook requests that can be open at a time
  Workers,      \* settings.webhook_worker_count tasks
  QueueMax,     \* settings.webhook_queue_maxsize
  MaxItems,     \* settings.webhook_idempotency_max_items
  Attempts,     \* attempts of _feed_update_with_retries
  None          \* no update

ASSUME QueueAssumption ==
  /\ Updates \subseteq Nat /\ IsFiniteSet(Updates)
  /\ None \notin Updates
  /\ DOMAIN Actor = Updates
  /\ Workers # {}
  /\ QueueMax \in Nat \ {0} /\ MaxItems \in Nat \ {0} /\ Attempts \in Nat \ {0}

VARIABLES
  telegram,   \* what Telegram knows of an update: pending, acked, acked in an earlier life
  startup,    \* messages up to this id are older than the process: its offline backlog
  request,    \* the open requests: the update, and whether Telegram still listens
  seen,       \* the idempotency store, least recently used first
  queue,      \* the asyncio.Queue
  worker,     \* the workers: what they do, with which update, at which attempt
  actorLock,  \* the actor locks: the holder first, then the waiters
  ended,      \* how this life's updates ended
  accepted,   \* this life's updates in the order they entered the queue
  forgotten   \* updates the idempotency store has evicted in this life

vars == <<telegram, startup, request, seen, queue, worker, actorLock, ended,
          accepted, forgotten>>

Actors == {Actor[u] : u \in Updates} \ {NoActor}
IsLate(u) == Actor[u] # NoActor /\ u <= startup     \* _is_offline_backlog_message

NoRequest == [update |-> None, heard |-> FALSE]
IdleWorker == [at |-> "get", update |-> None, attempt |-> 0]

Waiting == {request[r].update : r \in Requests} \ {None}
Held == {worker[w].update : w \in Workers} \ {None}
Taken == Held \cup ToSet(queue)

(* mutant: messages of an actor are not serialised *)
RunningUnlocked(w) == worker[w].at = "lock"

(* Is worker w in the handler?  It must hold the lock of its actor, if any. *)
Running(w) ==
  /\ worker[w].at = "lock"
  /\ LET a == Actor[worker[w].update]
     IN a # NoActor => Head(actorLock[a]) = w

ClearProcess ==
  /\ request' = [r \in Requests |-> NoRequest]
  /\ seen' = << >>
  /\ queue' = << >>
  /\ worker' = [w \in Workers |-> IdleWorker]
  /\ actorLock' = [a \in Actors |-> << >>]
  /\ ended' = [u \in Updates |-> "no"]
  /\ accepted' = << >>
  /\ forgotten' = {}

Init ==
  /\ telegram = [u \in Updates |-> "pending"]
  /\ startup \in Updates \cup {0}
  /\ request = [r \in Requests |-> NoRequest]
  /\ seen = << >>
  /\ queue = << >>
  /\ worker = [w \in Workers |-> IdleWorker]
  /\ actorLock = [a \in Actors |-> << >>]
  /\ ended = [u \in Updates |-> "no"]
  /\ accepted = << >>
  /\ forgotten = {}

-----------------------------------------------------------------------------
(* The idempotency store: an OrderedDict, which has an id at most once. *)
Pop(s, u) == IF Contains(s, u) THEN RemoveAt(s, CHOOSE i \in 1..Len(s) : s[i] = u) ELSE s

(* mutants: a seen id is dropped; the newest id is evicted *)
MoveToEndForgets(s, u) == Pop(s, u)
TrimmedNewest(s) == IF Len(s) > MaxItems THEN Front(s) ELSE s

MoveToEnd(s, u) == IF Contains(s, u) THEN Append(Pop(s, u), u) ELSE s
Store(s, u) == Append(s, u)
Evicted(s) == IF Len(s) > MaxItems THEN {Head(s)} ELSE {}
Trimmed(s) == IF Len(s) > MaxItems THEN Tail(s) ELSE s

(* The answer reaches Telegram only over a connection that is still open. *)
Acknowledge(u, heard) ==
  telegram' = IF heard THEN [telegram EXCEPT ![u] = "acked"] ELSE telegram

Enter(u) ==
  /\ queue' = Append(queue, u)
  /\ accepted' = IF Contains(accepted, u) THEN accepted ELSE Append(accepted, u)

-----------------------------------------------------------------------------
(* telegram_webhook and enqueue, up to the first suspension *)

(* Telegram has an update to deliver and no connection open for it. *)
Deliverable(u) ==
  /\ telegram[u] = "pending"
  /\ \A r \in Requests : ~(request[r].update = u /\ request[r].heard)

(* reserve finds the id: status DUPLICATE, answered with 200 *)
EnqueueDuplicate(u) ==
  /\ Deliverable(u)
  /\ Contains(seen, u)
  /\ seen' = MoveToEnd(seen, u)
  /\ Acknowledge(u, TRUE)
  /\ UNCHANGED <<startup, request, queue, worker, actorLock, ended, accepted, forgotten>>

Reserve(u) ==
  LET s == Store(seen, u)
  IN /\ Deliverable(u)
     /\ ~Contains(seen, u)
     /\ seen' = Trimmed(s)
     /\ forgotten' = forgotten \cup Evicted(s)

(* mutant: off by one at the queue's limit *)
EnqueueAcceptedOneMore(u) ==
  /\ Reserve(u)
  /\ Len(queue) <= QueueMax
  /\ Enter(u)
  /\ Acknowledge(u, TRUE)
  /\ UNCHANGED <<startup, request, worker, actorLock, ended>>

(* There is room: put does not suspend and may overtake waiting requests. *)
EnqueueAccepted(u) ==
  /\ Reserve(u)
  /\ Len(queue) < QueueMax
  /\ Enter(u)
  /\ Acknowledge(u, TRUE)
  /\ UNCHANGED <<startup, request, worker, actorLock, ended>>

(* The queue is full: the request waits in put for up to two seconds. *)
EnqueueWait(r, u) ==
  /\ request[r] = NoRequest
  /\ Reserve(u)
  /\ Len(queue) >= QueueMax
  /\ request' = [request EXCEPT ![r] = [update |-> u, heard |-> TRUE]]
  /\ UNCHANGED <<telegram, startup, queue, worker, actorLock, ended, accepted>>

(* mutant: a request puts its update and goes on waiting *)
PutResumesStays(r) ==
  LET q == request[r]
  IN /\ q # NoRequest
     /\ Len(queue) < QueueMax
     /\ Enter(q.update)
     /\ Acknowledge(q.update, q.heard)
     /\ UNCHANGED <<startup, request, seen, worker, actorLock, ended, forgotten>>

(* A waiting request gets its place: ACCEPTED *)
PutResumes(r) ==
  LET q == request[r]
  IN /\ q # NoRequest
     /\ Len(queue) < QueueMax
     /\ Enter(q.update)
     /\ Acknowledge(q.update, q.heard)
     /\ request' = [request EXCEPT ![r] = NoRequest]
     /\ UNCHANGED <<startup, seen, worker, actorLock, ended, forgotten>>

(* The two seconds are over: the id is released, FULL is answered with 503 *)
PutTimesOut(r) ==
  LET q == request[r]
  IN /\ q # NoRequest
     /\ seen' = Pop(seen, q.update)
     /\ request' = [request EXCEPT ![r] = NoRequest]
     /\ UNCHANGED <<telegram, startup, queue, worker, actorLock, ended, accepted, forgotten>>

(* Telegram's connection breaks; the route's coroutine goes on. *)
Disconnect(r) ==
  /\ request[r].heard
  /\ request' = [request EXCEPT ![r].heard = FALSE]
  /\ UNCHANGED <<telegram, startup, seen, queue, worker, actorLock, ended, accepted, forgotten>>

-----------------------------------------------------------------------------
(* TelegramUpdateWorker._run *)

(* Ask for the actor's lock, whose waiters are served in order. *)
JoinLock(w, u) ==
  /\ worker' = [worker EXCEPT ![w] = [at |-> "lock", update |-> u, attempt |-> 1]]
  /\ actorLock' = IF Actor[u] = NoActor THEN actorLock
                  ELSE [actorLock EXCEPT ![Actor[u]] = Append(@, w)]

GetFresh(w) ==
  /\ worker[w].at = "get"
  /\ queue # << >> /\ ~IsLate(Head(queue))
  /\ JoinLock(w, Head(queue))
  /\ queue' = Tail(queue)
  /\ UNCHANGED <<telegram, startup, request, seen, ended, accepted, forgotten>>

(* A job of the offline backlog is slept on first. *)
GetLate(w) ==
  /\ worker[w].at = "get"
  /\ queue # << >> /\ IsLate(Head(queue))
  /\ worker' = [worker EXCEPT ![w] = [at |-> "debounce", update |-> Head(queue), attempt |-> 0]]
  /\ queue' = Tail(queue)
  /\ UNCHANGED <<telegram, startup, request, seen, actorLock, ended, accepted, forgotten>>

(* is_stale_backlog_job and is_stale_job both answer False. *)
DebounceOver(w) ==
  /\ worker[w].at = "debounce"
  /\ JoinLock(w, worker[w].update)
  /\ UNCHANGED <<telegram, startup, request, seen, queue, ended, accepted, forgotten>>

(* mutant: the actor's lock is not released *)
FinishLocked(w, how) ==
  LET u == worker[w].update
  IN /\ ended' = [ended EXCEPT ![u] = how]
     /\ seen' = MoveToEnd(seen, u)
     /\ worker' = [worker EXCEPT ![w] = IdleWorker]
     /\ UNCHANGED <<telegram, startup, request, queue, actorLock, accepted, forgotten>>

(* The handler returned, or raised for the last time: the lock is released *)
(* and mark_processed refreshes the id, all without a suspension.          *)
Finish(w, how) ==
  LET u == worker[w].update
  IN /\ ended' = [ended EXCEPT ![u] = how]
     /\ seen' = MoveToEnd(seen, u)
     /\ worker' = [worker EXCEPT ![w] = IdleWorker]
     /\ actorLock' = IF Actor[u] = NoActor THEN actorLock
                     ELSE [actorLock EXCEPT ![Actor[u]] = Tail(@)]
     /\ UNCHANGED <<telegram, startup, request, queue, accepted, forgotten>>

HandlerReturns(w) == Running(w) /\ Finish(w, "handled")

(* The retry sleeps with the lock held. *)
HandlerRaises(w) ==
  /\ Running(w)
  /\ worker[w].attempt < Attempts
  /\ worker' = [worker EXCEPT ![w].attempt = @ + 1]
  /\ UNCHANGED <<telegram, startup, request, seen, queue, actorLock, ended, accepted, forgotten>>

LastAttemptRaises(w) ==
  /\ Running(w)
  /\ worker[w].attempt = Attempts
  /\ Finish(w, "dropped")

(* The process ends (a crash, a deploy, worker.stop) and starts anew; what *)
(* Telegram holds may by then be older than the new process.               *)
Restart ==
  /\ ClearProcess
  /\ telegram' = [u \in Updates |->
                    IF telegram[u] = "acked" THEN "acked earlier" ELSE telegram[u]]
  /\ \E s \in Updates \cup {0} : s >= startup /\ startup' = s

-----------------------------------------------------------------------------
Next ==
  \/ \E u \in Updates : EnqueueDuplicate(u) \/ EnqueueAccepted(u)
  \/ \E r \in Requests, u \in Updates : EnqueueWait(r, u)
  \/ \E r \in Requests : PutResumes(r) \/ PutTimesOut(r) \/ Disconnect(r)
  \/ \E w \in Workers : GetFresh(w) \/ GetLate(w) \/ DebounceOver(w)
  \/ \E w \in Workers : HandlerReturns(w) \/ HandlerRaises(w) \/ LastAttemptRaises(w)
  \/ Restart

(* The event loop runs every task that can go on, and a handler returns or *)
(* raises: each of its calls has a timeout.                                *)
Fairness ==
  /\ \A r \in Requests : WF_vars(PutResumes(r) \/ PutTimesOut(r))
  /\ \A w \in Workers :
       /\ WF_vars(GetFresh(w) \/ GetLate(w) \/ DebounceOver(w))
       /\ WF_vars(HandlerReturns(w) \/ HandlerRaises(w) \/ LastAttemptRaises(w))

Spec == Init /\ [][Next]_vars /\ Fairness

-----------------------------------------------------------------------------
TypeOK ==
  /\ telegram \in [Updates -> {"pending", "acked", "acked earlier"}]
  /\ startup \in Updates \cup {0}
  /\ request \in [Requests -> [update : Updates \cup {None}, heard : BOOLEAN]]
  /\ seen \in Seq(Updates) /\ Len(seen) <= MaxItems
  /\ queue \in Seq(Updates) /\ Len(queue) <= QueueMax
  /\ worker \in [Workers -> [at : {"get", "debounce", "lock"},
                             update : Updates \cup {None}, attempt : 0 .. Attempts]]
  /\ actorLock \in [Actors -> Seq(Workers)]
  /\ ended \in [Updates -> {"no", "handled", "dropped"}]
  /\ accepted \in Seq(Updates)
  /\ forgotten \subseteq Updates

(* The jobs of an update: requests waiting to put it, places in the queue, *)
(* workers that have it, and the end it came to.                           *)
Jobs(u) ==
  Cardinality({r \in Requests : request[r].update = u})
  + Cardinality({i \in DOMAIN queue : queue[i] = u})
  + Cardinality({w \in Workers : worker[w].update = u})
  + (IF ended[u] # "no" THEN 1 ELSE 0)

(* However often Telegram sends an update, and whatever answers are lost,  *)
(* it is worked on at most once in a life of the process, unless the store *)
(* had to forget it.                                                       *)
AtMostOneJob == \A u \in Updates \ forgotten : Jobs(u) <= 1

(* An actor's new messages are handled in the order the queue took them,   *)
(* however many workers take from it; only the sleep of the backlog may    *)
(* let messages pass.                                                      *)
InOrder ==
  \A w \in Workers : \A i, j \in DOMAIN accepted :
    LET u == accepted[i]  v == accepted[j]
    IN (/\ Running(w) /\ worker[w].update = v /\ i < j
        /\ Actor[u] = Actor[v] /\ Actor[v] # NoActor
        /\ ~IsLate(u) /\ ~IsLate(v) /\ {u, v} \cap forgotten = {})
       => ended[u] # "no"

(* An update that a request took over is queued or given back: no request  *)
(* waits for ever, and every update in the queue comes to an end.          *)
NothingWaitsForEver ==
  /\ \A r \in Requests : request[r] # NoRequest ~> request[r] = NoRequest
  /\ \A u \in Updates : u \in Taken ~> u \notin Taken

-----------------------------------------------------------------------------
(* The queue implements UpdateDelivery, as long as the store is as large   *)
(* as the number of updates of one life.                                   *)
Status == [u \in Updates |->
  IF ended[u] # "no" THEN ended[u] ELSE IF u \in Taken THEN "queued" ELSE "out"]

Delivery == INSTANCE UpdateDelivery WITH status <- Status
ImplementsDelivery == Delivery!Spec

-----------------------------------------------------------------------------
(* update_queue.py: "Do not drop Telegram updates because of in-process    *)
(* pressure [...] without losing the user's delivered message": while the  *)
(* process lives, an update Telegram will not send again is in its hands.  *)
NothingSwallowed ==
  \A u \in Updates :
    telegram[u] = "acked" => Status[u] # "out" \/ u \in Waiting
=============================================================================
