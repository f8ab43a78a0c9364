--------------------------- MODULE UpdateQueueProofs ---------------------------
(***************************************************************************)
(* An update has at most one job, and an actor's messages are handled in   *)
(* queue order, for any number of updates, requests and workers and any    *)
(* sizes of queue and store.                                               *)
(*                                                                         *)
(* An update that is not forgotten is in one place at most: a request, the *)
(* queue, a worker or among the ended; and while it is anywhere the store  *)
(* knows its id.  The order of the queue is the order of "accepted", and   *)
(* the order of an actor's lock continues it.                              *)
(* Last, a store that is large enough forgets nothing, and then the queue  *)
(* implements UpdateDelivery.                                              *)
(***************************************************************************)
EXTENDS UpdateQueue, FiniteSetTheorems, SequenceTheorems, TLAPS

-----------------------------------------------------------------------------
(* Sequences *)

LEMMA Appending ==
  ASSUME NEW S, NEW s \in Seq(S), NEW e \in S
  PROVE  /\ Append(s, e) \in Seq(S) /\ Len(Append(s, e)) = Len(s) + 1
         /\ DOMAIN Append(s, e) = 1..(Len(s) + 1)
         /\ \A i \in 1..Len(s) : Append(s, e)[i] = s[i]
         /\ Append(s, e)[Len(s) + 1] = e
         /\ \A v : Contains(Append(s, e), v) <=> Contains(s, v) \/ v = e
<1>1. /\ Append(s, e) \in Seq(S) /\ Len(Append(s, e)) = Len(s) + 1
      /\ DOMAIN Append(s, e) = 1..(Len(s) + 1)
      /\ \A i \in 1..Len(s) : Append(s, e)[i] = s[i]
      /\ Append(s, e)[Len(s) + 1] = e
      /\ Len(s) \in Nat
  OBVIOUS
<1>2. ASSUME NEW v PROVE Contains(Append(s, e), v) <=> Contains(s, v) \/ v = e
  BY <1>1 DEF Contains
<1> QED BY <1>1, <1>2

LEMMA Tailing ==
  ASSUME NEW S, NEW s \in Seq(S), s # << >>
  PROVE  /\ Tail(s) \in Seq(S) /\ Len(Tail(s)) = Len(s) - 1 /\ Len(s) \in Nat \ {0}
         /\ DOMAIN Tail(s) = 1..(Len(s) - 1)
         /\ \A i \in 1..(Len(s) - 1) : Tail(s)[i] = s[i + 1]
         /\ Head(s) = s[1] /\ Head(s) \in S
         /\ \A v : Contains(s, v) /\ v # Head(s) => Contains(Tail(s), v)
<1>1. /\ Tail(s) \in Seq(S) /\ Len(Tail(s)) = Len(s) - 1 /\ Len(s) \in Nat \ {0}
      /\ DOMAIN Tail(s) = 1..(Len(s) - 1)
      /\ \A i \in 1..(Len(s) - 1) : Tail(s)[i] = s[i + 1]
      /\ Head(s) = s[1] /\ Head(s) \in S
  OBVIOUS
<1>2. ASSUME NEW v, Contains(s, v), v # Head(s) PROVE Contains(Tail(s), v)
  <2>1. PICK i \in 1..Len(s) : s[i] = v
    BY <1>2 DEF Contains
  <2>2. i # 1
    BY <1>1, <1>2, <2>1
  <2>3. i - 1 \in 1..Len(Tail(s)) /\ Tail(s)[i - 1] = v
    BY <1>1, <2>1, <2>2
  <2> QED BY <2>3 DEF Contains
<1> QED BY <1>1, <1>2

LEMMA Removing ==
  ASSUME NEW S, NEW s \in Seq(S), NEW k \in 1..Len(s)
  PROVE  /\ RemoveAt(s, k) \in Seq(S) /\ Len(RemoveAt(s, k)) = Len(s) - 1
         /\ \A i \in 1..(k - 1) : RemoveAt(s, k)[i] = s[i]
         /\ \A i \in k..(Len(s) - 1) : RemoveAt(s, k)[i] = s[i + 1]
<1> DEFINE a == SubSeq(s, 1, k - 1)  b == SubSeq(s, k + 1, Len(s))
<1>0. Len(s) \in Nat
  OBVIOUS
<1>1. /\ a \in Seq(S) /\ Len(a) = k - 1 /\ \A i \in 1..(k - 1) : a[i] = s[i]
  BY <1>0
<1>2. /\ b \in Seq(S) /\ Len(b) = Len(s) - k /\ \A i \in 1..(Len(s) - k) : b[i] = s[k + i]
  BY <1>0
<1>3. RemoveAt(s, k) = a \o b
  BY DEF RemoveAt
<1> HIDE DEF a, b
<1>4. a \o b \in Seq(S) /\ Len(a \o b) = Len(s) - 1
  <2>1. a \o b \in Seq(S) /\ Len(a \o b) = Len(a) + Len(b)
    BY <1>1, <1>2, ConcatProperties
  <2> QED BY <1>0, <1>1, <1>2, <2>1
<1>5. \A i \in 1..(k - 1) : (a \o b)[i] = s[i]
  BY <1>0, <1>1, <1>2
<1>6. \A i \in k..(Len(s) - 1) : (a \o b)[i] = s[i + 1]
  <2> SUFFICES ASSUME NEW i \in k..(Len(s) - 1) PROVE (a \o b)[i] = s[i + 1]
    OBVIOUS
  <2>1. (a \o b)[i] = b[i - (k - 1)]
    BY <1>0, <1>1, <1>2
  <2> QED BY <1>0, <1>2, <2>1
<1> QED BY <1>3, <1>4, <1>5, <1>6

(* An id that is popped takes no other with it. *)
LEMMA Popping ==
  ASSUME NEW S, NEW s \in Seq(S), NEW u
  PROVE  /\ Pop(s, u) \in Seq(S) /\ Len(Pop(s, u)) <= Len(s)
         /\ Contains(s, u) => Len(Pop(s, u)) = Len(s) - 1
         /\ \A v : v # u /\ Contains(s, v) => Contains(Pop(s, u), v)
<1>0. Len(s) \in Nat
  OBVIOUS
<1>1. CASE ~Contains(s, u)
  BY <1>0, <1>1 DEF Pop
<1>2. CASE Contains(s, u)
  <2>1. PICK k \in 1..Len(s) : s[k] = u /\ Pop(s, u) = RemoveAt(s, k)
    BY <1>2 DEF Pop, Contains
  <2>2. /\ RemoveAt(s, k) \in Seq(S) /\ Len(RemoveAt(s, k)) = Len(s) - 1
        /\ \A i \in 1..(k - 1) : RemoveAt(s, k)[i] = s[i]
        /\ \A i \in k..(Len(s) - 1) : RemoveAt(s, k)[i] = s[i + 1]
    BY Removing
  <2>3. ASSUME NEW v, v # u, Contains(s, v) PROVE Contains(RemoveAt(s, k), v)
    <3>1. PICK i \in 1..Len(s) : s[i] = v
      BY <2>3 DEF Contains
    <3>2. CASE i < k
      <4>1. i \in 1..Len(RemoveAt(s, k)) /\ RemoveAt(s, k)[i] = v
        BY <1>0, <2>2, <3>1, <3>2
      <4> QED BY <4>1 DEF Contains
    <3>3. CASE i > k
      <4>1. i - 1 \in 1..Len(RemoveAt(s, k)) /\ i - 1 \in k..(Len(s) - 1) /\ (i - 1) + 1 = i
        BY <1>0, <2>2, <3>1, <3>3
      <4>2. RemoveAt(s, k)[i - 1] = v
        BY <2>2, <3>1, <4>1
      <4> QED BY <4>1, <4>2 DEF Contains
    <3>4. i # k
      BY <2>1, <2>3, <3>1
    <3> QED BY <3>2, <3>3, <3>4
  <2> QED BY <1>0, <1>2, <2>1, <2>2, <2>3
<1> QED BY <1>1, <1>2

LEMMA Moving ==
  ASSUME NEW S, NEW s \in Seq(S), NEW u \in S
  PROVE  /\ MoveToEnd(s, u) \in Seq(S) /\ Len(MoveToEnd(s, u)) = Len(s)
         /\ \A v : Contains(s, v) => Contains(MoveToEnd(s, u), v)
<1>1. CASE ~Contains(s, u)
  BY <1>1 DEF MoveToEnd
<1>2. CASE Contains(s, u)
  <2>1. MoveToEnd(s, u) = Append(Pop(s, u), u)
    BY <1>2 DEF MoveToEnd
  <2>2. /\ Pop(s, u) \in Seq(S) /\ Len(Pop(s, u)) = Len(s) - 1 /\ Len(s) \in Nat
        /\ \A v : v # u /\ Contains(s, v) => Contains(Pop(s, u), v)
    BY <1>2, Popping
  <2>3. /\ Append(Pop(s, u), u) \in Seq(S) /\ Len(Append(Pop(s, u), u)) = Len(Pop(s, u)) + 1
        /\ \A v : Contains(Append(Pop(s, u), u), v) <=> Contains(Pop(s, u), v) \/ v = u
    BY <2>2, Appending
  <2> QED BY <2>1, <2>2, <2>3
<1> QED BY <1>1, <1>2

(* The store loses by a reservation only what it evicts. *)
LEMMA Reserving ==
  ASSUME NEW S, NEW s \in Seq(S), Len(s) <= MaxItems, NEW u \in S
  PROVE  /\ Trimmed(Store(s, u)) \in Seq(S) /\ Len(Trimmed(Store(s, u))) <= MaxItems
         /\ Evicted(Store(s, u)) \subseteq S
         /\ \A v : /\ Contains(s, v) \/ v = u
                   /\ v \notin Evicted(Store(s, u))
                   => Contains(Trimmed(Store(s, u)), v)
<1> DEFINE t == Store(s, u)
<1>1. /\ t \in Seq(S) /\ Len(t) = Len(s) + 1 /\ Len(s) \in Nat /\ MaxItems \in Nat
      /\ \A v : Contains(t, v) <=> Contains(s, v) \/ v = u
  BY Appending, QueueAssumption DEF Store, QueueAssumption
<1> HIDE DEF t
<1>2. CASE Len(t) > MaxItems
  <2>1. t # << >>
    BY <1>1
  <2>2. /\ Tail(t) \in Seq(S) /\ Len(Tail(t)) = Len(t) - 1 /\ Head(t) \in S
        /\ \A v : Contains(t, v) /\ v # Head(t) => Contains(Tail(t), v)
    BY <1>1, <2>1, Tailing
  <2>3. Trimmed(t) = Tail(t) /\ Evicted(t) = {Head(t)}
    BY <1>2 DEF Trimmed, Evicted
  <2> QED BY <1>1, <2>2, <2>3 DEF t
<1>3. CASE ~(Len(t) > MaxItems)
  BY <1>1, <1>3 DEF Trimmed, Evicted, t
<1> QED BY <1>2, <1>3
-----------------------------------------------------------------------------
(* The inductive invariant *)

Asked(u) == \E r \in Requests : request[r].update = u
Queued(u) == Contains(queue, u)
Worked(u) == \E w \in Workers : worker[w].update = u
Over(u) == ended[u] # "no"
Known == Updates \ forgotten

(* A request and a worker that hold no update are free. *)
Shapes ==
  /\ \A r \in Requests : request[r].update = None => request[r] = NoRequest
  /\ \A w \in Workers : /\ worker[w].at = "get" <=> worker[w].update = None
                        /\ worker[w].at = "debounce" => IsLate(worker[w].update)

(* A lock's list has every worker at that lock once, and no other. *)
Locks ==
  /\ \A w \in Workers : \A a \in Actors :
       worker[w].at = "lock" /\ Actor[worker[w].update] = a => Contains(actorLock[a], w)
  /\ \A a \in Actors : \A k \in 1..Len(actorLock[a]) :
       LET w == actorLock[a][k] IN worker[w].at = "lock" /\ Actor[worker[w].update] = a
  /\ \A a \in Actors : \A k, l \in 1..Len(actorLock[a]) :
       actorLock[a][k] = actorLock[a][l] => k = l

(* No two requests, positions or workers have the same update. *)
OneRequest == \A r, q \in Requests :
  request[r].update \in Known /\ request[r].update = request[q].update => r = q
OnePosition == \A i, j \in 1..Len(queue) : queue[i] \in Known /\ queue[i] = queue[j] => i = j
OneWorker == \A w, x \in Workers :
  worker[w].update \in Known /\ worker[w].update = worker[x].update => w = x
Single == OneRequest /\ OnePosition /\ OneWorker

(* An update is in one place, and the store knows it while it is anywhere. *)
Placed ==
  \A u \in Known :
    /\ Asked(u) => ~Queued(u) /\ ~Worked(u) /\ ~Over(u)
    /\ Queued(u) => ~Worked(u) /\ ~Over(u)
    /\ Worked(u) => ~Over(u)
    /\ (Asked(u) \/ Queued(u) \/ Worked(u) \/ Over(u)) => Contains(seen, u)
    /\ Contains(accepted, u) <=> (Queued(u) \/ Worked(u) \/ Over(u))

(* While an update is queued, those accepted after it are queued behind it. *)
Once == \A i, j \in 1..Len(accepted) : accepted[i] = accepted[j] => i = j
Behind ==
  \A i, j \in 1..Len(accepted) : \A k \in 1..Len(queue) :
    /\ i < j /\ accepted[i] \in Known /\ accepted[j] \in Known
    /\ queue[k] = accepted[i]
    => \E l \in 1..Len(queue) : k < l /\ queue[l] = accepted[j]
Ranked == Once /\ Behind

(* New messages of an actor stand in its lock in the order of acceptance. *)
Fifo ==
  \A i, j \in 1..Len(accepted) : \A a \in Actors : \A k, l \in 1..Len(actorLock[a]) :
    /\ i < j /\ accepted[i] \in Known /\ accepted[j] \in Known
    /\ ~IsLate(accepted[i]) /\ ~IsLate(accepted[j])
    /\ worker[actorLock[a][k]].update = accepted[i]
    /\ worker[actorLock[a][l]].update = accepted[j]
    => k < l

IInv == TypeOK /\ Shapes /\ Locks /\ Single /\ Placed /\ Ranked /\ Fifo

-----------------------------------------------------------------------------
(* Types and shapes *)

LEMMA Sizes ==
  /\ QueueMax \in Nat /\ QueueMax > 0 /\ MaxItems \in Nat /\ MaxItems > 0
  /\ Attempts \in Nat /\ 0 \in 0..Attempts /\ 1 \in 0..Attempts
<1>1. QueueMax \in Nat \ {0} /\ MaxItems \in Nat \ {0} /\ Attempts \in Nat \ {0}
  BY QueueAssumption DEF QueueAssumption
<1> QED BY <1>1

LEMMA Waits ==
  ASSUME TypeOK, Shapes, NEW r \in Requests, request[r] # NoRequest
  PROVE  request[r].update \in Updates /\ request[r].heard \in BOOLEAN
<1>1. request[r].update # None
  BY DEF Shapes
<1> QED BY <1>1 DEF TypeOK

LEMMA Works ==
  ASSUME TypeOK, Shapes, NEW w \in Workers, worker[w].at # "get"
  PROVE  worker[w].update \in Updates
<1>1. worker[w].update # None
  BY DEF Shapes
<1> QED BY <1>1 DEF TypeOK

LEMMA HeadOfQueue ==
  ASSUME TypeOK, queue # << >>
  PROVE  /\ Head(queue) \in Updates /\ Tail(queue) \in Seq(Updates) /\ Head(queue) = queue[1]
         /\ Len(queue) \in Nat \ {0} /\ Len(Tail(queue)) = Len(queue) - 1
         /\ \A i \in 1..(Len(queue) - 1) : Tail(queue)[i] = queue[i + 1]
<1>1. queue \in Seq(Updates)
  BY DEF TypeOK
<1> QED BY <1>1, Tailing

LEMMA Entering ==
  ASSUME TypeOK, NEW u \in Updates, Enter(u)
  PROVE  /\ queue' \in Seq(Updates) /\ Len(queue') = Len(queue) + 1
         /\ accepted' \in Seq(Updates)
<1>1. queue \in Seq(Updates) /\ accepted \in Seq(Updates)
  BY DEF TypeOK
<1>2. queue' = Append(queue, u) /\ (accepted' = accepted \/ accepted' = Append(accepted, u))
  BY DEF Enter
<1>3. queue' \in Seq(Updates) /\ Len(queue') = Len(queue) + 1
  BY <1>1, <1>2, Appending
<1>4. Append(accepted, u) \in Seq(Updates)
  BY <1>1, Appending
<1> QED BY <1>1, <1>2, <1>3, <1>4

(* A retry leaves the worker where it is, with its update. *)
LEMMA Retrying ==
  ASSUME TypeOK, NEW w \in Workers, HandlerRaises(w)
  PROVE  /\ worker' \in [Workers -> [at : {"get", "debounce", "lock"},
                                     update : Updates \cup {None}, attempt : 0 .. Attempts]]
         /\ \A x \in Workers : worker'[x].at = worker[x].at /\ worker'[x].update = worker[x].update
<1>1. worker \in [Workers -> [at : {"get", "debounce", "lock"},
                              update : Updates \cup {None}, attempt : 0 .. Attempts]]
  BY DEF TypeOK
<1>2. worker[w].attempt \in 0..Attempts /\ worker[w].attempt < Attempts
  BY <1>1 DEF HandlerRaises
<1>3. PICK n \in 0..Attempts : worker' = [worker EXCEPT ![w].attempt = n]
  <2>1. worker[w].attempt + 1 \in 0..Attempts
    BY <1>2, Sizes
  <2> QED BY <2>1 DEF HandlerRaises
<1>4. /\ worker'[w].at = worker[w].at /\ worker'[w].update = worker[w].update
      /\ \A x \in Workers : x # w => worker'[x] = worker[x]
  BY <1>1, <1>3
<1>5. worker' \in [Workers -> [at : {"get", "debounce", "lock"},
                               update : Updates \cup {None}, attempt : 0 .. Attempts]]
  BY <1>1, <1>3
<1> QED BY <1>4, <1>5

LEMMA LockTail ==
  ASSUME TypeOK, Shapes, Locks, NEW w \in Workers, Running(w),
         Actor[worker[w].update] # NoActor
  PROVE  LET a == Actor[worker[w].update]
         IN /\ a \in Actors
            /\ actorLock[a] # << >> /\ actorLock[a][1] = w
            /\ Tail(actorLock[a]) \in Seq(Workers)
            /\ Len(actorLock[a]) \in Nat \ {0} /\ Len(Tail(actorLock[a])) = Len(actorLock[a]) - 1
            /\ \A k \in 1..(Len(actorLock[a]) - 1) : Tail(actorLock[a])[k] = actorLock[a][k + 1]
<1> DEFINE a == Actor[worker[w].update]
<1>1. worker[w].update \in Updates /\ worker[w].at = "lock"
  BY Works DEF Running
<1>2. a \in Actors
  BY <1>1 DEF Actors
<1>3. Contains(actorLock[a], w) /\ actorLock[a] \in Seq(Workers)
  BY <1>1, <1>2 DEF Locks, TypeOK
<1>4. actorLock[a] # << >>
  BY <1>3 DEF Contains
<1>5. Head(actorLock[a]) = w
  BY DEF Running
<1> HIDE DEF a
<1>6. /\ Tail(actorLock[a]) \in Seq(Workers)
      /\ Len(actorLock[a]) \in Nat \ {0} /\ Len(Tail(actorLock[a])) = Len(actorLock[a]) - 1
      /\ \A k \in 1..(Len(actorLock[a]) - 1) : Tail(actorLock[a])[k] = actorLock[a][k + 1]
      /\ Head(actorLock[a]) = actorLock[a][1]
  BY <1>3, <1>4, Tailing
<1> QED BY <1>2, <1>4, <1>5, <1>6 DEF a

LEMMA Joining ==
  ASSUME TypeOK, NEW w \in Workers, NEW u \in Updates, JoinLock(w, u)
  PROVE  /\ worker' = [worker EXCEPT ![w] = [at |-> "lock", update |-> u, attempt |-> 1]]
         /\ worker' \in [Workers -> [at : {"get", "debounce", "lock"},
                                     update : Updates \cup {None}, attempt : 0 .. Attempts]]
         /\ actorLock' \in [Actors -> Seq(Workers)]
         /\ \A a \in Actors : actorLock'[a] = IF a = Actor[u] THEN Append(actorLock[a], w)
                                              ELSE actorLock[a]
<1>1. [at |-> "lock", update |-> u, attempt |-> 1]
        \in [at : {"get", "debounce", "lock"}, update : Updates \cup {None}, attempt : 0 .. Attempts]
  BY Sizes
<1>2. worker' = [worker EXCEPT ![w] = [at |-> "lock", update |-> u, attempt |-> 1]]
  BY DEF JoinLock
<1>3. worker' \in [Workers -> [at : {"get", "debounce", "lock"},
                              update : Updates \cup {None}, attempt : 0 .. Attempts]]
  BY <1>1, <1>2 DEF TypeOK
<1>4. CASE Actor[u] = NoActor
  BY <1>2, <1>3, <1>4 DEF Actors, JoinLock, TypeOK
<1>5. CASE Actor[u] # NoActor
  <2>1. Actor[u] \in Actors
    BY <1>5 DEF Actors
  <2>2. actorLock[Actor[u]] \in Seq(Workers)
    BY <2>1 DEF TypeOK
  <2>3. Append(actorLock[Actor[u]], w) \in Seq(Workers)
    BY <2>2, Appending
  <2>4. actorLock' = [actorLock EXCEPT ![Actor[u]] = Append(actorLock[Actor[u]], w)]
    BY <1>5 DEF JoinLock
  <2>5. actorLock \in [Actors -> Seq(Workers)]
    BY DEF TypeOK
  <2>6. /\ actorLock' \in [Actors -> Seq(Workers)]
        /\ \A a \in Actors : actorLock'[a] = IF a = Actor[u] THEN Append(actorLock[Actor[u]], w)
                                              ELSE actorLock[a]
    BY <2>1, <2>3, <2>4, <2>5
  <2> QED BY <1>2, <1>3, <2>6
<1> QED BY <1>4, <1>5

LEMMA Typing ==
  ASSUME TypeOK, Shapes, Locks, [Next]_vars
  PROVE  TypeOK'
<1>d. /\ QueueMax \in Nat /\ MaxItems \in Nat /\ Attempts \in Nat
      /\ 0 \in 0..Attempts /\ 0 <= QueueMax /\ 0 <= MaxItems
  BY Sizes
<1>e. Len(queue) \in Nat /\ Len(queue) <= QueueMax /\ Len(seen) \in Nat /\ Len(seen) <= MaxItems
  <2>1. queue \in Seq(Updates) /\ Len(queue) <= QueueMax /\ seen \in Seq(Updates) /\ Len(seen) <= MaxItems
    BY DEF TypeOK
  <2>2. Len(queue) \in Nat /\ Len(seen) \in Nat
    BY <2>1
  <2> QED BY <2>1, <2>2
<1>1. ASSUME NEW u \in Updates, EnqueueDuplicate(u) PROVE TypeOK'
  <2>1. seen' \in Seq(Updates) /\ Len(seen') <= MaxItems
    BY <1>1, Moving DEF EnqueueDuplicate, TypeOK
  <2> QED BY <1>1, <2>1 DEF EnqueueDuplicate, Acknowledge, TypeOK
<1>r. ASSUME NEW u \in Updates, Reserve(u)
      PROVE  seen' \in Seq(Updates) /\ Len(seen') <= MaxItems /\ forgotten' \subseteq Updates
  BY <1>r, Reserving DEF Reserve, TypeOK
<1>2. ASSUME NEW u \in Updates, EnqueueAccepted(u) PROVE TypeOK'
  <2>1. /\ queue' \in Seq(Updates) /\ Len(queue') = Len(queue) + 1 /\ accepted' \in Seq(Updates)
    BY <1>2, Entering DEF EnqueueAccepted
  <2>2. Len(queue') <= QueueMax
    BY <1>2, <1>d, <1>e, <2>1 DEF EnqueueAccepted
  <2>3. seen' \in Seq(Updates) /\ Len(seen') <= MaxItems /\ forgotten' \subseteq Updates
    BY <1>2, <1>r DEF EnqueueAccepted
  <2> QED BY <1>2, <2>1, <2>2, <2>3 DEF EnqueueAccepted, Acknowledge, TypeOK
<1>3. ASSUME NEW r \in Requests, NEW u \in Updates, EnqueueWait(r, u) PROVE TypeOK'
  <2>1. seen' \in Seq(Updates) /\ Len(seen') <= MaxItems /\ forgotten' \subseteq Updates
    BY <1>3, <1>r DEF EnqueueWait
  <2> QED BY <1>3, <2>1 DEF EnqueueWait, TypeOK
<1>4. ASSUME NEW r \in Requests, PutResumes(r) PROVE TypeOK'
  <2>1. request[r].update \in Updates
    BY <1>4, Waits DEF PutResumes
  <2>2. /\ queue' \in Seq(Updates) /\ Len(queue') = Len(queue) + 1 /\ accepted' \in Seq(Updates)
    BY <1>4, <2>1, Entering DEF PutResumes
  <2>3. Len(queue') <= QueueMax
    BY <1>4, <1>d, <1>e, <2>2 DEF PutResumes
  <2>4. request' \in [Requests -> [update : Updates \cup {None}, heard : BOOLEAN]]
    <3>1. NoRequest \in [update : Updates \cup {None}, heard : BOOLEAN]
      BY DEF NoRequest
    <3>2. request' = [request EXCEPT ![r] = NoRequest]
      BY <1>4 DEF PutResumes
    <3> QED BY <3>1, <3>2 DEF TypeOK
  <2>5. telegram' \in [Updates -> {"pending", "acked", "acked earlier"}]
    BY <1>4, <2>1 DEF PutResumes, Acknowledge, TypeOK
  <2>6. UNCHANGED <<startup, seen, worker, actorLock, ended, forgotten>>
    BY <1>4 DEF PutResumes
  <2> QED BY <2>2, <2>3, <2>4, <2>5, <2>6 DEF TypeOK
<1>5. ASSUME NEW r \in Requests, PutTimesOut(r) PROVE TypeOK'
  <2>0. seen \in Seq(Updates) /\ seen' = Pop(seen, request[r].update)
    BY <1>5 DEF PutTimesOut, TypeOK
  <2>1. seen' \in Seq(Updates) /\ Len(seen') <= Len(seen)
    BY <2>0, Popping
  <2>2. Len(seen') <= MaxItems
    <3>1. Len(seen') \in Nat
      BY <2>1
    <3> QED BY <1>d, <1>e, <2>1, <3>1
  <2>3. request' \in [Requests -> [update : Updates \cup {None}, heard : BOOLEAN]]
    <3>1. NoRequest \in [update : Updates \cup {None}, heard : BOOLEAN]
      BY DEF NoRequest
    <3>2. request' = [request EXCEPT ![r] = NoRequest]
      BY <1>5 DEF PutTimesOut
    <3> QED BY <3>1, <3>2 DEF TypeOK
  <2>4. UNCHANGED <<telegram, startup, queue, worker, actorLock, ended, accepted, forgotten>>
    BY <1>5 DEF PutTimesOut
  <2> QED BY <2>1, <2>2, <2>3, <2>4 DEF TypeOK
<1>6. ASSUME NEW r \in Requests, Disconnect(r) PROVE TypeOK'
  <2>1. request' \in [Requests -> [update : Updates \cup {None}, heard : BOOLEAN]]
    <3>1. request \in [Requests -> [update : Updates \cup {None}, heard : BOOLEAN]]
      BY DEF TypeOK
    <3>2. request' = [request EXCEPT ![r].heard = FALSE]
      BY <1>6 DEF Disconnect
    <3> QED BY <3>1, <3>2
  <2> QED BY <1>6, <2>1 DEF Disconnect, TypeOK
<1>7. ASSUME NEW w \in Workers, GetFresh(w) PROVE TypeOK'
  <2>1. Head(queue) \in Updates /\ queue' \in Seq(Updates) /\ Len(queue') = Len(queue) - 1
    BY <1>7, HeadOfQueue DEF GetFresh
  <2>2. Len(queue') <= QueueMax
    BY <1>d, <1>e, <2>1
  <2>3. /\ worker' \in [Workers -> [at : {"get", "debounce", "lock"},
                                    update : Updates \cup {None}, attempt : 0 .. Attempts]]
        /\ actorLock' \in [Actors -> Seq(Workers)]
    BY <1>7, <2>1, Joining DEF GetFresh
  <2> QED BY <1>7, <2>1, <2>2, <2>3 DEF GetFresh, TypeOK
<1>8. ASSUME NEW w \in Workers, GetLate(w) PROVE TypeOK'
  <2>1. Head(queue) \in Updates /\ queue' \in Seq(Updates) /\ Len(queue') = Len(queue) - 1
    BY <1>8, HeadOfQueue DEF GetLate
  <2>2. Len(queue') <= QueueMax
    BY <1>d, <1>e, <2>1
  <2> QED BY <1>8, <1>d, <2>1, <2>2 DEF GetLate, TypeOK
<1>9. ASSUME NEW w \in Workers, DebounceOver(w) PROVE TypeOK'
  <2>1. worker[w].update \in Updates
    BY <1>9, Works DEF DebounceOver
  <2>2. /\ worker' \in [Workers -> [at : {"get", "debounce", "lock"},
                                    update : Updates \cup {None}, attempt : 0 .. Attempts]]
        /\ actorLock' \in [Actors -> Seq(Workers)]
    BY <1>9, <2>1, Joining DEF DebounceOver
  <2> QED BY <1>9, <2>2 DEF DebounceOver, TypeOK
<1>10. ASSUME NEW w \in Workers, NEW how \in {"handled", "dropped"}, Running(w), Finish(w, how)
       PROVE  TypeOK'
  <2>1. worker[w].update \in Updates
    BY <1>10, Works DEF Running
  <2>2. seen' \in Seq(Updates) /\ Len(seen') <= MaxItems
    BY <1>10, <2>1, Moving DEF Finish, TypeOK
  <2>3. actorLock' \in [Actors -> Seq(Workers)]
    BY <1>10, LockTail DEF Finish, TypeOK
  <2>4. IdleWorker \in [at : {"get", "debounce", "lock"},
                        update : Updates \cup {None}, attempt : 0 .. Attempts]
    BY <1>d DEF IdleWorker
  <2> QED BY <1>10, <2>1, <2>2, <2>3, <2>4 DEF Finish, TypeOK
<1>11. ASSUME NEW w \in Workers, HandlerRaises(w) PROVE TypeOK'
  <2>1. worker' \in [Workers -> [at : {"get", "debounce", "lock"},
                                 update : Updates \cup {None}, attempt : 0 .. Attempts]]
    BY <1>11, Retrying
  <2> QED BY <1>11, <2>1 DEF HandlerRaises, TypeOK
<1>12. CASE Restart
  <2>1. /\ request' = [r \in Requests |-> NoRequest] /\ worker' = [w \in Workers |-> IdleWorker]
        /\ seen' = << >> /\ queue' = << >> /\ accepted' = << >> /\ forgotten' = {}
        /\ actorLock' = [a \in Actors |-> << >>] /\ ended' = [u \in Updates |-> "no"]
    BY <1>12 DEF Restart, ClearProcess
  <2>2. /\ NoRequest \in [update : Updates \cup {None}, heard : BOOLEAN]
        /\ IdleWorker \in [at : {"get", "debounce", "lock"},
                            update : Updates \cup {None}, attempt : 0 .. Attempts]
    BY <1>d DEF NoRequest, IdleWorker
  <2>3. << >> \in Seq(Updates) /\ << >> \in Seq(Workers) /\ Len(<< >>) = 0
    OBVIOUS
  <2>4. /\ telegram' \in [Updates -> {"pending", "acked", "acked earlier"}]
        /\ startup' \in Updates \cup {0}
    BY <1>12 DEF Restart, TypeOK
  <2>5. /\ request' \in [Requests -> [update : Updates \cup {None}, heard : BOOLEAN]]
        /\ worker' \in [Workers -> [at : {"get", "debounce", "lock"},
                                    update : Updates \cup {None}, attempt : 0 .. Attempts]]
    BY <2>1, <2>2
  <2>6. actorLock' \in [Actors -> Seq(Workers)] /\ ended' \in [Updates -> {"no", "handled", "dropped"}]
    BY <2>1, <2>3
  <2>7. /\ seen' \in Seq(Updates) /\ Len(seen') <= MaxItems
        /\ queue' \in Seq(Updates) /\ Len(queue') <= QueueMax
        /\ accepted' \in Seq(Updates) /\ forgotten' \subseteq Updates
    BY <1>d, <2>1, <2>3
  <2> QED BY <2>4, <2>5, <2>6, <2>7 DEF TypeOK
<1>13. CASE UNCHANGED vars
  BY <1>13 DEF vars, TypeOK
<1> QED BY <1>1, <1>2, <1>3, <1>4, <1>5, <1>6, <1>7, <1>8, <1>9, <1>10, <1>11, <1>12, <1>13
        DEF Next, HandlerReturns, LastAttemptRaises

LEMMA NotNone == \A u \in Updates : u # None
BY QueueAssumption DEF QueueAssumption

LEMMA Shaping ==
  ASSUME TypeOK, Shapes, Locks, [Next]_vars
  PROVE  Shapes'
<1> DEFINE Free == \A r \in Requests : request[r].update = None => request[r] = NoRequest
           Idle == \A w \in Workers : /\ worker[w].at = "get" <=> worker[w].update = None
                                      /\ worker[w].at = "debounce" => IsLate(worker[w].update)
<1>a. Shapes => Free /\ Idle
  BY DEF Shapes
<1>b. Free' /\ Idle' => Shapes'
  BY DEF Shapes
<1>f. UNCHANGED request => Free'
  BY <1>a
<1>i. UNCHANGED <<worker, startup>> => Idle'
  BY <1>a DEF IsLate
<1>g. ASSUME NEW r \in Requests, request' = [request EXCEPT ![r] = NoRequest] PROVE Free'
  BY <1>a, <1>g DEF TypeOK, NoRequest
<1>j. ASSUME NEW w \in Workers, NEW u \in Updates, JoinLock(w, u), UNCHANGED startup PROVE Idle'
  <2>1. worker' = [worker EXCEPT ![w] = [at |-> "lock", update |-> u, attempt |-> 1]]
    BY <1>j DEF JoinLock
  <2>2. worker'[w].at = "lock" /\ worker'[w].update = u /\ u # None
    BY <2>1, NotNone DEF TypeOK
  <2>3. \A x \in Workers : x # w => worker'[x] = worker[x]
    BY <2>1 DEF TypeOK
  <2> QED BY <1>a, <1>j, <2>2, <2>3 DEF IsLate
<1>1. ASSUME NEW u \in Updates, EnqueueDuplicate(u) PROVE Shapes'
  BY <1>1, <1>b, <1>f, <1>i DEF EnqueueDuplicate
<1>2. ASSUME NEW u \in Updates, EnqueueAccepted(u) PROVE Shapes'
  BY <1>2, <1>b, <1>f, <1>i DEF EnqueueAccepted
<1>3. ASSUME NEW r \in Requests, NEW u \in Updates, EnqueueWait(r, u) PROVE Shapes'
  <2>1. Free'
    BY <1>a, <1>3, NotNone DEF EnqueueWait, TypeOK
  <2> QED BY <1>3, <1>b, <1>i, <2>1 DEF EnqueueWait
<1>4. ASSUME NEW r \in Requests, PutResumes(r) PROVE Shapes'
  BY <1>4, <1>b, <1>g, <1>i DEF PutResumes
<1>5. ASSUME NEW r \in Requests, PutTimesOut(r) PROVE Shapes'
  BY <1>5, <1>b, <1>g, <1>i DEF PutTimesOut
<1>6. ASSUME NEW r \in Requests, Disconnect(r) PROVE Shapes'
  <2>1. request' = [request EXCEPT ![r].heard = FALSE] /\ request[r].heard
    BY <1>6 DEF Disconnect
  <2>2. request[r].update # None
    BY <1>a, <2>1 DEF NoRequest
  <2>3. request'[r].update = request[r].update
    BY <2>1 DEF TypeOK
  <2>4. \A q \in Requests : q # r => request'[q] = request[q]
    BY <2>1 DEF TypeOK
  <2>5. Free'
    BY <1>a, <2>2, <2>3, <2>4
  <2> QED BY <1>6, <1>b, <1>i, <2>5 DEF Disconnect
<1>7. ASSUME NEW w \in Workers, GetFresh(w) PROVE Shapes'
  <2>1. Head(queue) \in Updates
    BY <1>7, HeadOfQueue DEF GetFresh
  <2> QED BY <1>7, <1>b, <1>f, <1>j, <2>1 DEF GetFresh
<1>8. ASSUME NEW w \in Workers, GetLate(w) PROVE Shapes'
  <2>1. Head(queue) \in Updates /\ IsLate(Head(queue))
    BY <1>8, HeadOfQueue DEF GetLate
  <2>2. worker' = [worker EXCEPT ![w] = [at |-> "debounce", update |-> Head(queue), attempt |-> 0]]
    BY <1>8 DEF GetLate
  <2>3. worker'[w].at = "debounce" /\ worker'[w].update = Head(queue) /\ Head(queue) # None
    BY <2>1, <2>2, NotNone DEF TypeOK
  <2>4. \A x \in Workers : x # w => worker'[x] = worker[x]
    BY <2>2 DEF TypeOK
  <2>5. UNCHANGED startup
    BY <1>8 DEF GetLate
  <2>6. Idle'
    BY <1>a, <2>1, <2>3, <2>4, <2>5 DEF IsLate
  <2> QED BY <1>8, <1>b, <1>f, <2>6 DEF GetLate
<1>9. ASSUME NEW w \in Workers, DebounceOver(w) PROVE Shapes'
  <2>1. worker[w].update \in Updates
    BY <1>9, Works DEF DebounceOver
  <2> QED BY <1>9, <1>b, <1>f, <1>j, <2>1 DEF DebounceOver
<1>10. ASSUME NEW w \in Workers, NEW how, Running(w), Finish(w, how) PROVE Shapes'
  <2>1. worker' = [worker EXCEPT ![w] = IdleWorker] /\ UNCHANGED <<startup, request>>
    BY <1>10 DEF Finish
  <2>2. Idle'
    BY <1>a, <2>1 DEF TypeOK, IdleWorker, IsLate
  <2> QED BY <1>b, <1>f, <2>1, <2>2
<1>11. ASSUME NEW w \in Workers, HandlerRaises(w) PROVE Shapes'
  <2>1. UNCHANGED <<startup, request>>
    BY <1>11 DEF HandlerRaises
  <2>2. \A x \in Workers : worker'[x].at = worker[x].at /\ worker'[x].update = worker[x].update
    BY <1>11, Retrying
  <2>3. Idle'
    BY <1>a, <2>1, <2>2 DEF IsLate
  <2> QED BY <1>b, <1>f, <2>1, <2>3
<1>12. CASE Restart
  <2>1. request' = [r \in Requests |-> NoRequest] /\ worker' = [w \in Workers |-> IdleWorker]
    BY <1>12 DEF Restart, ClearProcess
  <2> QED BY <1>b, <2>1 DEF NoRequest, IdleWorker
<1>13. CASE UNCHANGED vars
  BY <1>13, <1>b, <1>f, <1>i DEF vars
<1> QED BY <1>1, <1>2, <1>3, <1>4, <1>5, <1>6, <1>7, <1>8, <1>9, <1>10, <1>11, <1>12, <1>13
        DEF Next, HandlerReturns, LastAttemptRaises

-----------------------------------------------------------------------------
(* The locks *)

LEMMA LockMembers ==
  ASSUME TypeOK, NEW a \in Actors
  PROVE  actorLock[a] \in Seq(Workers) /\ \A k \in 1..Len(actorLock[a]) : actorLock[a][k] \in Workers
<1>1. actorLock[a] \in Seq(Workers)
  BY DEF TypeOK
<1>2. \A s \in Seq(Workers) : \A k \in 1..Len(s) : s[k] \in Workers
  OBVIOUS
<1> QED BY <1>1, <1>2

LEMMA Outside ==
  ASSUME TypeOK, Locks, NEW w \in Workers, worker[w].at # "lock", NEW a \in Actors
  PROVE  \A k \in 1..Len(actorLock[a]) : actorLock[a][k] # w
BY DEF Locks

LEMMA JoinLocks ==
  ASSUME TypeOK, Shapes, Locks, NEW w \in Workers, NEW u \in Updates,
         worker[w].at # "lock", JoinLock(w, u)
  PROVE  Locks'
<1>1. \A a \in Actors : actorLock'[a] = IF a = Actor[u] THEN Append(actorLock[a], w)
                                         ELSE actorLock[a]
  BY Joining
<1>2. /\ worker'[w].at = "lock" /\ worker'[w].update = u
      /\ \A x \in Workers : x # w => worker'[x] = worker[x]
  BY DEF JoinLock, TypeOK
<1>4. ASSUME NEW a \in Actors
      PROVE  /\ \A x \in Workers : worker'[x].at = "lock" /\ Actor[worker'[x].update] = a
                                   => Contains(actorLock'[a], x)
             /\ \A k \in 1..Len(actorLock'[a]) : /\ worker'[actorLock'[a][k]].at = "lock"
                                                 /\ Actor[worker'[actorLock'[a][k]].update] = a
             /\ \A k, l \in 1..Len(actorLock'[a]) : actorLock'[a][k] = actorLock'[a][l] => k = l
  <2>1. /\ \A x \in Workers : worker[x].at = "lock" /\ Actor[worker[x].update] = a
                              => Contains(actorLock[a], x)
        /\ \A k \in 1..Len(actorLock[a]) : /\ worker[actorLock[a][k]].at = "lock"
                                           /\ Actor[worker[actorLock[a][k]].update] = a
        /\ \A k, l \in 1..Len(actorLock[a]) : actorLock[a][k] = actorLock[a][l] => k = l
    BY DEF Locks
  <2>2. \A k \in 1..Len(actorLock[a]) : actorLock[a][k] # w /\ actorLock[a][k] \in Workers
    BY LockMembers, Outside
  <2>3. CASE a # Actor[u]
    <3>1. actorLock'[a] = actorLock[a]
      BY <1>1, <2>3
    <3> QED BY <1>2, <2>1, <2>2, <2>3, <3>1
  <2>4. CASE a = Actor[u]
    <3>1. actorLock'[a] = Append(actorLock[a], w)
      BY <1>1, <2>4
    <3>2. actorLock[a] \in Seq(Workers)
      BY DEF TypeOK
    <3>3. /\ Len(actorLock'[a]) = Len(actorLock[a]) + 1 /\ Len(actorLock[a]) \in Nat
          /\ \A i \in 1..Len(actorLock[a]) : actorLock'[a][i] = actorLock[a][i]
          /\ actorLock'[a][Len(actorLock[a]) + 1] = w
          /\ \A v : Contains(actorLock'[a], v) <=> Contains(actorLock[a], v) \/ v = w
      BY <3>1, <3>2, Appending
    <3>4. \A k \in 1..Len(actorLock'[a]) : k \in 1..Len(actorLock[a]) \/ k = Len(actorLock[a]) + 1
      BY <3>3
    <3>5. \A x \in Workers : worker'[x].at = "lock" /\ Actor[worker'[x].update] = a
                             => Contains(actorLock'[a], x)
      BY <1>2, <2>1, <3>3
    <3>6. \A k \in 1..Len(actorLock'[a]) : /\ worker'[actorLock'[a][k]].at = "lock"
                                           /\ Actor[worker'[actorLock'[a][k]].update] = a
      <4> TAKE k \in 1..Len(actorLock'[a])
      <4>1. CASE k \in 1..Len(actorLock[a])
        <5>1. actorLock'[a][k] = actorLock[a][k]
          BY <3>3, <4>1
        <5> QED BY <1>2, <2>1, <2>2, <4>1, <5>1
      <4>2. CASE k = Len(actorLock[a]) + 1
        <5>1. actorLock'[a][k] = w
          BY <3>3, <4>2
        <5> QED BY <1>2, <2>4, <5>1
      <4> QED BY <3>4, <4>1, <4>2
    <3>7. ASSUME NEW k \in 1..Len(actorLock'[a]), NEW l \in 1..Len(actorLock'[a]),
                 actorLock'[a][k] = actorLock'[a][l]
          PROVE  k = l
      <4>1. CASE k \in 1..Len(actorLock[a]) /\ l \in 1..Len(actorLock[a])
        <5>1. actorLock[a][k] = actorLock[a][l]
          BY <3>3, <3>7, <4>1
        <5> QED BY <2>1, <4>1, <5>1
      <4>2. CASE k \in 1..Len(actorLock[a]) /\ l = Len(actorLock[a]) + 1
        <5>1. actorLock[a][k] = w
          BY <3>3, <3>7, <4>2
        <5> QED BY <2>2, <4>2, <5>1
      <4>3. CASE k = Len(actorLock[a]) + 1 /\ l \in 1..Len(actorLock[a])
        <5>1. actorLock[a][l] = w
          BY <3>3, <3>7, <4>3
        <5> QED BY <2>2, <4>3, <5>1
      <4> QED BY <3>4, <4>1, <4>2, <4>3
    <3> QED BY <3>5, <3>6, <3>7
  <2> QED BY <2>3, <2>4
<1> QED BY <1>4 DEF Locks

LEMMA LeaveLocks ==
  ASSUME TypeOK, Shapes, Locks, NEW w \in Workers, NEW how, Running(w), Finish(w, how)
  PROVE  Locks'
<1> DEFINE b == Actor[worker[w].update]
<1>1. /\ worker'[w].at = "get"
      /\ \A x \in Workers : x # w => worker'[x] = worker[x]
  BY DEF Finish, TypeOK, IdleWorker
<1>2. \A a \in Actors : a # b => actorLock'[a] = actorLock[a]
  <2>1. CASE b = NoActor
    BY <2>1 DEF Finish
  <2>2. CASE b # NoActor
    BY <2>2 DEF Finish, TypeOK
  <2> QED BY <2>1, <2>2
<1>3. b # NoActor => b \in Actors /\ actorLock'[b] = Tail(actorLock[b])
  <2> SUFFICES ASSUME b # NoActor PROVE b \in Actors /\ actorLock'[b] = Tail(actorLock[b])
    OBVIOUS
  <2>1. b \in Actors
    BY LockTail
  <2> QED BY <2>1 DEF Finish, TypeOK
<1>b. NoActor \notin Actors
  BY DEF Actors
<1>4. ASSUME NEW a \in Actors
      PROVE  /\ \A x \in Workers : worker'[x].at = "lock" /\ Actor[worker'[x].update] = a
                                   => Contains(actorLock'[a], x)
             /\ \A k \in 1..Len(actorLock'[a]) : /\ worker'[actorLock'[a][k]].at = "lock"
                                                 /\ Actor[worker'[actorLock'[a][k]].update] = a
             /\ \A k, l \in 1..Len(actorLock'[a]) : actorLock'[a][k] = actorLock'[a][l] => k = l
  <2>1. /\ \A x \in Workers : worker[x].at = "lock" /\ Actor[worker[x].update] = a
                              => Contains(actorLock[a], x)
        /\ \A k \in 1..Len(actorLock[a]) : /\ worker[actorLock[a][k]].at = "lock"
                                           /\ Actor[worker[actorLock[a][k]].update] = a
        /\ \A k, l \in 1..Len(actorLock[a]) : actorLock[a][k] = actorLock[a][l] => k = l
    BY DEF Locks
  <2>2. actorLock[a] \in Seq(Workers) /\ \A k \in 1..Len(actorLock[a]) : actorLock[a][k] \in Workers
    BY LockMembers
  <2>3. CASE a # b
    <3>1. actorLock'[a] = actorLock[a]
      BY <1>2, <2>3
    <3>2. \A k \in 1..Len(actorLock[a]) : actorLock[a][k] # w
      BY <2>1, <2>3
    <3> QED BY <1>1, <2>1, <2>2, <3>1, <3>2
  <2>4. CASE a = b
    <3>0. b # NoActor
      BY <1>b, <2>4
    <3>1. actorLock'[a] = Tail(actorLock[a]) /\ actorLock[a] # << >> /\ actorLock[a][1] = w
      BY <1>3, <2>4, <3>0, LockTail
    <3>2. /\ Len(actorLock'[a]) = Len(actorLock[a]) - 1 /\ Len(actorLock[a]) \in Nat \ {0}
          /\ \A i \in 1..(Len(actorLock[a]) - 1) : actorLock'[a][i] = actorLock[a][i + 1]
          /\ \A x : Contains(actorLock[a], x) /\ x # actorLock[a][1] => Contains(actorLock'[a], x)
      BY <2>2, <3>1, Tailing
    <3>3. \A k \in 1..Len(actorLock'[a]) : /\ k \in 1..(Len(actorLock[a]) - 1)
                                           /\ k + 1 \in 1..Len(actorLock[a]) /\ k + 1 # 1
                                           /\ 1 \in 1..Len(actorLock[a])
                                           /\ actorLock'[a][k] = actorLock[a][k + 1]
      BY <3>2
    <3>4. \A k \in 1..Len(actorLock'[a]) : actorLock'[a][k] # w /\ actorLock'[a][k] \in Workers
      BY <2>1, <2>2, <3>1, <3>3
    <3>5. \A x \in Workers : worker'[x].at = "lock" /\ Actor[worker'[x].update] = a
                             => Contains(actorLock'[a], x)
      BY <1>1, <2>1, <3>1, <3>2
    <3>6. \A k \in 1..Len(actorLock'[a]) : /\ worker'[actorLock'[a][k]].at = "lock"
                                           /\ Actor[worker'[actorLock'[a][k]].update] = a
      BY <1>1, <2>1, <3>3, <3>4
    <3>7. \A k, l \in 1..Len(actorLock'[a]) : actorLock'[a][k] = actorLock'[a][l] => k = l
      <4> SUFFICES ASSUME NEW k \in 1..Len(actorLock'[a]), NEW l \in 1..Len(actorLock'[a]),
                          actorLock'[a][k] = actorLock'[a][l]
                   PROVE  k = l
        OBVIOUS
      <4>0. k + 1 \in 1..Len(actorLock[a]) /\ l + 1 \in 1..Len(actorLock[a])
        BY <3>3
      <4>3. actorLock[a][k + 1] = actorLock[a][l + 1]
        BY <3>3
      <4>1. k + 1 = l + 1
        BY <2>1, <4>0, <4>3
      <4>2. k \in Int /\ l \in Int
        OBVIOUS
      <4> QED BY <4>1, <4>2
    <3> QED BY <3>5, <3>6, <3>7
  <2> QED BY <2>3, <2>4
<1> QED BY <1>4 DEF Locks

LEMMA Locking ==
  ASSUME TypeOK, Shapes, Locks, [Next]_vars
  PROVE  Locks'
<1>u. UNCHANGED <<worker, actorLock>> => Locks'
  BY DEF Locks
<1>1. ASSUME NEW u \in Updates, EnqueueDuplicate(u) PROVE Locks'
  BY <1>1, <1>u DEF EnqueueDuplicate
<1>2. ASSUME NEW u \in Updates, EnqueueAccepted(u) PROVE Locks'
  BY <1>2, <1>u DEF EnqueueAccepted
<1>3. ASSUME NEW r \in Requests, NEW u \in Updates, EnqueueWait(r, u) PROVE Locks'
  BY <1>3, <1>u DEF EnqueueWait
<1>4. ASSUME NEW r \in Requests, PutResumes(r) PROVE Locks'
  BY <1>4, <1>u DEF PutResumes
<1>5. ASSUME NEW r \in Requests, PutTimesOut(r) PROVE Locks'
  BY <1>5, <1>u DEF PutTimesOut
<1>6. ASSUME NEW r \in Requests, Disconnect(r) PROVE Locks'
  BY <1>6, <1>u DEF Disconnect
<1>7. ASSUME NEW w \in Workers, GetFresh(w) PROVE Locks'
  <2>1. Head(queue) \in Updates
    BY <1>7, HeadOfQueue DEF GetFresh
  <2> QED BY <1>7, <2>1, JoinLocks DEF GetFresh
<1>8. ASSUME NEW w \in Workers, GetLate(w) PROVE Locks'
  <2>1. /\ worker'[w].at = "debounce" /\ worker[w].at = "get" /\ UNCHANGED actorLock
        /\ \A x \in Workers : x # w => worker'[x] = worker[x]
    BY <1>8 DEF GetLate, TypeOK
  <2>2. \A a \in Actors : \A k \in 1..Len(actorLock[a]) : actorLock[a][k] # w /\ actorLock[a][k] \in Workers
    BY <2>1, LockMembers, Outside
  <2> QED BY <2>1, <2>2 DEF Locks
<1>9. ASSUME NEW w \in Workers, DebounceOver(w) PROVE Locks'
  <2>1. worker[w].update \in Updates
    BY <1>9, Works DEF DebounceOver
  <2> QED BY <1>9, <2>1, JoinLocks DEF DebounceOver
<1>10. ASSUME NEW w \in Workers, NEW how, Running(w), Finish(w, how) PROVE Locks'
  BY <1>10, LeaveLocks
<1>11. ASSUME NEW w \in Workers, HandlerRaises(w) PROVE Locks'
  <2>1. /\ \A x \in Workers : worker'[x].at = worker[x].at /\ worker'[x].update = worker[x].update
        /\ UNCHANGED actorLock
    BY <1>11, Retrying DEF HandlerRaises
  <2>2. \A a \in Actors : \A k \in 1..Len(actorLock[a]) : actorLock[a][k] \in Workers
    BY LockMembers
  <2> QED BY <2>1, <2>2 DEF Locks
<1>12. CASE Restart
  <2>1. worker' = [w \in Workers |-> IdleWorker] /\ actorLock' = [a \in Actors |-> << >>]
    BY <1>12 DEF Restart, ClearProcess
  <2> QED BY <2>1 DEF IdleWorker, Locks
<1>13. CASE UNCHANGED vars
  BY <1>13, <1>u DEF vars
<1> QED BY <1>1, <1>2, <1>3, <1>4, <1>5, <1>6, <1>7, <1>8, <1>9, <1>10, <1>11, <1>12, <1>13
        DEF Next, HandlerReturns, LastAttemptRaises

-----------------------------------------------------------------------------
(* The places of an update *)

LEMMA Reserved ==
  ASSUME TypeOK, Placed, NEW u \in Updates, Reserve(u)
  PROVE  /\ u \in Known => /\ ~Asked(u) /\ ~Queued(u) /\ ~Worked(u) /\ ~Over(u)
                           /\ ~Contains(accepted, u)
         /\ Known' \subseteq Known
         /\ \A v \in Known' : Contains(seen, v) \/ v = u => Contains(seen', v)
<1>1. /\ ~Contains(seen, u) /\ seen' = Trimmed(Store(seen, u))
      /\ forgotten' = forgotten \cup Evicted(Store(seen, u))
  BY DEF Reserve
<1>2. seen \in Seq(Updates) /\ Len(seen) <= MaxItems
  BY DEF TypeOK
<1>3. \A v : /\ Contains(seen, v) \/ v = u
             /\ v \notin Evicted(Store(seen, u))
             => Contains(Trimmed(Store(seen, u)), v)
  BY <1>2, Reserving
<1>4. u \in Known => /\ ~Asked(u) /\ ~Queued(u) /\ ~Worked(u) /\ ~Over(u)
                     /\ ~Contains(accepted, u)
  BY <1>1 DEF Placed
<1>5. Known' \subseteq Known
  BY <1>1 DEF Known
<1>6. \A v \in Known' : v \notin Evicted(Store(seen, u))
  BY <1>1 DEF Known
<1> QED BY <1>1, <1>3, <1>4, <1>5, <1>6

LEMMA Entered ==
  ASSUME TypeOK, NEW u \in Updates, Enter(u)
  PROVE  /\ \A v : Contains(queue', v) <=> Contains(queue, v) \/ v = u
         /\ \A v : Contains(accepted', v) <=> Contains(accepted, v) \/ v = u
         /\ Len(queue) \in Nat /\ Len(queue') = Len(queue) + 1
         /\ \A i \in 1..Len(queue) : queue'[i] = queue[i]
         /\ queue'[Len(queue) + 1] = u
<1>1. queue \in Seq(Updates) /\ accepted \in Seq(Updates)
  BY DEF TypeOK
<1>2. queue' = Append(queue, u)
  BY DEF Enter
<1>3. \A v : Contains(accepted', v) <=> Contains(accepted, v) \/ v = u
  <2>1. CASE Contains(accepted, u)
    BY <2>1 DEF Enter
  <2>2. CASE ~Contains(accepted, u)
    <3>1. accepted' = Append(accepted, u)
      BY <2>2 DEF Enter
    <3> QED BY <1>1, <3>1, Appending
  <2> QED BY <2>1, <2>2
<1> QED BY <1>1, <1>2, <1>3, Appending

(* A job leaves the queue once. *)
LEMMA Got ==
  ASSUME TypeOK, Single, queue # << >>, queue' = Tail(queue)
  PROVE  /\ Head(queue) \in Updates /\ Queued(Head(queue))
         /\ \A v \in Known : Contains(queue', v) <=> Queued(v) /\ v # Head(queue)
         /\ \A i \in 1..Len(queue') : /\ i \in Nat /\ i + 1 \in 1..Len(queue)
                                      /\ queue'[i] = queue[i + 1]
<1>1. /\ Len(queue) \in Nat \ {0} /\ Len(queue') = Len(queue) - 1 /\ Head(queue) = queue[1]
      /\ \A i \in 1..(Len(queue) - 1) : queue'[i] = queue[i + 1]
      /\ Head(queue) \in Updates
  BY HeadOfQueue
<1>2. \A i \in 1..Len(queue') : /\ i \in Nat /\ i + 1 \in 1..Len(queue) /\ i + 1 # 1
                                /\ queue'[i] = queue[i + 1]
  BY <1>1
<1>3. 1 \in 1..Len(queue)
  BY <1>1
<1>4. Queued(Head(queue))
  BY <1>1, <1>3 DEF Queued, Contains
<1>5. ASSUME NEW v \in Known, Contains(queue', v) PROVE Queued(v) /\ v # Head(queue)
  <2>1. PICK i \in 1..Len(queue') : queue'[i] = v
    BY <1>5 DEF Contains
  <2>2. i + 1 \in 1..Len(queue) /\ queue[i + 1] = v /\ i + 1 # 1
    BY <1>2, <2>1
  <2>3. v # queue[1]
    BY <1>3, <2>2 DEF Single, OnePosition
  <2> QED BY <1>1, <2>2, <2>3 DEF Queued, Contains
<1>6. ASSUME NEW v, Queued(v), v # Head(queue) PROVE Contains(queue', v)
  <2>1. queue \in Seq(Updates)
    BY DEF TypeOK
  <2> QED BY <1>6, <2>1, Tailing DEF Queued
<1> QED BY <1>1, <1>2, <1>4, <1>5, <1>6

LEMMA Took ==
  ASSUME TypeOK, Single, Shapes, NEW w \in Workers, worker[w].at = "get",
         NEW job, worker' = [worker EXCEPT ![w] = job], UNCHANGED forgotten,
         job.update \in Known => ~Worked(job.update)
  PROVE  /\ \A v \in Known : Worked(v)' <=> Worked(v) \/ v = job.update
         /\ OneWorker'
<1>1. /\ worker[w].update = None /\ worker'[w] = job
      /\ \A x \in Workers : x # w => worker'[x] = worker[x]
  BY DEF Shapes, TypeOK
<1>2. \A v \in Known : v # None
  BY NotNone DEF Known
<1>3. \A v \in Known : Worked(v)' <=> Worked(v) \/ v = job.update
  BY <1>1, <1>2 DEF Worked
<1>4. Known' = Known
  BY DEF Known
<1>5. ASSUME NEW x \in Workers, NEW y \in Workers, worker'[x].update \in Known,
             worker'[x].update = worker'[y].update
      PROVE  x = y
  BY <1>1, <1>5 DEF Worked, Single, OneWorker
<1> QED BY <1>3, <1>4, <1>5 DEF OneWorker

LEMMA Released ==
  ASSUME TypeOK, Single, NEW w \in Workers, worker[w].update \in Updates,
         worker' = [worker EXCEPT ![w] = IdleWorker], UNCHANGED forgotten
  PROVE  /\ \A v \in Known : Worked(v)' <=> Worked(v) /\ v # worker[w].update
         /\ OneWorker'
<1>1. /\ worker'[w].update = None
      /\ \A x \in Workers : x # w => worker'[x] = worker[x]
  BY DEF TypeOK, IdleWorker
<1>2. \A v \in Known : v # None
  BY NotNone DEF Known
<1>3. \A v \in Known : Worked(v)' <=> Worked(v) /\ v # worker[w].update
  BY <1>1, <1>2 DEF Worked, Single, OneWorker
<1>4. Known' = Known
  BY DEF Known
<1> QED BY <1>1, <1>2, <1>3, <1>4 DEF Single, OneWorker

LEMMA Answered ==
  ASSUME TypeOK, Single, NEW r \in Requests, request' = [request EXCEPT ![r] = NoRequest],
         UNCHANGED forgotten
  PROVE  /\ \A v \in Known : Asked(v)' <=> Asked(v) /\ v # request[r].update
         /\ OneRequest'
<1>1. /\ request'[r].update = None
      /\ \A q \in Requests : q # r => request'[q] = request[q]
  BY DEF TypeOK, NoRequest
<1>2. \A v \in Known : v # None
  BY NotNone DEF Known
<1>3. \A v \in Known : Asked(v)' <=> Asked(v) /\ v # request[r].update
  BY <1>1, <1>2 DEF Asked, Single, OneRequest
<1>4. Known' = Known
  BY DEF Known
<1> QED BY <1>1, <1>2, <1>3, <1>4 DEF Single, OneRequest

LEMMA Placing ==
  ASSUME TypeOK, Shapes, Locks, Single, Placed, [Next]_vars
  PROVE  Single' /\ Placed'
<1>r. ASSUME UNCHANGED request, Known' \subseteq Known
      PROVE  OneRequest' /\ \A v : Asked(v)' <=> Asked(v)
  BY <1>r DEF OneRequest, Single, Asked
<1>q. ASSUME UNCHANGED queue, Known' \subseteq Known
      PROVE  OnePosition' /\ \A v : Queued(v)' <=> Queued(v)
  BY <1>q DEF OnePosition, Single, Queued
<1>w. ASSUME UNCHANGED worker, Known' \subseteq Known
      PROVE  OneWorker' /\ \A v : Worked(v)' <=> Worked(v)
  BY <1>w DEF OneWorker, Single, Worked
<1>o. UNCHANGED ended => \A v : Over(v)' <=> Over(v)
  BY DEF Over
<1>k. UNCHANGED forgotten => Known' = Known
  BY DEF Known
<1>p. ASSUME Known' \subseteq Known,
             \A v \in Known' : /\ Asked(v)' <=> Asked(v)
                               /\ Queued(v)' <=> Queued(v)
                               /\ Worked(v)' <=> Worked(v)
                               /\ Over(v)' <=> Over(v)
                               /\ Contains(seen, v) => Contains(seen', v),
             UNCHANGED accepted
      PROVE  Placed'
  BY <1>p DEF Placed
<1>m. ASSUME NEW u \in Updates, seen' = MoveToEnd(seen, u)
      PROVE  \A v : Contains(seen, v) => Contains(seen', v)
  BY <1>m, Moving DEF TypeOK
<1>n. ASSUME NEW u \in Updates, Enter(u), Known' \subseteq Known, u \in Known => ~Queued(u)
      PROVE  OnePosition'
  <2>1. /\ Len(queue) \in Nat /\ Len(queue') = Len(queue) + 1
        /\ \A i \in 1..Len(queue) : queue'[i] = queue[i]
        /\ queue'[Len(queue) + 1] = u
    BY <1>n, Entered
  <2>2. \A i \in 1..Len(queue') : i \in 1..Len(queue) \/ i = Len(queue) + 1
    BY <2>1
  <2>3. ASSUME NEW i \in 1..Len(queue'), NEW j \in 1..Len(queue'), queue'[i] \in Known',
               queue'[i] = queue'[j]
        PROVE  i = j
    <3>1. u \in Known => \A k \in 1..Len(queue) : queue[k] # u
      BY <1>n DEF Queued, Contains
    <3>2. CASE i \in 1..Len(queue) /\ j \in 1..Len(queue)
      BY <1>n, <2>1, <2>3, <3>2 DEF Single, OnePosition
    <3>3. CASE i = Len(queue) + 1 /\ j \in 1..Len(queue)
      <4>1. u \in Known /\ queue[j] = u
        BY <1>n, <2>1, <2>3, <3>3
      <4> QED BY <3>1, <3>3, <4>1
    <3>4. CASE j = Len(queue) + 1 /\ i \in 1..Len(queue)
      <4>1. u \in Known /\ queue[i] = u
        BY <1>n, <2>1, <2>3, <3>4
      <4> QED BY <3>1, <3>4, <4>1
    <3> QED BY <2>2, <3>2, <3>3, <3>4
  <2> QED BY <2>3 DEF OnePosition
<1>1. ASSUME NEW u \in Updates, EnqueueDuplicate(u) PROVE Single' /\ Placed'
  <2>1. UNCHANGED <<request, queue, worker, ended, accepted, forgotten>> /\ seen' = MoveToEnd(seen, u)
    BY <1>1 DEF EnqueueDuplicate
  <2>2. Placed'
    BY <1>p, <1>m, <1>r, <1>q, <1>w, <1>o, <1>k, <2>1
  <2> QED BY <1>r, <1>q, <1>w, <1>k, <2>1, <2>2 DEF Single
<1>2. ASSUME NEW u \in Updates, EnqueueAccepted(u) PROVE Single' /\ Placed'
  <2>1. UNCHANGED <<request, worker, ended>> /\ Enter(u) /\ Reserve(u)
    BY <1>2 DEF EnqueueAccepted
  <2>2. /\ u \in Known => ~Asked(u) /\ ~Queued(u) /\ ~Worked(u) /\ ~Over(u)
        /\ Known' \subseteq Known
        /\ \A v \in Known' : Contains(seen, v) \/ v = u => Contains(seen', v)
    BY <2>1, Reserved
  <2>3. /\ \A v : Contains(queue', v) <=> Contains(queue, v) \/ v = u
        /\ \A v : Contains(accepted', v) <=> Contains(accepted, v) \/ v = u
    BY <2>1, Entered
  <2>4. \A v \in Known' : /\ Asked(v)' <=> Asked(v)
                          /\ Queued(v)' <=> Queued(v) \/ v = u
                          /\ Worked(v)' <=> Worked(v)
                          /\ Over(v)' <=> Over(v)
    BY <1>r, <1>w, <1>o, <2>1, <2>2, <2>3 DEF Queued
  <2>5. Placed'
    BY <2>2, <2>3, <2>4 DEF Placed
  <2> QED BY <1>r, <1>w, <1>n, <2>1, <2>2, <2>5 DEF Single
<1>3. ASSUME NEW r \in Requests, NEW u \in Updates, EnqueueWait(r, u) PROVE Single' /\ Placed'
  <2>1. /\ UNCHANGED <<queue, worker, ended, accepted>> /\ Reserve(u)
        /\ request[r] = NoRequest
        /\ request' = [request EXCEPT ![r] = [update |-> u, heard |-> TRUE]]
    BY <1>3 DEF EnqueueWait
  <2>2. /\ u \in Known => ~Asked(u) /\ ~Queued(u) /\ ~Worked(u) /\ ~Over(u) /\ ~Contains(accepted, u)
        /\ Known' \subseteq Known
        /\ \A v \in Known' : Contains(seen, v) \/ v = u => Contains(seen', v)
    BY <2>1, Reserved
  <2>0. request \in [Requests -> [update : Updates \cup {None}, heard : BOOLEAN]]
    BY DEF TypeOK
  <2>3. /\ request[r].update = None /\ request'[r].update = u
        /\ \A q \in Requests : q # r => request'[q] = request[q]
    <3>1. request[r].update = None
      BY <2>1 DEF NoRequest
    <3> QED BY <2>0, <2>1, <3>1
  <2>4. \A v \in Known : v # None
    BY NotNone DEF Known
  <2>5. \A v \in Known' : Asked(v)' <=> Asked(v) \/ v = u
    BY <2>2, <2>3, <2>4 DEF Asked
  <2>6. OneRequest'
    <3> SUFFICES ASSUME NEW p \in Requests, NEW q \in Requests, request'[p].update \in Known',
                        request'[p].update = request'[q].update
                 PROVE  p = q
      BY DEF OneRequest
    <3> QED BY <2>2, <2>3 DEF Asked, Single, OneRequest
  <2>7. \A v \in Known' : /\ Queued(v)' <=> Queued(v)
                          /\ Worked(v)' <=> Worked(v)
                          /\ Over(v)' <=> Over(v)
    BY <1>q, <1>w, <1>o, <2>1, <2>2
  <2>8. Placed'
    BY <2>1, <2>2, <2>5, <2>7 DEF Placed
  <2> QED BY <1>q, <1>w, <2>1, <2>2, <2>6, <2>8 DEF Single
<1>4. ASSUME NEW r \in Requests, PutResumes(r) PROVE Single' /\ Placed'
  <2> DEFINE u == request[r].update
  <2>1. /\ UNCHANGED <<worker, ended, seen, forgotten>> /\ Enter(u)
        /\ request' = [request EXCEPT ![r] = NoRequest]
    BY <1>4 DEF PutResumes
  <2>2. u \in Updates /\ Asked(u)
    BY <1>4, Waits DEF PutResumes, Asked
  <2>3. u \in Known => ~Queued(u) /\ ~Worked(u) /\ ~Over(u) /\ Contains(seen, u)
    BY <2>2 DEF Placed
  <2>4. OneRequest' /\ \A v \in Known : Asked(v)' <=> Asked(v) /\ v # u
    BY <2>1, Answered
  <2>5. /\ \A v : Contains(queue', v) <=> Contains(queue, v) \/ v = u
        /\ \A v : Contains(accepted', v) <=> Contains(accepted, v) \/ v = u
    BY <2>1, <2>2, Entered
  <2>6. OnePosition'
    BY <1>n, <1>k, <2>1, <2>2, <2>3
  <2> HIDE DEF u
  <2>7. \A v \in Known' : /\ Queued(v)' <=> Queued(v) \/ v = u
                          /\ Worked(v)' <=> Worked(v)
                          /\ Over(v)' <=> Over(v)
    BY <1>w, <1>o, <1>k, <2>1, <2>5 DEF Queued
  <2>8. Placed'
    BY <1>k, <2>1, <2>3, <2>4, <2>5, <2>7 DEF Placed
  <2> QED BY <1>w, <1>k, <2>1, <2>4, <2>6, <2>8 DEF Single
<1>5. ASSUME NEW r \in Requests, PutTimesOut(r) PROVE Single' /\ Placed'
  <2> DEFINE u == request[r].update
  <2>1. /\ UNCHANGED <<worker, queue, ended, accepted, forgotten>> /\ seen' = Pop(seen, u)
        /\ request' = [request EXCEPT ![r] = NoRequest]
    BY <1>5 DEF PutTimesOut
  <2>2. u \in Updates /\ Asked(u)
    BY <1>5, Waits DEF PutTimesOut, Asked
  <2>3. u \in Known => ~Queued(u) /\ ~Worked(u) /\ ~Over(u) /\ ~Contains(accepted, u)
    BY <2>2 DEF Placed
  <2>4. OneRequest' /\ \A v \in Known : Asked(v)' <=> Asked(v) /\ v # u
    BY <2>1, Answered
  <2>5. \A v : v # u /\ Contains(seen, v) => Contains(seen', v)
    <3>1. seen \in Seq(Updates) /\ seen' = Pop(seen, u)
      BY <2>1 DEF TypeOK
    <3> HIDE DEF u
    <3> QED BY <3>1, Popping
  <2> HIDE DEF u
  <2>7. \A v \in Known' : /\ Queued(v)' <=> Queued(v)
                          /\ Worked(v)' <=> Worked(v)
                          /\ Over(v)' <=> Over(v)
    BY <1>q, <1>w, <1>o, <1>k, <2>1
  <2>8. Placed'
    BY <1>k, <2>1, <2>3, <2>4, <2>5, <2>7 DEF Placed
  <2> QED BY <1>q, <1>w, <1>k, <2>1, <2>4, <2>8 DEF Single
<1>6. ASSUME NEW r \in Requests, Disconnect(r) PROVE Single' /\ Placed'
  <2>1. /\ UNCHANGED <<worker, queue, ended, seen, accepted, forgotten>>
        /\ request' = [request EXCEPT ![r].heard = FALSE]
    BY <1>6 DEF Disconnect
  <2>2. \A q \in Requests : request'[q].update = request[q].update
    BY <2>1 DEF TypeOK
  <2>3. OneRequest' /\ \A v : Asked(v)' <=> Asked(v)
    BY <1>k, <2>1, <2>2 DEF Single, OneRequest, Asked
  <2>4. Placed'
    BY <1>p, <1>q, <1>w, <1>o, <1>k, <2>1, <2>3
  <2> QED BY <1>q, <1>w, <1>k, <2>1, <2>3, <2>4 DEF Single
<1>g. ASSUME NEW w \in Workers, NEW job, worker[w].at = "get", queue # << >>,
             queue' = Tail(queue), job.update = Head(queue), worker' = [worker EXCEPT ![w] = job],
             UNCHANGED <<request, seen, ended, accepted, forgotten>>
      PROVE  Single' /\ Placed'
  <2> DEFINE h == Head(queue)
  <2>1. /\ h \in Updates /\ Queued(h)
        /\ \A v \in Known : Contains(queue', v) <=> Queued(v) /\ v # h
        /\ \A i \in 1..Len(queue') : /\ i \in Nat /\ i + 1 \in 1..Len(queue)
                                     /\ queue'[i] = queue[i + 1]
    BY <1>g, Got
  <2>2. OnePosition'
    <3> SUFFICES ASSUME NEW i \in 1..Len(queue'), NEW j \in 1..Len(queue'), queue'[i] \in Known',
                        queue'[i] = queue'[j]
                 PROVE  i = j
      BY DEF OnePosition
    <3>1. i + 1 = j + 1
      BY <1>g, <1>k, <2>1 DEF Single, OnePosition
    <3> QED BY <2>1, <3>1
  <2>3. h \in Known => ~Asked(h) /\ ~Worked(h) /\ ~Over(h)
    BY <2>1 DEF Placed
  <2>4. OneWorker' /\ \A v \in Known : Worked(v)' <=> Worked(v) \/ v = h
    BY <1>g, <2>3, Took
  <2> HIDE DEF h
  <2>5. \A v \in Known' : /\ Asked(v)' <=> Asked(v)
                          /\ Queued(v)' <=> Queued(v) /\ v # h
                          /\ Over(v)' <=> Over(v)
    BY <1>g, <1>r, <1>o, <1>k, <2>1 DEF Queued
  <2>6. Placed'
    BY <1>g, <1>k, <2>1, <2>3, <2>4, <2>5 DEF Placed
  <2> QED BY <1>g, <1>r, <1>k, <2>2, <2>4, <2>6 DEF Single
<1>7. ASSUME NEW w \in Workers, GetFresh(w) PROVE Single' /\ Placed'
  BY <1>7, <1>g DEF GetFresh, JoinLock
<1>8. ASSUME NEW w \in Workers, GetLate(w) PROVE Single' /\ Placed'
  BY <1>8, <1>g DEF GetLate
<1>s. ASSUME \A x \in Workers : worker'[x].update = worker[x].update,
             UNCHANGED <<request, queue, seen, ended, accepted, forgotten>>
      PROVE  Single' /\ Placed'
  <2>1. OneWorker' /\ \A v : Worked(v)' <=> Worked(v)
    BY <1>s, <1>k DEF Single, OneWorker, Worked
  <2>2. Placed'
    BY <1>s, <1>p, <1>q, <1>r, <1>o, <1>k, <2>1
  <2> QED BY <1>s, <1>q, <1>r, <1>k, <2>1, <2>2 DEF Single
<1>9. ASSUME NEW w \in Workers, DebounceOver(w) PROVE Single' /\ Placed'
  <2>1. \A x \in Workers : worker'[x].update = worker[x].update
    BY <1>9 DEF DebounceOver, JoinLock, TypeOK
  <2> QED BY <1>9, <1>s, <2>1 DEF DebounceOver
<1>10. ASSUME NEW w \in Workers, NEW how \in {"handled", "dropped"}, Running(w), Finish(w, how)
       PROVE  Single' /\ Placed'
  <2> DEFINE u == worker[w].update
  <2>1. /\ UNCHANGED <<request, queue, accepted, forgotten>> /\ seen' = MoveToEnd(seen, u)
        /\ worker' = [worker EXCEPT ![w] = IdleWorker] /\ ended' = [ended EXCEPT ![u] = how]
    BY <1>10 DEF Finish
  <2>2. u \in Updates /\ Worked(u)
    BY <1>10, Works DEF Running, Worked
  <2>3. u \in Known => ~Asked(u) /\ ~Queued(u) /\ ~Over(u) /\ Contains(seen, u)
    BY <2>2 DEF Placed
  <2>4. OneWorker' /\ \A v \in Known : Worked(v)' <=> Worked(v) /\ v # u
    BY <2>1, <2>2, Released
  <2>5. \A v : Contains(seen, v) => Contains(seen', v)
    BY <1>m, <2>1, <2>2
  <2>6. how # "no"
    BY <1>10
  <2>7. \A v \in Updates : Over(v)' <=> Over(v) \/ v = u
    BY <2>1, <2>2, <2>6 DEF Over, TypeOK
  <2> HIDE DEF u
  <2>8. \A v \in Known' : /\ Asked(v)' <=> Asked(v)
                          /\ Queued(v)' <=> Queued(v)
                          /\ Over(v)' <=> Over(v) \/ v = u
    BY <1>q, <1>r, <1>k, <2>1, <2>7 DEF Known
  <2>9. Placed'
    BY <1>k, <2>1, <2>2, <2>3, <2>4, <2>5, <2>8 DEF Placed
  <2> QED BY <1>q, <1>r, <1>k, <2>1, <2>4, <2>9 DEF Single
<1>11. ASSUME NEW w \in Workers, HandlerRaises(w) PROVE Single' /\ Placed'
  <2>1. \A x \in Workers : worker'[x].update = worker[x].update
    BY <1>11, Retrying
  <2> QED BY <1>11, <1>s, <2>1 DEF HandlerRaises
<1>12. CASE Restart
  <2>1. /\ request' = [r \in Requests |-> NoRequest] /\ worker' = [w \in Workers |-> IdleWorker]
        /\ queue' = << >> /\ accepted' = << >> /\ ended' = [u \in Updates |-> "no"]
    BY <1>12 DEF Restart, ClearProcess
  <2>2. \A v \in Known' : v # None /\ v \in Updates
    BY NotNone DEF Known
  <2>3. \A v \in Known' : ~Asked(v)' /\ ~Queued(v)' /\ ~Worked(v)' /\ ~Over(v)' /\ ~Contains(accepted', v)
    BY <2>1, <2>2 DEF Asked, Queued, Worked, Over, Contains, NoRequest, IdleWorker
  <2>4. OneRequest' /\ OneWorker'
    BY <2>1, <2>2 DEF OneRequest, OneWorker, NoRequest, IdleWorker
  <2>5. OnePosition'
    BY <2>1 DEF OnePosition
  <2> QED BY <2>3, <2>4, <2>5 DEF Single, Placed
<1>13. CASE UNCHANGED vars
  BY <1>13, <1>s DEF vars
<1> QED BY <1>1, <1>2, <1>3, <1>4, <1>5, <1>6, <1>7, <1>8, <1>9, <1>10, <1>11, <1>12, <1>13
        DEF Next, HandlerReturns, LastAttemptRaises

-----------------------------------------------------------------------------
(* The order of an actor's messages *)

LEMMA Accepting ==
  ASSUME TypeOK, NEW u \in Updates, Enter(u)
  PROVE  /\ Len(accepted) \in Nat
         /\ Contains(accepted, u) => accepted' = accepted
         /\ ~Contains(accepted, u) =>
              /\ Len(accepted') = Len(accepted) + 1
              /\ \A i \in 1..Len(accepted) : accepted'[i] = accepted[i] /\ accepted[i] # u
              /\ accepted'[Len(accepted) + 1] = u
<1>0. accepted \in Seq(Updates)
  BY DEF TypeOK
<1>1. accepted \in Seq(Updates) /\ Len(accepted) \in Nat
  BY <1>0
<1>2. Contains(accepted, u) => accepted' = accepted
  BY DEF Enter
<1>3. CASE ~Contains(accepted, u)
  <2>1. accepted' = Append(accepted, u)
    BY <1>3 DEF Enter
  <2>2. \A i \in 1..Len(accepted) : accepted[i] # u
    BY <1>3 DEF Contains
  <2>3. /\ Len(accepted') = Len(accepted) + 1
        /\ \A i \in 1..Len(accepted) : accepted'[i] = accepted[i]
        /\ accepted'[Len(accepted) + 1] = u
    BY <1>1, <2>1, Appending
  <2> QED BY <1>1, <1>3, <2>2, <2>3
<1> QED BY <1>1, <1>2, <1>3

LEMMA EnterRanked ==
  ASSUME TypeOK, Ranked, NEW u \in Updates, Enter(u), Known' \subseteq Known,
         u \in Known => ~Contains(accepted, u)
  PROVE  Ranked'
<1>1. /\ Len(accepted) \in Nat
      /\ Contains(accepted, u) => accepted' = accepted
      /\ ~Contains(accepted, u) =>
           /\ Len(accepted') = Len(accepted) + 1
           /\ \A i \in 1..Len(accepted) : accepted'[i] = accepted[i] /\ accepted[i] # u
           /\ accepted'[Len(accepted) + 1] = u
  BY Accepting
<1>2. /\ Len(queue) \in Nat /\ Len(queue') = Len(queue) + 1
      /\ \A i \in 1..Len(queue) : queue'[i] = queue[i]
      /\ queue'[Len(queue) + 1] = u
  BY Entered
<1>3. \A k \in 1..Len(queue') : k \in 1..Len(queue) \/ k = Len(queue) + 1
  BY <1>2
<1>4. \A k \in 1..Len(queue) : k \in 1..Len(queue') /\ k < Len(queue) + 1
  BY <1>2
<1>5. Len(queue) + 1 \in 1..Len(queue')
  BY <1>2
(* the updates that were in the queue keep their order *)
<1>6. ASSUME NEW i \in 1..Len(accepted), NEW j \in 1..Len(accepted), NEW k \in 1..Len(queue),
             i < j, accepted[i] \in Known', accepted[j] \in Known', queue[k] = accepted[i]
      PROVE  \E l \in 1..Len(queue') : k < l /\ queue'[l] = accepted[j]
  <2>1. PICK l \in 1..Len(queue) : k < l /\ queue[l] = accepted[j]
    BY <1>6 DEF Ranked, Behind
  <2> QED BY <1>2, <1>4, <2>1
<1>7. CASE Contains(accepted, u)
  <2>1. accepted' = accepted /\ u \notin Known
    BY <1>1, <1>7
  <2>2. ASSUME NEW i \in 1..Len(accepted'), NEW j \in 1..Len(accepted'), NEW k \in 1..Len(queue'),
               i < j, accepted'[i] \in Known', accepted'[j] \in Known', queue'[k] = accepted'[i]
        PROVE  \E l \in 1..Len(queue') : k < l /\ queue'[l] = accepted'[j]
    <3>1. queue'[k] # u
      BY <2>1, <2>2
    <3>2. k \in 1..Len(queue) /\ queue[k] = accepted[i]
      BY <1>2, <1>3, <2>1, <2>2, <3>1
    <3> QED BY <1>6, <2>1, <2>2, <3>2
  <2>3. Once'
    BY <2>1 DEF Ranked, Once
  <2> QED BY <2>2, <2>3 DEF Ranked, Behind
<1>8. CASE ~Contains(accepted, u)
  <2>1. /\ Len(accepted') = Len(accepted) + 1
        /\ \A i \in 1..Len(accepted) : accepted'[i] = accepted[i] /\ accepted[i] # u
        /\ accepted'[Len(accepted) + 1] = u
    BY <1>1, <1>8
  <2>2. \A i \in 1..Len(accepted') : i \in 1..Len(accepted) \/ i = Len(accepted) + 1
    BY <1>1, <2>1
  <2>3. ASSUME NEW i \in 1..Len(accepted'), NEW j \in 1..Len(accepted'), NEW k \in 1..Len(queue'),
               i < j, accepted'[i] \in Known', accepted'[j] \in Known', queue'[k] = accepted'[i]
        PROVE  \E l \in 1..Len(queue') : k < l /\ queue'[l] = accepted'[j]
    <3>1. i \in 1..Len(accepted)
      BY <1>1, <2>1, <2>3
    <3>2. accepted'[i] = accepted[i] /\ accepted[i] # u
      BY <2>1, <3>1
    <3>3. k \in 1..Len(queue) /\ queue[k] = accepted[i]
      BY <1>2, <1>3, <2>3, <3>2
    <3>4. CASE j \in 1..Len(accepted)
      <4>1. accepted'[j] = accepted[j]
        BY <2>1, <3>4
      <4> QED BY <1>6, <2>3, <3>1, <3>2, <3>3, <3>4, <4>1
    <3>5. CASE j = Len(accepted) + 1
      <4>1. accepted'[j] = u /\ k < Len(queue) + 1
        BY <1>4, <2>1, <3>3, <3>5
      <4> QED BY <1>2, <1>5, <4>1
    <3> QED BY <2>2, <3>4, <3>5
  <2>4. ASSUME NEW i \in 1..Len(accepted'), NEW j \in 1..Len(accepted'), accepted'[i] = accepted'[j]
        PROVE  i = j
    <3>1. CASE i \in 1..Len(accepted) /\ j \in 1..Len(accepted)
      <4>1. accepted[i] = accepted[j]
        BY <2>1, <2>4, <3>1
      <4> QED BY <3>1, <4>1 DEF Ranked, Once
    <3>2. CASE i = Len(accepted) + 1 /\ j \in 1..Len(accepted)
      BY <2>1, <2>4, <3>2
    <3>3. CASE j = Len(accepted) + 1 /\ i \in 1..Len(accepted)
      BY <2>1, <2>4, <3>3
    <3> QED BY <2>2, <3>1, <3>2, <3>3
  <2> QED BY <2>3, <2>4 DEF Ranked, Once, Behind
<1> QED BY <1>7, <1>8

LEMMA GetRanked ==
  ASSUME TypeOK, Ranked, queue # << >>, queue' = Tail(queue), UNCHANGED <<accepted, forgotten>>
  PROVE  Ranked'
<1>1. /\ Len(queue) \in Nat \ {0} /\ Len(queue') = Len(queue) - 1
      /\ \A i \in 1..(Len(queue) - 1) : queue'[i] = queue[i + 1]
  BY HeadOfQueue
<1>2. Known' = Known
  BY DEF Known
<1>3. ASSUME NEW i \in 1..Len(accepted), NEW j \in 1..Len(accepted), NEW k \in 1..Len(queue'),
             i < j, accepted[i] \in Known, accepted[j] \in Known, queue'[k] = accepted[i]
      PROVE  \E l \in 1..Len(queue') : k < l /\ queue'[l] = accepted[j]
  <2>1. k + 1 \in 1..Len(queue) /\ queue[k + 1] = accepted[i]
    BY <1>1, <1>3
  <2>2. PICK m \in 1..Len(queue) : k + 1 < m /\ queue[m] = accepted[j]
    BY <1>3, <2>1 DEF Ranked, Behind
  <2>3. m - 1 \in 1..(Len(queue) - 1) /\ k < m - 1 /\ (m - 1) + 1 = m
    BY <1>1, <2>1, <2>2
  <2>4. queue'[m - 1] = accepted[j] /\ m - 1 \in 1..Len(queue')
    BY <1>1, <2>2, <2>3
  <2> QED BY <2>3, <2>4
<1>4. Once'
  BY DEF Ranked, Once
<1> QED BY <1>2, <1>3, <1>4 DEF Ranked, Behind

LEMMA Ranking ==
  ASSUME TypeOK, Shapes, Placed, Ranked, [Next]_vars
  PROVE  Ranked'
<1>u. ASSUME UNCHANGED <<queue, accepted>>, Known' \subseteq Known PROVE Ranked'
  BY <1>u DEF Ranked, Once, Behind
<1>k. UNCHANGED forgotten => Known' = Known
  BY DEF Known
<1>1. ASSUME NEW u \in Updates, EnqueueDuplicate(u) PROVE Ranked'
  BY <1>1, <1>u, <1>k DEF EnqueueDuplicate
<1>2. ASSUME NEW u \in Updates, EnqueueAccepted(u) PROVE Ranked'
  <2>1. Enter(u) /\ Reserve(u)
    BY <1>2 DEF EnqueueAccepted
  <2>2. Known' \subseteq Known /\ (u \in Known => ~Contains(accepted, u))
    BY <2>1, Reserved
  <2> QED BY <2>1, <2>2, EnterRanked
<1>3. ASSUME NEW r \in Requests, NEW u \in Updates, EnqueueWait(r, u) PROVE Ranked'
  <2>1. Reserve(u) /\ UNCHANGED <<queue, accepted>>
    BY <1>3 DEF EnqueueWait
  <2>2. Known' \subseteq Known
    BY <2>1, Reserved
  <2> QED BY <1>u, <2>1, <2>2
<1>4. ASSUME NEW r \in Requests, PutResumes(r) PROVE Ranked'
  <2>1. request[r].update \in Updates /\ Asked(request[r].update)
    BY <1>4, Waits DEF PutResumes, Asked
  <2>2. request[r].update \in Known => ~Contains(accepted, request[r].update)
    BY <2>1 DEF Placed
  <2>3. Enter(request[r].update) /\ UNCHANGED forgotten
    BY <1>4 DEF PutResumes
  <2> QED BY <1>k, <2>1, <2>2, <2>3, EnterRanked
<1>5. ASSUME NEW r \in Requests, PutTimesOut(r) PROVE Ranked'
  BY <1>5, <1>u, <1>k DEF PutTimesOut
<1>6. ASSUME NEW r \in Requests, Disconnect(r) PROVE Ranked'
  BY <1>6, <1>u, <1>k DEF Disconnect
<1>7. ASSUME NEW w \in Workers, GetFresh(w) PROVE Ranked'
  BY <1>7, GetRanked DEF GetFresh
<1>8. ASSUME NEW w \in Workers, GetLate(w) PROVE Ranked'
  BY <1>8, GetRanked DEF GetLate
<1>9. ASSUME NEW w \in Workers, DebounceOver(w) PROVE Ranked'
  BY <1>9, <1>u, <1>k DEF DebounceOver
<1>10. ASSUME NEW w \in Workers, NEW how, Finish(w, how) PROVE Ranked'
  BY <1>10, <1>u, <1>k DEF Finish
<1>11. ASSUME NEW w \in Workers, HandlerRaises(w) PROVE Ranked'
  BY <1>11, <1>u, <1>k DEF HandlerRaises
<1>12. CASE Restart
  <2>1. accepted' = << >>
    BY <1>12 DEF Restart, ClearProcess
  <2> QED BY <2>1 DEF Ranked, Once, Behind
<1>13. CASE UNCHANGED vars
  BY <1>13, <1>u, <1>k DEF vars
<1> QED BY <1>1, <1>2, <1>3, <1>4, <1>5, <1>6, <1>7, <1>8, <1>9, <1>10, <1>11, <1>12, <1>13
        DEF Next, HandlerReturns, LastAttemptRaises

LEMMA EnterFifo ==
  ASSUME TypeOK, Ranked, Fifo, NEW u \in Updates, Enter(u), Known' \subseteq Known,
         u \in Known => ~Contains(accepted, u) /\ ~Worked(u),
         UNCHANGED <<worker, actorLock, startup>>
  PROVE  Fifo'
<1>1. /\ Len(accepted) \in Nat
      /\ Contains(accepted, u) => accepted' = accepted
      /\ ~Contains(accepted, u) =>
           /\ Len(accepted') = Len(accepted) + 1
           /\ \A i \in 1..Len(accepted) : accepted'[i] = accepted[i] /\ accepted[i] # u
           /\ accepted'[Len(accepted) + 1] = u
  BY Accepting
<1>2. ASSUME NEW i \in 1..Len(accepted'), NEW j \in 1..Len(accepted'), NEW a \in Actors,
             NEW k \in 1..Len(actorLock[a]), NEW l \in 1..Len(actorLock[a]),
             i < j, accepted'[i] \in Known', accepted'[j] \in Known',
             ~IsLate(accepted'[i]), ~IsLate(accepted'[j]),
             worker[actorLock[a][k]].update = accepted'[i],
             worker[actorLock[a][l]].update = accepted'[j]
      PROVE  k < l
  <2>1. accepted'[j] # u \/ Contains(accepted, u)
    <3>1. actorLock[a][l] \in Workers
      BY LockMembers
    <3>2. Worked(accepted'[j])
      BY <1>2, <3>1 DEF Worked
    <3> QED BY <1>2, <3>2
  <2>2. i \in 1..Len(accepted) /\ j \in 1..Len(accepted)
    BY <1>1, <1>2, <2>1
  <2>3. accepted'[i] = accepted[i] /\ accepted'[j] = accepted[j]
    BY <1>1, <2>2
  <2> QED BY <1>2, <2>2, <2>3 DEF Fifo
<1>3. \A v : IsLate(v)' <=> IsLate(v)
  BY DEF IsLate
<1> QED BY <1>2, <1>3 DEF Fifo

(* The lock gets no new waiter, and its waiters keep their updates. *)
LEMMA SameFifo ==
  ASSUME TypeOK, Fifo, Known' \subseteq Known, UNCHANGED <<accepted, actorLock, startup>>,
         \A a \in Actors : \A k \in 1..Len(actorLock[a]) :
           worker'[actorLock[a][k]].update = worker[actorLock[a][k]].update
  PROVE  Fifo'
<1>1. \A v : IsLate(v)' <=> IsLate(v)
  BY DEF IsLate
<1> QED BY <1>1 DEF Fifo

LEMMA JoinFifo ==
  ASSUME TypeOK, Shapes, Locks, Placed, Ranked, Fifo, NEW w \in Workers, NEW u \in Updates,
         worker[w].at # "lock", JoinLock(w, u), UNCHANGED <<accepted, startup, forgotten>>,
         Queued(u) \/ IsLate(u)
  PROVE  Fifo'
<1>1. \A a \in Actors : actorLock'[a] = IF a = Actor[u] THEN Append(actorLock[a], w)
                                         ELSE actorLock[a]
  BY Joining
<1>2. worker'[w].update = u /\ \A x \in Workers : x # w => worker'[x] = worker[x]
  BY DEF JoinLock, TypeOK
<1>3. Known' = Known /\ \A v : IsLate(v)' <=> IsLate(v)
  BY DEF IsLate, Known
<1>4. ASSUME NEW i \in 1..Len(accepted), NEW j \in 1..Len(accepted), NEW a \in Actors,
             NEW k \in 1..Len(actorLock'[a]), NEW l \in 1..Len(actorLock'[a]),
             i < j, accepted[i] \in Known, accepted[j] \in Known,
             ~IsLate(accepted[i]), ~IsLate(accepted[j]),
             worker'[actorLock'[a][k]].update = accepted[i],
             worker'[actorLock'[a][l]].update = accepted[j]
      PROVE  k < l
  <2>1. actorLock[a] \in Seq(Workers) /\ Len(actorLock[a]) \in Nat
    BY LockMembers
  <2>2. \A m \in 1..Len(actorLock[a]) : actorLock[a][m] # w /\ actorLock[a][m] \in Workers
    BY LockMembers, Outside
  <2>3. \A m \in 1..Len(actorLock[a]) : worker'[actorLock[a][m]] = worker[actorLock[a][m]]
    BY <1>2, <2>2
  <2>4. CASE a # Actor[u]
    <3>1. actorLock'[a] = actorLock[a]
      BY <1>1, <2>4
    <3>2. /\ worker[actorLock[a][k]].update = accepted[i]
          /\ worker[actorLock[a][l]].update = accepted[j]
          /\ k \in 1..Len(actorLock[a]) /\ l \in 1..Len(actorLock[a])
      BY <1>4, <2>3, <3>1
    <3> QED BY <1>4, <3>2 DEF Fifo
  <2>5. CASE a = Actor[u]
    <3>1. /\ Len(actorLock'[a]) = Len(actorLock[a]) + 1
          /\ \A m \in 1..Len(actorLock[a]) : actorLock'[a][m] = actorLock[a][m]
          /\ actorLock'[a][Len(actorLock[a]) + 1] = w
      <4>1. actorLock'[a] = Append(actorLock[a], w)
        BY <1>1, <2>5
      <4> QED BY <2>1, <4>1, Appending
    <3>2. \A m \in 1..Len(actorLock'[a]) : m \in 1..Len(actorLock[a]) \/ m = Len(actorLock[a]) + 1
      BY <2>1, <3>1
    <3>3. CASE k \in 1..Len(actorLock[a]) /\ l \in 1..Len(actorLock[a])
      <4>1. /\ worker[actorLock[a][k]].update = accepted[i]
            /\ worker[actorLock[a][l]].update = accepted[j]
        BY <1>4, <2>3, <3>1, <3>3
      <4> QED BY <1>4, <3>3, <4>1 DEF Fifo
    <3>4. CASE k \in 1..Len(actorLock[a]) /\ l = Len(actorLock[a]) + 1
      BY <2>1, <3>4
    <3>5. CASE k = Len(actorLock[a]) + 1
      <4>1. accepted[i] = u
        BY <1>2, <1>4, <3>1, <3>5
      <4>2. accepted[j] # u
        BY <1>4, <4>1 DEF Ranked, Once
      <4>3. l \in 1..Len(actorLock[a])
        BY <1>2, <1>4, <3>1, <3>2, <4>2
      <4>4. Worked(accepted[j])
        BY <1>4, <2>2, <2>3, <3>1, <4>3 DEF Worked
      <4>5. PICK m \in 1..Len(queue) : queue[m] = u
        BY <1>4, <4>1 DEF Queued, Contains
      <4>6. \E n \in 1..Len(queue) : m < n /\ queue[n] = accepted[j]
        BY <1>4, <4>1, <4>5 DEF Ranked, Behind
      <4>7. Queued(accepted[j])
        BY <4>6 DEF Queued, Contains
      <4> QED BY <1>4, <4>4, <4>7 DEF Placed
    <3> QED BY <3>2, <3>3, <3>4, <3>5
  <2> QED BY <2>4, <2>5
<1> QED BY <1>3, <1>4 DEF Fifo

LEMMA LeaveFifo ==
  ASSUME TypeOK, Shapes, Locks, Fifo, NEW w \in Workers, NEW how, Running(w), Finish(w, how)
  PROVE  Fifo'
<1> DEFINE b == Actor[worker[w].update]
<1>1. \A x \in Workers : x # w => worker'[x] = worker[x]
  BY DEF Finish, TypeOK
<1>2. \A a \in Actors : a # b => actorLock'[a] = actorLock[a]
  <2>1. CASE b = NoActor
    BY <2>1 DEF Finish
  <2>2. CASE b # NoActor
    BY <2>2 DEF Finish, TypeOK
  <2> QED BY <2>1, <2>2
<1>3. Known' = Known /\ \A v : IsLate(v)' <=> IsLate(v)
  BY DEF IsLate, Known, Finish
<1>4. UNCHANGED accepted
  BY DEF Finish
<1>5. ASSUME NEW i \in 1..Len(accepted), NEW j \in 1..Len(accepted), NEW a \in Actors,
             NEW k \in 1..Len(actorLock'[a]), NEW l \in 1..Len(actorLock'[a]),
             i < j, accepted[i] \in Known, accepted[j] \in Known,
             ~IsLate(accepted[i]), ~IsLate(accepted[j]),
             worker'[actorLock'[a][k]].update = accepted[i],
             worker'[actorLock'[a][l]].update = accepted[j]
      PROVE  k < l
  <2>1. \A m \in 1..Len(actorLock[a]) : actorLock[a][m] \in Workers
    BY LockMembers
  <2>2. CASE a # b
    <3>1. actorLock'[a] = actorLock[a]
      BY <1>2, <2>2
    <3>2. \A m \in 1..Len(actorLock[a]) : actorLock[a][m] # w
      BY <2>2 DEF Locks
    <3>3. \A m \in 1..Len(actorLock[a]) : worker'[actorLock[a][m]] = worker[actorLock[a][m]]
      BY <1>1, <2>1, <3>2
    <3>4. /\ worker[actorLock[a][k]].update = accepted[i]
          /\ worker[actorLock[a][l]].update = accepted[j]
          /\ k \in 1..Len(actorLock[a]) /\ l \in 1..Len(actorLock[a])
      BY <1>5, <3>1, <3>3
    <3> QED BY <1>5, <3>4 DEF Fifo
  <2>3. CASE a = b
    <3>0. b # NoActor
      BY <2>3 DEF Actors
    <3>1. /\ actorLock[a] # << >> /\ actorLock[a][1] = w
          /\ Len(actorLock[a]) \in Nat \ {0} /\ Len(Tail(actorLock[a])) = Len(actorLock[a]) - 1
          /\ \A m \in 1..(Len(actorLock[a]) - 1) : Tail(actorLock[a])[m] = actorLock[a][m + 1]
      BY <2>3, <3>0, LockTail
    <3>2. actorLock'[a] = Tail(actorLock[a])
      BY <2>3, <3>0 DEF Finish, TypeOK
    <3>3. \A m \in 1..Len(actorLock'[a]) : /\ m \in Nat /\ m + 1 \in 1..Len(actorLock[a])
                                           /\ m + 1 # 1 /\ 1 \in 1..Len(actorLock[a])
                                           /\ actorLock'[a][m] = actorLock[a][m + 1]
      BY <3>1, <3>2
    <3>4. \A m \in 1..Len(actorLock'[a]) : actorLock[a][m + 1] # w
      BY <3>1, <3>3 DEF Locks
    <3>5. \A m \in 1..Len(actorLock'[a]) : worker'[actorLock'[a][m]] = worker[actorLock[a][m + 1]]
      BY <1>1, <2>1, <3>3, <3>4
    <3>6. k + 1 < l + 1
      <4>1. /\ worker[actorLock[a][k + 1]].update = accepted[i]
            /\ worker[actorLock[a][l + 1]].update = accepted[j]
        BY <1>5, <3>5
      <4>2. k + 1 \in 1..Len(actorLock[a]) /\ l + 1 \in 1..Len(actorLock[a])
        BY <3>3
      <4>3. \A m, n \in 1..Len(actorLock[a]) :
              /\ worker[actorLock[a][m]].update = accepted[i]
              /\ worker[actorLock[a][n]].update = accepted[j]
              => m < n
        BY <1>5 DEF Fifo
      <4> QED BY <4>1, <4>2, <4>3
    <3> QED BY <3>3, <3>6
  <2> QED BY <2>2, <2>3
<1> QED BY <1>3, <1>4, <1>5 DEF Fifo

LEMMA Fifoing ==
  ASSUME TypeOK, Shapes, Locks, Single, Placed, Ranked, Fifo, [Next]_vars
  PROVE  Fifo'
<1>u. ASSUME UNCHANGED <<worker, accepted, actorLock, startup>>, Known' \subseteq Known PROVE Fifo'
  BY <1>u, SameFifo
<1>k. UNCHANGED forgotten => Known' = Known
  BY DEF Known
<1>1. ASSUME NEW u \in Updates, EnqueueDuplicate(u) PROVE Fifo'
  BY <1>1, <1>u, <1>k DEF EnqueueDuplicate
<1>2. ASSUME NEW u \in Updates, EnqueueAccepted(u) PROVE Fifo'
  <2>1. Enter(u) /\ Reserve(u) /\ UNCHANGED <<worker, actorLock, startup>>
    BY <1>2 DEF EnqueueAccepted
  <2>2. Known' \subseteq Known /\ (u \in Known => ~Contains(accepted, u) /\ ~Worked(u))
    BY <2>1, Reserved
  <2> QED BY <2>1, <2>2, EnterFifo
<1>3. ASSUME NEW r \in Requests, NEW u \in Updates, EnqueueWait(r, u) PROVE Fifo'
  <2>1. Reserve(u) /\ UNCHANGED <<worker, accepted, actorLock, startup>>
    BY <1>3 DEF EnqueueWait
  <2>2. Known' \subseteq Known
    BY <2>1, Reserved
  <2> QED BY <1>u, <2>1, <2>2
<1>4. ASSUME NEW r \in Requests, PutResumes(r) PROVE Fifo'
  <2>1. request[r].update \in Updates /\ Asked(request[r].update)
    BY <1>4, Waits DEF PutResumes, Asked
  <2>2. request[r].update \in Known => ~Contains(accepted, request[r].update) /\ ~Worked(request[r].update)
    BY <2>1 DEF Placed
  <2>3. Enter(request[r].update) /\ UNCHANGED <<worker, actorLock, startup, forgotten>>
    BY <1>4 DEF PutResumes
  <2> QED BY <1>k, <2>1, <2>2, <2>3, EnterFifo
<1>5. ASSUME NEW r \in Requests, PutTimesOut(r) PROVE Fifo'
  BY <1>5, <1>u, <1>k DEF PutTimesOut
<1>6. ASSUME NEW r \in Requests, Disconnect(r) PROVE Fifo'
  BY <1>6, <1>u, <1>k DEF Disconnect
<1>7. ASSUME NEW w \in Workers, GetFresh(w) PROVE Fifo'
  <2>1. /\ queue # << >> /\ worker[w].at # "lock" /\ JoinLock(w, Head(queue))
        /\ queue' = Tail(queue) /\ UNCHANGED <<accepted, startup, forgotten>>
    BY <1>7 DEF GetFresh
  <2>2. Head(queue) \in Updates /\ Queued(Head(queue))
    BY <2>1, Got
  <2> QED BY <2>1, <2>2, JoinFifo
<1>8. ASSUME NEW w \in Workers, GetLate(w) PROVE Fifo'
  <2>1. /\ worker[w].at # "lock" /\ UNCHANGED <<accepted, actorLock, startup, forgotten>>
        /\ \A x \in Workers : x # w => worker'[x] = worker[x]
    BY <1>8 DEF GetLate, TypeOK
  <2>2. \A a \in Actors : \A k \in 1..Len(actorLock[a]) : actorLock[a][k] # w /\ actorLock[a][k] \in Workers
    BY <2>1, LockMembers, Outside
  <2> QED BY <1>k, <2>1, <2>2, SameFifo
<1>9. ASSUME NEW w \in Workers, DebounceOver(w) PROVE Fifo'
  <2>1. /\ worker[w].at = "debounce" /\ JoinLock(w, worker[w].update)
        /\ UNCHANGED <<accepted, startup, forgotten>>
    BY <1>9 DEF DebounceOver
  <2>2. worker[w].update \in Updates /\ IsLate(worker[w].update)
    BY <2>1, Works DEF Shapes
  <2> QED BY <2>1, <2>2, JoinFifo
<1>10. ASSUME NEW w \in Workers, NEW how, Running(w), Finish(w, how) PROVE Fifo'
  BY <1>10, LeaveFifo
<1>11. ASSUME NEW w \in Workers, HandlerRaises(w) PROVE Fifo'
  <2>1. /\ \A x \in Workers : worker'[x].update = worker[x].update
        /\ UNCHANGED <<accepted, actorLock, startup, forgotten>>
    BY <1>11, Retrying DEF HandlerRaises
  <2>2. \A a \in Actors : \A k \in 1..Len(actorLock[a]) : actorLock[a][k] \in Workers
    BY LockMembers
  <2> QED BY <1>k, <2>1, <2>2, SameFifo
<1>12. CASE Restart
  <2>1. accepted' = << >>
    BY <1>12 DEF Restart, ClearProcess
  <2> QED BY <2>1 DEF Fifo
<1>13. CASE UNCHANGED vars
  BY <1>13, <1>u, <1>k DEF vars
<1> QED BY <1>1, <1>2, <1>3, <1>4, <1>5, <1>6, <1>7, <1>8, <1>9, <1>10, <1>11, <1>12, <1>13
        DEF Next, HandlerReturns, LastAttemptRaises

-----------------------------------------------------------------------------
(* The invariant and what follows from it *)

LEMMA Initial == Init => IInv
<1> SUFFICES ASSUME Init PROVE IInv
  OBVIOUS
<1>1. /\ request = [r \in Requests |-> NoRequest] /\ worker = [w \in Workers |-> IdleWorker]
      /\ seen = << >> /\ queue = << >> /\ accepted = << >> /\ forgotten = {}
      /\ actorLock = [a \in Actors |-> << >>] /\ ended = [u \in Updates |-> "no"]
      /\ telegram = [u \in Updates |-> "pending"] /\ startup \in Updates \cup {0}
  BY DEF Init
<1>2. TypeOK
  <2>1. /\ NoRequest \in [update : Updates \cup {None}, heard : BOOLEAN]
        /\ IdleWorker \in [at : {"get", "debounce", "lock"},
                            update : Updates \cup {None}, attempt : 0 .. Attempts]
    BY Sizes DEF NoRequest, IdleWorker
  <2>2. /\ request \in [Requests -> [update : Updates \cup {None}, heard : BOOLEAN]]
        /\ worker \in [Workers -> [at : {"get", "debounce", "lock"},
                                   update : Updates \cup {None}, attempt : 0 .. Attempts]]
    BY <1>1, <2>1
  <2>3. << >> \in Seq(Updates) /\ << >> \in Seq(Workers) /\ Len(<< >>) = 0
    OBVIOUS
  <2>4. /\ seen \in Seq(Updates) /\ Len(seen) <= MaxItems
        /\ queue \in Seq(Updates) /\ Len(queue) <= QueueMax
        /\ accepted \in Seq(Updates) /\ forgotten \subseteq Updates
    BY <1>1, <2>3, Sizes
  <2>5. /\ actorLock \in [Actors -> Seq(Workers)]
        /\ ended \in [Updates -> {"no", "handled", "dropped"}]
        /\ telegram \in [Updates -> {"pending", "acked", "acked earlier"}]
    BY <1>1, <2>3
  <2> QED BY <1>1, <2>2, <2>4, <2>5 DEF TypeOK
<1>3. Shapes /\ Locks
  BY <1>1 DEF NoRequest, IdleWorker, Shapes, Locks
<1>4. \A v \in Known : v # None /\ v \in Updates
  BY NotNone DEF Known
<1>5. Single
  BY <1>1, <1>4 DEF NoRequest, IdleWorker, Single, OneRequest, OnePosition, OneWorker
<1>6. \A v \in Known : ~Asked(v) /\ ~Queued(v) /\ ~Worked(v) /\ ~Over(v) /\ ~Contains(accepted, v)
  BY <1>1, <1>4 DEF Asked, Queued, Worked, Over, Contains, NoRequest, IdleWorker
<1>7. Placed
  BY <1>6 DEF Placed
<1>8. Ranked /\ Fifo
  BY <1>1 DEF Ranked, Once, Behind, Fifo
<1> QED BY <1>2, <1>3, <1>5, <1>7, <1>8 DEF IInv

LEMMA Inductive == IInv /\ [Next]_vars => IInv'
BY Typing, Shaping, Locking, Placing, Ranking, Fifoing DEF IInv

(* The invariant holds for any updates, requests, workers and sizes, and *)
(* through restarts.                                                     *)
THEOREM Invariance == Spec => []IInv
BY Initial, Inductive, PTL DEF Spec

(* The queue and the store of update_queue.py keep within their limits. *)
THEOREM TypeCorrect == Spec => []TypeOK
<1>1. IInv => TypeOK
  BY DEF IInv
<1> QED BY <1>1, Invariance, PTL

LEMMA Few ==
  ASSUME NEW S, \A x, y \in S : x = y
  PROVE  Cardinality(S) = IF S = {} THEN 0 ELSE 1
<1>1. CASE S = {}
  BY <1>1, FS_EmptySet
<1>2. CASE S # {}
  <2>1. PICK x \in S : TRUE
    BY <1>2
  <2>2. S = {x}
    BY <2>1
  <2>3. Cardinality({x}) = 1
    BY FS_Singleton
  <2> QED BY <1>2, <2>2, <2>3
<1> QED BY <1>1, <1>2

(* However often Telegram sends an update, and whichever answers are lost, *)
(* an update the store of update_queue.py has not forgotten is one job.    *)
THEOREM WorkedOnOnce == Spec => []AtMostOneJob
<1>1. ASSUME IInv PROVE AtMostOneJob
  <2> SUFFICES ASSUME NEW u \in Updates \ forgotten PROVE Jobs(u) <= 1
    BY DEF AtMostOneJob
  <2> DEFINE R == {r \in Requests : request[r].update = u}
             Q == {i \in DOMAIN queue : queue[i] = u}
             W == {w \in Workers : worker[w].update = u}
  <2>0. u \in Known /\ DOMAIN queue = 1..Len(queue)
    <3>1. queue \in Seq(Updates)
      BY <1>1 DEF IInv, TypeOK
    <3> QED BY <3>1 DEF Known
  <2>1. Cardinality(R) = IF R = {} THEN 0 ELSE 1
    <3>1. \A x, y \in R : x = y
      BY <1>1, <2>0 DEF IInv, Single, OneRequest
    <3> QED BY <3>1, Few
  <2>2. Cardinality(Q) = IF Q = {} THEN 0 ELSE 1
    <3>1. \A x, y \in Q : x = y
      BY <1>1, <2>0 DEF IInv, Single, OnePosition
    <3> QED BY <3>1, Few
  <2>3. Cardinality(W) = IF W = {} THEN 0 ELSE 1
    <3>1. \A x, y \in W : x = y
      BY <1>1, <2>0 DEF IInv, Single, OneWorker
    <3> QED BY <3>1, Few
  <2>4. /\ R # {} => Asked(u)
        /\ Q # {} => Queued(u)
        /\ W # {} => Worked(u)
    BY <2>0 DEF Asked, Queued, Worked, Contains
  <2>5. /\ Asked(u) => ~Queued(u) /\ ~Worked(u) /\ ~Over(u)
        /\ Queued(u) => ~Worked(u) /\ ~Over(u)
        /\ Worked(u) => ~Over(u)
    BY <1>1, <2>0 DEF IInv, Placed
  <2>6. Jobs(u) = Cardinality(R) + Cardinality(Q) + Cardinality(W) + (IF Over(u) THEN 1 ELSE 0)
    BY DEF Jobs, Over
  <2> QED BY <2>1, <2>2, <2>3, <2>4, <2>5, <2>6
<1> QED BY <1>1, Invariance, PTL

(* However many workers of worker.py take from the queue, an actor's new *)
(* messages are handled in the order in which the queue took them.       *)
THEOREM HandledInOrder == Spec => []InOrder
<1>1. ASSUME IInv PROVE InOrder
  <2> SUFFICES ASSUME NEW w \in Workers, NEW i \in DOMAIN accepted, NEW j \in DOMAIN accepted,
                      Running(w), worker[w].update = accepted[j], i < j,
                      Actor[accepted[i]] = Actor[accepted[j]], Actor[accepted[j]] # NoActor,
                      ~IsLate(accepted[i]), ~IsLate(accepted[j]),
                      {accepted[i], accepted[j]} \cap forgotten = {}
               PROVE  ended[accepted[i]] # "no"
    BY DEF InOrder
  <2> DEFINE u == accepted[i]  v == accepted[j]  a == Actor[worker[w].update]
  <2>0. accepted \in Seq(Updates)
    BY <1>1 DEF IInv, TypeOK
  <2>1. i \in 1..Len(accepted) /\ j \in 1..Len(accepted) /\ u \in Known /\ v \in Known
    BY <2>0 DEF Known
  <2>2. Queued(u) \/ Worked(u) \/ Over(u)
    BY <1>1, <2>1 DEF IInv, Placed, Contains
  <2>3. Worked(v) /\ ~Queued(v)
    BY <1>1, <2>1 DEF IInv, Placed, Worked
  <2>4. ~Queued(u)
    <3> SUFFICES ASSUME Queued(u) PROVE FALSE
      OBVIOUS
    <3>1. PICK k \in 1..Len(queue) : queue[k] = accepted[i]
      BY DEF Queued, Contains
    <3>2. \E l \in 1..Len(queue) : k < l /\ queue[l] = accepted[j]
      BY <1>1, <2>1, <3>1 DEF IInv, Ranked, Behind
    <3> QED BY <2>3, <3>2 DEF Queued, Contains
  <2>5. ~Worked(u)
    <3> SUFFICES ASSUME Worked(u) PROVE FALSE
      OBVIOUS
    <3>1. PICK x \in Workers : worker[x].update = u
      BY DEF Worked
    <3>2. u # None
      BY <2>1, NotNone DEF Known
    <3>3. worker[x].at = "lock"
      <4>1. worker[x].at # "get" /\ worker[x].at # "debounce"
        BY <1>1, <3>1, <3>2 DEF IInv, Shapes
      <4> QED BY <1>1, <4>1 DEF IInv, TypeOK
    <3>4. a \in Actors /\ actorLock[a] # << >> /\ actorLock[a][1] = w /\ Len(actorLock[a]) \in Nat \ {0}
      BY <1>1, LockTail DEF IInv
    <3>5. Contains(actorLock[a], x)
      BY <1>1, <3>1, <3>3, <3>4 DEF IInv, Locks
    <3>6. PICK k \in 1..Len(actorLock[a]) : actorLock[a][k] = x
      BY <3>5 DEF Contains
    <3>7. k < 1
      BY <1>1, <2>1, <3>1, <3>4, <3>6 DEF IInv, Fifo
    <3> QED BY <3>7
  <2> QED BY <2>2, <2>4, <2>5 DEF Over
<1> QED BY <1>1, Invariance, PTL

-----------------------------------------------------------------------------
(* The queue implements UpdateDelivery while the store is large enough *)

Distinct(s) == \A i, j \in 1..Len(s) : s[i] = s[j] => i = j

LEMMA Fitting ==
  ASSUME NEW S, IsFiniteSet(S), NEW s \in Seq(S), Distinct(s)
  PROVE  Len(s) <= Cardinality(S)
<1>1. Len(s) \in Nat /\ s \in [1..Len(s) -> S]
  OBVIOUS
<1>2. IsFiniteSet(1..Len(s)) /\ Cardinality(1..Len(s)) = Len(s)
  <2>1. /\ IsFiniteSet(1..Len(s))
        /\ Cardinality(1..Len(s)) = IF 1 > Len(s) THEN 0 ELSE Len(s) - 1 + 1
    BY <1>1, FS_Interval
  <2> QED BY <1>1, <2>1
<1>3. Cardinality(S) \in Nat
  BY FS_CardinalityType
<1>4. CASE Cardinality(S) < Len(s)
  <2>1. \E x, y \in 1..Len(s) : x # y /\ s[x] = s[y]
    BY <1>1, <1>2, <1>4, FS_PigeonHole
  <2> QED BY <2>1 DEF Distinct
<1> QED BY <1>1, <1>3, <1>4

LEMMA AppendDistinct ==
  ASSUME NEW S, NEW s \in Seq(S), Distinct(s), NEW u \in S, ~Contains(s, u)
  PROVE  Distinct(Append(s, u))
<1>1. /\ Len(s) \in Nat /\ Len(Append(s, u)) = Len(s) + 1
      /\ \A i \in 1..Len(s) : Append(s, u)[i] = s[i]
      /\ Append(s, u)[Len(s) + 1] = u
  BY Appending
<1>2. \A i \in 1..Len(s) : s[i] # u
  BY DEF Contains
<1>3. \A i \in 1..Len(Append(s, u)) : i \in 1..Len(s) \/ i = Len(s) + 1
  BY <1>1
<1> SUFFICES ASSUME NEW i \in 1..Len(Append(s, u)), NEW j \in 1..Len(Append(s, u)),
                    Append(s, u)[i] = Append(s, u)[j]
             PROVE  i = j
  BY DEF Distinct
<1>4. CASE i \in 1..Len(s) /\ j \in 1..Len(s)
  <2>1. s[i] = s[j]
    BY <1>1, <1>4
  <2> QED BY <1>4, <2>1 DEF Distinct
<1>5. CASE i = Len(s) + 1 /\ j \in 1..Len(s)
  <2>1. s[j] = u
    BY <1>1, <1>5
  <2> QED BY <1>2, <1>5, <2>1
<1>6. CASE j = Len(s) + 1 /\ i \in 1..Len(s)
  <2>1. s[i] = u
    BY <1>1, <1>6
  <2> QED BY <1>2, <1>6, <2>1
<1> QED BY <1>3, <1>4, <1>5, <1>6

LEMMA PopDistinct ==
  ASSUME NEW S, NEW s \in Seq(S), Distinct(s), NEW u
  PROVE  Distinct(Pop(s, u)) /\ ~Contains(Pop(s, u), u)
<1>0. Len(s) \in Nat
  OBVIOUS
<1>1. CASE ~Contains(s, u)
  BY <1>1 DEF Pop
<1>2. CASE Contains(s, u)
  <2>1. PICK k \in 1..Len(s) : s[k] = u /\ Pop(s, u) = RemoveAt(s, k)
    BY <1>2 DEF Pop, Contains
  <2> DEFINE t == Pop(s, u)  At(i) == IF i < k THEN i ELSE i + 1
  <2>2. /\ Len(t) = Len(s) - 1
        /\ \A i \in 1..(k - 1) : t[i] = s[i]
        /\ \A i \in k..(Len(s) - 1) : t[i] = s[i + 1]
    BY <2>1, Removing
  <2> HIDE DEF t
  <2>3. \A i \in 1..Len(t) : At(i) \in 1..Len(s) /\ t[i] = s[At(i)] /\ At(i) # k
    <3> TAKE i \in 1..Len(t)
    <3>1. CASE i < k
      <4>1. i \in 1..(k - 1) /\ i \in 1..Len(s)
        BY <1>0, <2>2, <3>1
      <4> QED BY <2>2, <3>1, <4>1
    <3>2. CASE ~(i < k)
      <4>1. i \in k..(Len(s) - 1) /\ i + 1 \in 1..Len(s) /\ i + 1 # k
        BY <1>0, <2>2, <3>2
      <4> QED BY <2>2, <3>2, <4>1
    <3> QED BY <3>1, <3>2
  <2>4. \A i, j \in 1..Len(t) : At(i) = At(j) => i = j
    BY <1>0, <2>2
  <2>5. Distinct(t)
    BY <2>3, <2>4 DEF Distinct
  <2>6. ~Contains(t, u)
    BY <2>1, <2>3 DEF Distinct, Contains
  <2> QED BY <2>5, <2>6 DEF t
<1> QED BY <1>1, <1>2

LEMMA MoveDistinct ==
  ASSUME NEW S, NEW s \in Seq(S), Distinct(s), NEW u \in S
  PROVE  Distinct(MoveToEnd(s, u))
<1>1. Pop(s, u) \in Seq(S) /\ Distinct(Pop(s, u)) /\ ~Contains(Pop(s, u), u)
  BY Popping, PopDistinct
<1>2. Distinct(Append(Pop(s, u), u))
  BY <1>1, AppendDistinct
<1> QED BY <1>2 DEF MoveToEnd

(* A store as large as the number of updates forgets none. *)
Remembers == Distinct(seen) /\ forgotten = {}

LEMMA ReserveRemembers ==
  ASSUME TypeOK, Remembers, NEW u \in Updates, Reserve(u), Cardinality(Updates) <= MaxItems
  PROVE  Remembers'
<1>1. /\ ~Contains(seen, u) /\ seen' = Trimmed(Append(seen, u))
      /\ forgotten' = forgotten \cup Evicted(Append(seen, u))
  BY DEF Reserve, Store
<1>2. seen \in Seq(Updates)
  BY DEF TypeOK
<1>3. Append(seen, u) \in Seq(Updates)
  BY <1>2
<1>4. Distinct(Append(seen, u))
  BY <1>1, <1>2, AppendDistinct DEF Remembers
<1>5. IsFiniteSet(Updates)
  BY QueueAssumption DEF QueueAssumption
<1>6. Len(Append(seen, u)) <= Cardinality(Updates)
  BY <1>3, <1>4, <1>5, Fitting
<1>7. ~(Len(Append(seen, u)) > MaxItems)
  <2>1. Len(Append(seen, u)) \in Nat /\ Cardinality(Updates) \in Nat /\ MaxItems \in Nat
    BY <1>3, <1>5, FS_CardinalityType, Sizes
  <2> QED BY <1>6, <2>1
<1>8. seen' = Append(seen, u) /\ forgotten' = {}
  BY <1>1, <1>7 DEF Trimmed, Evicted, Remembers
<1> QED BY <1>4, <1>8 DEF Remembers

LEMMA Remembering ==
  ASSUME IInv, Remembers, [Next]_vars, Cardinality(Updates) <= MaxItems
  PROVE  Remembers'
<1>t. TypeOK /\ Shapes /\ seen \in Seq(Updates)
  BY DEF IInv, TypeOK
<1>u. UNCHANGED <<seen, forgotten>> => Remembers'
  BY DEF Remembers
<1>m. ASSUME NEW u \in Updates, seen' = MoveToEnd(seen, u), UNCHANGED forgotten PROVE Remembers'
  BY <1>t, <1>m, MoveDistinct DEF Remembers
<1>1. ASSUME NEW u \in Updates, EnqueueDuplicate(u) PROVE Remembers'
  BY <1>1, <1>m DEF EnqueueDuplicate
<1>2. ASSUME NEW u \in Updates, EnqueueAccepted(u) PROVE Remembers'
  BY <1>t, <1>2, ReserveRemembers DEF EnqueueAccepted
<1>3. ASSUME NEW r \in Requests, NEW u \in Updates, EnqueueWait(r, u) PROVE Remembers'
  BY <1>t, <1>3, ReserveRemembers DEF EnqueueWait
<1>4. ASSUME NEW r \in Requests, PutResumes(r) PROVE Remembers'
  BY <1>4, <1>u DEF PutResumes
<1>5. ASSUME NEW r \in Requests, PutTimesOut(r) PROVE Remembers'
  <2>1. seen' = Pop(seen, request[r].update) /\ UNCHANGED forgotten
    BY <1>5 DEF PutTimesOut
  <2>2. Distinct(Pop(seen, request[r].update))
    BY <1>t, PopDistinct DEF Remembers
  <2> QED BY <2>1, <2>2 DEF Remembers
<1>6. ASSUME NEW r \in Requests, Disconnect(r) PROVE Remembers'
  BY <1>6, <1>u DEF Disconnect
<1>7. ASSUME NEW w \in Workers, GetFresh(w) \/ GetLate(w) \/ DebounceOver(w) PROVE Remembers'
  BY <1>7, <1>u DEF GetFresh, GetLate, DebounceOver
<1>8. ASSUME NEW w \in Workers, NEW how, Running(w), Finish(w, how) PROVE Remembers'
  <2>1. worker[w].update \in Updates
    BY <1>t, <1>8, Works DEF Running
  <2> QED BY <1>8, <1>m, <2>1 DEF Finish
<1>9. ASSUME NEW w \in Workers, HandlerRaises(w) PROVE Remembers'
  BY <1>9, <1>u DEF HandlerRaises
<1>10. CASE Restart
  <2>1. seen' = << >> /\ forgotten' = {}
    BY <1>10 DEF Restart, ClearProcess
  <2> QED BY <2>1 DEF Remembers, Distinct
<1>11. CASE UNCHANGED vars
  BY <1>11, <1>u DEF vars
<1> QED BY <1>1, <1>2, <1>3, <1>4, <1>5, <1>6, <1>7, <1>8, <1>9, <1>10, <1>11
        DEF Next, HandlerReturns, LastAttemptRaises

Stands ==
  \A u \in Updates :
    /\ Over(u) => Status[u] = ended[u]
    /\ ~Over(u) /\ (Queued(u) \/ Worked(u)) => Status[u] = "queued"
    /\ ~Over(u) /\ ~Queued(u) /\ ~Worked(u) => Status[u] = "out"

LEMMA StatusIs == TypeOK => Stands
<1> SUFFICES ASSUME TypeOK PROVE Stands
  OBVIOUS
<1>1. DOMAIN queue = 1..Len(queue)
  <2>1. queue \in Seq(Updates)
    BY DEF TypeOK
  <2> QED BY <2>1
<1>2. \A u \in Updates : u \in Taken <=> Queued(u) \/ Worked(u)
  BY <1>1, NotNone DEF Taken, Held, ToSet, Queued, Worked, Contains
<1> QED BY <1>2 DEF Stands, Status, Over

LEMMA StatusWillBe == TypeOK' => Stands'
BY StatusIs, PTL

(* A step that moves no update between its places is a stutter. *)
LEMMA SameStatus ==
  ASSUME TypeOK, TypeOK', UNCHANGED ended,
         \A u \in Updates : (Queued(u) \/ Worked(u))' <=> (Queued(u) \/ Worked(u))
  PROVE  UNCHANGED Status
<1>1. ASSUME NEW u \in Updates PROVE Status'[u] = Status[u]
  <2>1. Over(u)' <=> Over(u)
    BY DEF Over
  <2>2. /\ Over(u) => Status[u] = ended[u]
        /\ ~Over(u) /\ (Queued(u) \/ Worked(u)) => Status[u] = "queued"
        /\ ~Over(u) /\ ~Queued(u) /\ ~Worked(u) => Status[u] = "out"
    BY StatusIs DEF Stands
  <2>3. /\ Over(u)' => Status'[u] = ended'[u]
        /\ ~Over(u)' /\ (Queued(u) \/ Worked(u))' => Status'[u] = "queued"
        /\ ~Over(u)' /\ ~(Queued(u) \/ Worked(u))' => Status'[u] = "out"
    BY StatusWillBe DEF Stands
  <2> QED BY <2>1, <2>2, <2>3
<1>2. Status = [u \in Updates |-> Status[u]] /\ Status' = [u \in Updates |-> Status'[u]]
  BY DEF Status
<1> QED BY <1>1, <1>2

(* An update moves in the abstract specification as it does in the queue. *)
LEMMA MovedStatus ==
  ASSUME TypeOK, TypeOK', NEW u \in Updates, NEW new, Status'[u] = new,
         \A v \in Updates \ {u} : /\ ended'[v] = ended[v]
                                  /\ (Queued(v) \/ Worked(v))' <=> (Queued(v) \/ Worked(v))
  PROVE  Status' = [Status EXCEPT ![u] = new]
<1>1. ASSUME NEW v \in Updates \ {u} PROVE Status'[v] = Status[v]
  <2>1. Over(v)' <=> Over(v)
    BY DEF Over
  <2>2. /\ Over(v) => Status[v] = ended[v]
        /\ ~Over(v) /\ (Queued(v) \/ Worked(v)) => Status[v] = "queued"
        /\ ~Over(v) /\ ~Queued(v) /\ ~Worked(v) => Status[v] = "out"
    BY StatusIs DEF Stands
  <2>3. /\ Over(v)' => Status'[v] = ended'[v]
        /\ ~Over(v)' /\ (Queued(v) \/ Worked(v))' => Status'[v] = "queued"
        /\ ~Over(v)' /\ ~(Queued(v) \/ Worked(v))' => Status'[v] = "out"
    BY StatusWillBe DEF Stands
  <2> QED BY <2>1, <2>2, <2>3
<1>2. Status = [v \in Updates |-> Status[v]] /\ Status' = [v \in Updates |-> Status'[v]]
  BY DEF Status
<1> QED BY <1>1, <1>2

LEMMA EnterAccepts ==
  ASSUME TypeOK, TypeOK', NEW u \in Updates, Enter(u), UNCHANGED <<worker, ended>>,
         ~Queued(u), ~Worked(u), ~Over(u)
  PROVE  Delivery!Accept(u)
<1>1. \A v : Contains(queue', v) <=> Contains(queue, v) \/ v = u
  BY Entered
<1>2. \A v : (Queued(v)' <=> Queued(v) \/ v = u) /\ (Worked(v)' <=> Worked(v)) /\ (Over(v)' <=> Over(v))
  BY <1>1 DEF Queued, Worked, Over
<1>3. Status[u] = "out"
  BY StatusIs DEF Stands
<1>4. Status'[u] = "queued"
  BY <1>2, StatusWillBe DEF Stands
<1>5. Status' = [Status EXCEPT ![u] = "queued"]
  BY <1>2, <1>4, MovedStatus
<1> QED BY <1>3, <1>5 DEF Delivery!Accept

LEMMA StepDelivers ==
  ASSUME IInv, IInv', Remembers, [Next]_vars
  PROVE  [Delivery!Next]_Status
<1>t. TypeOK /\ TypeOK' /\ Shapes /\ Single /\ Placed
  BY DEF IInv
<1>k. Known = Updates
  BY DEF Remembers, Known
<1>s. UNCHANGED <<queue, worker, ended>> => UNCHANGED Status
  <2> SUFFICES ASSUME UNCHANGED <<queue, worker, ended>> PROVE UNCHANGED Status
    OBVIOUS
  <2>1. \A u \in Updates : (Queued(u) \/ Worked(u))' <=> (Queued(u) \/ Worked(u))
    BY DEF Queued, Worked
  <2> QED BY <1>t, <2>1, SameStatus
<1>1. ASSUME NEW u \in Updates, EnqueueDuplicate(u) PROVE UNCHANGED Status
  BY <1>1, <1>s DEF EnqueueDuplicate
<1>2. ASSUME NEW u \in Updates, EnqueueAccepted(u) PROVE Delivery!Accept(u)
  <2>1. Enter(u) /\ Reserve(u) /\ UNCHANGED <<worker, ended>>
    BY <1>2 DEF EnqueueAccepted
  <2>2. ~Queued(u) /\ ~Worked(u) /\ ~Over(u)
    BY <1>t, <1>k, <2>1, Reserved
  <2> QED BY <1>t, <2>1, <2>2, EnterAccepts
<1>3. ASSUME NEW r \in Requests, NEW u \in Updates, EnqueueWait(r, u) PROVE UNCHANGED Status
  BY <1>3, <1>s DEF EnqueueWait
<1>4. ASSUME NEW r \in Requests, PutResumes(r) PROVE Delivery!Accept(request[r].update)
  <2>1. Enter(request[r].update) /\ UNCHANGED <<worker, ended>>
    BY <1>4 DEF PutResumes
  <2>2. request[r].update \in Updates /\ Asked(request[r].update)
    BY <1>t, <1>4, Waits DEF PutResumes, Asked
  <2>3. ~Queued(request[r].update) /\ ~Worked(request[r].update) /\ ~Over(request[r].update)
    BY <1>t, <1>k, <2>2 DEF Placed
  <2> QED BY <1>t, <2>1, <2>2, <2>3, EnterAccepts
<1>5. ASSUME NEW r \in Requests, PutTimesOut(r) \/ Disconnect(r) PROVE UNCHANGED Status
  BY <1>5, <1>s DEF PutTimesOut, Disconnect
<1>6. ASSUME NEW w \in Workers, NEW job, worker[w].at = "get", queue # << >>,
             queue' = Tail(queue), job.update = Head(queue), worker' = [worker EXCEPT ![w] = job],
             UNCHANGED <<ended, forgotten>>
      PROVE  UNCHANGED Status
  <2>1. /\ Head(queue) \in Updates /\ Queued(Head(queue))
        /\ \A v \in Known : Contains(queue', v) <=> Queued(v) /\ v # Head(queue)
    BY <1>t, <1>6, Got
  <2>2. ~Worked(Head(queue))
    BY <1>t, <1>k, <2>1 DEF Placed
  <2>3. \A v \in Known : Worked(v)' <=> Worked(v) \/ v = Head(queue)
    BY <1>t, <1>6, <2>2, Took
  <2>4. \A v \in Updates : (Queued(v) \/ Worked(v))' <=> (Queued(v) \/ Worked(v))
    BY <1>k, <2>1, <2>3 DEF Queued
  <2> QED BY <1>t, <1>6, <2>4, SameStatus
<1>7. ASSUME NEW w \in Workers, GetFresh(w) \/ GetLate(w) PROVE UNCHANGED Status
  BY <1>6, <1>7 DEF GetFresh, GetLate, JoinLock
<1>8. ASSUME NEW w \in Workers, DebounceOver(w) \/ HandlerRaises(w) PROVE UNCHANGED Status
  <2>1. \A x \in Workers : worker'[x].update = worker[x].update
    <3>1. CASE DebounceOver(w)
      BY <1>t, <3>1 DEF DebounceOver, JoinLock, TypeOK
    <3>2. CASE HandlerRaises(w)
      BY <1>t, <3>2, Retrying
    <3> QED BY <1>8, <3>1, <3>2
  <2>2. \A v \in Updates : (Queued(v) \/ Worked(v))' <=> (Queued(v) \/ Worked(v))
    BY <1>8, <2>1 DEF Queued, Worked, DebounceOver, HandlerRaises
  <2> QED BY <1>t, <1>8, <2>2, SameStatus DEF DebounceOver, HandlerRaises
<1>9. ASSUME NEW w \in Workers, NEW how \in {"handled", "dropped"}, Running(w), Finish(w, how)
      PROVE  /\ worker[w].update \in Updates
             /\ Status[worker[w].update] = "queued"
             /\ Status' = [Status EXCEPT ![worker[w].update] = how]
  <2> DEFINE u == worker[w].update
  <2>1. /\ UNCHANGED <<queue, forgotten>> /\ worker' = [worker EXCEPT ![w] = IdleWorker]
        /\ ended' = [ended EXCEPT ![u] = how]
    BY <1>9 DEF Finish
  <2>2. u \in Updates /\ Worked(u)
    BY <1>t, <1>9, Works DEF Running, Worked
  <2>3. ~Over(u)
    BY <1>t, <1>k, <2>2 DEF Placed
  <2>4. \A v \in Known : Worked(v)' <=> Worked(v) /\ v # u
    BY <1>t, <2>1, <2>2, Released
  <2>5. Status[u] = "queued"
    BY <1>t, <2>2, <2>3, StatusIs DEF Stands
  <2>6. /\ ended'[u] = how /\ how # "no"
        /\ \A v \in Updates \ {u} : ended'[v] = ended[v]
    <3>1. ended \in [Updates -> {"no", "handled", "dropped"}]
      BY <1>t DEF TypeOK
    <3> HIDE DEF u
    <3> QED BY <1>9, <2>1, <2>2, <3>1
  <2>7. Status'[u] = how
    BY <1>t, <2>2, <2>6, StatusWillBe DEF Stands, Over
  <2>8. \A v \in Updates \ {u} : (Queued(v) \/ Worked(v))' <=> (Queued(v) \/ Worked(v))
    BY <1>k, <2>1, <2>4 DEF Queued
  <2>9. Status' = [Status EXCEPT ![u] = how]
    BY <1>t, <2>2, <2>6, <2>7, <2>8, MovedStatus
  <2> QED BY <2>2, <2>5, <2>9
<1>10. ASSUME NEW w \in Workers, HandlerReturns(w)
       PROVE  \E u \in Updates : Delivery!Handle(u)
  BY <1>9, <1>10 DEF HandlerReturns, Delivery!Handle
<1>11. ASSUME NEW w \in Workers, LastAttemptRaises(w)
       PROVE  \E u \in Updates : Delivery!GiveUp(u)
  BY <1>9, <1>11 DEF LastAttemptRaises, Delivery!GiveUp
<1>12. CASE Restart
  <2>1. /\ worker' = [w \in Workers |-> IdleWorker] /\ queue' = << >>
        /\ ended' = [u \in Updates |-> "no"]
    BY <1>12 DEF Restart, ClearProcess
  <2>2. \A u \in Updates : ~Queued(u)' /\ ~Worked(u)' /\ ~Over(u)'
    BY <2>1, NotNone DEF Queued, Contains, Worked, Over, IdleWorker
  <2>3. \A u \in Updates : Status'[u] = "out"
    BY <1>t, <2>2, StatusWillBe DEF Stands
  <2>4. Status' = [u \in Updates |-> "out"]
    BY <2>3 DEF Status
  <2> QED BY <2>4 DEF Delivery!Restart, Delivery!Next
<1>13. CASE UNCHANGED vars
  BY <1>13, <1>s DEF vars
<1> QED
  <2>1. CASE \E u \in Updates : EnqueueDuplicate(u) \/ EnqueueAccepted(u)
    BY <1>1, <1>2, <2>1 DEF Delivery!Next
  <2>2. CASE \E r \in Requests, u \in Updates : EnqueueWait(r, u)
    BY <1>3, <2>2
  <2>3. CASE \E r \in Requests : PutResumes(r) \/ PutTimesOut(r) \/ Disconnect(r)
    <3>1. \A r \in Requests : PutResumes(r) => request[r].update \in Updates
      BY <1>t, Waits DEF PutResumes
    <3> QED BY <1>4, <1>5, <2>3, <3>1 DEF Delivery!Next
  <2>4. CASE \E w \in Workers : GetFresh(w) \/ GetLate(w) \/ DebounceOver(w)
    BY <1>7, <1>8, <2>4
  <2>5. CASE \E w \in Workers : HandlerReturns(w) \/ HandlerRaises(w) \/ LastAttemptRaises(w)
    BY <1>8, <1>10, <1>11, <2>5 DEF Delivery!Next
  <2> QED BY <1>12, <1>13, <2>1, <2>2, <2>3, <2>4, <2>5 DEF Next

(* With a store for all the updates of a life, the queue and the workers   *)
(* take every update over at most once and end it at most once, as         *)
(* UpdateDelivery has it: the safety part of ImplementsDelivery.           *)
THEOREM Delivers ==
  ASSUME Cardinality(Updates) <= MaxItems
  PROVE  Spec => Delivery!Init /\ [][Delivery!Next]_Status
<1>1. Init => Remembers
  BY DEF Init, Remembers, Distinct
<1>2. IInv /\ Remembers /\ [Next]_vars => Remembers'
  BY Remembering
<1>3. Init => Delivery!Init
  <2> SUFFICES ASSUME Init PROVE Delivery!Init
    OBVIOUS
  <2>1. TypeOK
    BY Initial DEF IInv
  <2>2. /\ worker = [w \in Workers |-> IdleWorker] /\ queue = << >>
        /\ ended = [u \in Updates |-> "no"]
    BY DEF Init
  <2>3. \A u \in Updates : ~Queued(u) /\ ~Worked(u) /\ ~Over(u)
    BY <2>2, NotNone DEF Queued, Contains, Worked, Over, IdleWorker
  <2>4. \A u \in Updates : Status[u] = "out"
    BY <2>1, <2>3, StatusIs DEF Stands
  <2> QED BY <2>4 DEF Delivery!Init, Status
<1>4. IInv /\ IInv' /\ Remembers /\ [Next]_vars => [Delivery!Next]_Status
  BY StepDelivers
<1> QED BY <1>1, <1>2, <1>3, <1>4, Invariance, PTL DEF Spec
=============================================================================
