-------------------------- MODULE AnsweringProofs ---------------------------
(***************************************************************************)
(* The components of MCAnswering, for every set of users, chats, calls,    *)
(* threads and providers, and every limit and window.                      *)
(*                                                                         *)
(* AnswersBounded is not inductive: an answer the provider is still asked  *)
(* for has passed its count and has no row yet.  What is kept bounds the   *)
(* rows together with the answers under way (UserBound, ChatBound); the    *)
(* generation gate leaves one of those to each user.  No key is passed     *)
(* over because those that had their turn and those that are left are all  *)
(* the keys of the provider (KeysLeft), and a key that was told to rest    *)
(* rests because only calls that were asking it then ask it (Resting).  A  *)
(* summary has no gap because a job either has read the summary as it      *)
(* still is, with the first messages after it, or its user was deleted     *)
(* meanwhile (ReadRight).                                                  *)
(***************************************************************************)
EXTENDS MCAnswering, Sequences, TLAPS, FiniteSetTheorems, WellFoundedInduction

Answers == {"mention_response", "guest_response"}

(* A message of u, or of u in c, whose row is still to be written. *)
AnswerFor(m, type, u) ==
  /\ m \in DOMAIN work /\ work[m].at = "answering"
  /\ Response(work[m].kind) = type /\ work[m].user = u
UnderWay(type, u) == IF \E m \in DOMAIN work : AnswerFor(m, type, u) THEN 1 ELSE 0
Answering(c) == {u \in Users : \E m \in DOMAIN work : AnswerFor(m, "mention_response", u) /\ work[m].chat = c}

(* The generation gate of the quota service. *)
OneEach == \A m, n \in DOMAIN work : work[m].user = work[n].user => m = n

UserBound ==
  \A u \in Users, type \in Answers :
    Cardinality(ByUser(type, u, UserWindow)) + UnderWay(type, u) <= UserLimit

ChatBound ==
  \A c \in Chats :
    Cardinality(InChat("mention_response", c, ChatWindow)) + Cardinality(Answering(c))
      <= ChatLimit + Cardinality(Users) - 1

RepliesInv == TypeOK /\ IsFiniteSet(events) /\ OneEach /\ UserBound /\ ChatBound /\ OnePhotoPerCooldown

-----------------------------------------------------------------------------
(* The counts of a finite table are naturals. *)
LEMMA Counts ==
  ASSUME IsFiniteSet(events)
  PROVE  /\ \A type, u, window : /\ IsFiniteSet(ByUser(type, u, window))
                                 /\ Cardinality(ByUser(type, u, window)) \in Nat
         /\ \A type, c, window : /\ IsFiniteSet(InChat(type, c, window))
                                 /\ Cardinality(InChat(type, c, window)) \in Nat
         /\ \A c : /\ Answering(c) \subseteq Users /\ IsFiniteSet(Answering(c))
                   /\ Cardinality(Answering(c)) \in Nat
         /\ Cardinality(Users) \in Nat
<1>1. \A type, u, window : ByUser(type, u, window) \subseteq events
  BY DEF ByUser
<1>2. \A type, c, window : InChat(type, c, window) \subseteq events
  BY DEF InChat
<1>3. IsFiniteSet(Users) /\ \A c : Answering(c) \subseteq Users
  BY RepliesAssumption DEF RepliesAssumption, Answering
<1> QED BY <1>1, <1>2, <1>3, FS_Subset, FS_CardinalityType

(* A row more: the counts grow by one at most, and only where it counts. *)
LEMMA RowAdded ==
  ASSUME IsFiniteSet(events), NEW e, events' = events \cup {e}
  PROVE  /\ IsFiniteSet(events')
         /\ \A type, u, window :
              /\ Cardinality(ByUser(type, u, window)') \in Nat
              /\ Cardinality(ByUser(type, u, window)') <= Cardinality(ByUser(type, u, window)) + 1
              /\ e.type # type \/ e.user # u => ByUser(type, u, window)' = ByUser(type, u, window)
         /\ \A type, c, window :
              /\ Cardinality(InChat(type, c, window)') \in Nat
              /\ Cardinality(InChat(type, c, window)') <= Cardinality(InChat(type, c, window)) + 1
              /\ e.type # type \/ e.chat # c => InChat(type, c, window)' = InChat(type, c, window)
<1>1. IsFiniteSet(events')
  BY FS_AddElement
<1>2. ASSUME NEW A, NEW T, IsFiniteSet(A), T = A \/ T = A \cup {e}
      PROVE  Cardinality(T) \in Nat /\ Cardinality(T) <= Cardinality(A) + 1
  <2>1. Cardinality(A) \in Nat
    BY <1>2, FS_CardinalityType
  <2>2. Cardinality(A \cup {e}) \in Nat /\ Cardinality(A \cup {e}) <= Cardinality(A) + 1
    <3>1. IsFiniteSet(A)
      BY <1>2
    <3>2. Cardinality(A \cup {e}) = IF e \in A THEN Cardinality(A) ELSE Cardinality(A) + 1
      BY <3>1, FS_AddElement
    <3> QED BY <2>1, <3>2
  <2>3. CASE T = A
    BY <2>1, <2>3
  <2>4. CASE T = A \cup {e}
    BY <2>2, <2>4
  <2> QED BY <1>2, <2>3, <2>4
<1>3. ASSUME NEW type, NEW u, NEW window
      PROVE  /\ Cardinality(ByUser(type, u, window)') \in Nat
             /\ Cardinality(ByUser(type, u, window)') <= Cardinality(ByUser(type, u, window)) + 1
             /\ e.type # type \/ e.user # u => ByUser(type, u, window)' = ByUser(type, u, window)
  <2>1. \/ ByUser(type, u, window)' = ByUser(type, u, window)
        \/ ByUser(type, u, window)' = ByUser(type, u, window) \cup {e}
    BY DEF ByUser
  <2>2. e.type # type \/ e.user # u => ByUser(type, u, window)' = ByUser(type, u, window)
    BY DEF ByUser
  <2>3. IsFiniteSet(ByUser(type, u, window))
    BY Counts
  <2> QED BY <2>1, <2>2, <2>3, <1>2
<1>4. ASSUME NEW type, NEW c, NEW window
      PROVE  /\ Cardinality(InChat(type, c, window)') \in Nat
             /\ Cardinality(InChat(type, c, window)') <= Cardinality(InChat(type, c, window)) + 1
             /\ e.type # type \/ e.chat # c => InChat(type, c, window)' = InChat(type, c, window)
  <2>1. \/ InChat(type, c, window)' = InChat(type, c, window)
        \/ InChat(type, c, window)' = InChat(type, c, window) \cup {e}
    BY DEF InChat
  <2>2. e.type # type \/ e.chat # c => InChat(type, c, window)' = InChat(type, c, window)
    BY DEF InChat
  <2>3. IsFiniteSet(InChat(type, c, window))
    BY Counts
  <2> QED BY <2>1, <2>2, <2>3, <1>2
<1> QED BY <1>1, <1>3, <1>4

(* The image of a finite set has no more elements than the set. *)
LEMMA ImageCount ==
  ASSUME NEW A, IsFiniteSet(A), NEW T, NEW f \in [A -> T], \A t \in T : \E s \in A : f[s] = t
  PROVE  IsFiniteSet(T) /\ Cardinality(T) <= Cardinality(A)
<1>1. f \in Surjection(A, T)
  BY DEF Surjection
<1> QED BY <1>1, FS_Surjection

(* Time takes rows out of the counts and brings none in. *)
LEMMA RowsAge ==
  ASSUME IsFiniteSet(events), events \subseteq Events, Tick
  PROVE  /\ IsFiniteSet(events') /\ events' \subseteq Events
         /\ \A type, u : \A window \in Nat :
              /\ Cardinality(ByUser(type, u, window)') \in Nat
              /\ Cardinality(ByUser(type, u, window)') <= Cardinality(ByUser(type, u, window))
         /\ \A type, c : \A window \in Nat :
              /\ Cardinality(InChat(type, c, window)') \in Nat
              /\ Cardinality(InChat(type, c, window)') <= Cardinality(InChat(type, c, window))
<1> DEFINE Older(e) == [e EXCEPT !.age = @ + 1]
<1>1. /\ \A e \in events' : \E d \in events : e = Older(d)
      /\ \A d \in events : /\ Older(d) \in Events
                           /\ Older(d).type = d.type /\ Older(d).user = d.user /\ Older(d).chat = d.chat
                           /\ Older(d).age = d.age + 1 /\ d.age \in Nat
  BY DEF Tick, Events
<1> HIDE DEF Older
<1>2. events' \subseteq Events
  BY <1>1
<1>3. ASSUME NEW A \in SUBSET events, NEW T \in SUBSET events',
             \A d \in events : Older(d) \in T => d \in A
      PROVE  IsFiniteSet(T) /\ Cardinality(T) \in Nat /\ Cardinality(T) <= Cardinality(A)
  <2> DEFINE R == {d \in A : Older(d) \in T}
             f == [d \in R |-> Older(d)]
  <2>1. IsFiniteSet(A) /\ IsFiniteSet(R) /\ Cardinality(R) <= Cardinality(A)
        /\ Cardinality(R) \in Nat /\ Cardinality(A) \in Nat
    <3>1. IsFiniteSet(A)
      BY FS_Subset
    <3>2. R \in SUBSET A
      OBVIOUS
    <3> QED BY <3>1, <3>2, FS_Subset, FS_CardinalityType
  <2>2. f \in [R -> T] /\ \A t \in T : \E d \in R : f[d] = t
    BY <1>1, <1>3
  <2> HIDE DEF R, f
  <2>3. IsFiniteSet(T) /\ Cardinality(T) <= Cardinality(R)
    BY <2>1, <2>2, ImageCount
  <2> QED BY <2>1, <2>3, FS_CardinalityType
<1>4. IsFiniteSet(events')
  BY <1>3
<1>5. ASSUME NEW type, NEW u, NEW window \in Nat
      PROVE  /\ Cardinality(ByUser(type, u, window)') \in Nat
             /\ Cardinality(ByUser(type, u, window)') <= Cardinality(ByUser(type, u, window))
  <2>1. ByUser(type, u, window) \in SUBSET events /\ ByUser(type, u, window)' \in SUBSET events'
    BY DEF ByUser
  <2>2. \A d \in events : Older(d) \in ByUser(type, u, window)' => d \in ByUser(type, u, window)
    BY <1>1 DEF ByUser
  <2> QED BY <1>3, <2>1, <2>2
<1>6. ASSUME NEW type, NEW c, NEW window \in Nat
      PROVE  /\ Cardinality(InChat(type, c, window)') \in Nat
             /\ Cardinality(InChat(type, c, window)') <= Cardinality(InChat(type, c, window))
  <2>1. InChat(type, c, window) \in SUBSET events /\ InChat(type, c, window)' \in SUBSET events'
    BY DEF InChat
  <2>2. \A d \in events : Older(d) \in InChat(type, c, window)' => d \in InChat(type, c, window)
    BY <1>1 DEF InChat
  <2> QED BY <1>3, <2>1, <2>2
<1> QED BY <1>2, <1>4, <1>5, <1>6

-----------------------------------------------------------------------------
(* Nothing is under way and nothing has been answered. *)
LEMMA RepliesInitially == Init => RepliesInv
<1> SUFFICES ASSUME Init PROVE RepliesInv
  OBVIOUS
<1>1. TypeOK /\ OneEach /\ OnePhotoPerCooldown
  BY RepliesAssumption DEF RepliesAssumption, Init, TypeOK, OneEach, OnePhotoPerCooldown, InChat
<1>2. IsFiniteSet(events)
  BY FS_EmptySet DEF Init
<1>3. \A type, u, window : ByUser(type, u, window) = {}
  BY DEF Init, ByUser
<1>4. \A type, c, window : InChat(type, c, window) = {}
  BY DEF Init, InChat
<1>5. \A type, u : UnderWay(type, u) = 0
  BY DEF Init, UnderWay
<1>6. \A c : Answering(c) = {}
  BY DEF Init, Answering
<1>7. UserBound
  BY <1>3, <1>5, FS_EmptySet, RepliesAssumption DEF RepliesAssumption, UserBound
<1>8. ChatBound
  BY <1>2, <1>4, <1>6, FS_EmptySet, Counts, RepliesAssumption DEF RepliesAssumption, ChatBound
<1> QED BY <1>1, <1>2, <1>7, <1>8 DEF RepliesInv

(* A message that begins passed its counts, and is its user's only one. *)
LEMMA BeginsStep ==
  ASSUME RepliesInv, NEW kind \in Kinds, NEW u \in Users, NEW c \in Chats, Begins(kind, u, c),
         NEW m, m = begun + 1
  PROVE  RepliesInv'
<1> DEFINE seen == Event("photo_seen", m, u, c)
<1>1. TypeOK'
  <2>1. begun \in Nat /\ begun < MaxMessages /\ begun' = m /\ auto' = auto
    BY RepliesAssumption DEF RepliesAssumption, RepliesInv, TypeOK, Begins
  <2>2. /\ DOMAIN work' = DOMAIN work \cup {m}
        /\ \A n \in DOMAIN work' : work'[n] =
             IF n = m THEN [user |-> u, chat |-> c, kind |-> kind, at |-> "answering"] ELSE work[n]
    BY DEF Begins
  <2>3. DOMAIN work' \subseteq 1..begun'
    BY <2>1, <2>2 DEF RepliesInv, TypeOK
  <2>4. \A n \in DOMAIN work' :
          work'[n] \in [user : Users, chat : Chats, kind : Kinds, at : {"answering", "sending"}]
    BY <2>2 DEF RepliesInv, TypeOK
  <2>5. events' \subseteq Events
    BY <2>1, RepliesAssumption DEF RepliesAssumption, RepliesInv, TypeOK, Begins, Event, Events
  <2>6. begun' \in 0..MaxMessages /\ auto' \in Chats \cup {None}
    BY <2>1, RepliesAssumption DEF RepliesAssumption, RepliesInv, TypeOK
  <2> QED BY <2>3, <2>4, <2>5, <2>6 DEF TypeOK
<1>2. /\ m \notin DOMAIN work
      /\ DOMAIN work' = DOMAIN work \cup {m}
      /\ work'[m] = [user |-> u, chat |-> c, kind |-> kind, at |-> "answering"]
      /\ \A n \in DOMAIN work : work'[n] = work[n] /\ work[n].user # u
  BY DEF RepliesInv, TypeOK, Begins, Generating
<1>3. OneEach'
  BY <1>2 DEF RepliesInv, OneEach
<1>4. /\ events' = events \/ (kind = "photo" /\ events' = events \cup {seen})
      /\ seen.type = "photo_seen" /\ seen.chat = c
  <2>1. events' = events \cup IF kind = "photo" THEN {seen} ELSE {}
    BY DEF Begins
  <2>2. seen.type = "photo_seen" /\ seen.chat = c
    BY DEF Event
  <2> HIDE DEF seen
  <2>3. CASE kind = "photo"
    BY <2>1, <2>2, <2>3
  <2>4. CASE kind # "photo"
    <3>1. events' = events
      BY <2>1, <2>4
    <3> QED BY <2>2, <3>1
  <2> QED BY <2>3, <2>4
<1>5. IsFiniteSet(events')
  BY <1>4, FS_AddElement DEF RepliesInv
<1>6. /\ \A type \in Answers : \A v, window : ByUser(type, v, window)' = ByUser(type, v, window)
      /\ \A d, window : InChat("mention_response", d, window)' = InChat("mention_response", d, window)
  BY <1>4 DEF ByUser, InChat, Answers
<1>7. \A type, n, v : n # m => (AnswerFor(n, type, v)' <=> AnswerFor(n, type, v))
  BY <1>2 DEF AnswerFor
<1>8. \A type, v : AnswerFor(m, type, v)' <=> type = Response(kind) /\ v = u
  BY <1>2 DEF AnswerFor
<1>9. \A n, type : ~AnswerFor(n, type, u) /\ ~AnswerFor(m, type, u)
  BY <1>2 DEF AnswerFor
<1>10. UserBound'
  <2> SUFFICES ASSUME NEW v \in Users, NEW type \in Answers
               PROVE  Cardinality(ByUser(type, v, UserWindow)') + UnderWay(type, v)' <= UserLimit
    BY DEF UserBound
  <2>1. Cardinality(ByUser(type, v, UserWindow)) + UnderWay(type, v) <= UserLimit
    BY DEF RepliesInv, UserBound
  <2>2. CASE v = u /\ type = Response(kind)
    <3>1. Cardinality(ByUser(type, u, UserWindow)) < UserLimit
      BY <2>2, RepliesAssumption DEF RepliesAssumption, Begins, WithinLimits, Answers, Response
    <3>2. UnderWay(type, u)' = 1
      BY <1>2, <1>8, <2>2 DEF UnderWay
    <3> QED BY <1>6, <2>2, <3>1, <3>2, Counts, RepliesAssumption DEF RepliesAssumption, RepliesInv
  <2>3. CASE ~(v = u /\ type = Response(kind))
    <3>1. UnderWay(type, v)' = UnderWay(type, v)
      BY <1>2, <1>7, <1>8, <2>3 DEF UnderWay
    <3> QED BY <1>6, <2>1, <3>1
  <2> QED BY <2>2, <2>3
<1>11. ChatBound'
  <2> SUFFICES ASSUME NEW d \in Chats
               PROVE  Cardinality(InChat("mention_response", d, ChatWindow)') + Cardinality(Answering(d)')
                        <= ChatLimit + Cardinality(Users) - 1
    BY DEF ChatBound
  <2>1. Cardinality(InChat("mention_response", d, ChatWindow)) + Cardinality(Answering(d))
          <= ChatLimit + Cardinality(Users) - 1
    BY DEF RepliesInv, ChatBound
  <2>2. CASE d = c /\ kind = "mention"
    <3>1. Cardinality(InChat("mention_response", d, ChatWindow)) < ChatLimit
      BY <2>2 DEF Begins, WithinLimits
    <3>2. Answering(d)' = Answering(d) \cup {u} /\ u \notin Answering(d)
      BY <1>2, <1>7, <1>8, <1>9, <2>2 DEF Answering, Response
    <3>3. Cardinality(Answering(d)') <= Cardinality(Users)
      BY <3>2, Counts, FS_Subset, RepliesAssumption DEF RepliesAssumption, RepliesInv
    <3>4. Cardinality(Answering(d)') \in Nat
      BY <3>2, Counts, FS_AddElement, FS_CardinalityType DEF RepliesInv
    <3> QED BY <1>6, <3>1, <3>3, <3>4, Counts, RepliesAssumption DEF RepliesAssumption, RepliesInv
  <2>3. CASE ~(d = c /\ kind = "mention")
    <3>1. Response(kind) = "mention_response" => kind = "mention"
      BY DEF Response
    <3>2. Answering(d)' = Answering(d)
      BY <1>2, <1>7, <1>8, <2>3, <3>1 DEF Answering
    <3> QED BY <1>6, <2>1, <3>2
  <2> QED BY <2>2, <2>3
<1>12. OnePhotoPerCooldown'
  <2>1. CASE events' = events
    BY <2>1 DEF RepliesInv, OnePhotoPerCooldown, InChat
  <2>2. CASE kind = "photo" /\ events' = events \cup {seen}
    <3>1. InChat("photo_seen", c, Cooldown) = {}
      BY <2>2 DEF Begins, WithinLimits, CooldownActive
    <3>2. InChat("photo_seen", c, Cooldown)' \subseteq {seen}
      BY <2>2, <3>1 DEF InChat
    <3>3. \A d \in Chats \ {c} : InChat("photo_seen", d, Cooldown)' = InChat("photo_seen", d, Cooldown)
      BY <1>4, <2>2 DEF InChat
    <3> QED BY <3>2, <3>3 DEF RepliesInv, OnePhotoPerCooldown
  <2> QED BY <1>4, <2>1, <2>2
<1> QED BY <1>1, <1>3, <1>5, <1>10, <1>11, <1>12 DEF RepliesInv

(* The answer under way becomes a row. *)
LEMMA AnsweredStep ==
  ASSUME RepliesInv, NEW m, Answered(m)
  PROVE  RepliesInv'
<1> DEFINE u == work[m].user
           c == work[m].chat
           e == Event(Response(work[m].kind), m, u, c)
<1>1. /\ m \in DOMAIN work /\ work[m].at = "answering"
      /\ u \in Users /\ c \in Chats /\ work[m].kind \in Kinds
      /\ events' = events \cup {e} /\ auto' = auto /\ begun' = begun
      /\ e.type = Response(work[m].kind) /\ e.user = u /\ e.chat = c
  BY DEF RepliesInv, TypeOK, Answered, Event
<1>2. /\ DOMAIN work' = DOMAIN work
      /\ \A n \in DOMAIN work : n # m => work'[n] = work[n]
      /\ work'[m] = [work[m] EXCEPT !.at = "sending"]
  BY DEF Answered
<1>3. /\ work'[m].at = "sending" /\ work'[m].user = u
      /\ work'[m] \in [user : Users, chat : Chats, kind : Kinds, at : {"answering", "sending"}]
  BY <1>1, <1>2 DEF RepliesInv, TypeOK
<1>4. TypeOK'
  <2>1. Response(work[m].kind) \in {"mention_response", "guest_response", "photo_reaction"}
    BY DEF Response
  <2>2. m \in 0..MaxMessages
    BY <1>1, RepliesAssumption DEF RepliesAssumption, RepliesInv, TypeOK
  <2>3. events' \subseteq Events
    BY <1>1, <2>1, <2>2 DEF RepliesInv, TypeOK, Event, Events
  <2>4. \A n \in DOMAIN work' :
          work'[n] \in [user : Users, chat : Chats, kind : Kinds, at : {"answering", "sending"}]
    BY <1>2, <1>3 DEF RepliesInv, TypeOK
  <2> QED BY <1>1, <1>2, <2>3, <2>4 DEF RepliesInv, TypeOK
<1>5. OneEach'
  BY <1>1, <1>2, <1>3 DEF RepliesInv, OneEach
<1>6. IsFiniteSet(events')
  BY <1>1, FS_AddElement DEF RepliesInv
<1>7. \A n, type, v : n # m => (AnswerFor(n, type, v)' <=> AnswerFor(n, type, v))
  BY <1>2 DEF AnswerFor
<1>8. \A type, v : ~AnswerFor(m, type, v)'
  BY <1>3 DEF AnswerFor
<1>9. \A n, type, v : AnswerFor(n, type, v) /\ (n = m \/ v = u) => n = m /\ type = e.type /\ v = u
  BY <1>1 DEF AnswerFor, RepliesInv, OneEach
<1>10. AnswerFor(m, e.type, u)
  BY <1>1 DEF AnswerFor
<1> HIDE DEF e
<1>11. UserBound'
  <2> SUFFICES ASSUME NEW v \in Users, NEW type \in Answers
               PROVE  Cardinality(ByUser(type, v, UserWindow)') + UnderWay(type, v)' <= UserLimit
    BY DEF UserBound
  <2>1. Cardinality(ByUser(type, v, UserWindow)) + UnderWay(type, v) <= UserLimit
    BY DEF RepliesInv, UserBound
  <2>2. CASE v = u /\ type = e.type
    <3>1. UnderWay(type, v) = 1
      BY <1>1, <1>10, <2>2 DEF UnderWay
    <3>2. UnderWay(type, v)' = 0
      BY <1>2, <1>7, <1>8, <1>9, <2>2 DEF UnderWay
    <3>3. Cardinality(ByUser(type, v, UserWindow)') <= Cardinality(ByUser(type, v, UserWindow)) + 1
      BY <1>1, RowAdded DEF RepliesInv
    <3>4. /\ Cardinality(ByUser(type, v, UserWindow)) \in Nat
          /\ Cardinality(ByUser(type, v, UserWindow)') \in Nat
      BY <1>1, Counts, RowAdded DEF RepliesInv
    <3> QED BY <2>1, <3>1, <3>2, <3>3, <3>4, RepliesAssumption DEF RepliesAssumption
  <2>3. CASE ~(v = u /\ type = e.type)
    <3>1. ByUser(type, v, UserWindow)' = ByUser(type, v, UserWindow)
      BY <1>1, <2>3, RowAdded DEF RepliesInv
    <3>2. UnderWay(type, v)' = UnderWay(type, v)
      BY <1>2, <1>7, <1>8, <1>9, <2>3 DEF UnderWay
    <3> QED BY <2>1, <3>1, <3>2
  <2> QED BY <2>2, <2>3
<1>12. ChatBound'
  <2> SUFFICES ASSUME NEW d \in Chats
               PROVE  Cardinality(InChat("mention_response", d, ChatWindow)') + Cardinality(Answering(d)')
                        <= ChatLimit + Cardinality(Users) - 1
    BY DEF ChatBound
  <2>1. Cardinality(InChat("mention_response", d, ChatWindow)) + Cardinality(Answering(d))
          <= ChatLimit + Cardinality(Users) - 1
    BY DEF RepliesInv, ChatBound
  <2>2. CASE d = c /\ e.type = "mention_response"
    <3>1. Answering(d)' = Answering(d) \ {u} /\ u \in Answering(d)
      <4>1. u \in Answering(d)
        BY <1>1, <1>10, <2>2 DEF Answering
      <4>2. u \notin Answering(d)'
        BY <1>2, <1>7, <1>8, <1>9 DEF Answering
      <4>3. \A v \in Users \ {u} : v \in Answering(d)' <=> v \in Answering(d)
        BY <1>2, <1>7, <1>8, <1>9 DEF Answering
      <4>4. Answering(d) \subseteq Users /\ Answering(d)' \subseteq Users
        BY DEF Answering
      <4> QED BY <4>1, <4>2, <4>3, <4>4
    <3>2. Cardinality(Answering(d)') = Cardinality(Answering(d)) - 1
      <4>1. IsFiniteSet(Answering(d))
        BY Counts DEF RepliesInv
      <4>2. Cardinality(Answering(d) \ {u}) = Cardinality(Answering(d)) - 1
        BY <3>1, <4>1, FS_RemoveElement
      <4> QED BY <3>1, <4>2
    <3>3. Cardinality(InChat("mention_response", d, ChatWindow)')
            <= Cardinality(InChat("mention_response", d, ChatWindow)) + 1
      BY <1>1, RowAdded DEF RepliesInv
    <3>4. /\ Cardinality(InChat("mention_response", d, ChatWindow)) \in Nat
          /\ Cardinality(InChat("mention_response", d, ChatWindow)') \in Nat
          /\ Cardinality(Answering(d)) \in Nat /\ Cardinality(Users) \in Nat
      BY <1>1, Counts, RowAdded DEF RepliesInv
    <3> QED BY <2>1, <3>2, <3>3, <3>4, RepliesAssumption DEF RepliesAssumption
  <2>3. CASE ~(d = c /\ e.type = "mention_response")
    <3>1. InChat("mention_response", d, ChatWindow)' = InChat("mention_response", d, ChatWindow)
      BY <1>1, <2>3, RowAdded DEF RepliesInv
    <3>2. Answering(d)' = Answering(d)
      BY <1>2, <1>7, <1>8, <1>9, <2>3 DEF Answering
    <3> QED BY <2>1, <3>1, <3>2
  <2> QED BY <2>2, <2>3
<1>13. OnePhotoPerCooldown'
  <2>1. e.type # "photo_seen"
    BY <1>1 DEF Response
  <2>2. \A d : InChat("photo_seen", d, Cooldown)' = InChat("photo_seen", d, Cooldown)
    BY <1>1, <2>1, RowAdded DEF RepliesInv
  <2> QED BY <2>2 DEF RepliesInv, OnePhotoPerCooldown
<1> QED BY <1>4, <1>5, <1>6, <1>11, <1>12, <1>13 DEF RepliesInv

(* An answer ends, or is given up: its row stays if it has one. *)
LEMMA FinishesStep ==
  ASSUME RepliesInv, NEW m, Finishes(m)
  PROVE  RepliesInv'
<1>1. /\ DOMAIN work' = DOMAIN work \ {m} /\ \A n \in DOMAIN work' : work'[n] = work[n]
      /\ UNCHANGED <<events, auto, begun>>
  BY DEF Finishes, Without
<1>2. TypeOK' /\ OneEach' /\ OnePhotoPerCooldown' /\ IsFiniteSet(events')
  BY <1>1 DEF RepliesInv, TypeOK, OneEach, OnePhotoPerCooldown, InChat
<1>3. \A n, type, v : AnswerFor(n, type, v)' => AnswerFor(n, type, v)
  BY <1>1 DEF AnswerFor
<1>4. UserBound'
  <2> SUFFICES ASSUME NEW v \in Users, NEW type \in Answers
               PROVE  Cardinality(ByUser(type, v, UserWindow)') + UnderWay(type, v)' <= UserLimit
    BY DEF UserBound
  <2>1. ByUser(type, v, UserWindow)' = ByUser(type, v, UserWindow)
    BY <1>1 DEF ByUser
  <2>2. UnderWay(type, v)' \in 0..UnderWay(type, v) /\ UnderWay(type, v) \in Nat
    BY <1>1, <1>3 DEF UnderWay
  <2>3. Cardinality(ByUser(type, v, UserWindow)) + UnderWay(type, v) <= UserLimit
    BY DEF RepliesInv, UserBound
  <2> QED BY <2>1, <2>2, <2>3, Counts, RepliesAssumption DEF RepliesAssumption, RepliesInv
<1>5. ChatBound'
  <2> SUFFICES ASSUME NEW d \in Chats
               PROVE  Cardinality(InChat("mention_response", d, ChatWindow)') + Cardinality(Answering(d)')
                        <= ChatLimit + Cardinality(Users) - 1
    BY DEF ChatBound
  <2>1. InChat("mention_response", d, ChatWindow)' = InChat("mention_response", d, ChatWindow)
    BY <1>1 DEF InChat
  <2>2. Answering(d)' \subseteq Answering(d)
    BY <1>1, <1>3 DEF Answering
  <2>3. Cardinality(Answering(d)') <= Cardinality(Answering(d)) /\ Cardinality(Answering(d)') \in Nat
    BY <2>2, Counts, FS_Subset, FS_CardinalityType DEF RepliesInv
  <2>4. Cardinality(InChat("mention_response", d, ChatWindow)) + Cardinality(Answering(d))
          <= ChatLimit + Cardinality(Users) - 1
    BY DEF RepliesInv, ChatBound
  <2> QED BY <2>1, <2>3, <2>4, Counts, RepliesAssumption DEF RepliesAssumption, RepliesInv
<1> QED BY <1>2, <1>4, <1>5 DEF RepliesInv

(* The check of an automatic reaction is a row no limit of answers reads. *)
LEMMA AutoAsksStep ==
  ASSUME RepliesInv, NEW c \in Chats, AutoAsks(c)
  PROVE  RepliesInv'
<1> DEFINE e == Event("auto_reaction_check", 0, None, c)
<1>1. events' = events \cup {e} /\ auto' = c /\ work' = work /\ begun' = begun /\ e.type = "auto_reaction_check"
  BY DEF AutoAsks, Event
<1>2. e \in Events
  BY RepliesAssumption DEF RepliesAssumption, Event, Events
<1> HIDE DEF e
<1>3. TypeOK' /\ OneEach'
  BY <1>1, <1>2 DEF RepliesInv, TypeOK, OneEach
<1>4. IsFiniteSet(events')
  BY <1>1, FS_AddElement DEF RepliesInv
<1>5. /\ \A type \in Answers : \A v : ByUser(type, v, UserWindow)' = ByUser(type, v, UserWindow)
      /\ \A d : /\ InChat("mention_response", d, ChatWindow)' = InChat("mention_response", d, ChatWindow)
                /\ InChat("photo_seen", d, Cooldown)' = InChat("photo_seen", d, Cooldown)
  BY <1>1 DEF ByUser, InChat, Answers
<1>6. (\A type, v : UnderWay(type, v)' = UnderWay(type, v)) /\ \A d : Answering(d)' = Answering(d)
  BY <1>1 DEF UnderWay, Answering, AnswerFor
<1>7. UserBound' /\ ChatBound' /\ OnePhotoPerCooldown'
  BY <1>5, <1>6 DEF RepliesInv, UserBound, ChatBound, OnePhotoPerCooldown
<1> QED BY <1>3, <1>4, <1>7 DEF RepliesInv

(* Time lowers counts, and no answer begins or ends by it. *)
LEMMA TickStep ==
  ASSUME RepliesInv, Tick
  PROVE  RepliesInv'
<1>1. UNCHANGED <<work, auto, begun>>
  BY DEF Tick
<1>2. /\ IsFiniteSet(events') /\ events' \subseteq Events
      /\ \A type, u : \A window \in Nat :
           /\ Cardinality(ByUser(type, u, window)') \in Nat
           /\ Cardinality(ByUser(type, u, window)') <= Cardinality(ByUser(type, u, window))
      /\ \A type, c : \A window \in Nat :
           /\ Cardinality(InChat(type, c, window)') \in Nat
           /\ Cardinality(InChat(type, c, window)') <= Cardinality(InChat(type, c, window))
  BY RowsAge DEF RepliesInv, TypeOK
<1>3. TypeOK' /\ OneEach'
  BY <1>1, <1>2 DEF RepliesInv, TypeOK, OneEach
<1>4. (\A type, v : UnderWay(type, v)' = UnderWay(type, v)) /\ \A d : Answering(d)' = Answering(d)
  BY <1>1 DEF UnderWay, Answering, AnswerFor
<1>5. \A type, v : UnderWay(type, v) \in Nat
  BY DEF UnderWay
<1>6. UserBound'
  <2> SUFFICES ASSUME NEW v \in Users, NEW type \in Answers
               PROVE  Cardinality(ByUser(type, v, UserWindow)') + UnderWay(type, v)' <= UserLimit
    BY DEF UserBound
  <2>1. /\ Cardinality(ByUser(type, v, UserWindow)') \in Nat
        /\ Cardinality(ByUser(type, v, UserWindow)') <= Cardinality(ByUser(type, v, UserWindow))
    BY <1>2, RepliesAssumption DEF RepliesAssumption
  <2>2. UnderWay(type, v)' = UnderWay(type, v) /\ UnderWay(type, v) \in Nat
    BY <1>4, <1>5
  <2>3. Cardinality(ByUser(type, v, UserWindow)) + UnderWay(type, v) <= UserLimit
    BY DEF RepliesInv, UserBound
  <2> QED BY <2>1, <2>2, <2>3, Counts, RepliesAssumption DEF RepliesAssumption, RepliesInv
<1>7. ChatBound'
  <2> SUFFICES ASSUME NEW d \in Chats
               PROVE  Cardinality(InChat("mention_response", d, ChatWindow)') + Cardinality(Answering(d)')
                        <= ChatLimit + Cardinality(Users) - 1
    BY DEF ChatBound
  <2>1. /\ Cardinality(InChat("mention_response", d, ChatWindow)') \in Nat
        /\ Cardinality(InChat("mention_response", d, ChatWindow)')
             <= Cardinality(InChat("mention_response", d, ChatWindow))
    BY <1>2, RepliesAssumption DEF RepliesAssumption
  <2>2. Answering(d)' = Answering(d)
    BY <1>4
  <2>3. Cardinality(InChat("mention_response", d, ChatWindow)) + Cardinality(Answering(d))
          <= ChatLimit + Cardinality(Users) - 1
    BY DEF RepliesInv, ChatBound
  <2> QED BY <2>1, <2>2, <2>3, Counts, RepliesAssumption DEF RepliesAssumption, RepliesInv
<1>8. OnePhotoPerCooldown'
  <2> DEFINE Older(e) == [e EXCEPT !.age = @ + 1]
  <2>1. /\ \A e \in events' : \E d \in events : e = Older(d)
        /\ \A d \in events : /\ Older(d).type = d.type /\ Older(d).chat = d.chat
                             /\ Older(d).age = d.age + 1 /\ d.age \in Nat
    BY DEF Tick, Events, RepliesInv, TypeOK
  <2> HIDE DEF Older
  <2> SUFFICES ASSUME NEW c \in Chats,
                      NEW e \in InChat("photo_seen", c, Cooldown)', NEW f \in InChat("photo_seen", c, Cooldown)'
               PROVE  e = f
    BY DEF OnePhotoPerCooldown
  <2>2. PICK d, g \in events : e = Older(d) /\ f = Older(g)
    BY <2>1 DEF InChat
  <2>3. d \in InChat("photo_seen", c, Cooldown) /\ g \in InChat("photo_seen", c, Cooldown)
    BY <2>1, <2>2, RepliesAssumption DEF RepliesAssumption, InChat
  <2> QED BY <2>2, <2>3 DEF RepliesInv, OnePhotoPerCooldown
<1> QED BY <1>2, <1>3, <1>6, <1>7, <1>8 DEF RepliesInv

(* No step breaks the invariant. *)
LEMMA RepliesInvariance == RepliesInv /\ [Next]_vars => RepliesInv'
<1> SUFFICES ASSUME RepliesInv, [Next]_vars PROVE RepliesInv'
  OBVIOUS
<1>1. ASSUME NEW kind \in Kinds, NEW u \in Users, NEW c \in Chats, Begins(kind, u, c) PROVE RepliesInv'
  BY <1>1, BeginsStep
<1>2. ASSUME NEW m \in 1..MaxMessages, Answered(m) PROVE RepliesInv'
  BY <1>2, AnsweredStep
<1>3. ASSUME NEW m \in 1..MaxMessages, Finishes(m) PROVE RepliesInv'
  BY <1>3, FinishesStep
<1>4. ASSUME NEW c \in Chats, AutoAsks(c) PROVE RepliesInv'
  BY <1>4, AutoAsksStep
<1>5. CASE AutoEnds \/ UNCHANGED vars
  <2>1. UNCHANGED <<work, events, begun>> /\ auto' \in {auto, None}
    BY <1>5 DEF AutoEnds, vars
  <2>2. TypeOK' /\ OneEach' /\ IsFiniteSet(events')
    BY <2>1 DEF RepliesInv, TypeOK, OneEach
  <2>3. UserBound' /\ ChatBound' /\ OnePhotoPerCooldown'
    BY <2>1 DEF RepliesInv, UserBound, ChatBound, OnePhotoPerCooldown, ByUser, InChat, UnderWay, Answering, AnswerFor
  <2> QED BY <2>2, <2>3 DEF RepliesInv
<1>6. CASE Tick
  BY <1>6, TickStep
<1> QED BY <1>1, <1>2, <1>3, <1>4, <1>5, <1>6 DEF Next

-----------------------------------------------------------------------------
LEMMA RepliesInvariant == Spec => []RepliesInv
BY RepliesInitially, RepliesInvariance, PTL DEF Spec

(* What runs and what is stored has the types of the code. *)
THEOREM ReplyTypes == Spec => []TypeOK
<1>1. RepliesInv => TypeOK
  BY DEF RepliesInv
<1> QED BY <1>1, RepliesInvariant, PTL

(* The limit of a user is never exceeded, and that of a chat only by the   *)
(* answers of the other users that were under way (handlers.py:1228).      *)
THEOREM RepliesBounded == Spec => []AnswersBounded
<1>1. RepliesInv => AnswersBounded
  <2> SUFFICES ASSUME RepliesInv PROVE AnswersBounded
    OBVIOUS
  <2>1. \A type, v : UnderWay(type, v) \in Nat
    BY DEF UnderWay
  <2>2. \A u \in Users, type \in Answers : Cardinality(ByUser(type, u, UserWindow)) <= UserLimit
    BY <2>1, Counts, RepliesAssumption DEF RepliesAssumption, RepliesInv, UserBound
  <2>3. \A c \in Chats :
          Cardinality(InChat("mention_response", c, ChatWindow)) <= ChatLimit + Cardinality(Users) - 1
    BY Counts, RepliesAssumption DEF RepliesAssumption, RepliesInv, ChatBound
  <2> QED BY <2>2, <2>3 DEF AnswersBounded, Answers
<1> QED BY <1>1, RepliesInvariant, PTL

(* A chat has one photo looked at in a cooldown, whoever sends how many of *)
(* them at once: photo_seen is written before the first suspension.        *)
THEOREM OnePhoto == Spec => []OnePhotoPerCooldown
<1>1. RepliesInv => OnePhotoPerCooldown
  BY DEF RepliesInv
<1> QED BY <1>1, RepliesInvariant, PTL

-----------------------------------------------------------------------------
(* Providers *)

ConfigFiles == {s \in Seq(P!Entries) : Len(s) <= Cardinality(Names)}
KeyIds == Names \X P!Keys
CallRecords ==
  [at : {"idle", "loading", "provider", "key", "health", "request"},
   forced : Names \cup {None}, new : ConfigFiles \cup {None}, rest : ConfigFiles,
   keys : Seq(P!Keys), key : P!Keys \cup {None},
   seen : SUBSET (Failures \cup {"unhealthy"}), repeated : BOOLEAN, turns : SUBSET P!Keys]

AsksKey(j) == j.at \in {"health", "request"}
KeyOf(j) == <<Head(j.rest).id, j.key>>

(* The keys of the provider that is asked: those that had their turn and   *)
(* those that are left.                                                    *)
KeysLeft(j) ==
  /\ j.at \in {"key", "health", "request"} =>
       /\ j.rest # <<>> /\ Head(j.rest).keys > 0
       /\ \A k \in 0..(Head(j.rest).keys - 1) : k \in j.turns \/ \E i \in DOMAIN j.keys : j.keys[i] = k
  /\ AsksKey(j) => j.key \in P!Keys

ConfigTypes == file \in ConfigFiles /\ read \in ConfigFiles /\ list \in ConfigFiles /\ writing \in ConfigFiles \cup {None}
KeyTypes ==
  /\ cursor \in [Names -> P!Keys] /\ resting \subseteq Names
  /\ status \in [KeyIds -> [errors : 0..3, off : BOOLEAN]]
  /\ healthy \subseteq KeyIds /\ told \subseteq KeyIds /\ late \in [KeyIds -> SUBSET Calls]
CallTypes == call \in [Calls -> CallRecords] /\ \A c \in Calls : KeysLeft(call[c])

(* A key that was told to rest is off, and no call asks it but those that  *)
(* were asking it when it was told.                                        *)
Resting ==
  \A x \in told : status[x].off /\ \A c \in Calls : AsksKey(call[c]) /\ KeyOf(call[c]) = x => c \in late[x]

ProvidersInv == ConfigTypes /\ KeyTypes /\ CallTypes /\ Resting

LEMMA ProviderConstants ==
  /\ Cardinality(Names) \in Nat /\ MaxKeys \in Nat \ {0} /\ P!Keys = 0..(MaxKeys - 1) /\ P!Keys \subseteq Nat
  /\ P!Torn = <<>> /\ P!Torn \in ConfigFiles
<1>1. Cardinality(Names) \in Nat
  BY ProvidersAssumption, FS_CardinalityType DEF ProvidersAssumption
<1>2. <<>> \in ConfigFiles
  BY <1>1 DEF ConfigFiles
<1> QED BY <1>1, <1>2, ProvidersAssumption DEF ProvidersAssumption, P!Keys, P!Torn

LEMMA ProviderCardinality == ASSUME NEW T PROVE P!Cardinality(T) = Cardinality(T)
  BY DEF P!Cardinality, Cardinality

(* The lists of a bounded length. *)
LEMMA FilesBounded == P!BoundedSeq(P!Entries, Cardinality(Names)) = ConfigFiles
<1>1. Cardinality(Names) \in Nat
  BY ProviderConstants
<1>2. ASSUME NEW s \in ConfigFiles PROVE s \in P!BoundedSeq(P!Entries, Cardinality(Names))
  <2>1. s \in Seq(P!Entries) /\ Len(s) \in 0..Cardinality(Names)
    BY <1>1 DEF ConfigFiles
  <2>2. s \in [1..Len(s) -> P!Entries]
    BY <2>1
  <2> QED BY <2>1, <2>2 DEF P!BoundedSeq, P!SeqOf
<1>3. ASSUME NEW s \in P!BoundedSeq(P!Entries, Cardinality(Names)) PROVE s \in ConfigFiles
  <2>1. PICK n \in 0..Cardinality(Names) : s \in [1..n -> P!Entries]
    BY DEF P!BoundedSeq, P!SeqOf
  <2>2. n \in Nat /\ s \in Seq(P!Entries)
    BY <1>1, <2>1
  <2>3. Len(s) = n
    BY <2>1, <2>2
  <2> QED BY <1>1, <2>2, <2>3 DEF ConfigFiles
<1> QED BY <1>2, <1>3

LEMMA ProvidersTyped == ProvidersInv => P!TypeOK
<1> SUFFICES ASSUME ProvidersInv PROVE P!TypeOK
  OBVIOUS
<1>1. P!BoundedSeq(P!Entries, P!Cardinality(Names)) = ConfigFiles
  BY FilesBounded, ProviderCardinality
<1>2. ASSUME NEW c \in Calls
      PROVE  /\ call[c].at \in {"idle", "loading", "provider", "key", "health", "request"}
             /\ call[c].at \in {"health", "request"} => P!Row(c) \in Names \X P!Keys
  <2>1. call[c] \in CallRecords /\ KeysLeft(call[c])
    BY DEF ProvidersInv, CallTypes
  <2>2. ASSUME AsksKey(call[c]) PROVE P!Row(c) \in Names \X P!Keys
    <3>1. call[c].rest \in Seq(P!Entries) /\ call[c].rest # <<>> /\ call[c].key \in P!Keys
      BY <2>1, <2>2 DEF CallRecords, ConfigFiles, KeysLeft, AsksKey
    <3>2. Head(call[c].rest) \in P!Entries
      BY <3>1
    <3> QED BY <3>1, <3>2 DEF P!Row, P!Current, P!Entries
  <2> QED BY <2>1, <2>2 DEF CallRecords, AsksKey
<1>3. {file, read, list} \cup ({writing} \ {None}) \subseteq P!BoundedSeq(P!Entries, P!Cardinality(Names))
  BY <1>1 DEF ProvidersInv, ConfigTypes
<1> QED BY <1>2, <1>3 DEF ProvidersInv, KeyTypes, KeyIds, P!TypeOK

-----------------------------------------------------------------------------
(* The calls. *)

LEMMA CallSet ==
  ASSUME CallTypes, NEW c \in Calls, NEW j \in CallRecords, KeysLeft(j), P!Steps(c, j)
  PROVE  CallTypes' /\ \A d \in Calls : call'[d] = IF d = c THEN j ELSE call[d]
<1>1. call' \in [Calls -> CallRecords] /\ \A d \in Calls : call'[d] = IF d = c THEN j ELSE call[d]
  BY DEF P!Steps, CallTypes
<1>2. \A d \in Calls : KeysLeft(call'[d])
  BY <1>1 DEF CallTypes
<1> QED BY <1>1, <1>2 DEF CallTypes

(* A call that asks no key that rests, or asked it before, leaves the      *)
(* resting keys alone.                                                     *)
LEMMA RestsOn ==
  ASSUME Resting, NEW c \in Calls, NEW j, \A d \in Calls : call'[d] = IF d = c THEN j ELSE call[d],
         AsksKey(j) => KeyOf(j) \notin told \/ c \in late[KeyOf(j)], UNCHANGED <<status, told, late>>
  PROVE  Resting'
<1>1. \A x \in told' : status'[x].off
  BY DEF Resting
<1>2. \A x \in told', d \in Calls : AsksKey(call'[d]) /\ KeyOf(call'[d]) = x => d \in late'[x]
  BY DEF Resting
<1> QED BY <1>1, <1>2 DEF Resting

LEMMA CallRecord ==
  ASSUME CallTypes, NEW c \in Calls
  PROVE  /\ call[c] \in CallRecords /\ KeysLeft(call[c])
         /\ call[c].rest \in ConfigFiles /\ call[c].rest \in Seq(P!Entries)
         /\ call[c].keys \in Seq(P!Keys) /\ call[c].turns \in SUBSET P!Keys
         /\ call[c].forced \in Names \cup {None} /\ call[c].new \in ConfigFiles \cup {None}
         /\ call[c].seen \in SUBSET (Failures \cup {"unhealthy"})
  BY DEF CallTypes, CallRecords, ConfigFiles

LEMMA FirstProvider ==
  ASSUME NEW s \in ConfigFiles, s # <<>>
  PROVE  /\ Head(s) \in P!Entries /\ Head(s).id \in Names /\ Head(s).keys \in 0..MaxKeys
         /\ Tail(s) \in ConfigFiles
<1>1. s \in Seq(P!Entries) /\ Len(s) <= Cardinality(Names)
  BY DEF ConfigFiles
<1>2. Head(s) \in P!Entries /\ Tail(s) \in Seq(P!Entries) /\ Len(Tail(s)) = Len(s) - 1
  BY <1>1
<1>3. Len(Tail(s)) <= Cardinality(Names)
  BY <1>1, <1>2, ProviderConstants
<1> QED BY <1>2, <1>3 DEF ConfigFiles, P!Entries

LEMMA FreshCalls ==
  ASSUME NEW forced \in Names \cup {None}
  PROVE  /\ P!Begun(forced) \in CallRecords /\ P!Begun(forced).at = "loading"
         /\ P!Idle \in CallRecords /\ P!Idle.at = "idle"
         /\ \A f \in ConfigFiles : /\ [P!Begun(forced) EXCEPT !.new = f] \in CallRecords
                                   /\ [P!Begun(forced) EXCEPT !.new = f].at = "loading"
         /\ \A f \in ConfigFiles : /\ [P!Begun(forced) EXCEPT !.at = "provider", !.rest = f] \in CallRecords
                                   /\ [P!Begun(forced) EXCEPT !.at = "provider", !.rest = f].at = "provider"
<1>1. ASSUME NEW forced1 \in Names \cup {None}
      PROVE  P!Begun(forced1) \in CallRecords /\ P!Begun(forced1).at = "loading"
  <2>1. <<>> \in ConfigFiles /\ <<>> \in Seq(P!Keys)
    BY ProviderConstants
  <2> QED BY <2>1 DEF P!Begun, CallRecords
<1>2. P!Idle \in CallRecords /\ P!Idle.at = "idle"
  BY <1>1 DEF P!Idle, CallRecords
<1>3. ASSUME NEW f \in ConfigFiles
      PROVE  [P!Begun(forced) EXCEPT !.new = f] \in CallRecords /\ [P!Begun(forced) EXCEPT !.new = f].at = "loading"
  BY <1>1 DEF CallRecords
<1>4. ASSUME NEW f \in ConfigFiles
      PROVE  /\ [P!Begun(forced) EXCEPT !.at = "provider", !.rest = f] \in CallRecords
             /\ [P!Begun(forced) EXCEPT !.at = "provider", !.rest = f].at = "provider"
  <2>1. PICK b \in CallRecords : b = P!Begun(forced)
    BY <1>1
  <2>2. [b EXCEPT !.at = "provider", !.rest = f] \in CallRecords
    BY DEF CallRecords
  <2>3. [b EXCEPT !.at = "provider", !.rest = f].at = "provider"
    BY DEF CallRecords
  <2> QED BY <2>1, <2>2, <2>3
<1> QED BY <1>1, <1>2, <1>3, <1>4

LEMMA NothingAsked ==
  ASSUME NEW j, j.at \in {"idle", "loading", "provider"}
  PROVE  KeysLeft(j) /\ ~AsksKey(j)
  BY DEF KeysLeft, AsksKey

(* What a step leaves alone keeps its types. *)
LEMMA KeysSame ==
  ASSUME KeyTypes, UNCHANGED <<cursor, status, told, late>>, resting' \subseteq Names, healthy' \subseteq KeyIds
  PROVE  KeyTypes'
  BY DEF KeyTypes

LEMMA ConfigSame == ASSUME ConfigTypes, UNCHANGED <<file, writing, read, list>> PROVE ConfigTypes'
  BY DEF ConfigTypes

LEMMA CallBegins == ASSUME ProvidersInv, NEW c \in Calls, P!Begin(c) PROVE ProvidersInv'
<1>1. /\ UNCHANGED <<file, writing, list, cursor, resting, healthy, status, told, late>>
      /\ read' \in {read, file}
      /\ \E forced \in Names \cup {None} :
           \/ P!Steps(c, P!Begun(forced)) \/ P!Steps(c, P!Idle) \/ P!Steps(c, [P!Begun(forced) EXCEPT !.new = file])
  BY ProvidersAssumption DEF P!Begin, P!config, P!keyRows, ProvidersAssumption
<1>2. PICK j \in CallRecords : P!Steps(c, j) /\ j.at \in {"idle", "loading"}
  BY <1>1, FreshCalls DEF ProvidersInv, ConfigTypes
<1>3. CallTypes' /\ \A d \in Calls : call'[d] = IF d = c THEN j ELSE call[d]
  BY <1>2, NothingAsked, CallSet DEF ProvidersInv
<1>4. Resting'
  BY <1>1, <1>2, <1>3, NothingAsked, RestsOn DEF ProvidersInv
<1>5. ConfigTypes'
  BY <1>1 DEF ProvidersInv, ConfigTypes
<1>6. KeyTypes'
  BY <1>1, KeysSame DEF ProvidersInv, KeyTypes
<1> QED BY <1>3, <1>4, <1>5, <1>6 DEF ProvidersInv

LEMMA CallLoaded == ASSUME ProvidersInv, NEW c \in Calls, P!Loaded(c) PROVE ProvidersInv'
<1> DEFINE j == [call[c] EXCEPT !.at = "provider", !.new = None, !.rest = list']
<1>1. /\ UNCHANGED <<file, writing, read, cursor, resting, healthy, status, told, late>>
      /\ list' = (IF call[c].new = None THEN list ELSE call[c].new) /\ P!Steps(c, j)
  BY DEF P!Loaded, P!config, P!keyRows
<1>2. list' \in ConfigFiles
  BY <1>1, CallRecord DEF ProvidersInv, ConfigTypes
<1>3. j \in CallRecords /\ j.at = "provider"
  BY <1>2, CallRecord DEF ProvidersInv, CallRecords
<1> HIDE DEF j
<1>4. CallTypes' /\ \A d \in Calls : call'[d] = IF d = c THEN j ELSE call[d]
  BY <1>1, <1>3, NothingAsked, CallSet DEF ProvidersInv
<1>5. Resting'
  BY <1>1, <1>3, <1>4, NothingAsked, RestsOn DEF ProvidersInv
<1>6. ConfigTypes'
  BY <1>1, <1>2 DEF ProvidersInv, ConfigTypes
<1>7. KeyTypes'
  BY <1>1, KeysSame DEF ProvidersInv, KeyTypes
<1> QED BY <1>4, <1>5, <1>6, <1>7 DEF ProvidersInv

LEMMA CallGivesUp == ASSUME ProvidersInv, NEW c \in Calls, P!GivesUp(c) PROVE ProvidersInv'
<1>1. UNCHANGED <<file, writing, read, list, cursor, resting, healthy, status, told, late>> /\ P!Steps(c, P!Idle)
  BY DEF P!GivesUp, P!config, P!shared, P!keyRows
<1>2. P!Idle \in CallRecords /\ P!Idle.at = "idle"
  BY FreshCalls
<1>3. CallTypes' /\ \A d \in Calls : call'[d] = IF d = c THEN P!Idle ELSE call[d]
  BY <1>1, <1>2, NothingAsked, CallSet DEF ProvidersInv
<1>4. Resting'
  BY <1>1, <1>2, <1>3, NothingAsked, RestsOn DEF ProvidersInv
<1>5. ConfigTypes' /\ KeyTypes'
  BY <1>1, KeysSame, ConfigSame DEF ProvidersInv, KeyTypes
<1> QED BY <1>3, <1>4, <1>5 DEF ProvidersInv

LEMMA CallLeaves == ASSUME ProvidersInv, NEW c \in Calls, P!LeavesProvider(c) PROVE ProvidersInv'
<1> DEFINE j == [P!Begun(call[c].forced) EXCEPT !.at = "provider", !.rest = Tail(call[c].rest)]
<1>1. /\ UNCHANGED <<file, writing, read, list, cursor, healthy, status, told, late>>
      /\ resting' = (IF call[c].repeated THEN resting \cup {Head(call[c].rest).id} ELSE resting)
      /\ P!Steps(c, j) /\ call[c].at = "key"
  BY DEF P!LeavesProvider, P!config, P!keyRows, P!Current
<1>2. call[c].rest # <<>> /\ call[c].rest \in ConfigFiles /\ call[c].forced \in Names \cup {None}
  BY <1>1, CallRecord DEF ProvidersInv, KeysLeft
<1>3. Tail(call[c].rest) \in ConfigFiles /\ Head(call[c].rest).id \in Names
  BY <1>2, FirstProvider
<1>4. j \in CallRecords /\ j.at = "provider"
  BY <1>2, <1>3, FreshCalls
<1> HIDE DEF j
<1>5. CallTypes' /\ \A d \in Calls : call'[d] = IF d = c THEN j ELSE call[d]
  BY <1>1, <1>4, NothingAsked, CallSet DEF ProvidersInv
<1>6. Resting'
  BY <1>1, <1>4, <1>5, NothingAsked, RestsOn DEF ProvidersInv
<1>7. ConfigTypes'
  BY <1>1, ConfigSame DEF ProvidersInv
<1>8. KeyTypes'
  BY <1>1, <1>3 DEF ProvidersInv, KeyTypes
<1> QED BY <1>5, <1>6, <1>7, <1>8 DEF ProvidersInv

(* Every key has its place in the order, wherever the cursor stands. *)
LEMMA EveryKeyOrdered ==
  ASSUME NEW n \in Nat \ {0}, NEW start \in Nat
  PROVE  /\ P!OrderedKeys(start, n) \in [1..n -> 0..(n - 1)]
         /\ \A k \in 0..(n - 1) : \E i \in 1..n : P!OrderedKeys(start, n)[i] = k
<1>1. \A x \in Nat : x % n \in 0..(n - 1)
  OBVIOUS
<1>2. \A i \in 1..n : start + i - 1 \in Nat
  OBVIOUS
<1>3. P!OrderedKeys(start, n) \in [1..n -> 0..(n - 1)]
  BY <1>1, <1>2 DEF P!OrderedKeys
<1>4. ASSUME NEW k \in 0..(n - 1) PROVE \E i \in 1..n : (start + i - 1) % n = k
  <2>1. PICK s \in 0..(n - 1) : s = start % n
    BY <1>1
  <2>2. PICK q \in Nat : start = n * q + s
    <3>1. start = n * (start \div n) + (start % n) /\ start \div n \in Nat
      OBVIOUS
    <3> QED BY <2>1, <3>1
  <2>3. CASE k >= s
    <3>1. (n * q + k) % n = k
      OBVIOUS
    <3>2. k - s + 1 \in 1..n /\ start + (k - s + 1) - 1 = n * q + k
      BY <2>2, <2>3
    <3> QED BY <3>1, <3>2
  <2>4. CASE k < s
    <3>1. (n * (q + 1) + k) % n = k
      OBVIOUS
    <3>2. k - s + n + 1 \in 1..n /\ start + (k - s + n + 1) - 1 = n * (q + 1) + k
      BY <2>2, <2>4
    <3> QED BY <3>1, <3>2
  <2> QED BY <2>3, <2>4
<1>5. \A i \in 1..n : P!OrderedKeys(start, n)[i] = (start + i - 1) % n
  BY DEF P!OrderedKeys
<1> QED BY <1>3, <1>4, <1>5

LEMMA ProviderTaken == ASSUME ProvidersInv, NEW c \in Calls, P!TakesProvider(c) PROVE ProvidersInv'
<1> DEFINE p == Head(call[c].rest)
           skipped == [call[c] EXCEPT !.rest = Tail(@)]
           taken == [call[c] EXCEPT !.at = "key", !.keys = P!OrderedKeys(cursor[p.id], p.keys)]
<1>1. /\ UNCHANGED <<file, writing, read, list, cursor, resting, healthy, status, told, late>>
      /\ call[c].at = "provider" /\ call[c].rest # <<>>
      /\ P!Steps(c, skipped) \/ (p.keys # 0 /\ P!Steps(c, taken))
  BY DEF P!TakesProvider, P!config, P!shared, P!keyRows
<1>2. p.id \in Names /\ p.keys \in 0..MaxKeys /\ Tail(call[c].rest) \in ConfigFiles
  BY <1>1, CallRecord, FirstProvider DEF ProvidersInv
<1>3. skipped \in CallRecords /\ skipped.at = "provider"
  <2>1. call[c] \in CallRecords
    BY CallRecord DEF ProvidersInv
  <2>2. PICK rest \in ConfigFiles : rest = Tail(call[c].rest)
    BY <1>2
  <2>3. skipped = [call[c] EXCEPT !.rest = rest]
    BY <2>2
  <2> HIDE DEF skipped
  <2> QED BY <1>1, <2>1, <2>3 DEF CallRecords
<1>4. ASSUME p.keys # 0 PROVE taken \in CallRecords /\ KeysLeft(taken) /\ ~AsksKey(taken)
  <2>1. p.keys \in Nat \ {0} /\ cursor[p.id] \in Nat
    BY <1>2, <1>4, ProviderConstants DEF ProvidersInv, KeyTypes
  <2> HIDE DEF p
  <2>2. PICK order : order = P!OrderedKeys(cursor[p.id], p.keys)
    OBVIOUS
  <2>3. order \in [1..p.keys -> 0..(p.keys - 1)] /\ \A k \in 0..(p.keys - 1) : \E i \in 1..p.keys : order[i] = k
    <3>1. PICK n \in Nat \ {0}, start \in Nat : n = p.keys /\ start = cursor[p.id]
      BY <2>1
    <3>2. order = P!OrderedKeys(start, n)
      BY <2>2, <3>1
    <3>3. /\ P!OrderedKeys(start, n) \in [1..n -> 0..(n - 1)]
          /\ \A k \in 0..(n - 1) : \E i \in 1..n : P!OrderedKeys(start, n)[i] = k
      BY EveryKeyOrdered
    <3>4. order \in [1..n -> 0..(n - 1)] /\ \A k \in 0..(n - 1) : \E i \in 1..n : order[i] = k
      BY <3>2, <3>3
    <3> QED BY <3>1, <3>4
  <2>4. 0..(p.keys - 1) \subseteq P!Keys
    BY <1>2, <2>1, ProviderConstants
  <2>5. order \in Seq(P!Keys) /\ DOMAIN order = 1..p.keys
    BY <2>1, <2>3, <2>4
  <2>6. taken = [call[c] EXCEPT !.at = "key", !.keys = order]
    BY <2>2
  <2>7. taken \in CallRecords /\ taken.at = "key" /\ taken.keys = order /\ taken.rest = call[c].rest
    BY <2>5, <2>6, CallRecord DEF ProvidersInv, CallRecords
  <2> HIDE DEF taken
  <2>8. KeysLeft(taken)
    <3>1. Head(taken.rest) = p /\ Head(taken.rest).keys > 0
      BY <2>1, <2>7 DEF p
    <3>2. \A k \in 0..(Head(taken.rest).keys - 1) : \E i \in DOMAIN taken.keys : taken.keys[i] = k
      BY <2>3, <2>5, <2>7, <3>1
    <3> QED BY <1>1, <2>7, <3>1, <3>2 DEF KeysLeft, AsksKey
  <2> QED BY <2>7, <2>8 DEF AsksKey
<1>5. PICK j \in CallRecords : P!Steps(c, j) /\ KeysLeft(j) /\ ~AsksKey(j)
  <2> HIDE DEF skipped, taken
  <2>1. KeysLeft(skipped) /\ ~AsksKey(skipped)
    BY <1>3, NothingAsked
  <2> QED BY <1>1, <1>3, <1>4, <2>1
<1>6. CallTypes' /\ \A d \in Calls : call'[d] = IF d = c THEN j ELSE call[d]
  BY <1>5, CallSet DEF ProvidersInv
<1>7. Resting'
  BY <1>1, <1>5, <1>6, RestsOn DEF ProvidersInv
<1>8. ConfigTypes' /\ KeyTypes'
  BY <1>1, KeysSame, ConfigSame DEF ProvidersInv, KeyTypes
<1> QED BY <1>6, <1>7, <1>8 DEF ProvidersInv

(* A list is its first element and the rest. *)
LEMMA FirstAndRest ==
  ASSUME NEW T, NEW s \in Seq(T), s # <<>>
  PROVE  /\ Head(s) \in T /\ Tail(s) \in Seq(T)
         /\ \A i \in DOMAIN s : s[i] = Head(s) \/ \E h \in DOMAIN Tail(s) : Tail(s)[h] = s[i]
<1>1. Len(s) \in Nat \ {0} /\ Head(s) = s[1] /\ Head(s) \in T /\ DOMAIN s = 1..Len(s)
  OBVIOUS
<1>2. Tail(s) \in Seq(T) /\ Len(Tail(s)) = Len(s) - 1
  OBVIOUS
<1>3. DOMAIN Tail(s) = 1..(Len(s) - 1)
  BY <1>2
<1>4. \A h \in 1..(Len(s) - 1) : Tail(s)[h] = s[h + 1]
  OBVIOUS
<1>5. ASSUME NEW i \in 1..Len(s), i # 1 PROVE \E h \in DOMAIN Tail(s) : Tail(s)[h] = s[i]
  <2>1. i - 1 \in 1..(Len(s) - 1) /\ (i - 1) + 1 = i
    BY <1>1, <1>5
  <2> QED BY <1>3, <1>4, <2>1
<1> QED BY <1>1, <1>2, <1>5

(* The key that is taken is not one that was told to rest. *)
LEMMA KeyTaken == ASSUME ProvidersInv, NEW c \in Calls, P!TakesKey(c) PROVE ProvidersInv'
<1> DEFINE k == Head(call[c].keys)
           x == <<Head(call[c].rest).id, k>>
           off == [call[c] EXCEPT !.keys = Tail(@), !.turns = @ \cup {k}]
           asked(at) == [call[c] EXCEPT !.at = at, !.keys = Tail(@), !.key = k, !.turns = @ \cup {k}]
<1>1. /\ UNCHANGED <<file, writing, read, list, cursor, resting, healthy, status, told, late>>
      /\ call[c].at = "key" /\ call[c].keys # <<>>
      /\ \/ P!Steps(c, off)
         \/ ~status[x].off /\ (P!Steps(c, asked("health")) \/ P!Steps(c, asked("request")))
  <2>1. P!Steps(c, IF status[x].off THEN off
                   ELSE asked(IF Head(call[c].rest).health /\ x \notin healthy THEN "health" ELSE "request"))
    BY DEF P!TakesKey, P!Current
  <2>2. P!Steps(c, off) \/ (~status[x].off /\ (P!Steps(c, asked("health")) \/ P!Steps(c, asked("request"))))
    BY <2>1
  <2> QED BY <2>2 DEF P!TakesKey, P!config, P!shared, P!keyRows
<1>2. call[c] \in CallRecords /\ KeysLeft(call[c]) /\ call[c].keys \in Seq(P!Keys)
  BY CallRecord DEF ProvidersInv
<1>3. k \in P!Keys /\ Tail(call[c].keys) \in Seq(P!Keys)
      /\ \A i \in DOMAIN call[c].keys :
           call[c].keys[i] = k \/ \E h \in DOMAIN Tail(call[c].keys) : Tail(call[c].keys)[h] = call[c].keys[i]
  BY <1>1, <1>2, FirstAndRest
<1>4. \A n \in 0..(Head(call[c].rest).keys - 1) :
        n \in call[c].turns \cup {k} \/ \E h \in DOMAIN Tail(call[c].keys) : Tail(call[c].keys)[h] = n
  BY <1>1, <1>2, <1>3 DEF KeysLeft
<1>5. call[c].rest # <<>> /\ Head(call[c].rest).keys > 0
  BY <1>1, <1>2 DEF KeysLeft
<1>6. call[c].turns \cup {k} \in SUBSET P!Keys
  BY <1>3, CallRecord DEF ProvidersInv
<1>7. off \in CallRecords /\ KeysLeft(off) /\ ~AsksKey(off)
  <2>1. /\ off \in CallRecords /\ off.at = "key" /\ off.rest = call[c].rest
        /\ off.keys = Tail(call[c].keys) /\ off.turns = call[c].turns \cup {k}
    <3> HIDE DEF k
    <3> QED BY <1>1, <1>2, <1>3, <1>6 DEF CallRecords
  <2> HIDE DEF off, k
  <2> QED BY <1>4, <1>5, <2>1 DEF KeysLeft, AsksKey
<1>8. ASSUME NEW at \in {"health", "request"}
      PROVE  asked(at) \in CallRecords /\ KeysLeft(asked(at)) /\ KeyOf(asked(at)) = x
  <2>1. /\ asked(at) \in CallRecords /\ asked(at).at = at /\ asked(at).rest = call[c].rest /\ asked(at).key = k
        /\ asked(at).keys = Tail(call[c].keys) /\ asked(at).turns = call[c].turns \cup {k}
    <3> HIDE DEF k
    <3> QED BY <1>1, <1>2, <1>3, <1>6 DEF CallRecords
  <2> HIDE DEF asked, k
  <2> QED BY <1>3, <1>4, <1>5, <2>1 DEF KeysLeft, AsksKey, KeyOf
<1>9. ~status[x].off => x \notin told
  BY DEF ProvidersInv, Resting
<1>10. PICK j \in CallRecords : P!Steps(c, j) /\ KeysLeft(j) /\ (AsksKey(j) => KeyOf(j) \notin told)
  <2>1. CASE P!Steps(c, off)
    BY <1>7, <2>1
  <2>2. ASSUME NEW at \in {"health", "request"}, ~status[x].off, P!Steps(c, asked(at))
        PROVE  \E j \in CallRecords : P!Steps(c, j) /\ KeysLeft(j) /\ (AsksKey(j) => KeyOf(j) \notin told)
    BY <1>8, <1>9, <2>2
  <2> HIDE DEF off, asked, x
  <2> QED BY <1>1, <2>1, <2>2
<1>11. CallTypes' /\ \A d \in Calls : call'[d] = IF d = c THEN j ELSE call[d]
  BY <1>10, CallSet DEF ProvidersInv
<1>12. Resting'
  BY <1>1, <1>10, <1>11, RestsOn DEF ProvidersInv
<1>13. ConfigTypes' /\ KeyTypes'
  BY <1>1, KeysSame, ConfigSame DEF ProvidersInv, KeyTypes
<1> QED BY <1>11, <1>12, <1>13 DEF ProvidersInv

-----------------------------------------------------------------------------
(* A request has an answer, or none. *)

LEMMA KeyAsked ==
  ASSUME ProvidersInv, NEW c \in Calls, AsksKey(call[c])
  PROVE  /\ P!Row(c) = KeyOf(call[c]) /\ P!Row(c) \in KeyIds
         /\ P!Row(c) \in told => c \in late[P!Row(c)]
         /\ call[c].rest # <<>> /\ Head(call[c].rest).keys \in 1..MaxKeys /\ call[c].key \in P!Keys
         /\ Head(call[c].rest).id \in Names
<1>1. call[c].rest # <<>> /\ call[c].rest \in ConfigFiles /\ Head(call[c].rest).keys > 0 /\ call[c].key \in P!Keys
  BY CallRecord DEF ProvidersInv, KeysLeft, AsksKey
<1>2. Head(call[c].rest).id \in Names /\ Head(call[c].rest).keys \in 0..MaxKeys
  BY <1>1, FirstProvider
<1>3. Head(call[c].rest).keys \in 1..MaxKeys
  BY <1>1, <1>2, ProviderConstants
<1>4. P!Row(c) = KeyOf(call[c]) /\ P!Row(c) \in KeyIds
  BY <1>1, <1>2 DEF P!Row, P!Current, KeyOf, KeyIds
<1> QED BY <1>1, <1>2, <1>3, <1>4 DEF ProvidersInv, Resting

LEMMA FailureTyped ==
  ASSUME NEW row \in [errors : 0..3, off : BOOLEAN], NEW tells \in BOOLEAN
  PROVE  /\ P!RecordFailure(row, tells) \in [errors : 0..3, off : BOOLEAN]
         /\ tells => P!RecordFailure(row, tells).off
<1>1. row.errors \in 0..3 /\ (tells \/ row.errors >= 2) \in BOOLEAN
  OBVIOUS
<1>2. (IF row.errors < 3 THEN row.errors + 1 ELSE 3) \in 0..3
  BY <1>1
<1>3. tells => P!RecordFailure(row, tells).off
  BY DEF P!RecordFailure
<1> QED BY <1>1, <1>2, <1>3 DEF P!RecordFailure

(* Who asks a key when it is told to rest is known to be late. *)
LEMMA KeyTold ==
  ASSUME ProvidersInv, NEW c \in Calls, AsksKey(call[c]), P!Tells(c),
         NEW j, ~AsksKey(j), \A d \in Calls : call'[d] = IF d = c THEN j ELSE call[d],
         status'[P!Row(c)].off, \A y \in KeyIds \ {P!Row(c)} : status'[y] = status[y]
  PROVE  Resting' /\ told' \subseteq KeyIds /\ late' \in [KeyIds -> SUBSET Calls]
<1>1. PICK x : x = P!Row(c)
  OBVIOUS
<1>2. PICK asking : asking = P!UnderWay(c)
  OBVIOUS
<1>3. x \in KeyIds
  BY <1>1, KeyAsked
<1>4. told' = told \cup {x} /\ late' = [late EXCEPT ![x] = asking]
  BY <1>1, <1>2 DEF P!Tells
<1>5. asking \subseteq Calls /\ \A d \in Calls : d # c /\ AsksKey(call[d]) /\ KeyOf(call[d]) = x => d \in asking
  <2>1. asking \subseteq Calls
    BY <1>2 DEF P!UnderWay
  <2>2. ASSUME NEW d \in Calls, d # c, AsksKey(call[d]), KeyOf(call[d]) = x PROVE d \in asking
    <3>1. P!Asking(d) /\ P!Row(d) = P!Row(c)
      BY <1>1, <2>2 DEF P!Asking, AsksKey, KeyOf, P!Row, P!Current
    <3> QED BY <1>2, <2>2, <3>1 DEF P!UnderWay
  <2> QED BY <2>1, <2>2
<1>6. /\ late' \in [KeyIds -> SUBSET Calls] /\ late'[x] = asking
      /\ \A y \in KeyIds \ {x} : late'[y] = late[y]
  BY <1>3, <1>4, <1>5 DEF ProvidersInv, KeyTypes
<1>7. told' \subseteq KeyIds
  BY <1>3, <1>4 DEF ProvidersInv, KeyTypes
<1>8. ASSUME NEW y \in told'
      PROVE  status'[y].off /\ \A d \in Calls : AsksKey(call'[d]) /\ KeyOf(call'[d]) = y => d \in late'[y]
  <2>1. CASE y = x
    <3>1. ASSUME NEW d \in Calls, AsksKey(call'[d]), KeyOf(call'[d]) = y PROVE d \in late'[y]
      BY <1>5, <1>6, <2>1, <3>1
    <3> QED BY <1>1, <2>1, <3>1
  <2>2. CASE y # x
    <3>1. y \in told /\ y \in KeyIds \ {x}
      BY <1>4, <1>7, <1>8, <2>2
    <3>2. status'[y].off
      BY <1>1, <3>1 DEF ProvidersInv, Resting
    <3>3. ASSUME NEW d \in Calls, AsksKey(call'[d]), KeyOf(call'[d]) = y PROVE d \in late'[y]
      BY <1>6, <3>1, <3>3 DEF ProvidersInv, Resting
    <3> QED BY <3>2, <3>3
  <2> QED BY <2>1, <2>2
<1>9. Resting'
  BY <1>8 DEF Resting
<1> QED BY <1>6, <1>7, <1>9

(* A call that ends at a key that was told to rest is a late one, and the  *)
(* key is then not counted as resting.                                     *)
LEMMA KeyCalledBack ==
  ASSUME ProvidersInv, NEW c \in Calls, AsksKey(call[c]), P!CallsBack(c),
         NEW j, ~AsksKey(j), \A d \in Calls : call'[d] = IF d = c THEN j ELSE call[d],
         \A y \in KeyIds \ {P!Row(c)} : status'[y] = status[y]
  PROVE  Resting' /\ told' \subseteq KeyIds /\ late' \in [KeyIds -> SUBSET Calls]
<1>1. PICK x : x = P!Row(c)
  OBVIOUS
<1>2. x \in KeyIds /\ (x \in told => c \in late[x])
  BY <1>1, KeyAsked
<1>3. told' = (IF c \in late[x] THEN told \ {x} ELSE told) /\ late' = [late EXCEPT ![x] = @ \ {c}]
  BY <1>1 DEF P!CallsBack
<1>4. told' = told \ {x} /\ told' \subseteq KeyIds
  BY <1>2, <1>3 DEF ProvidersInv, KeyTypes
<1>5. PICK rest : rest = late[x] \ {c}
  OBVIOUS
<1>6. rest \subseteq Calls /\ late' = [late EXCEPT ![x] = rest]
  BY <1>2, <1>3, <1>5 DEF ProvidersInv, KeyTypes
<1>7. late' \in [KeyIds -> SUBSET Calls] /\ \A y \in KeyIds \ {x} : late'[y] = late[y]
  BY <1>2, <1>6 DEF ProvidersInv, KeyTypes
<1>8. ASSUME NEW y \in told'
      PROVE  status'[y].off /\ \A d \in Calls : AsksKey(call'[d]) /\ KeyOf(call'[d]) = y => d \in late'[y]
  <2>1. y \in told /\ y \in KeyIds \ {x}
    BY <1>4, <1>8
  <2>2. status'[y].off
    BY <1>1, <2>1 DEF ProvidersInv, Resting
  <2>3. ASSUME NEW d \in Calls, AsksKey(call'[d]), KeyOf(call'[d]) = y PROVE d \in late'[y]
    BY <1>7, <2>1, <2>3 DEF ProvidersInv, Resting
  <2> QED BY <2>2, <2>3
<1>9. Resting'
  BY <1>8 DEF Resting
<1> QED BY <1>4, <1>7, <1>9

(* A request that fails tells its key to rest, or calls it back. *)
LEMMA KeyFails ==
  ASSUME ProvidersInv, NEW c \in Calls, AsksKey(call[c]), NEW why \in Failures \cup {"unhealthy"}, P!KeyFailed(c, why)
  PROVE  /\ CallTypes' /\ Resting'
         /\ status' \in [KeyIds -> [errors : 0..3, off : BOOLEAN]]
         /\ told' \subseteq KeyIds /\ late' \in [KeyIds -> SUBSET Calls]
<1> DEFINE x == P!Row(c)
           j == [call[c] EXCEPT !.at = "key", !.key = None,
                                !.repeated = @ \/ why \in call[c].seen, !.seen = @ \cup {why}]
           failure == P!RecordFailure(status[x], why \in P!Telling)
<1>1. /\ status' = [status EXCEPT ![x] = failure]
      /\ (why \in P!Telling /\ P!Tells(c)) \/ P!CallsBack(c)
      /\ P!Steps(c, j)
  BY DEF P!KeyFailed
<1>2. x = KeyOf(call[c]) /\ x \in KeyIds
  BY KeyAsked
<1>3. call[c] \in CallRecords /\ KeysLeft(call[c])
  BY CallRecord DEF ProvidersInv
<1>4. /\ j \in CallRecords /\ j.at = "key" /\ j.rest = call[c].rest /\ j.keys = call[c].keys /\ j.turns = call[c].turns
  <2>1. PICK again \in BOOLEAN : again <=> (call[c].repeated \/ why \in call[c].seen)
    OBVIOUS
  <2>2. (call[c].repeated \/ why \in call[c].seen) = again
    BY <1>3, <2>1 DEF CallRecords
  <2>3. j = [call[c] EXCEPT !.at = "key", !.key = None, !.repeated = again, !.seen = @ \cup {why}]
    BY <2>2
  <2>4. call[c].seen \cup {why} \in SUBSET (Failures \cup {"unhealthy"})
    BY <1>3 DEF CallRecords
  <2> QED BY <1>3, <2>3, <2>4 DEF CallRecords
<1> HIDE DEF j
<1>5. KeysLeft(j) /\ ~AsksKey(j)
  BY <1>3, <1>4 DEF KeysLeft, AsksKey
<1>6. CallTypes' /\ \A d \in Calls : call'[d] = IF d = c THEN j ELSE call[d]
  BY <1>1, <1>4, <1>5, CallSet DEF ProvidersInv
<1>7. failure \in [errors : 0..3, off : BOOLEAN] /\ (why \in P!Telling => failure.off)
  <2>1. status[x] \in [errors : 0..3, off : BOOLEAN]
    BY <1>2 DEF ProvidersInv, KeyTypes
  <2>2. (why \in P!Telling) \in BOOLEAN
    OBVIOUS
  <2> QED BY <2>1, <2>2, FailureTyped
<1> HIDE DEF failure
<1>8. /\ status' \in [KeyIds -> [errors : 0..3, off : BOOLEAN]] /\ status'[x] = failure
      /\ \A y \in KeyIds \ {x} : status'[y] = status[y]
  BY <1>1, <1>2, <1>7 DEF ProvidersInv, KeyTypes
<1>9. Resting' /\ told' \subseteq KeyIds /\ late' \in [KeyIds -> SUBSET Calls]
  <2>1. CASE why \in P!Telling /\ P!Tells(c)
    BY <1>5, <1>6, <1>7, <1>8, <2>1, KeyTold
  <2>2. CASE P!CallsBack(c)
    BY <1>5, <1>6, <1>8, <2>2, KeyCalledBack
  <2> QED BY <1>1, <2>1, <2>2
<1> QED BY <1>6, <1>8, <1>9

LEMMA HealthStep == ASSUME ProvidersInv, NEW c \in Calls, P!HealthChecked(c) PROVE ProvidersInv'
<1>1. /\ UNCHANGED <<file, writing, read, list, cursor, resting>> /\ call[c].at = "health" /\ AsksKey(call[c])
      /\ \/ /\ healthy' = healthy \cup {P!Row(c)} /\ UNCHANGED <<status, told, late>>
            /\ P!Steps(c, [call[c] EXCEPT !.at = "request"])
         \/ P!KeyFailed(c, "unhealthy") /\ UNCHANGED healthy
  BY DEF P!HealthChecked, P!config, P!keyRows, AsksKey
<1>2. ConfigTypes'
  BY <1>1, ConfigSame DEF ProvidersInv
<1>3. CASE P!KeyFailed(c, "unhealthy") /\ UNCHANGED healthy
  <2>1. /\ CallTypes' /\ Resting' /\ status' \in [KeyIds -> [errors : 0..3, off : BOOLEAN]]
        /\ told' \subseteq KeyIds /\ late' \in [KeyIds -> SUBSET Calls]
    BY <1>1, <1>3, KeyFails
  <2>2. KeyTypes'
    BY <1>1, <1>3, <2>1 DEF ProvidersInv, KeyTypes
  <2> QED BY <1>2, <2>1, <2>2 DEF ProvidersInv
<1>4. CASE /\ healthy' = healthy \cup {P!Row(c)} /\ UNCHANGED <<status, told, late>>
           /\ P!Steps(c, [call[c] EXCEPT !.at = "request"])
  <2> DEFINE j == [call[c] EXCEPT !.at = "request"]
  <2>1. P!Row(c) \in KeyIds /\ (KeyOf(call[c]) \notin told \/ c \in late[KeyOf(call[c])])
    BY <1>1, KeyAsked
  <2>2. /\ j \in CallRecords /\ j.at = "request" /\ j.rest = call[c].rest /\ j.keys = call[c].keys
        /\ j.turns = call[c].turns /\ j.key = call[c].key
    BY CallRecord DEF ProvidersInv, CallRecords
  <2> HIDE DEF j
  <2>3. KeysLeft(j) /\ KeyOf(j) = KeyOf(call[c])
    BY <1>1, <2>2, CallRecord DEF ProvidersInv, KeysLeft, AsksKey, KeyOf
  <2>4. P!Steps(c, j)
    BY <1>4 DEF j
  <2>5. CallTypes' /\ \A d \in Calls : call'[d] = IF d = c THEN j ELSE call[d]
    BY <2>2, <2>3, <2>4, CallSet DEF ProvidersInv
  <2>6. Resting'
    BY <1>4, <2>1, <2>3, <2>5, RestsOn DEF ProvidersInv
  <2>7. KeyTypes'
    BY <1>1, <1>4, <2>1, KeysSame DEF ProvidersInv, KeyTypes
  <2> QED BY <1>2, <2>5, <2>6, <2>7 DEF ProvidersInv
<1> QED BY <1>1, <1>3, <1>4

LEMMA CursorMoves ==
  ASSUME ProvidersInv, NEW c \in Calls, AsksKey(call[c]), P!AdvanceKeyCursor(c)
  PROVE  cursor' \in [Names -> P!Keys]
<1>1. Head(call[c].rest).keys \in 1..MaxKeys /\ call[c].key \in P!Keys /\ Head(call[c].rest).id \in Names
  BY KeyAsked
<1>2. PICK n \in 1..MaxKeys, k \in Nat : n = Head(call[c].rest).keys /\ k = call[c].key
  BY <1>1, ProviderConstants
<1>3. n \in Nat \ {0} /\ k + 1 \in Nat /\ n <= MaxKeys
  BY ProviderConstants
<1>4. (k + 1) % n \in 0..(n - 1)
  BY <1>3
<1>5. (k + 1) % n \in P!Keys
  <2>1. PICK r \in Nat : r = (k + 1) % n /\ r < n
    BY <1>3, <1>4
  <2> QED BY <1>3, <2>1, ProviderConstants
<1>6. cursor' = [cursor EXCEPT ![Head(call[c].rest).id] = (k + 1) % n]
  BY <1>2 DEF P!AdvanceKeyCursor, P!Current
<1> QED BY <1>1, <1>5, <1>6 DEF ProvidersInv, KeyTypes

LEMMA RequestFails == ASSUME ProvidersInv, NEW c \in Calls, NEW why \in Failures, P!Failed(c, why) PROVE ProvidersInv'
<1>1. /\ UNCHANGED <<file, writing, read, list, resting, healthy>> /\ AsksKey(call[c])
      /\ P!KeyFailed(c, why) /\ P!AdvanceKeyCursor(c)
  BY DEF P!Failed, P!config, AsksKey
<1>2. /\ CallTypes' /\ Resting' /\ status' \in [KeyIds -> [errors : 0..3, off : BOOLEAN]]
      /\ told' \subseteq KeyIds /\ late' \in [KeyIds -> SUBSET Calls]
  BY <1>1, KeyFails
<1>3. cursor' \in [Names -> P!Keys]
  BY <1>1, CursorMoves
<1>4. ConfigTypes'
  BY <1>1, ConfigSame DEF ProvidersInv
<1>5. KeyTypes'
  BY <1>1, <1>2, <1>3 DEF ProvidersInv, KeyTypes
<1> QED BY <1>2, <1>4, <1>5 DEF ProvidersInv

LEMMA RequestAnswered == ASSUME ProvidersInv, NEW c \in Calls, P!Answered(c) PROVE ProvidersInv'
<1>1. /\ UNCHANGED <<file, writing, read, list, resting, healthy>> /\ AsksKey(call[c])
      /\ status' = [status EXCEPT ![P!Row(c)] = [errors |-> 0, off |-> FALSE]]
      /\ P!CallsBack(c) /\ P!AdvanceKeyCursor(c) /\ P!Steps(c, P!Idle)
  BY DEF P!Answered, P!config, AsksKey
<1>2. P!Row(c) \in KeyIds
  BY <1>1, KeyAsked
<1>3. P!Idle \in CallRecords /\ P!Idle.at = "idle"
  BY FreshCalls
<1>4. ~AsksKey(P!Idle)
  BY <1>3, NothingAsked
<1>5. CallTypes' /\ \A d \in Calls : call'[d] = IF d = c THEN P!Idle ELSE call[d]
  BY <1>1, <1>3, NothingAsked, CallSet DEF ProvidersInv
<1>6. /\ status' \in [KeyIds -> [errors : 0..3, off : BOOLEAN]]
      /\ \A y \in KeyIds \ {P!Row(c)} : status'[y] = status[y]
  <2>1. [errors |-> 0, off |-> FALSE] \in [errors : 0..3, off : BOOLEAN]
    OBVIOUS
  <2> QED BY <1>1, <1>2, <2>1 DEF ProvidersInv, KeyTypes
<1>7. Resting' /\ told' \subseteq KeyIds /\ late' \in [KeyIds -> SUBSET Calls]
  BY <1>1, <1>4, <1>5, <1>6, KeyCalledBack
<1>8. cursor' \in [Names -> P!Keys]
  BY <1>1, CursorMoves
<1>9. ConfigTypes'
  BY <1>1, ConfigSame DEF ProvidersInv
<1>10. KeyTypes'
  BY <1>1, <1>6, <1>7, <1>8 DEF ProvidersInv, KeyTypes
<1> QED BY <1>5, <1>7, <1>9, <1>10 DEF ProvidersInv

-----------------------------------------------------------------------------
(* The config file and time. *)

(* No order of a list's entries is longer than the list. *)
LEMMA OrderBounded ==
  ASSUME NEW f \in ConfigFiles, NEW order \in P!SetToSeqs(P!ToSet(f))
  PROVE  order \in ConfigFiles
<1> DEFINE T == P!ToSet(f)
<1>1. f \in Seq(P!Entries) /\ Len(f) \in Nat /\ Len(f) <= Cardinality(Names) /\ DOMAIN f = 1..Len(f)
  BY DEF ConfigFiles
<1>2. T = {f[i] : i \in 1..Len(f)} /\ T \subseteq P!Entries
  BY <1>1 DEF P!ToSet
<1>3. f \in Surjection(1..Len(f), T)
  BY <1>1, <1>2 DEF Surjection
<1>4. ExistsSurjection(1..Len(f), T)
  BY <1>3 DEF ExistsSurjection
<1> HIDE DEF T
<1>5. Cardinality(T) <= Len(f)
  BY <1>1, <1>4, FS_SurjCardinalityBound
<1>6. IsFiniteSet(T)
  BY <1>1, <1>4, FS_NatSurjection
<1>7. Cardinality(T) \in Nat
  BY <1>6, FS_CardinalityType
<1>8. order \in [1..Cardinality(T) -> T]
  BY ProviderCardinality DEF P!SetToSeqs, T
<1>9. order \in Seq(P!Entries)
  <2>1. PICK n \in Nat : n = Cardinality(T)
    BY <1>7
  <2>2. order \in [1..n -> P!Entries]
    BY <1>2, <1>8, <2>1
  <2> QED BY <2>2
<1>10. Len(order) = Cardinality(T)
  BY <1>7, <1>8, <1>9
<1>11. Len(order) <= Cardinality(Names)
  BY <1>1, <1>5, <1>7, <1>10, ProviderConstants
<1> QED BY <1>9, <1>11 DEF ConfigFiles

LEMMA EntryReplaced ==
  ASSUME NEW f \in ConfigFiles, NEW i \in DOMAIN f, NEW e \in P!Entries
  PROVE  [f EXCEPT ![i] = e] \in ConfigFiles
<1>1. f \in Seq(P!Entries) /\ Len(f) \in Nat /\ Len(f) <= Cardinality(Names)
  BY DEF ConfigFiles
<1>2. [f EXCEPT ![i] = e] \in Seq(P!Entries)
  BY <1>1
<1>3. Len([f EXCEPT ![i] = e]) = Len(f)
  BY <1>1, <1>2
<1> QED BY <1>1, <1>2, <1>3 DEF ConfigFiles

LEMMA ConfigWritten ==
  ASSUME ProvidersInv, NEW config1 \in ConfigFiles, P!Write(config1)
  PROVE  ProvidersInv'
<1>1. /\ writing' = config1 /\ file' = P!Torn
      /\ UNCHANGED <<read, list, cursor, resting, healthy, status, told, late, call>>
  BY DEF P!Write, P!shared, P!keyRows
<1>2. ConfigTypes'
  BY <1>1, ProviderConstants DEF ProvidersInv, ConfigTypes
<1>3. KeyTypes'
  BY <1>1 DEF ProvidersInv, KeyTypes
<1>4. CallTypes' /\ Resting'
  BY <1>1 DEF ProvidersInv, CallTypes, Resting
<1> QED BY <1>2, <1>3, <1>4 DEF ProvidersInv

LEMMA EntryOf == ASSUME ProvidersInv, NEW i \in DOMAIN file PROVE file[i] \in P!Entries /\ file \in ConfigFiles
  BY DEF ProvidersInv, ConfigTypes, ConfigFiles

LEMMA KeyAdded == ASSUME ProvidersInv, NEW i \in DOMAIN file, P!AddProviderKey(i) PROVE ProvidersInv'
<1> DEFINE e == [file[i] EXCEPT !.keys = @ + 1]
<1>1. file[i].keys < MaxKeys /\ P!Write([file EXCEPT ![i] = e])
  BY DEF P!AddProviderKey
<1>2. file[i].keys + 1 \in 0..MaxKeys
  BY <1>1, EntryOf, ProviderConstants DEF P!Entries
<1>3. e \in P!Entries
  BY <1>2, EntryOf DEF P!Entries
<1> HIDE DEF e
<1>4. [file EXCEPT ![i] = e] \in ConfigFiles
  BY <1>3, EntryOf, EntryReplaced
<1> QED BY <1>1, <1>4, ConfigWritten

LEMMA KeyDeleted == ASSUME ProvidersInv, NEW i \in DOMAIN file, P!DeleteProviderKey(i) PROVE ProvidersInv'
<1> DEFINE e == [file[i] EXCEPT !.keys = @ - 1]
<1>1. file[i].keys > 0 /\ P!Write([file EXCEPT ![i] = e])
  BY DEF P!DeleteProviderKey
<1>2. file[i].keys - 1 \in 0..MaxKeys
  BY <1>1, EntryOf, ProviderConstants DEF P!Entries
<1>3. e \in P!Entries
  BY <1>2, EntryOf DEF P!Entries
<1> HIDE DEF e
<1>4. [file EXCEPT ![i] = e] \in ConfigFiles
  BY <1>3, EntryOf, EntryReplaced
<1> QED BY <1>1, <1>4, ConfigWritten

LEMMA ProviderUpdated == ASSUME ProvidersInv, NEW i \in DOMAIN file, P!UpdateProvider(i) PROVE ProvidersInv'
<1>1. PICK on \in BOOLEAN, health \in BOOLEAN :
        \E order \in P!SetToSeqs(P!ToSet([file EXCEPT ![i].enabled = on, ![i].health = health])) : P!Write(order)
  BY DEF P!UpdateProvider
<1> DEFINE e == [[file[i] EXCEPT !.enabled = on] EXCEPT !.health = health]
<1>2. [file EXCEPT ![i].enabled = on, ![i].health = health] = [file EXCEPT ![i] = e]
  BY EntryOf DEF ConfigFiles
<1>3. e \in P!Entries
  BY EntryOf DEF P!Entries
<1> HIDE DEF e
<1>4. [file EXCEPT ![i] = e] \in ConfigFiles
  BY <1>3, EntryOf, EntryReplaced
<1>5. PICK order \in P!SetToSeqs(P!ToSet([file EXCEPT ![i] = e])) : P!Write(order)
  BY <1>1, <1>2
<1>6. order \in ConfigFiles
  BY <1>4, OrderBounded
<1> QED BY <1>5, <1>6, ConfigWritten

LEMMA WriteEnds == ASSUME ProvidersInv, P!Written PROVE ProvidersInv'
<1>1. /\ writing # None /\ file' = writing /\ writing' = None
      /\ UNCHANGED <<read, list, cursor, resting, healthy, status, told, late, call>>
  BY DEF P!Written, P!shared, P!keyRows
<1>2. ConfigTypes'
  BY <1>1 DEF ProvidersInv, ConfigTypes
<1>3. KeyTypes'
  BY <1>1 DEF ProvidersInv, KeyTypes
<1>4. CallTypes' /\ Resting'
  BY <1>1 DEF ProvidersInv, CallTypes, Resting
<1> QED BY <1>2, <1>3, <1>4 DEF ProvidersInv

LEMMA RestEnds == ASSUME ProvidersInv, NEW x \in KeyIds, P!KeyReturns(x) PROVE ProvidersInv'
<1> DEFINE row == [status[x] EXCEPT !.off = FALSE]
<1>1. /\ status' = [status EXCEPT ![x] = row] /\ told' = told \ {x}
      /\ UNCHANGED <<file, writing, read, list, cursor, resting, healthy, call, late>>
  BY DEF P!KeyReturns, P!config
<1>2. row \in [errors : 0..3, off : BOOLEAN]
  BY DEF ProvidersInv, KeyTypes
<1> HIDE DEF row
<1>3. status' \in [KeyIds -> [errors : 0..3, off : BOOLEAN]] /\ \A y \in KeyIds \ {x} : status'[y] = status[y]
  BY <1>1, <1>2 DEF ProvidersInv, KeyTypes
<1>4. KeyTypes'
  BY <1>1, <1>3 DEF ProvidersInv, KeyTypes
<1>5. Resting'
  <2>1. \A y \in told' : status'[y].off
    BY <1>1, <1>3 DEF ProvidersInv, KeyTypes, Resting
  <2>2. \A y \in told', d \in Calls : AsksKey(call'[d]) /\ KeyOf(call'[d]) = y => d \in late'[y]
    BY <1>1 DEF ProvidersInv, Resting
  <2> QED BY <2>1, <2>2 DEF Resting
<1>6. ConfigTypes' /\ CallTypes'
  BY <1>1 DEF ProvidersInv, ConfigTypes, CallTypes
<1> QED BY <1>4, <1>5, <1>6 DEF ProvidersInv

LEMMA PauseEnds ==
  ASSUME ProvidersInv,
         \/ \E p \in Names : P!ProviderReturns(p)
         \/ \E x \in KeyIds : P!HealthExpires(x)
         \/ UNCHANGED P!vars
  PROVE  ProvidersInv'
<1>1. /\ UNCHANGED <<file, writing, read, list, cursor, status, told, late, call>>
      /\ resting' \subseteq resting /\ healthy' \subseteq healthy
  BY DEF P!ProviderReturns, P!HealthExpires, P!vars, P!config, P!keyRows
<1>2. ConfigTypes' /\ CallTypes' /\ Resting'
  BY <1>1 DEF ProvidersInv, ConfigTypes, CallTypes, Resting
<1>3. KeyTypes'
  BY <1>1 DEF ProvidersInv, KeyTypes
<1> QED BY <1>2, <1>3 DEF ProvidersInv

-----------------------------------------------------------------------------
LEMMA ProvidersInitially == P!Init => ProvidersInv
<1> SUFFICES ASSUME P!Init PROVE ProvidersInv
  OBVIOUS
<1>1. ConfigTypes
  <2>1. PICK s \in Shipped : file = s.file
    BY DEF P!Init
  <2>2. file \in ConfigFiles
    BY <2>1, ProvidersAssumption, FilesBounded DEF ProvidersAssumption
  <2> QED BY <2>2 DEF P!Init, ConfigTypes
<1>2. KeyTypes
  <2>1. 0 \in P!Keys
    BY ProviderConstants
  <2>2. [errors |-> 0, off |-> FALSE] \in [errors : 0..3, off : BOOLEAN]
    OBVIOUS
  <2> QED BY <2>1, <2>2 DEF P!Init, KeyTypes, KeyIds
<1>3. \A c \in Calls : call[c] = P!Idle
  BY DEF P!Init
<1>4. P!Idle \in CallRecords /\ P!Idle.at = "idle"
  BY FreshCalls
<1>5. CallTypes
  <2>1. KeysLeft(P!Idle)
    BY <1>4, NothingAsked
  <2>2. call \in [Calls -> CallRecords]
    BY <1>4 DEF P!Init
  <2> QED BY <1>3, <2>1, <2>2 DEF CallTypes
<1>6. Resting
  BY DEF P!Init, Resting
<1> QED BY <1>1, <1>2, <1>5, <1>6 DEF ProvidersInv

LEMMA ProvidersInvariance == ProvidersInv /\ [P!Next]_(P!vars) => ProvidersInv'
<1> SUFFICES ASSUME ProvidersInv, [P!Next]_(P!vars) PROVE ProvidersInv'
  OBVIOUS
<1>1. ASSUME NEW i \in DOMAIN file, P!AddProviderKey(i) \/ P!DeleteProviderKey(i) \/ P!UpdateProvider(i)
      PROVE  ProvidersInv'
  BY <1>1, KeyAdded, KeyDeleted, ProviderUpdated
<1>2. CASE P!Written
  BY <1>2, WriteEnds
<1>3. ASSUME NEW c \in Calls,
             \/ P!Begin(c) \/ P!Loaded(c) \/ P!TakesProvider(c) \/ P!TakesKey(c) \/ P!HealthChecked(c)
             \/ P!Answered(c) \/ P!LeavesProvider(c) \/ P!GivesUp(c)
      PROVE  ProvidersInv'
  BY <1>3, CallBegins, CallLoaded, ProviderTaken, KeyTaken, HealthStep, RequestAnswered, CallLeaves, CallGivesUp
<1>4. ASSUME NEW c \in Calls, NEW why \in Failures, P!Failed(c, why) PROVE ProvidersInv'
  BY <1>4, RequestFails
<1>5. ASSUME NEW x \in KeyIds, P!KeyReturns(x) PROVE ProvidersInv'
  BY <1>5, RestEnds
<1>6. CASE (\E p \in Names : P!ProviderReturns(p)) \/ (\E x \in KeyIds : P!HealthExpires(x)) \/ UNCHANGED P!vars
  BY <1>6, PauseEnds
<1> QED BY <1>1, <1>2, <1>3, <1>4, <1>5, <1>6 DEF P!Next, KeyIds

LEMMA ProvidersInvariant == P!Spec => []ProvidersInv
  BY ProvidersInitially, ProvidersInvariance, PTL DEF P!Spec

(* A call leaves a provider only when each of its keys was asked or was    *)
(* out of use when its turn came (_ordered_keys of ai_provider_client.py), *)
(* wherever other calls have moved the cursor and whatever the panel has   *)
(* made of the list meanwhile.                                             *)
THEOREM FailoverMissesNoKey == P!Spec => []EveryKeyHadItsTurn
<1>1. ProvidersInv => EveryKeyHadItsTurn
  <2> SUFFICES ASSUME ProvidersInv, NEW c \in Calls, call[c].at = "key", call[c].keys = <<>>
               PROVE  0..(P!Current(c).keys - 1) \subseteq call[c].turns
    BY DEF EveryKeyHadItsTurn, P!EveryKeyHadItsTurn
  <2>1. KeysLeft(call[c])
    BY CallRecord DEF ProvidersInv
  <2>2. DOMAIN call[c].keys = {}
    OBVIOUS
  <2> QED BY <2>1, <2>2 DEF KeysLeft, P!Current
<1> QED BY <1>1, ProvidersInvariant, PTL

(* A key that was told to wait stays out of use until its time has passed, *)
(* and whatever calls run at once, none asks it but those that were asking *)
(* it when it was told; only one of these may end the wait before its time *)
(* (_record_key_failure, _record_key_success).                             *)
THEOREM ToldKeysRest == P!Spec => []RestIsKept
<1>1. ASSUME NEW c \in Calls PROVE /\ P!Asking(c) <=> AsksKey(call[c])
                                   /\ P!Row(c) = KeyOf(call[c])
  BY DEF P!Asking, AsksKey, P!Row, P!Current, KeyOf
<1>2. ProvidersInv => RestIsKept
  <2> SUFFICES ASSUME ProvidersInv, NEW x \in told
               PROVE  status[x].off /\ \A c \in Calls : P!Asking(c) /\ P!Row(c) = x => c \in late[x]
    BY DEF RestIsKept, P!RestIsKept
  <2> QED BY <1>1 DEF ProvidersInv, Resting
<1> QED BY <1>2, ProvidersInvariant, PTL

-----------------------------------------------------------------------------
(* Summaries *)

OfUser(table, u) == {m \in S!Ids : table[m] # None /\ table[m].user = u}
Beyond(table, u, id) == {m \in OfUser(table, u) : m > id}
RowOf(rows, u) == IF rows[u] = None THEN S!NoSummary ELSE rows[u]

(* The summary of a user is of all messages up to its mark, and the mark   *)
(* is one of them: later messages have greater ids.                        *)
Complete(table, rows, u) ==
  rows[u] # None =>
    /\ rows[u].upto \in OfUser(table, u)
    /\ rows[u].text = {m \in OfUser(table, u) : m <= rows[u].upto}
    /\ rows[u].count = Cardinality(rows[u].text)

(* A job has read the summary as it is, and of the messages after it the   *)
(* first ones.                                                             *)
ReadRight(table, rows, j) ==
  /\ j.step \in {"read", "asking"} => j.existing = RowOf(rows, j.user)
  /\ j.step = "asking" =>
       /\ j.pending \subseteq Beyond(table, j.user, j.existing.upto)
       /\ \A m \in Beyond(table, j.user, j.existing.upto), k \in j.pending : m <= k => m \in j.pending

JobsApart ==
  /\ \A t \in Threads : job[t] = S!Idle \/ job[t].user \in summary_jobs
  /\ \A r, t \in Threads : job[r].user \in Users /\ job[r].user = job[t].user => r = t

JobTypes ==
  /\ job \in [Threads -> S!Jobs] /\ summary_jobs \subseteq Users
  /\ \A t \in Threads : job[t].step = "asking" => job[t].pending # {}
  /\ JobsApart

SummaryTypes ==
  /\ message \in [S!Ids -> S!Messages \cup {None}]
  /\ summary \in [Users -> S!Summary \cup {None}]
  /\ outrun \subseteq Users

SummariesInv ==
  /\ SummaryTypes /\ JobTypes
  /\ \A u \in Users \ outrun : Complete(message, summary, u)
  /\ \A t \in Threads : job[t].user \in Users \ outrun => ReadRight(message, summary, job[t])

LEMMA SummariesTyped == SummariesInv => S!TypeOK
  BY DEF SummariesInv, SummaryTypes, JobTypes, S!TypeOK

LEMMA SummaryCardinality == ASSUME NEW T PROVE S!Cardinality(T) = Cardinality(T)
  BY DEF S!Cardinality, Cardinality

LEMMA OfMeans ==
  ASSUME NEW u
  PROVE  S!Of(u) = OfUser(message, u) /\ \A id : S!After(u, id) = Beyond(message, u, id)
  BY DEF S!Of, S!Rows, S!After, OfUser, Beyond

(* A set of ids has a greatest one. *)
LEMMA LessIsWellFounded == IsWellFoundedOn({ss \in Nat \X Nat : ss[1] < ss[2]}, Nat)
  BY NatLessThanWellFounded DEF OpToRel

LEMMA Greatest ==
  ASSUME NEW T \in SUBSET (0..MaxId), T # {}
  PROVE  S!Max(T) \in T /\ \A y \in T : S!Max(T) >= y
<1> DEFINE R == {ss \in Nat \X Nat : ss[1] < ss[2]}
           D == {MaxId - x : x \in T}
<1>0. MaxId \in Nat
  BY SummariesAssumption DEF SummariesAssumption
<1>1. D \subseteq Nat /\ D # {}
  <2>1. \A x \in T : x \in Nat /\ MaxId - x \in Nat
    BY <1>0
  <2>2. PICK x \in T : TRUE
    OBVIOUS
  <2> QED BY <2>1, <2>2
<1>2. IsWellFoundedOn(R, Nat)
  BY LessIsWellFounded
<1>3. PICK d \in D : \A y \in D : ~(<<y, d>> \in R)
  <2> HIDE DEF D, R
  <2> QED BY <1>1, <1>2, WFMin
<1>4. PICK m \in T : d = MaxId - m
  OBVIOUS
<1>5. ASSUME NEW y \in T PROVE m >= y
  <2>1. MaxId - y \in D /\ MaxId - y \in Nat /\ d \in Nat
    BY <1>1
  <2>2. ~(MaxId - y < d)
    BY <1>3, <2>1
  <2>3. m \in Nat /\ y \in Nat
    <3>1. T \subseteq 0..MaxId
      OBVIOUS
    <3>2. m \in 0..MaxId /\ y \in 0..MaxId
      BY <3>1
    <3> QED BY <1>0, <3>2
  <2> QED BY <1>0, <1>4, <2>2, <2>3
<1> QED BY <1>4, <1>5 DEF S!Max

LEMMA SummaryConstants ==
  /\ MaxId \in Nat /\ S!Ids = 1..MaxId /\ S!Ids \subseteq Nat \ {0}
  /\ None \notin Users /\ None \notin S!Messages /\ None \notin S!Summary
  /\ S!NoSummary \in S!Summary /\ S!NoSummary.upto = 0 /\ S!NoSummary.text = {} /\ S!NoSummary.count = 0
  /\ S!Idle \in S!Jobs /\ S!Idle.user = None /\ S!Idle.step = "idle"
<1>1. MaxId \in Nat /\ None \notin Users /\ None \notin S!Messages /\ None \notin S!Summary
  BY SummariesAssumption DEF SummariesAssumption
<1>2. S!NoSummary \in S!Summary
  BY <1>1 DEF S!NoSummary, S!Summary
<1>3. S!Idle \in S!Jobs
  BY <1>2 DEF S!Idle, S!Jobs
<1> QED BY <1>1, <1>2, <1>3 DEF S!Ids, S!NoSummary, S!Idle

(* A finite set of ids has a cardinality. *)
LEMMA IdsFinite == ASSUME NEW T \in SUBSET S!Ids PROVE IsFiniteSet(T) /\ Cardinality(T) \in Nat
<1>1. IsFiniteSet(1..MaxId)
  BY SummaryConstants, FS_Interval
<1>2. IsFiniteSet(T)
  BY <1>1, SummaryConstants, FS_Subset
<1> QED BY <1>2, FS_CardinalityType

-----------------------------------------------------------------------------
LEMMA MessageAdded ==
  ASSUME SummariesInv, NEW u \in Users, NEW id \in Texts \cup {None}, S!Add(u, id)
  PROVE  SummariesInv'
<1> DEFINE next == S!Max({0} \cup S!Rows) + 1
           row == [user |-> u, telegram_id |-> id]
<1>1. next \in S!Ids /\ message' = [message EXCEPT ![next] = row] /\ UNCHANGED <<summary, summary_jobs, job, outrun>>
  BY DEF S!Add
<1>2. \A m \in S!Ids : message[m] # None => m < next
  <2>1. {0} \cup S!Rows \in SUBSET (0..MaxId)
    BY SummaryConstants DEF S!Rows
  <2>2. \A y \in {0} \cup S!Rows : S!Max({0} \cup S!Rows) >= y /\ S!Max({0} \cup S!Rows) \in Nat /\ y \in Nat
    <3>1. PICK T : T = {0} \cup S!Rows
      OBVIOUS
    <3>2. T \in SUBSET (0..MaxId) /\ T # {}
      BY <2>1, <3>1
    <3>3. S!Max(T) \in T /\ \A y \in T : S!Max(T) >= y
      BY <3>2, Greatest
    <3>4. T \subseteq Nat
      BY <3>2, SummaryConstants
    <3>5. \A y \in T : S!Max(T) >= y /\ S!Max(T) \in Nat /\ y \in Nat
      BY <3>3, <3>4
    <3> QED BY <3>1, <3>5
  <2>3. ASSUME NEW m \in S!Ids, message[m] # None PROVE m < next
    <3>1. m \in {0} \cup S!Rows
      BY <2>3 DEF S!Rows
    <3>2. PICK top : top = S!Max({0} \cup S!Rows)
      OBVIOUS
    <3>3. top >= m /\ top \in Nat /\ m \in Nat
      BY <2>2, <3>1, <3>2
    <3> QED BY <3>2, <3>3
  <2> QED BY <2>3
<1>3. row \in S!Messages /\ row.user = u
  BY DEF S!Messages
<1> HIDE DEF next, row
<1>4. SummaryTypes'
  BY <1>1, <1>3 DEF SummariesInv, SummaryTypes
<1>5. JobTypes'
  BY <1>1 DEF SummariesInv, JobTypes, JobsApart
<1>6. ASSUME NEW v
      PROVE  /\ OfUser(message, v) \subseteq OfUser(message', v) /\ OfUser(message', v) \subseteq OfUser(message, v) \cup {next}
             /\ \A m \in OfUser(message, v) : m < next
  <2>1. \A m \in S!Ids : message'[m] = IF m = next THEN row ELSE message[m]
    BY <1>1 DEF SummariesInv, SummaryTypes
  <2>2. \A m \in S!Ids : message[m] # None => m # next
    BY <1>1, <1>2, SummaryConstants
  <2> QED BY <1>2, <2>1, <2>2 DEF OfUser
<1>7. ASSUME NEW v \in Users \ outrun PROVE Complete(message', summary, v)
  <2> SUFFICES ASSUME summary[v] # None PROVE Complete(message', summary, v)
    BY DEF Complete
  <2>1. Complete(message, summary, v)
    BY DEF SummariesInv
  <2>2. summary[v].upto \in OfUser(message, v) /\ summary[v].upto < next
    BY <1>6, <2>1 DEF Complete
  <2>3. next \in Nat /\ summary[v].upto \in Nat
    BY <1>1, <2>2, SummaryConstants DEF OfUser
  <2>4. {m \in OfUser(message', v) : m <= summary[v].upto} = {m \in OfUser(message, v) : m <= summary[v].upto}
    BY <1>6, <2>2, <2>3
  <2> QED BY <1>6, <2>1, <2>2, <2>4 DEF Complete
<1>8. ASSUME NEW t \in Threads, job[t].user \in Users \ outrun PROVE ReadRight(message', summary, job[t])
  <2> DEFINE j == job[t]
             b(table) == Beyond(table, j.user, j.existing.upto)
  <2>1. ReadRight(message, summary, j)
    BY <1>8 DEF SummariesInv
  <2>2. b(message) \subseteq b(message') /\ b(message') \subseteq b(message) \cup {next} /\ \A m \in b(message) : m < next
    BY <1>6 DEF Beyond
  <2>3. next \in Nat /\ b(message) \subseteq Nat
    BY <1>1, SummaryConstants DEF Beyond, OfUser
  <2> HIDE DEF b
  <2>4. ASSUME j.step = "asking"
        PROVE  j.pending \subseteq b(message') /\ \A m \in b(message'), k \in j.pending : m <= k => m \in j.pending
    <3>1. j.pending \subseteq b(message) /\ \A m \in b(message), k \in j.pending : m <= k => m \in j.pending
      BY <2>1, <2>4 DEF ReadRight, b
    <3>2. ASSUME NEW m \in b(message'), NEW k \in j.pending, m <= k PROVE m \in j.pending
      <4>1. k < next /\ k \in Nat
        BY <2>2, <2>3, <3>1
      <4>2. m # next
        BY <2>3, <3>2, <4>1
      <4> QED BY <2>2, <3>1, <3>2, <4>2
    <3> QED BY <2>2, <3>1, <3>2
  <2> QED BY <2>1, <2>4 DEF ReadRight, b
<1> QED BY <1>1, <1>4, <1>5, <1>7, <1>8 DEF SummariesInv

-----------------------------------------------------------------------------
(* What a thread does. *)

LEMMA SlotChanged ==
  ASSUME SummariesInv, NEW t \in Threads, NEW j \in S!Jobs, job' = [job EXCEPT ![t] = j],
         summary_jobs' \subseteq Users,
         j = S!Idle \/ j.user \in summary_jobs',
         j.step = "asking" => j.pending # {},
         \A r \in Threads \ {t} : job[r] = S!Idle \/ job[r].user \in summary_jobs',
         j.user \in Users => \A r \in Threads \ {t} : job[r].user # j.user
  PROVE  JobTypes' /\ \A r \in Threads : job'[r] = IF r = t THEN j ELSE job[r]
<1>1. job' \in [Threads -> S!Jobs] /\ \A r \in Threads : job'[r] = IF r = t THEN j ELSE job[r]
  BY DEF SummariesInv, JobTypes
<1>2. \A r \in Threads : job'[r].step = "asking" => job'[r].pending # {}
  BY <1>1 DEF SummariesInv, JobTypes
<1>3. \A r \in Threads : job'[r] = S!Idle \/ job'[r].user \in summary_jobs'
  BY <1>1
<1>4. ASSUME NEW r \in Threads, NEW s \in Threads, job'[r].user \in Users, job'[r].user = job'[s].user PROVE r = s
  <2>1. CASE r = t \/ s = t
    BY <1>1, <1>4, <2>1
  <2>2. CASE r # t /\ s # t
    BY <1>1, <1>4, <2>2 DEF SummariesInv, JobTypes, JobsApart
  <2> QED BY <2>1, <2>2
<1> QED BY <1>1, <1>2, <1>3, <1>4 DEF JobTypes, JobsApart

(* The thread of a running job, and its user. *)
LEMMA JobUser ==
  ASSUME SummariesInv, NEW t \in Threads, job[t].step # "idle"
  PROVE  /\ job[t] \in S!Jobs /\ job[t].user \in Users /\ job[t].user \in summary_jobs
         /\ \A r \in Threads \ {t} : job[r].user # job[t].user
         /\ job[t].existing \in S!Summary /\ job[t].pending \in SUBSET S!Ids
<1>1. job[t] \in S!Jobs /\ job[t] # S!Idle
  BY SummaryConstants DEF SummariesInv, JobTypes
<1>2. job[t].user \in summary_jobs /\ job[t].user \in Users
  BY <1>1 DEF SummariesInv, JobTypes, JobsApart
<1>3. \A r \in Threads \ {t} : job[r].user # job[t].user
  BY <1>2 DEF SummariesInv, JobTypes, JobsApart
<1>4. job[t].existing \in S!Summary /\ job[t].pending \in SUBSET S!Ids
  BY <1>1 DEF S!Jobs
<1> QED BY <1>1, <1>2, <1>3, <1>4

LEMMA JobReleased ==
  ASSUME SummariesInv, NEW t \in Threads, job[t].step # "idle", S!Release(t)
  PROVE  JobTypes' /\ \A r \in Threads : job'[r] = IF r = t THEN S!Idle ELSE job[r]
<1>1. job' = [job EXCEPT ![t] = S!Idle] /\ summary_jobs' = summary_jobs \ {job[t].user}
  BY DEF S!Release
<1>2. summary_jobs' \subseteq Users
  BY <1>1 DEF SummariesInv, JobTypes
<1>3. \A r \in Threads \ {t} : job[r] = S!Idle \/ job[r].user \in summary_jobs'
  BY <1>1, JobUser DEF SummariesInv, JobTypes, JobsApart
<1>4. S!Idle \in S!Jobs /\ S!Idle.user \notin Users /\ S!Idle.step # "asking"
  BY SummaryConstants
<1> QED BY <1>1, <1>2, <1>3, <1>4, SlotChanged

(* The rows stay as they are, and so does what every other thread has read. *)
LEMMA OnlyJobs ==
  ASSUME SummariesInv, NEW t \in Threads, NEW j, UNCHANGED <<message, summary, outrun>>, JobTypes',
         \A r \in Threads : job'[r] = IF r = t THEN j ELSE job[r],
         j.user \in Users \ outrun => ReadRight(message, summary, j)
  PROVE  SummariesInv'
<1>1. SummaryTypes'
  BY DEF SummariesInv, SummaryTypes
<1>2. \A u \in Users \ outrun' : Complete(message', summary', u)
  BY DEF SummariesInv
<1>3. \A r \in Threads : job'[r].user \in Users \ outrun' => ReadRight(message', summary', job'[r])
  BY DEF SummariesInv
<1> QED BY <1>1, <1>2, <1>3 DEF SummariesInv

LEMMA IdleReads == S!Idle.user \notin Users
  BY SummaryConstants

LEMMA Scheduled ==
  ASSUME SummariesInv, NEW u \in Users, S!Schedule(u)
  PROVE  SummariesInv'
<1> DEFINE j == [S!Idle EXCEPT !.user = u, !.step = "scheduled"]
<1>1. PICK t \in Threads : job[t] = S!Idle /\ job' = [job EXCEPT ![t] = j]
  BY DEF S!Schedule
<1>2. /\ u \notin summary_jobs /\ summary_jobs' = summary_jobs \cup {u} /\ UNCHANGED <<message, summary, outrun>>
  BY DEF S!Schedule
<1>3. j \in S!Jobs /\ j.user = u /\ j.step = "scheduled"
  BY SummaryConstants DEF S!Jobs
<1> HIDE DEF j
<1>4. \A r \in Threads \ {t} : job[r].user # u /\ (job[r] = S!Idle \/ job[r].user \in summary_jobs')
  BY <1>2, SummaryConstants DEF SummariesInv, JobTypes, JobsApart
<1>5. summary_jobs' \subseteq Users
  BY <1>2 DEF SummariesInv, JobTypes
<1>6. JobTypes' /\ \A r \in Threads : job'[r] = IF r = t THEN j ELSE job[r]
  <2>1. /\ job' = [job EXCEPT ![t] = j] /\ j \in S!Jobs
        /\ j.user \in summary_jobs' /\ j.step # "asking"
        /\ \A r \in Threads \ {t} : job[r] = S!Idle \/ job[r].user \in summary_jobs'
        /\ \A r \in Threads \ {t} : job[r].user # j.user
    BY <1>1, <1>2, <1>3, <1>4
  <2> QED BY <1>5, <2>1, SlotChanged
<1>7. ReadRight(message, summary, j)
  BY <1>3 DEF ReadRight
<1> QED BY <1>2, <1>6, <1>7, OnlyJobs

LEMMA RowTyped == ASSUME SummaryTypes, NEW u \in Users PROVE RowOf(summary, u) \in S!Summary /\ S!SummaryRow(u) = RowOf(summary, u)
  BY SummaryConstants DEF SummaryTypes, RowOf, S!SummaryRow

LEMMA SummaryRead ==
  ASSUME SummariesInv, NEW t \in Threads, S!ReadSummary(t)
  PROVE  SummariesInv'
<1> DEFINE j == [[job[t] EXCEPT !.step = "read"] EXCEPT !.existing = S!SummaryRow(job[t].user)]
<1>1. job[t].step = "scheduled" /\ UNCHANGED <<message, summary, summary_jobs, outrun>>
  BY DEF S!ReadSummary
<1>2. job[t] \in S!Jobs /\ job[t].user \in Users /\ job[t].user \in summary_jobs
      /\ \A r \in Threads \ {t} : job[r].user # job[t].user
  BY <1>1, JobUser
<1>3. job' = [job EXCEPT ![t] = j]
  BY DEF S!ReadSummary, SummariesInv, JobTypes
<1>4. S!SummaryRow(job[t].user) = RowOf(summary, job[t].user) /\ RowOf(summary, job[t].user) \in S!Summary
  BY <1>2, RowTyped DEF SummariesInv
<1>5. j \in S!Jobs /\ j.user = job[t].user /\ j.step = "read" /\ j.existing = RowOf(summary, job[t].user)
  BY <1>2, <1>4 DEF S!Jobs
<1> HIDE DEF j
<1>6. \A r \in Threads \ {t} : job[r] = S!Idle \/ job[r].user \in summary_jobs'
  BY <1>1 DEF SummariesInv, JobTypes, JobsApart
<1>7. summary_jobs' \subseteq Users
  BY <1>1 DEF SummariesInv, JobTypes
<1>8. JobTypes' /\ \A r \in Threads : job'[r] = IF r = t THEN j ELSE job[r]
  <2>1. /\ job' = [job EXCEPT ![t] = j] /\ j \in S!Jobs
        /\ j.user \in summary_jobs' /\ j.step # "asking"
        /\ \A r \in Threads \ {t} : job[r].user # j.user
    BY <1>1, <1>2, <1>3, <1>5
  <2> QED BY <1>6, <1>7, <2>1, SlotChanged
<1>9. ReadRight(message, summary, j)
  BY <1>5 DEF ReadRight
<1> QED BY <1>1, <1>8, <1>9, OnlyJobs

(* What messages_after returns is a first part of what comes after. *)
LEMMA FirstOnes ==
  ASSUME NEW u, NEW id
  PROVE  /\ S!MessagesAfter(u, id) \subseteq Beyond(message, u, id)
         /\ \A m \in Beyond(message, u, id), k \in S!MessagesAfter(u, id) : m <= k => m \in S!MessagesAfter(u, id)
<1> DEFINE A == Beyond(message, u, id)
           before(m) == {k \in A : k < m}
<1>1. S!MessagesAfter(u, id) = {m \in A : Cardinality(before(m)) < Limit}
  BY OfMeans, SummaryCardinality DEF S!MessagesAfter
<1>2. A \in SUBSET S!Ids
  BY DEF Beyond, OfUser
<1> HIDE DEF A
<1>3. ASSUME NEW m \in A, NEW k \in A, m <= k, Cardinality(before(k)) < Limit
      PROVE  Cardinality(before(m)) < Limit
  <2>1. A \subseteq Nat
    BY <1>2, SummaryConstants
  <2>2. before(m) \subseteq before(k)
    <3>1. m \in Nat /\ k \in Nat
      BY <1>3, <2>1
    <3>2. ASSUME NEW i \in A, i < m PROVE i < k
      BY <1>3, <2>1, <3>1, <3>2
    <3> QED BY <3>2
  <2>3. before(m) \in SUBSET S!Ids /\ before(k) \in SUBSET S!Ids
    BY <1>2
  <2> HIDE DEF before
  <2>4. Cardinality(before(m)) <= Cardinality(before(k)) /\ Cardinality(before(m)) \in Nat /\ Cardinality(before(k)) \in Nat
    BY <2>2, <2>3, IdsFinite, FS_Subset
  <2>5. Limit \in Nat
    BY SummariesAssumption DEF SummariesAssumption
  <2> QED BY <1>3, <2>4, <2>5
<1> QED BY <1>1, <1>3 DEF A

LEMMA PendingRead ==
  ASSUME SummariesInv, NEW t \in Threads, S!ReadPending(t)
  PROVE  SummariesInv'
<1> DEFINE pending == S!MessagesAfter(job[t].user, job[t].existing.upto)
           j == [[job[t] EXCEPT !.step = "asking"] EXCEPT !.pending = pending]
<1>1. job[t].step = "read" /\ UNCHANGED <<message, summary, outrun>>
  BY DEF S!ReadPending
<1>2. job[t] \in S!Jobs /\ job[t].user \in Users /\ job[t].user \in summary_jobs
      /\ \A r \in Threads \ {t} : job[r].user # job[t].user
  BY <1>1, JobUser
<1>3. CASE pending = {}
  <2>1. S!Release(t)
    BY <1>3 DEF S!ReadPending
  <2> QED BY <1>1, <2>1, JobReleased, IdleReads, OnlyJobs
<1>4. CASE pending # {}
  <2>1. job' = [job EXCEPT ![t] = j] /\ summary_jobs' = summary_jobs
    BY <1>4 DEF S!ReadPending, SummariesInv, JobTypes
  <2>2. pending \in SUBSET S!Ids
    BY FirstOnes DEF Beyond, OfUser
  <2>3. pending \subseteq Beyond(message, job[t].user, job[t].existing.upto)
        /\ \A m \in Beyond(message, job[t].user, job[t].existing.upto), k \in pending : m <= k => m \in pending
    BY FirstOnes
  <2> HIDE DEF pending
  <2>4. j \in S!Jobs /\ j.user = job[t].user /\ j.step = "asking" /\ j.pending = pending /\ j.existing = job[t].existing
    BY <1>2, <2>2 DEF S!Jobs
  <2> HIDE DEF j
  <2>5. \A r \in Threads \ {t} : job[r] = S!Idle \/ job[r].user \in summary_jobs'
    BY <2>1 DEF SummariesInv, JobTypes, JobsApart
  <2>6. summary_jobs' \subseteq Users
    BY <2>1 DEF SummariesInv, JobTypes
  <2>7. JobTypes' /\ \A r \in Threads : job'[r] = IF r = t THEN j ELSE job[r]
    <3>1. /\ job' = [job EXCEPT ![t] = j] /\ j \in S!Jobs
          /\ j.user \in summary_jobs' /\ j.pending # {}
          /\ \A r \in Threads \ {t} : job[r].user # j.user
      BY <1>2, <1>4, <2>1, <2>4
    <3> QED BY <2>5, <2>6, <3>1, SlotChanged
  <2>8. j.user \in Users \ outrun => ReadRight(message, summary, j)
    BY <1>1, <2>3, <2>4 DEF SummariesInv, ReadRight
  <2> QED BY <1>1, <2>7, <2>8, OnlyJobs
<1> QED BY <1>3, <1>4

LEMMA NothingWritten ==
  ASSUME SummariesInv, NEW t \in Threads, S!NoAnswer(t)
  PROVE  SummariesInv'
<1>1. job[t].step # "idle" /\ S!Release(t) /\ UNCHANGED <<message, summary, outrun>>
  BY DEF S!NoAnswer
<1> QED BY <1>1, JobReleased, IdleReads, OnlyJobs

(* The written text is of every message up to the last one that was read.  *)
LEMMA SummaryWritten ==
  ASSUME SummariesInv, NEW t \in Threads, S!WriteSummary(t)
  PROVE  SummariesInv'
<1> DEFINE u == job[t].user
           pending == job[t].pending
           existing == job[t].existing
           new == [upto |-> S!Max(pending), text |-> existing.text \cup pending,
                   count |-> S!SummaryRow(u).count + S!Cardinality(pending)]
<1>1. /\ job[t].step = "asking" /\ summary' = [summary EXCEPT ![u] = new] /\ S!Release(t)
      /\ UNCHANGED <<message, outrun>>
  BY DEF S!WriteSummary
<1>2. /\ u \in Users /\ u \in summary_jobs /\ existing \in S!Summary /\ pending \in SUBSET S!Ids
      /\ \A r \in Threads \ {t} : job[r].user # u
  BY <1>1, JobUser
<1>3. pending # {}
  BY <1>1 DEF SummariesInv, JobTypes
<1>4. S!Max(pending) \in pending /\ \A y \in pending : S!Max(pending) >= y
  <2>1. pending \in SUBSET (0..MaxId)
    BY <1>2, SummaryConstants
  <2> QED BY <1>3, <2>1, Greatest
<1>5. S!SummaryRow(u) = RowOf(summary, u) /\ RowOf(summary, u) \in S!Summary
  BY <1>2, RowTyped DEF SummariesInv
<1>6. S!Cardinality(pending) = Cardinality(pending) /\ Cardinality(pending) \in Nat /\ IsFiniteSet(pending)
  BY <1>2, IdsFinite, SummaryCardinality
<1>7. new \in S!Summary
  <2>1. S!Max(pending) \in 0..MaxId
    BY <1>2, <1>4, SummaryConstants
  <2>2. existing.text \cup pending \in SUBSET S!Ids
    BY <1>2 DEF S!Summary
  <2>3. S!SummaryRow(u).count + S!Cardinality(pending) \in Nat
    <3>1. RowOf(summary, u).count \in Nat
      BY <1>5 DEF S!Summary
    <3> QED BY <1>5, <1>6, <3>1
  <2> QED BY <2>1, <2>2, <2>3 DEF S!Summary
<1>8. JobTypes' /\ \A r \in Threads : job'[r] = IF r = t THEN S!Idle ELSE job[r]
  BY <1>1, JobReleased
<1>9. SummaryTypes'
  BY <1>1, <1>2, <1>7 DEF SummariesInv, SummaryTypes
<1>10. summary'[u] = new /\ \A v \in Users \ {u} : summary'[v] = summary[v]
  BY <1>1, <1>2 DEF SummariesInv, SummaryTypes
<1>11. ASSUME u \notin outrun PROVE Complete(message, summary', u)
  <2> DEFINE all == OfUser(message, u)
             mark == existing.upto
  <2>1. ReadRight(message, summary, job[t])
    BY <1>2, <1>11 DEF SummariesInv
  <2>2. /\ existing = RowOf(summary, u) /\ pending \subseteq Beyond(message, u, mark)
        /\ \A m \in Beyond(message, u, mark), k \in pending : m <= k => m \in pending
    BY <1>1, <2>1 DEF ReadRight
  <2>3. Complete(message, summary, u)
    BY <1>2, <1>11 DEF SummariesInv
  <2>4. all \subseteq S!Ids /\ all \subseteq Nat \ {0}
    BY SummaryConstants DEF OfUser
  <2>5. existing.text = {m \in all : m <= mark} /\ existing.count = Cardinality(existing.text) /\ mark \in Nat
    <3>1. CASE summary[u] = None
      <4>1. existing.upto = 0 /\ existing.text = {} /\ existing.count = 0
        BY <2>2, <3>1, SummaryConstants DEF RowOf
      <4>2. {m \in all : m <= 0} = {}
        BY <2>4
      <4> QED BY <4>1, <4>2, FS_EmptySet
    <3>2. CASE summary[u] # None
      <4>1. existing = summary[u]
        BY <2>2, <3>2 DEF RowOf
      <4> QED BY <2>3, <2>4, <3>2, <4>1 DEF Complete
    <3> QED BY <3>1, <3>2
  <2>6. pending = {m \in all : m > mark /\ m <= S!Max(pending)}
    <3>1. ASSUME NEW m \in pending PROVE m \in all /\ m > mark /\ m <= S!Max(pending)
      <4>1. m \in all /\ m > mark
        BY <2>2, <3>1 DEF Beyond
      <4>2. m \in Nat /\ S!Max(pending) \in Nat /\ S!Max(pending) >= m
        BY <1>2, <1>4, <3>1, SummaryConstants
      <4> QED BY <4>1, <4>2
    <3>2. ASSUME NEW m \in all, m > mark, m <= S!Max(pending) PROVE m \in pending
      <4>1. m \in Beyond(message, u, mark)
        BY <3>2 DEF Beyond
      <4> QED BY <1>4, <2>2, <3>2, <4>1
    <3> QED BY <3>1, <3>2
  <2>7. S!Max(pending) \in all /\ mark < S!Max(pending)
    BY <1>4, <2>6
  <2>8. new.text = {m \in all : m <= S!Max(pending)}
    <3>1. PICK top \in Nat : top = S!Max(pending) /\ mark < top
      BY <2>4, <2>7
    <3> HIDE DEF pending, existing, all, mark
    <3>2. {m \in all : m <= mark} \cup {m \in all : m > mark /\ m <= top} = {m \in all : m <= top}
      <4>1. \A m \in all : m <= top <=> (m <= mark \/ (m > mark /\ m <= top))
        BY <2>4, <2>5, <3>1
      <4> QED BY <4>1
    <3> QED BY <2>5, <2>6, <3>1, <3>2
  <2>9. new.count = Cardinality(new.text)
    <3>1. existing.text \cap pending = {}
      <4>1. ASSUME NEW m \in existing.text, m \in pending PROVE FALSE
        <5>1. m \in all /\ m <= mark /\ m > mark
          BY <2>5, <2>6, <4>1
        <5>2. m \in Nat /\ mark \in Nat
          BY <2>4, <2>5, <5>1
        <5> QED BY <5>1, <5>2
      <4> QED BY <4>1
    <3>2. IsFiniteSet(existing.text) /\ Cardinality(existing.text) \in Nat
      <4>1. existing.text \in SUBSET S!Ids
        BY <1>2 DEF S!Summary
      <4> QED BY <4>1, IdsFinite
    <3>3. Cardinality(existing.text \cup pending) = Cardinality(existing.text) + Cardinality(pending)
      <4>1. Cardinality(existing.text \cap pending) = 0
        BY <3>1, FS_EmptySet
      <4> HIDE DEF existing, pending
      <4>2. Cardinality(existing.text \cup pending)
              = Cardinality(existing.text) + Cardinality(pending) - Cardinality(existing.text \cap pending)
        BY <1>6, <3>2, FS_Union
      <4> QED BY <1>6, <3>2, <4>1, <4>2
    <3>4. S!SummaryRow(u).count = existing.count
      BY <1>5, <2>2
    <3> QED BY <1>6, <2>5, <3>3, <3>4
  <2>10. new.upto = S!Max(pending)
    OBVIOUS
  <2> HIDE DEF new, pending, existing
  <2> QED BY <1>10, <2>7, <2>8, <2>9, <2>10 DEF Complete
<1> HIDE DEF u, new, pending, existing
<1>12. \A v \in Users \ outrun' : Complete(message', summary', v)
  <2> SUFFICES ASSUME NEW v \in Users \ outrun PROVE Complete(message, summary', v)
    BY <1>1
  <2>1. CASE v = u
    BY <1>11, <2>1
  <2>2. CASE v # u
    BY <1>10, <2>2 DEF SummariesInv, Complete
  <2> QED BY <2>1, <2>2
<1>13. ASSUME NEW r \in Threads, job'[r].user \in Users \ outrun' PROVE ReadRight(message', summary', job'[r])
  <2>1. r # t /\ job'[r] = job[r]
    BY <1>8, <1>13, SummaryConstants
  <2>2. job[r].user # u /\ RowOf(summary', job[r].user) = RowOf(summary, job[r].user)
    BY <1>2, <1>10, <1>13, <2>1 DEF RowOf
  <2>3. ReadRight(message, summary, job[r])
    BY <1>1, <1>13, <2>1 DEF SummariesInv
  <2> QED BY <1>1, <2>1, <2>2, <2>3 DEF ReadRight
<1> QED BY <1>8, <1>9, <1>12, <1>13 DEF SummariesInv

-----------------------------------------------------------------------------
(* The panel and a restart. *)

LEMMA UserDeleted ==
  ASSUME SummariesInv, NEW u \in Users, S!DeleteUser(u)
  PROVE  SummariesInv'
<1>1. /\ message' = [m \in S!Ids |-> IF m \in S!Of(u) THEN None ELSE message[m]]
      /\ summary' = [summary EXCEPT ![u] = None] /\ UNCHANGED <<summary_jobs, job>>
      /\ outrun' = IF \E t \in Threads : job[t].user = u /\ job[t].step \in {"read", "asking"}
                   THEN outrun \cup {u} ELSE outrun \ {u}
  BY DEF S!DeleteUser
<1>2. S!Of(u) = OfUser(message, u)
  BY OfMeans
<1>3. \A m \in S!Ids : message'[m] = IF m \in OfUser(message, u) THEN None ELSE message[m]
  BY <1>1, <1>2
<1>4. \A v \in Users \ {u} : OfUser(message', v) = OfUser(message, v) /\ summary'[v] = summary[v]
  <2>1. ASSUME NEW v \in Users \ {u} PROVE OfUser(message', v) = OfUser(message, v)
    <3>1. ASSUME NEW m \in S!Ids PROVE m \in OfUser(message', v) <=> m \in OfUser(message, v)
      BY <1>3, <3>1 DEF OfUser
    <3>2. OfUser(message', v) \subseteq S!Ids /\ OfUser(message, v) \subseteq S!Ids
      BY DEF OfUser
    <3> QED BY <3>1, <3>2
  <2>2. \A v \in Users \ {u} : summary'[v] = summary[v]
    BY <1>1 DEF SummariesInv, SummaryTypes
  <2> QED BY <2>1, <2>2
<1>5. summary'[u] = None
  BY <1>1 DEF SummariesInv, SummaryTypes
<1>6. SummaryTypes'
  <2>1. message' \in [S!Ids -> S!Messages \cup {None}]
    BY <1>1 DEF SummariesInv, SummaryTypes
  <2>2. summary' \in [Users -> S!Summary \cup {None}]
    BY <1>1 DEF SummariesInv, SummaryTypes
  <2>3. outrun' \subseteq Users
    BY <1>1 DEF SummariesInv, SummaryTypes
  <2> QED BY <2>1, <2>2, <2>3 DEF SummaryTypes
<1>7. JobTypes'
  BY <1>1 DEF SummariesInv, JobTypes, JobsApart
<1>8. ASSUME NEW v \in Users \ outrun' PROVE Complete(message', summary', v)
  <2>1. CASE v = u
    BY <1>5, <2>1 DEF Complete
  <2>2. CASE v # u
    <3>1. v \in Users \ outrun
      BY <1>1, <1>8, <2>2
    <3>2. Complete(message, summary, v)
      BY <3>1 DEF SummariesInv
    <3> QED BY <1>4, <2>2, <3>2 DEF Complete
  <2> QED BY <2>1, <2>2
<1>9. ASSUME NEW t \in Threads, job[t].user \in Users \ outrun' PROVE ReadRight(message', summary', job[t])
  <2>1. CASE job[t].user = u
    <3>1. job[t].step \notin {"read", "asking"}
      BY <1>1, <1>9, <2>1
    <3> QED BY <3>1 DEF ReadRight
  <2>2. CASE job[t].user # u
    <3>1. job[t].user \in Users \ outrun
      BY <1>1, <1>9, <2>2
    <3>2. ReadRight(message, summary, job[t])
      BY <3>1 DEF SummariesInv
    <3>3. \A id : Beyond(message', job[t].user, id) = Beyond(message, job[t].user, id)
      BY <1>4, <2>2, <3>1 DEF Beyond
    <3>4. RowOf(summary', job[t].user) = RowOf(summary, job[t].user)
      BY <1>4, <2>2, <3>1 DEF RowOf
    <3> QED BY <3>2, <3>3, <3>4 DEF ReadRight
  <2> QED BY <2>1, <2>2
<1> QED BY <1>1, <1>6, <1>7, <1>8, <1>9 DEF SummariesInv

LEMMA JobsGone == ASSUME \A t \in Threads : job[t] = S!Idle, job \in [Threads -> {S!Idle}], summary_jobs = {}
                  PROVE  JobTypes /\ \A t \in Threads : job[t].user \notin Users
<1>1. \A t \in Threads : job[t] = S!Idle /\ job[t].user \notin Users /\ job[t].step # "asking"
  BY SummaryConstants
<1>2. job \in [Threads -> S!Jobs]
  BY SummaryConstants
<1> QED BY <1>1, <1>2 DEF JobTypes, JobsApart

LEMMA Restarted == ASSUME SummariesInv, S!Restart PROVE SummariesInv'
<1>1. summary_jobs' = {} /\ job' = [t \in Threads |-> S!Idle] /\ UNCHANGED <<message, summary, outrun>>
  BY DEF S!Restart
<1>2. JobTypes' /\ \A t \in Threads : job'[t].user \notin Users
  <2>1. \A t \in Threads : job'[t] = S!Idle /\ job'[t].user \notin Users /\ job'[t].step # "asking"
    BY <1>1, SummaryConstants
  <2>2. job' \in [Threads -> S!Jobs]
    BY <1>1, SummaryConstants
  <2> QED BY <1>1, <2>1, <2>2 DEF JobTypes, JobsApart
<1>3. SummaryTypes'
  BY <1>1 DEF SummariesInv, SummaryTypes
<1> QED BY <1>1, <1>2, <1>3 DEF SummariesInv

LEMMA SummariesInitially == S!Init => SummariesInv
<1> SUFFICES ASSUME S!Init PROVE SummariesInv
  OBVIOUS
<1>1. JobTypes /\ \A t \in Threads : job[t].user \notin Users
  <2>1. (\A t \in Threads : job[t] = S!Idle) /\ job \in [Threads -> {S!Idle}] /\ summary_jobs = {}
    BY DEF S!Init
  <2> QED BY <2>1, JobsGone
<1>2. SummaryTypes
  BY DEF S!Init, SummaryTypes
<1>3. \A u \in Users : Complete(message, summary, u)
  BY DEF S!Init, Complete
<1> QED BY <1>1, <1>2, <1>3 DEF SummariesInv

LEMMA SummariesInvariance == SummariesInv /\ [S!Next]_(S!vars) => SummariesInv'
<1> SUFFICES ASSUME SummariesInv, [S!Next]_(S!vars) PROVE SummariesInv'
  OBVIOUS
<1>1. CASE UNCHANGED S!vars
  BY <1>1 DEF S!vars, SummariesInv, SummaryTypes, JobTypes, JobsApart
<1>2. ASSUME NEW u \in Users, NEW id \in Texts \cup {None}, S!Add(u, id) PROVE SummariesInv'
  BY <1>2, MessageAdded
<1>3. ASSUME NEW u \in Users, S!Schedule(u) \/ S!DeleteUser(u) PROVE SummariesInv'
  BY <1>3, Scheduled, UserDeleted
<1>4. ASSUME NEW t \in Threads, S!ReadSummary(t) \/ S!ReadPending(t) \/ S!NoAnswer(t) \/ S!WriteSummary(t)
      PROVE  SummariesInv'
  BY <1>4, SummaryRead, PendingRead, NothingWritten, SummaryWritten
<1> QED BY <1>1, <1>2, <1>3, <1>4, Restarted DEF S!Next

LEMMA SummariesInvariant == S!Spec => []SummariesInv
  BY SummariesInitially, SummariesInvariance, PTL DEF S!Spec

(* A summary is of every message up to its mark, each given to the model   *)
(* once (_schedule_summary_refresh, refresh_summary_with_llm), for any     *)
(* number of users, jobs and messages and any limit of messages_after; the *)
(* users deleted under a job are excepted.                                 *)
THEOREM SummariesComplete == S!Spec => []SummaryHasNoGaps
<1>1. SummariesInv => SummaryHasNoGaps
  <2> SUFFICES ASSUME SummariesInv, NEW u \in Users \ outrun, summary[u] # None
               PROVE  /\ summary[u].text = {m \in S!Of(u) : m <= summary[u].upto}
                      /\ summary[u].count = S!Cardinality(summary[u].text)
    BY DEF SummaryHasNoGaps, S!SummaryHasNoGaps
  <2>1. Complete(message, summary, u)
    BY DEF SummariesInv
  <2> QED BY <2>1, OfMeans, SummaryCardinality DEF Complete
<1> QED BY <1>1, SummariesInvariant, PTL

-----------------------------------------------------------------------------
(* The components together: each takes its own steps or stutters.          *)

LEMMA EachComponent ==
  /\ MCSpec => Spec
  /\ MCSpec => P!Spec
  /\ MCSpec => S!Spec
<1> USE DEF MCNext, MCvars, RepliesStep, ProvidersStep, SummariesStep, replies, providers, summaries
<1>1. MCInit => Init /\ P!Init /\ S!Init
  BY DEF MCInit
<1>2. [MCNext]_MCvars => [Next]_vars
  BY DEF vars
<1>3. [MCNext]_MCvars => [P!Next]_(P!vars)
  BY DEF P!vars
<1>4. [MCNext]_MCvars => [S!Next]_(S!vars)
  BY DEF S!vars
<1> QED BY <1>1, <1>2, <1>3, <1>4, PTL DEF MCSpec, Spec, P!Spec, S!Spec

(* Every variable of the three components keeps its type, for any sets of  *)
(* users, chats, calls and threads and any of the limits the assumptions   *)
(* of the module admit.                                                    *)
THEOREM AnsweringTyped == MCSpec => []TypesOK
<1>1. RepliesInv => TypeOK
  BY DEF RepliesInv
<1>2. RepliesInv /\ ProvidersInv /\ SummariesInv => TypesOK
  BY <1>1, ProvidersTyped, SummariesTyped DEF TypesOK
<1> QED BY <1>2, EachComponent, RepliesInvariant, ProvidersInvariant, SummariesInvariant, PTL
=============================================================================
