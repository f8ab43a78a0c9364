---------------------------- MODULE ChatTurnProofs ----------------------------
(***************************************************************************)
(* The generation gate and the charges of ChatTurn, for every set of       *)
(* messages and users and every number of attempts.                        *)
(*                                                                         *)
(* A holder is a turn between its begin_generation and its                 *)
(* finish_generation.  Every step opens the gate for one holder, closes it *)
(* behind one holder, or leaves the holders alone; three lemmas say that   *)
(* each of these keeps the gate's invariant.                               *)
(***************************************************************************)
EXTENDS ChatTurn, TLAPS

Slots == Updates \X (0 .. Attempts)

(* All holders, of every user. *)
H == {h \in Slots : IF h[2] = 0 THEN InTurn(h[1]) ELSE deferred[h[1]][h[2]] = "calling"}

Gate ==
  /\ active \subseteq Users \ Debug
  /\ OneGeneration
  /\ GateHeld
  /\ ~DbFaults => BusyMeansWorking

(* Where the handling of a message holds the gate. *)
Inside(x, where) ==
  \/ where \in {"vision", "calling", "sending", "telling", "leaving"}
  \/ where = "apologising" /\ Kind[x] = "image"

(* An attempt that has not come to its charge has cost nothing and has no  *)
(* second try.                                                             *)
Fresh(x, a) ==
  \/ a > attempt[x]
  \/ a = attempt[x] /\ pc[x] \in {"queued", "backoff", "handling", "vision", "calling"}

FreshUntouched ==
  \A x \in Updates, a \in Tries :
    Fresh(x, a) => charged[x][a] = 0 /\ deferred[x][a] = "none"

(* Only an image turn waits for the vision model. *)
VisionIsImage == \A x \in Updates : pc[x] = "vision" => Kind[x] = "image"

Places == Over \cup
  {"queued", "backoff", "handling", "refused", "vision", "calling", "sending",
   "telling", "apologising", "leaving", "delivering"}

(* The holders of a user are the holders that user owns. *)
LEMMA HoldersOf ==
  /\ \A u : Holders(u) = {h \in H : Owner[h[1]] = u}
  /\ \A u : Holders(u)' = {h \in H' : Owner[h[1]] = u}
BY DEF Holders, H, Slots, InTurn

(* begin_generation, where it admits: one more holder, of an admitted user. *)
LEMMA OpenKeeps ==
  ASSUME Gate, NEW h \in Slots, Admitted(Owner[h[1]]),
         active' = Opened(Owner[h[1]]), H' = H \cup {h}
  PROVE  Gate'
<1> DEFINE o == Owner[h[1]]
<1>1. o \in Users
  BY TurnAssumption DEF TurnAssumption, Slots
<1>2. \A u : u # o => Holders(u)' = Holders(u)
  BY HoldersOf
<1>3. Holders(o)' = Holders(o) \cup {h}
  BY HoldersOf
<1>4. o \notin Debug => Holders(o) = {} /\ active' = active \cup {o}
  BY <1>1 DEF Gate, GateHeld, Admitted, Opened
<1>5. o \in Debug => active' = active
  BY DEF Opened
<1>6. (active \subseteq Users \ Debug)'
  BY <1>1, <1>4, <1>5 DEF Gate
<1>7. OneGeneration'
  BY <1>2, <1>3, <1>4 DEF Gate, OneGeneration
<1>8. GateHeld'
  BY <1>2, <1>3, <1>4, <1>5 DEF Gate, GateHeld
<1>9. (~DbFaults => BusyMeansWorking)'
  BY <1>2, <1>3, <1>4, <1>5 DEF Gate, BusyMeansWorking
<1> QED
  BY <1>6, <1>7, <1>8, <1>9 DEF Gate

(* finish_generation: a holder leaves and its user may begin again. *)
LEMMA CloseKeeps ==
  ASSUME Gate, NEW h \in H, active' = Closed(Owner[h[1]]), H' = H \ {h}
  PROVE  Gate'
<1> DEFINE o == Owner[h[1]]
<1>1. o \in Users
  BY TurnAssumption DEF TurnAssumption, H, Slots
<1>2. \A u : u # o => Holders(u)' = Holders(u)
  BY HoldersOf
<1>3. Holders(o)' = Holders(o) \ {h} /\ h \in Holders(o)
  BY HoldersOf
<1>4. o \notin Debug => Holders(o)' = {}
  BY <1>1, <1>3 DEF Gate, OneGeneration
<1>5. active' = active \ {o}
  BY DEF Closed
<1>6. (active \subseteq Users \ Debug)'
  BY <1>5 DEF Gate
<1>7. OneGeneration'
  BY <1>2, <1>4 DEF Gate, OneGeneration
<1>8. GateHeld'
  BY <1>2, <1>4, <1>5 DEF Gate, GateHeld
<1>9. (~DbFaults => BusyMeansWorking)'
  BY <1>2, <1>5 DEF Gate, BusyMeansWorking
<1> QED
  BY <1>6, <1>7, <1>8, <1>9 DEF Gate

(* A step that leaves holders and gate alone. *)
LEMMA SameKeeps ==
  ASSUME Gate, H' = H, active' = active
  PROVE  Gate'
<1>1. \A u : Holders(u)' = Holders(u)
  BY HoldersOf
<1> QED
  BY <1>1 DEF Gate, OneGeneration, GateHeld, BusyMeansWorking

(* A turn_start event that cannot be written: the user is in the set and   *)
(* nobody holds the gate.  Only with DbFaults.                             *)
LEMMA StuckKeeps ==
  ASSUME Gate, DbFaults, NEW x \in Updates, Owner[x] \notin Debug,
         H' = H, active' = Opened(Owner[x])
  PROVE  Gate'
<1>1. \A u : Holders(u)' = Holders(u)
  BY HoldersOf
<1>2. active' = active \cup {Owner[x]} /\ Owner[x] \in Users
  BY TurnAssumption DEF TurnAssumption, Opened
<1> QED
  BY <1>1, <1>2 DEF Gate, OneGeneration, GateHeld

-----------------------------------------------------------------------------
(* What a step does to the holders. *)
LEMMA PcMoves ==
  ASSUME TypeOK, NEW x \in Updates, NEW where, Go(x, where),
         \A y \in Updates, a \in Tries :
           (deferred'[y][a] = "calling") <=> (deferred[y][a] = "calling")
  PROVE  /\ <<x, 0>> \in Slots
         /\ <<x, 0>> \in H <=> Inside(x, pc[x])
         /\ H' = IF Inside(x, where) THEN H \cup {<<x, 0>>} ELSE H \ {<<x, 0>>}
<1>1. 0 \in 0 .. Attempts /\ \A a \in 0 .. Attempts : a # 0 => a \in Tries
  BY TurnAssumption DEF TurnAssumption, Tries
<1>2. pc'[x] = where /\ \A y \in Updates : y # x => pc'[y] = pc[y]
  BY DEF Go, TypeOK
<1>3. InTurn(x)' <=> Inside(x, where)
  BY <1>2 DEF InTurn, Inside
<1>4. \A y \in Updates : y # x => (InTurn(y)' <=> InTurn(y))
  BY <1>2 DEF InTurn
<1>5. InTurn(x) <=> Inside(x, pc[x])
  BY DEF InTurn, Inside
<1>6. <<x, 0>> \in Slots /\ (<<x, 0>> \in H <=> Inside(x, pc[x]))
  BY <1>1, <1>5 DEF H, Slots
<1>7. ASSUME NEW h \in Slots, h # <<x, 0>>
      PROVE  h \in H' <=> h \in H
  <2>1. h[1] \in Updates /\ h[2] \in 0 .. Attempts /\ h = <<h[1], h[2]>>
    BY DEF Slots
  <2>2. CASE h[2] = 0
    BY <2>1, <2>2, <1>4, <1>7 DEF H, Slots
  <2>3. CASE h[2] # 0
    BY <2>1, <2>3, <1>1 DEF H, Slots
  <2> QED
    BY <2>2, <2>3
<1>8. <<x, 0>> \in H' <=> Inside(x, where)
  BY <1>1, <1>3 DEF H, Slots
<1>9. H \subseteq Slots /\ H' \subseteq Slots
  BY DEF H, Slots
<1> QED
  BY <1>6, <1>7, <1>8, <1>9

(* PcMoves for a deferred second try. *)
LEMMA DeferredMoves ==
  ASSUME TypeOK, NEW x \in Updates, NEW a \in Tries, NEW to, SetDeferred(x, a, to),
         pc' = pc
  PROVE  /\ <<x, a>> \in Slots
         /\ <<x, a>> \in H <=> deferred[x][a] = "calling"
         /\ H' = IF to = "calling" THEN H \cup {<<x, a>>} ELSE H \ {<<x, a>>}
<1>1. a \in 0 .. Attempts /\ a # 0
  BY TurnAssumption DEF TurnAssumption, Tries
<1>2. /\ deferred'[x][a] = to
      /\ \A y \in Updates, b \in Tries : <<y, b>> # <<x, a>> => deferred'[y][b] = deferred[y][b]
  BY DEF SetDeferred, TypeOK
<1>3. <<x, a>> \in Slots /\ (<<x, a>> \in H <=> deferred[x][a] = "calling")
  BY <1>1 DEF H, Slots
<1>4. ASSUME NEW h \in Slots, h # <<x, a>>
      PROVE  h \in H' <=> h \in H
  <2>1. h[1] \in Updates /\ h[2] \in 0 .. Attempts /\ h = <<h[1], h[2]>>
    BY DEF Slots
  <2>2. CASE h[2] = 0
    BY <2>1, <2>2 DEF H, Slots, InTurn
  <2>3. CASE h[2] # 0
    <3>1. h[2] \in Tries
      BY <2>1, <2>3, TurnAssumption DEF TurnAssumption, Tries
    <3> QED
      BY <3>1, <2>1, <2>3, <1>2, <1>4 DEF H, Slots
  <2> QED
    BY <2>2, <2>3
<1>5. <<x, a>> \in H' <=> to = "calling"
  BY <1>1, <1>2 DEF H, Slots
<1>6. H \subseteq Slots /\ H' \subseteq Slots
  BY DEF H, Slots
<1> QED
  BY <1>3, <1>4, <1>5, <1>6

-----------------------------------------------------------------------------
(* Every step of a message keeps the gate. *)
LEMMA TurnGate ==
  ASSUME TypeOK, Gate, VisionIsImage, FreshUntouched, NEW x \in Updates, Turn(x)
  PROVE  Gate'
<1>a. attempt[x] \in Tries /\ Owner[x] \in Users /\ Kind[x] \in {"text", "image", "group"}
  BY TurnAssumption DEF TurnAssumption, TypeOK
<1>d. UNCHANGED deferred => \A y \in Updates, a \in Tries :
           (deferred'[y][a] = "calling") <=> (deferred[y][a] = "calling")
  OBVIOUS
(* Outside before and after: nobody's gate is touched. *)
<1>1. ASSUME NEW where, Go(x, where), ~Inside(x, pc[x]), ~Inside(x, where),
             UNCHANGED <<active, deferred>>
      PROVE  Gate'
  BY <1>1, <1>d, PcMoves, SameKeeps
<1>2. ASSUME NEW where, Go(x, where), Inside(x, pc[x]), Inside(x, where),
             UNCHANGED <<active, deferred>>
      PROVE  Gate'
  BY <1>2, <1>d, PcMoves, SameKeeps
(* Leaving the gate *)
<1>3. ASSUME NEW where, Go(x, where), Inside(x, pc[x]), ~Inside(x, where),
             active' = Closed(Owner[x]),
             \A y \in Updates, a \in Tries :
               (deferred'[y][a] = "calling") <=> (deferred[y][a] = "calling")
      PROVE  Gate'
  <2>1. <<x, 0>> \in H /\ H' = H \ {<<x, 0>>}
    BY <1>3, PcMoves
  <2> QED
    BY <2>1, <1>3, CloseKeeps
<1>4. Raise(x) => Go(x, "backoff") \/ Go(x, "ended")
  BY DEF Raise
<1>5. /\ ~Inside(x, "backoff") /\ ~Inside(x, "ended") /\ ~Inside(x, "handling")
      /\ ~Inside(x, "refused") /\ ~Inside(x, "delivering") /\ ~Inside(x, "queued")
      /\ Inside(x, "vision") /\ Inside(x, "calling") /\ Inside(x, "sending")
      /\ Inside(x, "telling") /\ Inside(x, "leaving")
      /\ Inside(x, "apologising") <=> Kind[x] = "image"
  BY DEF Inside
<1>6. CASE Start(x)
  BY <1>1, <1>5, <1>6 DEF Start
<1>7. CASE TryAgain(x)
  BY <1>1, <1>5, <1>7 DEF TryAgain
<1>8. CASE HandlerRaises(x)
  BY <1>1, <1>4, <1>5, <1>8 DEF HandlerRaises
<1>9. CASE Refuse(x)
  BY <1>1, <1>5, <1>9 DEF Refuse
<1>10. CASE BreakEarly(x)
  BY <1>1, <1>5, <1>10 DEF BreakEarly, At
<1>11. CASE Begin(x)
  <2>1. PICK where \in {"vision", "calling"} : Go(x, where)
    BY <1>11 DEF Begin
  <2>2. H' = H \cup {<<x, 0>>} /\ <<x, 0>> \in Slots
    BY <2>1, <1>5, <1>11, <1>d, PcMoves DEF Begin
  <2> QED
    BY <2>2, <1>11, OpenKeeps DEF Begin
<1>12. CASE BeginFails(x)
  <2>1. PICK where \in {"apologising", "backoff", "ended"} :
          Go(x, where) /\ (where = "apologising" => Kind[x] = "text")
    BY <1>12, <1>4 DEF BeginFails
  <2>2. H' = H
    BY <2>1, <1>5, <1>12, <1>d, PcMoves DEF BeginFails
  <2> QED
    BY <2>2, <1>12, StuckKeeps DEF BeginFails
<1>13. CASE VisionReturns(x)
  <2>1. PICK where \in {"calling", "telling", "apologising"} : Go(x, where)
    BY <1>13 DEF VisionReturns
  <2>2. Inside(x, where)
    BY <2>1, <1>13, <1>5 DEF VisionReturns, VisionIsImage
  <2> QED
    BY <2>1, <2>2, <1>2, <1>5, <1>13 DEF VisionReturns
<1>14. CASE VisionRaises(x)
  BY <1>3, <1>4, <1>5, <1>14 DEF VisionRaises
<1>15. CASE Reply(x)
  <2>1. CASE StartedHere(x)
    BY <2>1, <1>3, <1>5, <1>15 DEF Reply, Private, LeaveAnswer, AfterAnswer
  <2>2. CASE ~StartedHere(x)
    BY <2>2, <1>2, <1>5, <1>15 DEF Reply, Private, LeaveAnswer, AfterAnswer
  <2> QED
    BY <2>1, <2>2
<1>16. CASE FallBack(x)
  <2>1. Go(x, AfterAnswer(x)) /\ LeaveAnswer(x)
    BY <1>16 DEF FallBack
  <2>2. deferred[x][attempt[x]] = "none"
    BY <1>16, <1>a DEF FallBack, Private, FreshUntouched, Fresh
  <2>3. \A y \in Updates, a \in Tries :
          (deferred'[y][a] = "calling") <=> (deferred[y][a] = "calling")
    BY <2>2, <1>16, <1>a DEF FallBack, TypeOK
  <2>4. CASE StartedHere(x)
    BY <2>1, <2>3, <2>4, <1>3, <1>5, <1>16 DEF FallBack, Private, LeaveAnswer, AfterAnswer
  <2>5. CASE ~StartedHere(x)
    <3>1. active' = active /\ Go(x, "leaving") /\ Inside(x, pc[x])
      BY <2>1, <2>5, <1>5, <1>16 DEF FallBack, Private, LeaveAnswer, AfterAnswer
    <3>2. H' = H
      BY <3>1, <2>3, <1>5, PcMoves
    <3> QED
      BY <3>1, <3>2, SameKeeps
  <2> QED
    BY <2>4, <2>5
<1>17. CASE Break(x)
  <2>1. CASE StartedHere(x)
    BY <2>1, <1>3, <1>5, <1>17 DEF Break, Private, LeaveAnswer, StartedHere
  <2>2. CASE ~StartedHere(x)
    BY <2>2, <1>2, <1>5, <1>17, <1>a DEF Break, Private, LeaveAnswer, StartedHere
  <2> QED
    BY <2>1, <2>2
<1>18. CASE GroupReply(x)
  BY <1>2, <1>5, <1>18 DEF GroupReply, At
<1>19. CASE GroupEnds(x)
  BY <1>3, <1>5, <1>19 DEF GroupEnds
<1>20. CASE GroupRaises(x)
  BY <1>3, <1>4, <1>5, <1>20 DEF GroupRaises
<1>21. CASE LeaveImage(x)
  BY <1>3, <1>5, <1>21 DEF LeaveImage
<1>22. CASE Apologised(x)
  <2>1. CASE Kind[x] = "image"
    BY <2>1, <1>3, <1>4, <1>5, <1>22 DEF Apologised, Done
  <2>2. CASE Kind[x] # "image"
    BY <2>2, <1>1, <1>4, <1>5, <1>22 DEF Apologised, Done
  <2> QED
    BY <2>1, <2>2
<1>23. CASE Refused(x)
  BY <1>1, <1>4, <1>5, <1>23 DEF Refused, Done
<1>24. CASE Told(x)
  BY <1>3, <1>4, <1>5, <1>24 DEF Told, Done
<1>25. CASE Delivered(x)
  BY <1>1, <1>4, <1>5, <1>25 DEF Delivered, Done
<1> QED
  BY <1>6, <1>7, <1>8, <1>9, <1>10, <1>11, <1>12, <1>13, <1>14, <1>15, <1>16, <1>17,
     <1>18, <1>19, <1>20, <1>21, <1>22, <1>23, <1>24, <1>25 DEF Turn

(* Every step of a second try keeps the gate. *)
LEMMA DeferredGate ==
  ASSUME TypeOK, Gate, NEW x \in Updates, NEW a \in Tries, Deferred(x, a)
  PROVE  Gate'
<1>1. CASE DeferredBegins(x, a)
  <2>1. <<x, a>> \in Slots /\ H' = H \cup {<<x, a>>}
    BY <1>1, DeferredMoves DEF DeferredBegins
  <2> QED
    BY <2>1, <1>1, OpenKeeps DEF DeferredBegins
<1>2. CASE DeferredRefused(x, a)
  <2>a. SetDeferred(x, a, "done") /\ pc' = pc /\ deferred[x][a] # "calling"
    BY <1>2 DEF DeferredRefused
  <2>b. <<x, a>> \notin H /\ H' = H \ {<<x, a>>}
    BY <2>a, DeferredMoves
  <2>1. H' = H
    BY <2>b
  <2> QED
    BY <2>1, <1>2, SameKeeps DEF DeferredRefused
<1>3. CASE DeferredBeginFails(x, a)
  <2>a. SetDeferred(x, a, "done") /\ pc' = pc /\ deferred[x][a] # "calling"
    BY <1>3 DEF DeferredBeginFails
  <2>b. <<x, a>> \notin H /\ H' = H \ {<<x, a>>}
    BY <2>a, DeferredMoves
  <2>1. H' = H
    BY <2>b
  <2> QED
    BY <2>1, <1>3, StuckKeeps DEF DeferredBeginFails
<1>4. CASE DeferredReply(x, a) \/ DeferredFails(x, a)
  <2>1. <<x, a>> \in H /\ H' = H \ {<<x, a>>} /\ active' = Closed(Owner[x])
    BY <1>4, DeferredMoves DEF DeferredReply, DeferredFails
  <2> QED
    BY <2>1, CloseKeeps
<1> QED
  BY <1>1, <1>2, <1>3, <1>4 DEF Deferred

(* A crash leaves neither holders nor busy users. *)
LEMMA CrashGate == ASSUME Crash PROVE Gate'
<1>1. \A x \in Updates : ~InTurn(x)'
  BY DEF Crash, InTurn, Over
<1>2. \A x \in Updates, a \in Tries : deferred'[x][a] # "calling"
  BY DEF Crash
<1>3. \A a \in 0 .. Attempts : a # 0 => a \in Tries
  BY TurnAssumption DEF TurnAssumption, Tries
<1>4. H' = {}
  BY <1>1, <1>2, <1>3 DEF H, Slots
<1>5. active' = {} /\ \A u : Holders(u)' = {}
  BY <1>4, HoldersOf DEF Crash
<1> QED
  BY <1>5 DEF Gate, OneGeneration, GateHeld, BusyMeansWorking

-----------------------------------------------------------------------------
(* Setting one entry of a table keeps the table's type. *)
LEMMA SetEntry ==
  ASSUME NEW R, NEW f \in [Updates -> [Tries -> R]], NEW x \in Updates, NEW a \in Tries,
         NEW v \in R
  PROVE  [f EXCEPT ![x][a] = v] \in [Updates -> [Tries -> R]]
<1>1. f[x] \in [Tries -> R]
  OBVIOUS
<1>2. [f[x] EXCEPT ![a] = v] \in [Tries -> R]
  BY <1>1
<1> QED
  BY <1>2

(* Booking a charge keeps the type of the charges. *)
LEMMA ChargeType ==
  ASSUME TypeOK, NEW x \in Updates, NEW a \in Tries, Charge(x, a) \/ UNCHANGED charged
  PROVE  charged' \in [Updates -> [Tries -> Nat]]
<1>1. charged \in [Updates -> [Tries -> Nat]] /\ charged[x][a] + 1 \in Nat
  BY DEF TypeOK
<1>2. [charged EXCEPT ![x][a] = charged[x][a] + 1] \in [Updates -> [Tries -> Nat]]
  BY <1>1, SetEntry
<1> QED
  BY <1>1, <1>2 DEF Charge

(* Types, and the image turns. *)
Shape == TypeOK /\ VisionIsImage

(* A step of a message's handling keeps the shape of attempts. *)
LEMMA TurnShape ==
  ASSUME Shape, NEW x \in Updates, Turn(x)
  PROVE  Shape'
<1> USE DEF Shape, VisionIsImage
<1>a. /\ attempt[x] \in Tries /\ Owner[x] \in Users /\ Kind[x] \in {"text", "image", "group"}
      /\ Attempts \in Nat /\ Tries \subseteq Nat
  BY TurnAssumption DEF TurnAssumption, TypeOK, Tries
<1>b. TypeOK
  OBVIOUS
<1>c. Opened(Owner[x]) \subseteq Users /\ Closed(Owner[x]) \subseteq Users
  BY <1>a, <1>b DEF TypeOK, Opened, Closed
<1>1. ASSUME NEW where \in Places, Go(x, where), where = "vision" => Kind[x] = "image"
      PROVE  pc' \in [Updates -> Places] /\ VisionIsImage'
  BY <1>1, <1>b DEF Go, TypeOK, Places
<1>2. ASSUME Raise(x)
      PROVE  /\ pc' \in [Updates -> Places] /\ VisionIsImage'
             /\ attempt' \in [Updates -> Tries]
  <2>1. CASE attempt[x] < Attempts
    <3>1. attempt[x] + 1 \in Tries
      BY <2>1, <1>a DEF Tries
    <3> QED
      BY <2>1, <3>1, <1>2, <1>1, <1>b DEF Raise, TypeOK, Places
  <2>2. CASE ~(attempt[x] < Attempts)
    BY <2>2, <1>2, <1>1, <1>b DEF Raise, TypeOK, Places, Over
  <2> QED
    BY <2>1, <2>2
<1>3. ASSUME Done(x)
      PROVE  /\ pc' \in [Updates -> Places] /\ VisionIsImage'
             /\ attempt' \in [Updates -> Tries]
  BY <1>3, <1>1, <1>b DEF Done, TypeOK, Places, Over
<1>4. ASSUME Charge(x, attempt[x]) \/ UNCHANGED charged
      PROVE  charged' \in [Updates -> [Tries -> Nat]]
  BY <1>4, <1>a, <1>b, ChargeType
<1>5. ASSUME pc' \in [Updates -> Places], attempt' \in [Updates -> Tries],
             active' \subseteq Users,
             deferred' \in [Updates -> [Tries -> {"none", "asleep", "calling", "done"}]],
             charged' \in [Updates -> [Tries -> Nat]]
      PROVE  TypeOK'
  BY <1>5 DEF TypeOK, Places
<1>6. CASE Start(x)
  BY <1>1, <1>5, <1>b, <1>6 DEF Start, TypeOK, Places
<1>7. CASE TryAgain(x)
  BY <1>1, <1>5, <1>b, <1>7 DEF TryAgain, TypeOK, Places
<1>8. CASE HandlerRaises(x)
  BY <1>2, <1>5, <1>b, <1>8 DEF HandlerRaises, TypeOK
<1>9. CASE Refuse(x)
  BY <1>1, <1>5, <1>b, <1>9 DEF Refuse, TypeOK, Places, Over
<1>10. CASE BreakEarly(x)
  BY <1>1, <1>5, <1>b, <1>10 DEF BreakEarly, TypeOK, Places
<1>11. CASE Begin(x)
  BY <1>1, <1>5, <1>b, <1>c, <1>11 DEF Begin, TypeOK, Places
<1>12. CASE BeginFails(x)
  BY <1>1, <1>2, <1>5, <1>b, <1>c, <1>12 DEF BeginFails, TypeOK, Places
<1>13. CASE VisionReturns(x)
  BY <1>1, <1>5, <1>b, <1>13 DEF VisionReturns, TypeOK, Places
<1>14. CASE VisionRaises(x)
  BY <1>2, <1>5, <1>b, <1>c, <1>14 DEF VisionRaises, TypeOK
<1>15. CASE Reply(x)
  BY <1>1, <1>4, <1>5, <1>b, <1>c, <1>15 DEF Reply, LeaveAnswer, AfterAnswer, TypeOK, Places
<1>16. CASE FallBack(x)
  BY <1>1, <1>5, <1>a, <1>b, <1>c, <1>16 DEF FallBack, LeaveAnswer, AfterAnswer, TypeOK, Places
<1>17. CASE Break(x)
  BY <1>1, <1>4, <1>5, <1>b, <1>c, <1>17 DEF Break, LeaveAnswer, TypeOK, Places
<1>18. CASE GroupReply(x)
  BY <1>1, <1>4, <1>5, <1>b, <1>18 DEF GroupReply, TypeOK, Places
<1>19. CASE GroupEnds(x)
  BY <1>1, <1>5, <1>b, <1>c, <1>19 DEF GroupEnds, TypeOK, Places, Over
<1>20. CASE GroupRaises(x)
  BY <1>2, <1>5, <1>b, <1>c, <1>20 DEF GroupRaises, TypeOK
<1>21. CASE LeaveImage(x)
  BY <1>1, <1>5, <1>b, <1>c, <1>21 DEF LeaveImage, TypeOK, Places
<1>22. CASE Apologised(x)
  BY <1>2, <1>3, <1>5, <1>b, <1>c, <1>22 DEF Apologised, TypeOK
<1>23. CASE Refused(x)
  BY <1>2, <1>3, <1>5, <1>b, <1>23 DEF Refused, TypeOK
<1>24. CASE Told(x)
  BY <1>2, <1>3, <1>5, <1>b, <1>c, <1>24 DEF Told, TypeOK
<1>25. CASE Delivered(x)
  BY <1>2, <1>3, <1>5, <1>b, <1>25 DEF Delivered, TypeOK
<1> QED
  BY <1>6, <1>7, <1>8, <1>9, <1>10, <1>11, <1>12, <1>13, <1>14, <1>15, <1>16, <1>17,
     <1>18, <1>19, <1>20, <1>21, <1>22, <1>23, <1>24, <1>25 DEF Turn

(* A step of a second try keeps it. *)
LEMMA DeferredShape ==
  ASSUME Shape, NEW x \in Updates, NEW a \in Tries, Deferred(x, a)
  PROVE  Shape'
<1>1. Owner[x] \in Users /\ UNCHANGED <<pc, attempt>>
  BY TurnAssumption DEF TurnAssumption, Deferred, DeferredBegins, DeferredRefused,
       DeferredBeginFails, DeferredReply, DeferredFails
<1>2. active' \subseteq Users
  BY <1>1 DEF Shape, TypeOK, Opened, Closed, Deferred, DeferredBegins, DeferredRefused,
       DeferredBeginFails, DeferredReply, DeferredFails
<1>3. PICK to \in {"none", "asleep", "calling", "done"} : SetDeferred(x, a, to)
  BY DEF Deferred, DeferredBegins, DeferredRefused, DeferredBeginFails, DeferredReply,
       DeferredFails
<1>4. deferred' \in [Updates -> [Tries -> {"none", "asleep", "calling", "done"}]]
  BY <1>3, SetEntry DEF Shape, TypeOK, SetDeferred
<1>5. Charge(x, a) \/ UNCHANGED charged
  BY DEF Deferred, DeferredBegins, DeferredRefused, DeferredBeginFails, DeferredReply,
       DeferredFails
<1>6. charged' \in [Updates -> [Tries -> Nat]]
  BY <1>5, ChargeType DEF Shape
<1> QED
  BY <1>1, <1>2, <1>4, <1>6 DEF Shape, TypeOK, VisionIsImage

(* A crash keeps it. *)
LEMMA CrashShape == ASSUME Shape, Crash PROVE Shape'
BY DEF Shape, TypeOK, VisionIsImage, Crash, Over

-----------------------------------------------------------------------------
(* The charges: an attempt is charged where it stops being fresh, and a    *)
(* second try exists only where nothing was charged.                       *)
Charges == ChargedOnce /\ FreshUntouched

(* A step of a message's handling charges its own attempt once at most. *)
LEMMA TurnCharges ==
  ASSUME TypeOK, Charges, NEW x \in Updates, Turn(x)
  PROVE  Charges'
<1>n. PICK n \in Tries : n = attempt[x]
  BY DEF TypeOK
<1>a. /\ n \in Tries /\ n = attempt[x] /\ Attempts \in Nat /\ Tries \subseteq Nat
      /\ charged \in [Updates -> [Tries -> Nat]]
      /\ deferred \in [Updates -> [Tries -> {"none", "asleep", "calling", "done"}]]
      /\ pc \in [Updates -> Places] /\ attempt \in [Updates -> Tries]
  BY <1>n, TurnAssumption DEF TurnAssumption, TypeOK, Tries, Places
<1>b. ChargedOnce /\ FreshUntouched
  BY DEF Charges
(* Nothing is charged and nothing is put off. *)
<1>1. ASSUME UNCHANGED <<charged, deferred>>,
             \A y \in Updates, a \in Tries : Fresh(y, a)' => Fresh(y, a)
      PROVE  Charges'
  BY <1>1, <1>b DEF Charges, ChargedOnce, FreshUntouched
(* The message moves, at the same attempt or after a raise. *)
<1>2. ASSUME NEW where, Go(x, where), UNCHANGED attempt,
             \/ where \notin {"queued", "backoff", "handling", "vision", "calling"}
             \/ pc[x] \in {"queued", "backoff", "handling", "vision", "calling"}
      PROVE  \A y \in Updates, a \in Tries : Fresh(y, a)' => Fresh(y, a)
  BY <1>2, <1>a DEF Go, Fresh
<1>3. ASSUME Raise(x)
      PROVE  \A y \in Updates, a \in Tries : Fresh(y, a)' => Fresh(y, a)
  <2>1. CASE n < Attempts
    <3>1. pc' = [pc EXCEPT ![x] = "backoff"] /\ attempt' = [attempt EXCEPT ![x] = n + 1]
      BY <2>1, <1>3, <1>a DEF Raise, Go
    <3>2. ASSUME NEW y \in Updates, NEW a \in Tries, Fresh(y, a)' PROVE Fresh(y, a)
      <4>1. CASE y = x
        <5>1. attempt'[x] = n + 1 /\ a \in Nat /\ n \in Nat
          BY <3>1, <1>a
        <5>2. a >= n + 1
          BY <4>1, <5>1, <3>2 DEF Fresh
        <5> QED
          BY <4>1, <5>1, <5>2, <1>a DEF Fresh
      <4>2. CASE y # x
        BY <4>2, <3>1, <3>2, <1>a DEF Fresh
      <4> QED
        BY <4>1, <4>2
    <3> QED
      BY <3>2
  <2>2. CASE ~(n < Attempts)
    BY <2>2, <1>2, <1>3, <1>a DEF Raise, Go
  <2> QED
    BY <2>1, <2>2
<1>4. ASSUME Done(x)
      PROVE  \A y \in Updates, a \in Tries : Fresh(y, a)' => Fresh(y, a)
  BY <1>4, <1>2 DEF Done
(* The attempt is charged or put off as it leaves "calling". *)
<1>5. ASSUME pc[x] = "calling", NEW where, Go(x, where), UNCHANGED attempt,
             where \notin {"queued", "backoff", "handling", "vision", "calling"}
      PROVE  /\ charged[x][n] = 0 /\ deferred[x][n] = "none"
             /\ \A y \in Updates, a \in Tries : Fresh(y, a)' => Fresh(y, a)
             /\ ~Fresh(x, n)'
  <2>1. Fresh(x, n)
    BY <1>5, <1>a DEF Fresh
  <2>2. ~Fresh(x, n)'
    BY <1>5, <1>a DEF Fresh, Go
  <2> QED
    BY <2>1, <2>2, <1>5, <1>2, <1>a, <1>b DEF FreshUntouched
<1>6. ASSUME pc[x] = "calling", NEW where, Go(x, where), UNCHANGED <<attempt, deferred>>,
             where \notin {"queued", "backoff", "handling", "vision", "calling"},
             Charge(x, n) \/ UNCHANGED charged
      PROVE  Charges'
  <2>1. CASE charged' = charged
    BY <2>1, <1>1, <1>2, <1>6
  <2>2. CASE charged' = [charged EXCEPT ![x][n] = @ + 1]
    <3>1. /\ charged'[x][n] = 1
          /\ \A y \in Updates, a \in Tries : <<y, a>> # <<x, n>> => charged'[y][a] = charged[y][a]
      BY <2>2, <1>5, <1>6, <1>a
    <3> QED
      BY <3>1, <1>5, <1>6, <1>a, <1>b DEF Charges, ChargedOnce, FreshUntouched
  <2> QED
    BY <2>1, <2>2, <1>6, <1>a DEF Charge
<1>7. CASE FallBack(x)
  <2>1. PICK where \in {"delivering", "leaving"} : Go(x, where)
    BY <1>7 DEF FallBack, AfterAnswer
  <2>2. /\ charged[x][n] = 0 /\ ~Fresh(x, n)'
        /\ \A y \in Updates, a \in Tries : Fresh(y, a)' => Fresh(y, a)
    BY <2>1, <1>5, <1>7 DEF FallBack, Private
  <2>3. /\ charged' = charged
        /\ \A y \in Updates, a \in Tries : <<y, a>> # <<x, n>> => deferred'[y][a] = deferred[y][a]
    BY <1>7, <1>a DEF FallBack
  <2>4. ChargedOnce'
    BY <2>2, <2>3, <1>a, <1>b DEF ChargedOnce
  <2>5. ASSUME NEW y \in Updates, NEW a \in Tries, Fresh(y, a)'
        PROVE  (charged[y][a] = 0 /\ deferred[y][a] = "none")'
    <3>1. Fresh(y, a) /\ <<y, a>> # <<x, n>>
      BY <2>2, <2>5
    <3> QED
      BY <3>1, <2>3, <1>b DEF FreshUntouched
  <2> QED
    BY <2>4, <2>5 DEF Charges, FreshUntouched
<1>8. CASE Reply(x)
  BY <1>6, <1>8, <1>a DEF Reply, Private, AfterAnswer
<1>9. CASE Break(x)
  BY <1>6, <1>9, <1>a DEF Break, Private
<1>10. CASE GroupReply(x)
  BY <1>6, <1>10, <1>a DEF GroupReply, At
<1>11. CASE Start(x) \/ TryAgain(x) \/ Refuse(x) \/ BreakEarly(x) \/ Begin(x)
  BY <1>1, <1>2, <1>11 DEF Start, TryAgain, Refuse, BreakEarly, Begin, At
<1>12. CASE HandlerRaises(x) \/ VisionRaises(x) \/ GroupRaises(x)
  BY <1>1, <1>3, <1>12 DEF HandlerRaises, VisionRaises, GroupRaises
<1>13. CASE BeginFails(x)
  BY <1>1, <1>2, <1>3, <1>13 DEF BeginFails
<1>14. CASE VisionReturns(x)
  BY <1>1, <1>2, <1>14 DEF VisionReturns
<1>15. CASE GroupEnds(x) \/ LeaveImage(x)
  BY <1>1, <1>2, <1>15 DEF GroupEnds, LeaveImage
<1>16. CASE Apologised(x) \/ Refused(x) \/ Told(x) \/ Delivered(x)
  BY <1>1, <1>3, <1>4, <1>16 DEF Apologised, Refused, Told, Delivered
<1> QED
  BY <1>7, <1>8, <1>9, <1>10, <1>11, <1>12, <1>13, <1>14, <1>15, <1>16 DEF Turn

(* A step of a second try charges an attempt that was not charged. *)
LEMMA DeferredCharges ==
  ASSUME TypeOK, Charges, NEW x \in Updates, NEW a \in Tries, Deferred(x, a)
  PROVE  Charges'
<1>1. /\ charged \in [Updates -> [Tries -> Nat]]
      /\ deferred \in [Updates -> [Tries -> {"none", "asleep", "calling", "done"}]]
      /\ ChargedOnce /\ FreshUntouched
  BY DEF TypeOK, Charges
<1>2. /\ deferred[x][a] \in {"asleep", "calling"} /\ UNCHANGED <<pc, attempt>>
      /\ \E to \in {"calling", "done"} : SetDeferred(x, a, to)
      /\ \/ charged' = charged
         \/ SetDeferred(x, a, "done") /\ charged' = [charged EXCEPT ![x][a] = @ + 1]
  BY DEF Deferred, DeferredBegins, DeferredRefused, DeferredBeginFails, DeferredReply,
         DeferredFails, Charge
<1>3. charged[x][a] = 0 /\ ~Fresh(x, a)
  BY <1>1, <1>2 DEF ChargedOnce, FreshUntouched
<1>4. \A y \in Updates, b \in Tries : Fresh(y, b)' <=> Fresh(y, b)
  BY <1>2 DEF Fresh
<1>5. \A y \in Updates, b \in Tries : <<y, b>> # <<x, a>> =>
        deferred'[y][b] = deferred[y][b] /\ charged'[y][b] = charged[y][b]
  BY <1>1, <1>2 DEF SetDeferred
<1>6. /\ charged'[x][a] <= 1
      /\ deferred'[x][a] \in {"asleep", "calling"} => charged'[x][a] = 0
  BY <1>1, <1>2, <1>3 DEF SetDeferred
<1> QED
  BY <1>1, <1>3, <1>4, <1>5, <1>6 DEF Charges, ChargedOnce, FreshUntouched

(* A crash charges nothing. *)
LEMMA CrashCharges == ASSUME TypeOK, Charges, Crash PROVE Charges'
<1>1. \A x \in Updates, a \in Tries : Fresh(x, a)' => Fresh(x, a)
  BY DEF Crash, Fresh, TypeOK, Over
<1>2. \A x \in Updates, a \in Tries :
        /\ deferred'[x][a] \notin {"asleep", "calling"}
        /\ deferred[x][a] = "none" => deferred'[x][a] = "none"
        /\ charged'[x][a] = charged[x][a]
  BY DEF Crash
<1> QED
  BY <1>1, <1>2 DEF Charges, ChargedOnce, FreshUntouched

-----------------------------------------------------------------------------
IInv == Shape /\ Gate /\ Charges

(* The invariant holds before the first message. *)
LEMMA InitInv == Init => IInv
<1> SUFFICES ASSUME Init PROVE IInv
  OBVIOUS
<1>1. 1 \in Tries /\ Tries \subseteq Nat
  BY TurnAssumption DEF TurnAssumption, Tries
<1>2. Shape
  BY <1>1 DEF Init, Shape, TypeOK, VisionIsImage
<1>3. active = {} /\ \A u : Holders(u) = {}
  BY TurnAssumption DEF TurnAssumption, Init, Holders, InTurn, Tries
<1>4. Gate
  BY <1>3 DEF Gate, OneGeneration, GateHeld, BusyMeansWorking
<1>5. Charges
  BY DEF Init, Charges, ChargedOnce, FreshUntouched
<1> QED
  BY <1>2, <1>4, <1>5 DEF IInv

(* Every step keeps it. *)
LEMMA NextInv == IInv /\ [Next]_vars => IInv'
<1> SUFFICES ASSUME IInv, [Next]_vars PROVE IInv'
  OBVIOUS
<1> USE DEF IInv
<1>1. ASSUME NEW x \in Updates, Turn(x) PROVE IInv'
  BY <1>1, TurnShape, TurnGate, TurnCharges DEF Shape, Charges
<1>2. ASSUME NEW x \in Updates, NEW a \in Tries, Deferred(x, a) PROVE IInv'
  BY <1>2, DeferredShape, DeferredGate, DeferredCharges DEF Shape
<1>3. CASE Crash
  BY <1>3, CrashShape, CrashGate, CrashCharges DEF Shape
<1>4. CASE UNCHANGED vars
  <2>1. H' = H /\ active' = active
    BY <1>4 DEF vars, H, InTurn
  <2>2. Gate'
    BY <2>1, SameKeeps
  <2> QED
    BY <2>2, <1>4 DEF vars, Shape, TypeOK, VisionIsImage, Charges, ChargedOnce,
         FreshUntouched, Fresh
<1> QED
  BY <1>1, <1>2, <1>3, <1>4 DEF Next, Quiet

(* The state of ChatTurn is always as IInv describes it. *)
THEOREM Invariance == Spec => []IInv
BY InitInv, NextInv, PTL DEF Spec

(* The variables keep their types. *)
THEOREM TypeCorrect == Spec => []TypeOK
<1>1. IInv => TypeOK
  BY DEF IInv, Shape
<1> QED
  BY <1>1, Invariance, PTL

(* A user outside debug mode never has two generations at a time. *)
THEOREM OneGenerationAtATime == Spec => []OneGeneration
<1>1. IInv => OneGeneration
  BY DEF IInv, Gate
<1> QED
  BY <1>1, Invariance, PTL

(* The gate is closed as long as one runs. *)
THEOREM GateIsHeld == Spec => []GateHeld
<1>1. IInv => GateHeld
  BY DEF IInv, Gate
<1> QED
  BY <1>1, Invariance, PTL

(* Where the turn_start event can always be written, a busy user has a     *)
(* turn running: the fault of ChatTurnBusy.cfg is the only way to get      *)
(* stuck.                                                                  *)
THEOREM NoStuckGate == ASSUME ~DbFaults PROVE Spec => []BusyMeansWorking
<1>1. IInv => BusyMeansWorking
  BY ~DbFaults DEF IInv, Gate
<1> QED
  BY <1>1, Invariance, PTL

(* No attempt is charged twice, its second try included. *)
THEOREM OneCharge == Spec => []ChargedOnce
<1>1. IInv => ChargedOnce
  BY DEF IInv, Charges
<1> QED
  BY <1>1, Invariance, PTL

(* A charge is booked once, by a turn of the user who pays, behind that    *)
(* user's closed gate, and is never taken back.                            *)
THEOREM ChargesInTurns == Spec => ChargedInTurn
<1> DEFINE Booked == \A x \in Updates, a \in Tries :
       charged'[x][a] # charged[x][a] =>
         /\ charged'[x][a] = charged[x][a] + 1
         /\ Holders(Owner[x]) # {} /\ Owner[x] \in active
<1>1. IInv /\ [Next]_vars => [Booked]_vars
  <2> SUFFICES ASSUME IInv, Next, NEW x \in Updates, NEW a \in Tries,
                      charged'[x][a] # charged[x][a]
               PROVE  /\ charged'[x][a] = charged[x][a] + 1
                      /\ Holders(Owner[x]) # {} /\ Owner[x] \in active
    BY DEF vars
  <2>1. TypeOK /\ GateHeld /\ Owner \in [Updates -> Users] /\ \A b \in Tries : b \in 0 .. Attempts /\ b # 0
    BY TurnAssumption DEF TurnAssumption, IInv, Shape, Gate, Tries
  <2>2. PICK h \in H : /\ Owner[h[1]] \notin Debug
                       /\ \E b \in Tries : charged' = [charged EXCEPT ![h[1]][b] = @ + 1]
                       /\ h[1] \in Updates
    <3>1. ASSUME NEW y \in Updates, pc[y] = "calling",
                 Charge(y, attempt[y]) \/ UNCHANGED charged
          PROVE  \E h \in H : /\ Owner[h[1]] \notin Debug
                              /\ \E b \in Tries : charged' = [charged EXCEPT ![h[1]][b] = @ + 1]
                              /\ h[1] \in Updates
      <4>1. <<y, 0>> \in H
        BY <3>1, TurnAssumption DEF TurnAssumption, H, Slots, InTurn
      <4>2. /\ Owner[y] \notin Debug /\ attempt[y] \in Tries
            /\ charged' = [charged EXCEPT ![y][attempt[y]] = @ + 1]
        BY <3>1, <2>1 DEF Charge, TypeOK
      <4> QED
        BY <4>1, <4>2
    <3>2. ASSUME NEW y \in Updates, NEW b \in Tries, DeferredReply(y, b)
          PROVE  \E h \in H : /\ Owner[h[1]] \notin Debug
                              /\ \E c \in Tries : charged' = [charged EXCEPT ![h[1]][c] = @ + 1]
                              /\ h[1] \in Updates
      <4>1. <<y, b>> \in H
        BY <3>2, <2>1 DEF DeferredReply, H, Slots
      <4>2. Owner[y] \notin Debug /\ charged' = [charged EXCEPT ![y][b] = @ + 1]
        BY <3>2 DEF DeferredReply, Charge
      <4> QED
        BY <4>1, <4>2
    <3>3. charged' # charged
      OBVIOUS
    <3>4. ASSUME NEW y \in Updates, Turn(y)
          PROVE  pc[y] = "calling" /\ (Charge(y, attempt[y]) \/ UNCHANGED charged)
      BY <3>3, <3>4 DEF Turn, Start, TryAgain, HandlerRaises, Refuse, BreakEarly, Begin,
           BeginFails, VisionReturns, VisionRaises, Reply, FallBack, Break, Private,
           GroupReply, At, GroupEnds, GroupRaises, LeaveImage, Apologised, Refused, Told, Delivered
    <3>5. ASSUME NEW y \in Updates, NEW b \in Tries, Deferred(y, b)
          PROVE  DeferredReply(y, b)
      BY <3>3, <3>5 DEF Deferred, DeferredBegins, DeferredRefused, DeferredBeginFails,
           DeferredFails
    <3> QED
      BY <3>1, <3>2, <3>3, <3>4, <3>5 DEF Next, Crash, Quiet, vars
  <2>3. x = h[1] /\ charged'[x][a] = charged[x][a] + 1
    BY <2>1, <2>2 DEF TypeOK
  <2>4. Holders(Owner[x]) # {}
    BY <2>2, <2>3, HoldersOf
  <2> QED
    BY <2>1, <2>2, <2>3, <2>4 DEF GateHeld
<1> QED
  BY <1>1, Invariance, PTL DEF Spec, ChargedInTurn
=============================================================================
