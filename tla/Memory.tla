-------------------------------- MODULE Memory --------------------------------
(***************************************************************************)
(* What the bot remembers of a user: services/memory_service.py, fed by    *)
(* chat turns (from the user's text or from the model's suggestions), by   *)
(* name changes, by /forget and by the panel, which may be a process of    *)
(* its own.                                                                *)
(*                                                                         *)
(* A fact stands for a kind and a canonical summary; summaries that        *)
(* are at least 90 % alike are one fact.  A suggestion is applied in two   *)
(* steps, since what list_active read may be overtaken by the other        *)
(* process before it is used; a list is stale then, and when it left       *)
(* memories out.  Whether the policy likes a text is a free choice; its    *)
(* limit on the number of memories is not.                                 *)
(***************************************************************************)
EXTENDS Naturals, FiniteSets

CONSTANTS
  Users, Facts,
  Ids,               \* bound: rows of the table memories
  Workers,           \* processes that apply suggestions
  Window,            \* list_active's limit (80)
  MaxActiveMemories, \* 160
  None

VARIABLES
  row,     \* rows of memories; None before an id is used
  work,    \* the suggestion a worker is applying
  excused  \* users and facts written by a targeted edit, or on a stale list

vars == <<row, work, excused>>

Status == {"active", "expired", "inactive", "gone"}  \* gone: a deleted row, whose id stays used up
Rows == [user : Users, fact : Facts, status : Status]
Actions == {"create", "delete", "replace"}  \* edit and merge act as replace, forget as delete, save as create
Idle == [user |-> None, action |-> "create", fact |-> None, id |-> None, existing |-> [i \in {} |-> None], stale |-> FALSE]

Init ==
  /\ row = [i \in Ids |-> None]
  /\ work = [w \in Workers |-> Idle]
  /\ excused = {}

-----------------------------------------------------------------------------
(* MemoryRepository *)

Used == {i \in Ids : row[i] # None}
Own(u) == {i \in Used : row[i].user = u /\ row[i].status # "gone"}
Active(u) == {i \in Own(u) : row[i].status = "active"}

(* The most important and newest ones, no more than the limit. *)
ListActive(u) ==
  LET n == Cardinality(Active(u))
  IN {s \in SUBSET Active(u) : Cardinality(s) = IF n < Window THEN n ELSE Window}

Save(u, f) ==
  \E i \in Ids \ Used : row' = [row EXCEPT ![i] = [user |-> u, fact |-> f, status |-> "active"]]

(* Neither does anything to a row that has gone. *)
Change(i, r) == row' = [row EXCEPT ![i] = IF @.status = "gone" THEN @ ELSE r]
UpdateRow(i, f) == Change(i, [row[i] EXCEPT !.fact = f, !.status = "active"])
Deactivate(i) == Change(i, [row[i] EXCEPT !.status = "inactive"])
Get(u, i) == i # None /\ i \in Own(u)

-----------------------------------------------------------------------------
(* Where suggestions come from. *)

(* MemoryExtractor: a memory to forget, a name, or something to keep. *)
Extracted(u) ==
  [action : {"delete"}, fact : Facts, id : Active(u) \cup {None}]
    \cup [action : {"create", "replace"}, fact : Facts, id : {None}]

(* The model may name any id, which need not be this user's. *)
Suggested == [action : Actions, fact : Facts, id : Used \cup {None}]

(* The panel's form. *)
Entered == [action : {"create"}, fact : Facts, id : {None}]

Begin(w, u) ==
  /\ work[w] = Idle
  /\ \E s \in Extracted(u) \cup Suggested \cup Entered, existing \in ListActive(u) :
       work' = [work EXCEPT ![w] = [user |-> u, action |-> s.action, fact |-> s.fact, id |-> s.id,
                                    existing |-> [i \in existing |-> row[i].fact],
                                    stale |-> Cardinality(Active(u)) > Window]]
  /\ UNCHANGED <<row, excused>>

-----------------------------------------------------------------------------
(* apply_candidates *)

AtLimit(w) == Cardinality(DOMAIN work[w].existing) >= MaxActiveMemories

(* mutant: nothing is looked for *)
TargetNever(w) == {}

(* find_in: on the rows as they were read. *)
Target(w) == {i \in DOMAIN work[w].existing : work[w].existing[i] = work[w].fact}

Ends(w, excuses) ==
  /\ work' = [v \in Workers |->
                IF v = w THEN Idle
                ELSE [work[v] EXCEPT !.stale = @ \/ (work[v].user = work[w].user /\ row' # row)]]
  /\ excused' = IF excuses \/ work[w].stale THEN excused \cup {<<work[w].user, work[w].fact>>} ELSE excused

Busy(w) == work[w] # Idle
Rejected(w) == Busy(w) /\ row' = row /\ Ends(w, FALSE)

CreateOrUpdateDuplicate(w) ==
  /\ Busy(w) /\ work[w].action = "create" /\ ~AtLimit(w)
  /\ \/ Target(w) = {} /\ Save(work[w].user, work[w].fact)
     \/ \E i \in Target(w) : UpdateRow(i, work[w].fact)
  /\ Ends(w, FALSE)

(* A target by id is taken whatever its state: an inactive one comes back. *)
UpsertExisting(w) ==
  LET u == work[w].user
      i == work[w].id
  IN /\ Busy(w) /\ work[w].action = "replace"
     /\ IF Get(u, i) THEN UpdateRow(i, work[w].fact)
        ELSE \/ Target(w) = {} /\ Save(u, work[w].fact)
             \/ \E j \in Target(w) : UpdateRow(j, work[w].fact)
     /\ Ends(w, Get(u, i))

DeleteSimilar(w) ==
  LET i == work[w].id IN
  /\ Busy(w) /\ work[w].action = "delete"
  /\ IF Get(work[w].user, i) THEN Deactivate(i)
     ELSE \/ Target(w) = {} /\ row' = row
          \/ \E j \in Target(w) : Deactivate(j)
  /\ Ends(w, FALSE)

-----------------------------------------------------------------------------
(* /forget and the panel's button, the deletion of a user, and time. *)

Overtakes(u) == work' = [w \in Workers |-> [work[w] EXCEPT !.stale = @ \/ work[w].user = u]]

Delete(u, i) == Get(u, i) /\ Deactivate(i) /\ Overtakes(u) /\ UNCHANGED excused

DeleteUser(u) ==
  /\ Own(u) # {}
  /\ row' = [i \in Ids |-> IF i \in Own(u) THEN [row[i] EXCEPT !.status = "gone"] ELSE row[i]]
  /\ Overtakes(u) /\ UNCHANGED excused

Expires(i) ==
  /\ row[i] # None /\ row[i].status = "active"
  /\ row' = [row EXCEPT ![i].status = "expired"]
  /\ Overtakes(row[i].user) /\ UNCHANGED excused

Next ==
  \/ \E w \in Workers :
       \/ \E u \in Users : Begin(w, u)
       \/ Rejected(w) \/ CreateOrUpdateDuplicate(w) \/ UpsertExisting(w) \/ DeleteSimilar(w)
  \/ \E u \in Users : DeleteUser(u) \/ \E i \in Ids : Delete(u, i)
  \/ \E i \in Ids : Expires(i)

Spec == Init /\ [][Next]_vars

-----------------------------------------------------------------------------
(* Types of the table and of a suggestion at work.                         *)
TypeOK ==
  /\ row \in [Ids -> Rows \cup {None}]
  /\ \A w \in Workers :
       /\ work[w].user \in Users \cup {None} /\ work[w].fact \in Facts \cup {None}
       /\ work[w].action \in Actions /\ work[w].id \in Ids \cup {None}
       /\ work[w].existing \in UNION {[s -> Facts] : s \in SUBSET Ids}
  /\ excused \subseteq Users \X Facts

(* No fact is remembered twice, so that forgetting it once forgets it.     *)
(* The exceptions are a row that the model renamed by its id, and a        *)
(* suggestion that was compared with a stale list: one the other process   *)
(* overtook, or one cut off at list_active's limit (memory_service.py:77). *)
OneMemoryPerFact ==
  \A u \in Users, i, j \in Ids :
    i \in Active(u) /\ j \in Active(u) /\ i # j /\ row[i].fact = row[j].fact
    => <<u, row[i].fact>> \in excused
=============================================================================
