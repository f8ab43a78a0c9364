------------------------------ MODULE Summaries ------------------------------
(***************************************************************************)
(* The summary of a user's conversation: _schedule_summary_refresh of      *)
(* ChatService and refresh_summary_with_llm of ContextBuilder, over the    *)
(* messages of HistoryService.  A job runs in a thread while turns add     *)
(* messages and while the panel, a process of its own, deletes users.      *)
(*                                                                         *)
(* A message is its id; ids grow with the table, so that those of deleted  *)
(* rows at its end are given again (SQLite without AUTOINCREMENT).  The    *)
(* text of a summary is the set of the messages it was made from.  Whether *)
(* the pending messages are long enough to refresh is a free choice.       *)
(***************************************************************************)
EXTENDS Naturals, FiniteSets, FiniteSetsExt

CONSTANTS
  Users,
  Threads,   \* bound: jobs that run at once
  Texts,     \* Telegram's ids of the users' messages
  MaxId,     \* bound: rows of conversation_messages
  Limit,     \* messages_after's limit (20)
  None

VARIABLES
  message,      \* rows of conversation_messages; None for a free id
  summary,      \* rows of conversation_summaries
  summary_jobs, \* users with a job (_summary_jobs)
  job,          \* what each thread does
  outrun        \* users deleted under a job that has read of them

vars == <<message, summary, summary_jobs, job, outrun>>

Ids == 1..MaxId
Messages == [user : Users, telegram_id : Texts \cup {None}]
NoSummary == [upto |-> 0, text |-> {}, count |-> 0]
Summary == [upto : 0..MaxId, text : SUBSET Ids, count : Nat]
Idle == [user |-> None, step |-> "idle", existing |-> NoSummary, pending |-> {}]
Jobs ==
  [user : Users \cup {None}, step : {"idle", "scheduled", "read", "asking"},
   existing : Summary, pending : SUBSET Ids]

Init ==
  /\ message = [m \in Ids |-> None]
  /\ summary = [u \in Users |-> None]
  /\ summary_jobs = {}
  /\ job = [t \in Threads |-> Idle]
  /\ outrun = {}

-----------------------------------------------------------------------------
(* HistoryService *)

Rows == {m \in Ids : message[m] # None}
Of(u) == {m \in Rows : message[m].user = u}

(* A user's message that is stored already (a retry) is not stored again. *)
Add(u, id) ==
  LET next == Max({0} \cup Rows) + 1
  IN /\ next \in Ids
     /\ id # None => \A m \in Of(u) : message[m].telegram_id # id
     /\ message' = [message EXCEPT ![next] = [user |-> u, telegram_id |-> id]]
     /\ UNCHANGED <<summary, summary_jobs, job, outrun>>

After(u, id) == {m \in Of(u) : m > id}
MessagesAfter(u, id) ==
  {m \in After(u, id) : Cardinality({k \in After(u, id) : k < m}) < Limit}

-----------------------------------------------------------------------------
(* A turn ends and asks for a refresh; a user has one job at a time. *)

SummaryRow(u) == IF summary[u] = None THEN NoSummary ELSE summary[u]
ShouldRefresh(u) == After(u, SummaryRow(u).upto) # {}

(* mutant: a user has as many jobs as turns ask for *)
ScheduleEach(u) ==
  /\ ShouldRefresh(u)
  /\ summary_jobs' = summary_jobs \cup {u}
  /\ \E t \in Threads :
       /\ job[t] = Idle
       /\ job' = [job EXCEPT ![t] = [Idle EXCEPT !.user = u, !.step = "scheduled"]]
  /\ UNCHANGED <<message, summary, outrun>>

Schedule(u) ==
  /\ ShouldRefresh(u)
  /\ u \notin summary_jobs
  /\ summary_jobs' = summary_jobs \cup {u}
  /\ \E t \in Threads :
       /\ job[t] = Idle
       /\ job' = [job EXCEPT ![t] = [Idle EXCEPT !.user = u, !.step = "scheduled"]]
  /\ UNCHANGED <<message, summary, outrun>>

(* The runner ends, whatever its thread did. *)
Release(t) ==
  /\ job' = [job EXCEPT ![t] = Idle]
  /\ summary_jobs' = summary_jobs \ {job[t].user}

ReadSummary(t) ==
  /\ job[t].step = "scheduled"
  /\ job' = [job EXCEPT ![t].step = "read", ![t].existing = SummaryRow(job[t].user)]
  /\ UNCHANGED <<message, summary, summary_jobs, outrun>>

ReadPending(t) ==
  LET pending == MessagesAfter(job[t].user, job[t].existing.upto)
  IN /\ job[t].step = "read"
     /\ IF pending = {}
        THEN Release(t)
        ELSE /\ job' = [job EXCEPT ![t].step = "asking", ![t].pending = pending]
             /\ UNCHANGED summary_jobs
     /\ UNCHANGED <<message, summary, outrun>>

(* The provider fails, or its summary is empty. *)
NoAnswer(t) ==
  /\ job[t].step = "asking"
  /\ Release(t)
  /\ UNCHANGED <<message, summary, outrun>>

(* The text is from what was read before the provider was asked, the count *)
(* from the row as it is now.                                              *)
WriteSummary(t) ==
  LET u == job[t].user
      pending == job[t].pending
  IN /\ job[t].step = "asking"
     /\ summary' = [summary EXCEPT ![u] =
          [upto |-> Max(pending), text |-> job[t].existing.text \cup pending,
           count |-> SummaryRow(u).count + Cardinality(pending)]]
     /\ Release(t)
     /\ UNCHANGED <<message, outrun>>

-----------------------------------------------------------------------------
(* AdminDataService.delete_user_completely *)
DeleteUser(u) ==
  /\ Of(u) # {} \/ summary[u] # None
  /\ message' = [m \in Ids |-> IF m \in Of(u) THEN None ELSE message[m]]
  /\ summary' = [summary EXCEPT ![u] = None]
  /\ outrun' = IF \E t \in Threads : job[t].user = u /\ job[t].step \in {"read", "asking"}
               THEN outrun \cup {u}
               ELSE outrun \ {u}
  /\ UNCHANGED <<summary_jobs, job>>

(* The bot restarts: its threads and its set are gone. *)
Restart ==
  /\ summary_jobs # {}
  /\ summary_jobs' = {}
  /\ job' = [t \in Threads |-> Idle]
  /\ UNCHANGED <<message, summary, outrun>>

Next ==
  \/ \E u \in Users, id \in Texts \cup {None} : Add(u, id)
  \/ \E u \in Users : Schedule(u) \/ DeleteUser(u)
  \/ \E t \in Threads : ReadSummary(t) \/ ReadPending(t) \/ NoAnswer(t) \/ WriteSummary(t)
  \/ Restart

Spec == Init /\ [][Next]_vars

-----------------------------------------------------------------------------
(* The variables have the types the code gives them. *)
TypeOK ==
  /\ message \in [Ids -> Messages \cup {None}]
  /\ summary \in [Users -> Summary \cup {None}]
  /\ summary_jobs \subseteq Users
  /\ job \in [Threads -> Jobs]
  /\ outrun \subseteq Users

(* A summary was made from every message up to its mark, each given to the *)
(* model once, however jobs, turns and deletions interleave; unless the    *)
(* panel deleted the user under a job, which then writes a row for nobody. *)
SummaryHasNoGaps ==
  \A u \in Users \ outrun : summary[u] # None =>
    /\ summary[u].text = {m \in Of(u) : m <= summary[u].upto}
    /\ summary[u].count = Cardinality(summary[u].text)
===============================================================================
