------------------------------ MODULE MCAnswering ------------------------------
(***************************************************************************)
(* The replies in groups (extended here), the providers an answer is asked *)
(* of and the summaries of conversations.  They share no variable; "part"  *)
(* names the component that takes the steps of a behaviour, as in          *)
(* MCPeople.                                                               *)
(***************************************************************************)
EXTENDS GroupReplies, TLC

CONSTANTS
  Names, Forced, Calls, Failures, Shipped, MaxKeys, MaxEdits,
  Threads, Texts, MaxId, Limit

VARIABLES
  part,
  file, writing, edits, read, list, cursor, resting, status, healthy, call, told, late,
  message, summary, summary_jobs, job, outrun

P == INSTANCE Providers
S == INSTANCE Summaries

(* What the code and the database give: constants of one kind are told     *)
(* from None, and so are rows.                                             *)
ASSUME ProvidersAssumption ==
  /\ IsFiniteSet(Names) /\ Forced \subseteq Names /\ MaxKeys \in Nat \ {0}
  /\ \A s \in Shipped : s.file \in P!BoundedSeq(P!Entries, Cardinality(Names))
ASSUME SummariesAssumption ==
  /\ MaxId \in Nat /\ Limit \in Nat
  /\ None \notin Users \cup S!Messages \cup S!Summary

replies == <<work, events, auto, begun>>
providers == <<file, writing, edits, read, list, cursor, resting, status, healthy, call, told, late>>
summaries == <<message, summary, summary_jobs, job, outrun>>
MCvars == <<replies, providers, summaries, part>>

MCInit ==
  /\ part \in {"replies", "providers", "summaries"}
  /\ Init /\ P!Init /\ S!Init
  /\ part # "providers" => file = <<>>

RepliesStep == part = "replies" /\ Next /\ UNCHANGED <<part, providers, summaries>>
ProvidersStep == part = "providers" /\ P!Next /\ UNCHANGED <<part, replies, summaries>>
SummariesStep == part = "summaries" /\ S!Next /\ UNCHANGED <<part, replies, providers>>

MCNext == RepliesStep \/ ProvidersStep \/ SummariesStep

MCSpec == MCInit /\ [][MCNext]_MCvars

(* Calls and threads are {a, b} as the users are: all permute at once. *)
Symmetry == Permutations(Users) \cup Permutations(Chats)

(* The config files: p alone with one key, or with two; p with a health    *)
(* check, and q after it; the empty file of the parts that do not ask.     *)
Of(p, checked, keys) == [id |-> p, enabled |-> TRUE, health |-> checked, keys |-> keys]
Alone == [file |-> <<Of("p", FALSE, 1)>>, edits |-> 0]
TwoKeys == [file |-> <<Of("p", FALSE, 2)>>, edits |-> 1]
Both == [file |-> <<Of("p", TRUE, 1), Of("q", FALSE, 1)>>, edits |-> 1]
Empty == [file |-> <<>>, edits |-> MaxEdits]
MCShipped == {Alone, TwoKeys, Both, Empty}

(* The variables of each component have their types. *)
TypesOK == TypeOK /\ P!TypeOK /\ S!TypeOK

(* A call gives up only after each key was tried, skipped or resting.      *)
EveryKeyHadItsTurn == P!EveryKeyHadItsTurn

(* A key told to wait is asked by nobody but by the calls that were asking *)
(* it when it was told.                                                    *)
RestIsKept == P!RestIsKept

(* A summary was made from every message up to its mark, each given once.  *)
SummaryHasNoGaps == S!SummaryHasNoGaps
================================================================================
