------------------------------- MODULE MCPeople -------------------------------
(***************************************************************************)
(* The components that keep what the bot knows of a person: the onboarding *)
(* dialogue (extended here), the profile, the required channels, the       *)
(* warnings and the memories.  They share no variable, so a property of    *)
(* one depends on the steps of that one alone: a behaviour takes the steps *)
(* of the component that "part" names, and none of a component's           *)
(* behaviours is left out.                                                 *)
(***************************************************************************)
EXTENDS Onboarding, FiniteSets, TLC

CONSTANTS
  MaxFailures, Attempts, Channels, Chats, Checks, Week, Month, ManualDays, MaxWarnings, MaxLeft,
  Owners, Facts, Ids, Workers, Window, MaxActiveMemories

VARIABLES
  part,
  completion, invalid, phone, claimed, offered, contact, granted, failed,
  chat, active, cache, member, bypass, check, overtaken,
  warnings, left, row, counted,
  memory, work, excused

(* What the code and the database give: constants of one kind are told     *)
(* from None; an automatic block takes some time (moderation_service.py).  *)
ASSUME ProfileAssumption == MaxFailures \in Nat /\ Attempts \in Nat \ {0}
ASSUME ChannelsAssumption == None \notin Users \cup Channels \cup Chats
ASSUME ModerationAssumption ==
  /\ MaxWarnings \in Nat /\ Week \in Nat \ {0} /\ Month \in Nat \ {0}
  /\ ManualDays \subseteq Nat

P == INSTANCE ProfileCompletion
C == INSTANCE RequiredChannels
M == INSTANCE Moderation
R == INSTANCE Memory WITH Users <- Owners, row <- memory

ASSUME MemoryAssumption ==
  /\ IsFiniteSet(Ids) /\ Window \in Nat
  /\ None \notin Owners \cup R!Rows

Parts == {"onboarding", "profile", "channels", "moderation", "memories"}
profiles == <<completion, invalid, phone, claimed, offered, contact, granted, failed>>
channels == <<chat, active, cache, member, bypass, check, overtaken>>
moderation == <<warnings, left, row, counted>>
memories == <<memory, work, excused>>
MCvars == <<vars, profiles, channels, moderation, memories, part>>

MCInit ==
  /\ part \in Parts
  /\ Init /\ P!Init /\ C!Init /\ M!Init /\ R!Init
  /\ part # "channels" => member = [t \in Chats |-> {}]

OnboardingStep == part = "onboarding" /\ Next /\ UNCHANGED <<part, profiles, channels, moderation, memories>>
ProfileStep == part = "profile" /\ P!Next /\ UNCHANGED <<part, vars, channels, moderation, memories>>
ChannelsStep == part = "channels" /\ C!Next /\ UNCHANGED <<part, vars, profiles, moderation, memories>>
ModerationStep == part = "moderation" /\ M!Next /\ UNCHANGED <<part, vars, profiles, channels, memories>>
MemoriesStep == part = "memories" /\ R!Next /\ UNCHANGED <<part, vars, profiles, channels, moderation>>

MCNext == OnboardingStep \/ ProfileStep \/ ChannelsStep \/ ModerationStep \/ MemoriesStep

MCSpec == MCInit /\ [][MCNext]_MCvars

(* The chats, the workers and the owners of memories are {a, b}: a         *)
(* permutation of one set permutes all three.                              *)
Symmetry == Permutations(Chats)

(* The variables of each component have their types. *)
TypesOK == TypeOK /\ P!TypeOK /\ C!TypeOK /\ M!TypeOK /\ R!TypeOK

(* The phone bonus is granted once, and again only for a session that      *)
(* failed in between (handlers.py:2307).                                   *)
PhoneBonusPerFailure == P!PhoneBonusPerFailure

(* A cached membership is about the chat its channel names now.            *)
CacheIsAboutItsChannel == C!CacheIsAboutItsChannel

(* A warning lengthens a block or starts one, and never shortens it.       *)
WarningsAddUp == M!WarningsAddUp

(* A block written by a count of warnings has three warnings, and every    *)
(* block's number is that of the warnings left, or an admin's three.       *)
BlockHasItsWarnings == M!BlockHasItsWarnings

(* A user has one active memory of a fact.                                 *)
OneMemoryPerFact == R!OneMemoryPerFact
===============================================================================
