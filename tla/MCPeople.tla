------------------------------- MODULE MCPeople -----------------------------
(***************************************************************************)
(* What the bot remembers of people, side by side: their chats with the    *)
(* language model and the switch of that, their menus, their role-playing  *)
(* game, and the standing of an account.  The five share no state, so one  *)
(* behaviour is about one of them.                                         *)
(***************************************************************************)
EXTENDS Chat, Menus, RPG, Standing, Features

CONSTANTS h1, h2

VARIABLE part

\* The role-playing game: three events, of which one needs the second level.
EventList  == <<"awakening", "fire", "merchant">>
EventLevel == [awakening |-> 1, fire |-> 2, merchant |-> 1]
XpOfEvent  == [awakening |-> 0, fire |-> 0, merchant |-> 1]
NeededXp   == <<2>>
NextZones  == [city |-> 2]

\* Chat: a direct chat needs no switch.
ModsIn == [d \in BOOLEAN |-> IF d THEN 1 ELSE 2]

\* Menus: preferences of an earlier day.
StoredPrefs == [NoPrefs EXCEPT !["play"] = "audio"]

\* Standing: /work waits as long as a streak lasts.
Cooldowns == [d \in Domains |-> IF d = "work" THEN 2 ELSE 1]
Commands3 == <<{"beg"}, {"beg", "count", "read"}, {"work", "fish", "mine", "hunt", "count"}>>

HandlerSymmetry == Permutations({h1, h2})

PeopleInit ==
  /\ part \in {"chat", "menus", "rpg", "standing", "features"}
  /\ ChatInit /\ Init /\ RpgInit /\ StandingInit
  /\ FeaturesInit /\ (part # "features" => flag = "none") /\ (part # "chat" => ~direct)
  /\ part # "rpg" => player = NoProfile /\ ~isMod
  /\ preferred = Unset /\ prefs \in {NoPrefs, StoredPrefs}
  /\ part # "menus" => prefs = NoPrefs

PeopleNext ==
  \/ part = "chat" /\ ChatNext /\ UNCHANGED <<part, vars, rpgVars, standingVars, flagVars>>
  \/ part = "menus" /\ Next /\ UNCHANGED <<part, chatVars, rpgVars, standingVars, flagVars>>
  \/ part = "rpg" /\ RpgNext /\ UNCHANGED <<part, chatVars, vars, standingVars, flagVars>>
  \/ part = "standing" /\ StandingNext /\ UNCHANGED <<part, chatVars, vars, rpgVars, flagVars>>
  \/ part = "features" /\ FeaturesNext /\ UNCHANGED <<part, chatVars, vars, rpgVars, standingVars>>

PeopleSpec ==
  PeopleInit /\ [][PeopleNext]_<<part, chatVars, vars, rpgVars, standingVars, flagVars>>

(* Every variable of the five has its type.                                *)
PeopleTypeOK ==
  ChatTypeOK /\ TypeOK /\ RpgTypeOK /\ StandingTypeOK /\ FeaturesTypeOK

(* What is remembered for the chatbot is what was said and stored: the turns,
   the persona, and whether it may answer, but for the races that the three
   name.                                                                   *)
ChatHolds == MemoryHolds /\ FlagHolds
=============================================================================
