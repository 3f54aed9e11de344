-------------------------------- MODULE Group -------------------------------
(***************************************************************************)
(* One group as WhatsApp has it, and the commands of the bot that          *)
(* administer it: promote, demote, remove, open, close, purge and timer,   *)
(* with the antilink moderation.  A message is judged by the metadata that *)
(* came with it: the cached copy, or one fetched meanwhile.  WhatsApp      *)
(* tells of every change, and the notice drops the copy; an answer fetched *)
(* before the change may arrive after the notice, and is then kept for the *)
(* 300 s of the cache.                                                     *)
(*                                                                         *)
(* WhatsApp is external: it carries an operation out if the bot is an      *)
(* admin at that moment.  Invite links, subjects and replies are left out. *)
(***************************************************************************)
EXTENDS Integers, SequencesExt, FiniteSetsExt

CONSTANTS
  People, Owner, Bot,
  Targets,      \* bound: whom /promote, /demote and /remove are about
  GroupHandlers,
  Minutes,      \* what /timer is given
  MaxDelay,     \* the longest delay of setTimeout, in those minutes: 35791
  AlertEvery,   \* the interval of the reminders: 2
  MaxAsked,     \* bound: messages
  MaxChanges    \* bound: changes made by people

ASSUME GroupAssumption ==
  /\ IsFiniteSet(People) /\ Owner \in People /\ Bot \in People /\ Owner # Bot /\ Targets \subseteq People
  /\ Minutes \subseteq Nat \ {0} /\ MaxDelay \in Nat \ {0} /\ AlertEvery \in Nat \ {0}
  /\ MaxAsked \in Nat /\ MaxChanges \in Nat

Rooms  == [members : SUBSET People, admins : SUBSET People, closed : BOOLEAN]
NoMeta == [members |-> {}, admins |-> {}, closed |-> FALSE]

OnUser == {"promote", "demote", "remove"}
Cmds   == OnUser \cup {"open", "close", "purge", "timer", "end"}

\* The next operations of a handler are calls to WhatsApp; todo holds <<operation, user>>.
Free == [at |-> "free", cmd |-> "none", arg |-> "none", from |-> "none", meta |-> NoMeta,
         todo |-> <<>>, wasAdmin |-> FALSE, wasNot |-> FALSE, spared |-> {}, refused |-> FALSE]

VARIABLES
  room,       \* the group at WhatsApp
  notices,    \* changes the bot has not been told of
  metaCache,  \* groupMetadataCache
  admin,      \* admin[h]: a message with a command or a link; ghosts of what its sender was
              \* since, who came or was refused since
  purging,    \* purgeSet has the group
  armed,      \* the timers set by /timer that node has; known: the registry has it
  locks,      \* requests of expired timers to close the group, on their way
  told,       \* ghost: the minutes told to who gave the last /timer, 0 if it was ended or is over
  counting,   \* ghost: those left of them, -1 if it was ended or is over
  early,      \* ghost: what was told to whom a lock came before its time, 0 for one without a timer
  raced,      \* ghost: a change was told of while an older answer was on its way
  emptied,    \* ghost: a purge came to its end and left these
  asked, changes

groupVars == <<room, notices, metaCache, admin, purging, armed, locks, told, counting, early,
               raced, emptied, asked, changes>>

timerVars == <<purging, armed, locks, told, counting, early>>

GroupTypeOK ==
  /\ room \in Rooms /\ room.admins \subseteq room.members
  /\ metaCache \in Rooms /\ notices \in Nat
  /\ \A h \in GroupHandlers : /\ admin[h].at \in {"free", "asked", "answered", "judged", "acting"}
                              /\ admin[h].meta \in Rooms
                              /\ admin[h].at = "acting" <=> admin[h].todo # <<>>
  /\ \A t \in armed : t.kind \in {"lock", "alert"} /\ t.left \in Nat /\ t.known \in BOOLEAN
  /\ locks \in Nat /\ told \in Nat /\ counting \in Nat \cup {-1} /\ early \subseteq Nat
  /\ emptied \subseteq People

GroupInit ==
  /\ room = [members |-> People, admins |-> {Owner, Bot}, closed |-> FALSE]
  /\ notices = 0 /\ metaCache = NoMeta /\ admin = [h \in GroupHandlers |-> Free]
  /\ purging = FALSE /\ armed = {} /\ locks = 0 /\ told = 0 /\ counting = -1
  /\ early = {} /\ raced = FALSE /\ emptied = {} /\ asked = 0 /\ changes \in {0, MaxChanges}

-----------------------------------------------------------------------------
(* WhatsApp.                                                               *)

\* The group after an operation that the bot asks for.
After(op, u) ==
  IF Bot \notin room.admins THEN room
  ELSE CASE op = "promote" /\ u \in room.members -> [room EXCEPT !.admins = @ \cup {u}]
         [] op = "demote" /\ u # Owner -> [room EXCEPT !.admins = @ \ {u}]
         [] op = "remove" /\ u # Owner -> [room EXCEPT !.admins = @ \ {u}, !.members = @ \ {u}]
         [] op = "open" -> [room EXCEPT !.closed = FALSE]
         [] op = "close" -> [room EXCEPT !.closed = TRUE]
         [] OTHER -> room
Left == [room EXCEPT !.admins = @ \ {Bot}, !.members = @ \ {Bot}]

\* Whatever becomes of the room, the ghosts of the messages under way follow it.
Watched(a, new) ==
  IF a.at = "free" THEN Free
  ELSE [a EXCEPT !.wasAdmin = @ \/ a.from \in new.admins,
                 !.wasNot = @ \/ a.from \notin new.admins,
                 !.spared = IF a.cmd = "purge" THEN @ \cup (new.members \ room.members) ELSE {}]

Becomes(new, as) ==
  /\ room' = new
  /\ notices' = IF new = room THEN notices ELSE notices + 1
  /\ admin' = [h \in GroupHandlers |-> Watched(as[h], new)]

ChangedByPeople ==
  /\ changes < MaxChanges /\ changes' = changes + 1
  /\ \E new \in {[room EXCEPT !.closed = ~@]}
            \cup {[room EXCEPT !.admins = @ \cup {u}] : u \in room.members}
            \cup {[room EXCEPT !.admins = @ \ {u}] : u \in room.admins \ {Owner}}
            \cup {[room EXCEPT !.admins = @ \ {u}, !.members = @ \ {u}] : u \in room.members \ {Owner, Bot}}
            \cup {[room EXCEPT !.members = @ \cup {u}] : u \in People \ room.members} :
       new # room /\ Becomes(new, admin)
  /\ UNCHANGED <<metaCache, timerVars, raced, emptied, asked>>

\* Mutant: a change of the group leaves the cached copy.
Dropped_Kept(meta) == meta

\* handleGroupsUpdate, handleGroupParticipantsUpdate
Dropped(meta) == NoMeta

HandleGroupUpdate ==
  /\ notices > 0 /\ notices' = notices - 1
  /\ metaCache' = Dropped(metaCache)
  /\ raced' = \E h \in GroupHandlers : admin[h].at = "answered"
  /\ UNCHANGED <<room, admin, timerVars, emptied, asked, changes>>

MetadataExpires ==
  /\ metaCache # NoMeta /\ metaCache' = NoMeta
  /\ raced' = \E h \in GroupHandlers : admin[h].at = "answered"
  /\ UNCHANGED <<room, notices, admin, timerVars, emptied, asked, changes>>

-----------------------------------------------------------------------------
(* cachedGroupMetadata, and what the pipeline makes of it.                 *)

\* The handlers are alike: one that is free takes the message.
Receive(h, cmd, arg, u) ==
  /\ admin[h].at = "free" /\ h = CHOOSE g \in GroupHandlers : admin[g].at = "free"
  /\ asked < MaxAsked /\ asked' = asked + 1
  /\ u \in room.members \ {Bot}
  /\ LET stale == metaCache # NoMeta /\ metaCache # room
     IN  admin' = [admin EXCEPT ![h] =
           [Free EXCEPT !.at = IF metaCache = NoMeta THEN "asked" ELSE "judged", !.cmd = cmd,
                        !.arg = arg, !.from = u, !.meta = metaCache,
                        !.wasAdmin = stale \/ u \in room.admins,
                        !.wasNot = stale \/ u \notin room.admins,
                        !.spared = IF cmd = "purge" THEN room.members \ metaCache.members ELSE {}]]
  /\ UNCHANGED <<room, notices, metaCache, timerVars, raced, emptied, changes>>

\* WhatsApp answers with the group as it is, or the call fails: then there is no metadata.
Answer(h) ==
  /\ admin[h].at = "asked"
  /\ admin' = [admin EXCEPT ![h].at = "answered", ![h].meta = room, ![h].spared = {}]
  /\ UNCHANGED <<room, notices, metaCache, timerVars, raced, emptied, asked, changes>>

NoAnswer(h) ==
  /\ admin[h].at = "asked"
  /\ admin' = [admin EXCEPT ![h] = Free]
  /\ UNCHANGED <<room, notices, metaCache, timerVars, raced, emptied, asked, changes>>

Arrive(h) ==
  /\ admin[h].at = "answered"
  /\ metaCache' = admin[h].meta
  /\ admin' = [admin EXCEPT ![h].at = "judged"]
  /\ UNCHANGED <<room, notices, timerVars, raced, emptied, asked, changes>>

-----------------------------------------------------------------------------
(* The commands, judged by the metadata.                                   *)

Each(op, users) == [i \in 1..Cardinality(users) |-> <<op, SetToSeq(users)[i]>>]

Removals(m) == Each("remove", m.members \ m.admins) \o Each("remove", m.admins \ {Owner, Bot})

\* What each command asks of WhatsApp.
Promotion(u, m) == IF u \in m.admins THEN <<>> ELSE <<<<"promote", u>>>>
Demotion(u, m)  == IF u \in m.admins \ {Bot} THEN <<<<"demote", u>>>> ELSE <<>>
Removal(u)      == IF u \in {Owner, Bot} THEN <<>> ELSE <<<<"remove", u>>>>
Closing(m)      == IF m.closed THEN <<>> ELSE <<<<"close", "none">>>>
Opening(m)      == IF m.closed THEN <<<<"open", "none">>>> ELSE <<>>
Purge(from, m)  == IF from = Owner /\ purging THEN Removals(m) \o <<<<"leave", "none">>>> ELSE <<>>

Asks(cmd, u, from, m) ==
  CASE cmd = "promote" -> Promotion(u, m)
    [] cmd = "demote" -> Demotion(u, m)
    [] cmd = "remove" -> Removal(u)
    [] cmd = "close" -> Closing(m)
    [] cmd = "open" -> Opening(m)
    [] cmd = "purge" -> Purge(from, m)

Doing(h, todo) == IF todo = <<>> THEN [admin EXCEPT ![h] = Free]
                  ELSE [admin EXCEPT ![h].at = "acting", ![h].todo = todo]

SenderIsAdmin(h) == admin[h].from \in admin[h].meta.admins
IsBotAdmin(h) == Bot \in admin[h].meta.admins

Act(h) ==
  LET a == admin[h] IN
  /\ a.at = "judged" /\ a.cmd \notin {"link", "timer", "end"}
  /\ admin' = Doing(h, IF SenderIsAdmin(h) /\ IsBotAdmin(h) THEN Asks(a.cmd, a.arg, a.from, a.meta)
                       ELSE <<>>)
  /\ purging' = (purging \/ (a.cmd = "purge" /\ a.from = Owner /\ SenderIsAdmin(h) /\ IsBotAdmin(h)))
  /\ UNCHANGED <<room, notices, metaCache, armed, locks, told, counting, early, raced, emptied,
                 asked, changes>>

\* moderate: a link of someone who is no admin.
Moderate(h) ==
  /\ admin[h].at = "judged" /\ admin[h].cmd = "link"
  /\ admin' = Doing(h, IF IsBotAdmin(h) /\ ~SenderIsAdmin(h) THEN <<<<"remove", admin[h].from>>>>
                       ELSE <<>>)
  /\ UNCHANGED <<room, notices, metaCache, timerVars, raced, emptied, asked, changes>>

\* A call to WhatsApp: done, refused or lost.  A purge goes on in any case.
Call(h) ==
  LET a    == admin[h]
      op   == Head(a.todo)
      rest == Tail(a.todo)
      next == [a EXCEPT !.at = IF rest = <<>> THEN "free" ELSE "acting", !.todo = rest]
  IN
  /\ a.at = "acting"
  /\ \E new \in {room, IF op[1] = "leave" THEN Left ELSE After(op[1], op[2])} :
       /\ Becomes(new, [admin EXCEPT ![h] = IF rest = <<>> THEN Free
                          ELSE [next EXCEPT !.refused = @ \/ op[2] \in new.members]])
       /\ emptied' = IF op[1] = "leave" /\ new = Left /\ ~a.refused
                     THEN new.members \ a.spared ELSE emptied
  /\ UNCHANGED <<metaCache, timerVars, raced, asked, changes>>

PurgeExpires ==
  /\ purging /\ purging' = FALSE
  /\ UNCHANGED <<room, notices, metaCache, admin, armed, locks, told, counting, early, raced,
                 emptied, asked, changes>>

-----------------------------------------------------------------------------
(* /timer, and the timers of node.                                         *)

Timer(kind, left) == [kind |-> kind, left |-> left, known |-> TRUE]

\* clearByOwner: the registry knows the last timer of each name only.
ClearByOwner(ts) == {t \in ts : ~t.known}
Forgotten(ts) == {[t EXCEPT !.known = FALSE] : t \in ts}

\* The delay of setTimeout: one that is too long for node is one of 1 ms.
Delay(m) == IF m > MaxDelay THEN 0 ELSE m

SetTimer(h) ==
  LET m == admin[h].arg IN
  /\ admin[h].at = "judged" /\ admin[h].cmd = "timer"
  /\ IF SenderIsAdmin(h)
     THEN /\ armed' = Forgotten(ClearByOwner(armed)) \cup {Timer("alert", AlertEvery), Timer("lock", Delay(m))}
          /\ told' = m /\ counting' = m
     ELSE UNCHANGED <<armed, told, counting>>
  /\ admin' = [admin EXCEPT ![h] = Free]
  /\ UNCHANGED <<room, notices, metaCache, purging, locks, early, raced, emptied, asked, changes>>

EndTimer(h) ==
  /\ admin[h].at = "judged" /\ admin[h].cmd = "end"
  /\ IF SenderIsAdmin(h) THEN armed' = ClearByOwner(armed) /\ told' = 0 /\ counting' = -1
     ELSE UNCHANGED <<armed, told, counting>>
  /\ admin' = [admin EXCEPT ![h] = Free]
  /\ UNCHANGED <<room, notices, metaCache, purging, locks, early, raced, emptied, asked, changes>>

\* Timers that are due may be late: time does not wait for them.
MinutePasses ==
  /\ \E t \in armed : t.left > 0
  /\ armed' = {[t EXCEPT !.left = IF @ = 0 THEN 0 ELSE @ - 1] : t \in armed}
  /\ counting' = IF counting > 0 THEN counting - 1 ELSE counting
  /\ UNCHANGED <<room, notices, metaCache, admin, purging, locks, told, early, raced, emptied,
                 asked, changes>>

RemindersRing ==
  /\ \E t \in armed : /\ t.kind = "alert" /\ t.left = 0
                      /\ armed' = (armed \ {t}) \cup {[t EXCEPT !.left = AlertEvery]}
  /\ UNCHANGED <<room, notices, metaCache, admin, purging, locks, told, counting, early, raced,
                 emptied, asked, changes>>

TimerExpires ==
  /\ \E t \in armed : /\ t.kind = "lock" /\ t.left = 0
                      /\ armed' = ClearByOwner(armed) \ {t}
  /\ locks' = locks + 1
  /\ early' = IF counting = 0 THEN early ELSE early \cup {told}
  /\ told' = 0 /\ counting' = -1
  /\ UNCHANGED <<room, notices, metaCache, admin, purging, raced, emptied, asked, changes>>

Lock ==
  /\ locks > 0 /\ locks' = locks - 1
  /\ \E new \in {room, After("close", "none")} : Becomes(new, admin)
  /\ UNCHANGED <<metaCache, purging, armed, told, counting, early, raced, emptied, asked, changes>>

GroupNext ==
  \/ ChangedByPeople \/ HandleGroupUpdate \/ MetadataExpires
  \/ \E h \in GroupHandlers :
       \/ \E u \in People : \/ \E cmd \in OnUser, arg \in Targets : Receive(h, cmd, arg, u)
                            \/ \E m \in Minutes : Receive(h, "timer", m, u)
                            \/ \E cmd \in (Cmds \cup {"link"}) \ (OnUser \cup {"timer"}) :
                                 Receive(h, cmd, "none", u)
       \/ Answer(h) \/ NoAnswer(h) \/ Arrive(h) \/ Act(h) \/ Moderate(h) \/ Call(h)
       \/ SetTimer(h) \/ EndTimer(h)
  \/ PurgeExpires \/ MinutePasses \/ RemindersRing \/ TimerExpires \/ Lock

\* Node runs the timers that are due, and time passes.
GroupFairness == WF_groupVars(TimerExpires) /\ WF_groupVars(MinutePasses)

GroupSpec == GroupInit /\ [][GroupNext]_groupVars /\ GroupFairness

-----------------------------------------------------------------------------
(* Properties.                                                             *)

\* The cached copy is the group, once the bot has been told of every change, unless a change
\* was told of while an answer from before it was on its way.
StaleOnlyByRace == metaCache # NoMeta /\ notices = 0 => metaCache = room \/ raced

\* Whoever makes the bot act on the group was an admin of it at some time since the message
\* came, and whoever is removed for a link was not, unless the copy they were judged by was
\* out of date when it was taken.
JudgedByTheRoom ==
  \A h \in GroupHandlers : admin[h].todo # <<>> =>
    IF admin[h].cmd = "link" THEN admin[h].wasNot ELSE admin[h].wasAdmin

\* A purge that met no refusal leaves the owner and those who came while it ran.
PurgeEmpties == emptied \subseteq {Owner}

\* What the bot does to a group is right by the group, though it goes by a copy of it.
MetadataHolds == StaleOnlyByRace /\ JudgedByTheRoom /\ PurgeEmpties

\* The group is locked by the last /timer, when the minutes that were told are over, and never
\* by one that was ended or replaced, except that a /timer of more minutes than setTimeout can
\* wait for locks at once (timer.ts:78 does not look at the limit).
LockedByLastTimer == \A m \in early : m > MaxDelay

\* Every timer comes to its end, and its reminders with it.
TimersEnd == (armed # {}) ~> (armed = {})
=============================================================================
