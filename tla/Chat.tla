-------------------------------- MODULE Chat --------------------------------
(***************************************************************************)
(* /chat in one chat, and what is answered without it where the chat is    *)
(* direct: the switch that moderators set, the daily quota of the sender,  *)
(* the memory of the last turns, and what the model has learnt about the   *)
(* chat (identity, one list of facts), which is stored and cached for five *)
(* minutes.  The language models are external: what matters is whether one *)
(* answers, and whether it adds a fact.                                    *)
(***************************************************************************)
EXTENDS Integers, SequencesExt, FiniteSets

CONSTANTS
  Chatters,       \* senders
  ChatHandlers,   \* handlers of /chat that may be waiting together
  InitialLimit,   \* chatQuotaLimit of a new user: 20
  Limits,         \* limits that moderators set
  ExtendBy,       \* 20
  Period,         \* ticks until a quota starts again: 24 hours
  RecentTurnCap,  \* 4
  FactCap,        \* CAP_LORE 40, CAP_TOPICS 30, CAP_STYLE_CHAT 20
  MaxTurns, MaxNow, MaxChatFaults,   \* bounds
  MaxMods         \* bound: of what moderators do in a group (FALSE) or a direct chat (TRUE)

ASSUME ChatAssumption ==
  /\ InitialLimit \in Nat /\ Limits \subseteq Nat /\ ExtendBy \in Nat /\ Period \in Nat \ {0}
  /\ RecentTurnCap \in Nat \ {0} /\ FactCap \in Nat \ {0}
  /\ MaxTurns \in Nat /\ MaxNow \in Nat /\ MaxMods \in [BOOLEAN -> Nat] /\ MaxChatFaults \in Nat

NoPersona == <<0>>    \* nothing cached
NoState   == 0        \* the chat has no memory

VARIABLES
  now,
  direct,       \* a direct chat, not a group
  enabled,      \* chatEnabled, of the group or of the user
  stopping,     \* in a direct chat, a /chat stop that has written and not yet forgotten
  quota,        \* quota[u]: chatQuotaUsed, chatQuotaResetAt, chatQuotaLimit
  chat,         \* chat[h]: where a /chat is, and what it holds meanwhile
  extending,    \* a /quota extend that has read the user
  states,       \* states[i]: the recent turns of ChatState object i
  current,      \* the object in the store of ChatAI
  old,          \* it has not been used for an hour
  identity,     \* chatIdentity as stored
  persona,      \* as cached
  adding,       \* adding[h]: the addition a chat left behind
  resetting,    \* a reset that has written and not yet dropped the cache
  turns, mods, chatFaults,
  granted,      \* granted[u]: ghost, chats counted in this period, less what was extended
  ceiling,      \* ceiling[u]: ghost, the highest limit of this period
  misread,      \* misread[u]: ghost, a write of the quota was based on an old reading
  spoken,       \* ghost: turns answered since the memory was last dropped
  strayed,      \* ghost: a chat answered into a memory that had been dropped
  overtaken,    \* ghost: the cache was filled with what a write had overtaken
  undropped,    \* ghost: the answer to a write was lost, and what is cached was not dropped
  forgotten,    \* ghost: facts that a reset removed
  restored      \* ghost: an addition wrote what it had read before a reset

switchVars   == <<enabled, stopping>>
quotaVars    == <<quota, granted, ceiling, misread, extending>>
memoryVars   == <<states, current, old, spoken, strayed>>
identityVars == <<identity, persona, adding, resetting, overtaken, undropped, forgotten, restored>>
chatVars     == <<now, direct, switchVars, chat, turns, mods, chatFaults, quotaVars, memoryVars,
                  identityVars>>

NoQuota == [used |-> 0, resetAt |-> 0, limit |-> InitialLimit]
NoChat  == [stage |-> "idle", user |-> "nobody", at |-> 0, seen |-> NoQuota,
            turn |-> 0, state |-> NoState, delta |-> <<>>]
NoAdd   == [stage |-> "none", fact |-> 0, base |-> <<>>]
NoExt   == [user |-> "nobody", seen |-> 0]

ChatTypeOK ==
  /\ now \in 0 .. MaxNow /\ direct \in BOOLEAN /\ enabled \in BOOLEAN /\ stopping \in BOOLEAN
  /\ quota \in [Chatters -> [used : Nat, resetAt : 0 .. MaxNow + Period, limit : {InitialLimit} \cup Limits]]
  /\ \A h \in ChatHandlers :
       /\ chat[h].stage \in {"idle", "switch", "spoken", "voice", "quota", "count", "counted",
                             "delta", "fill", "model"}
       /\ chat[h].stage # "idle" => chat[h].user \in Chatters
       /\ chat[h].state \in 0 .. Len(states)
       /\ adding[h].stage \in {"none", "read", "write", "del"}
  /\ current \in 0 .. Len(states)
  /\ \A i \in DOMAIN states : Len(states[i]) <= RecentTurnCap
  /\ Len(identity) <= FactCap /\ (persona = NoPersona \/ Len(persona) <= FactCap)

ChatInit ==
  /\ now = 0 /\ direct \in BOOLEAN /\ enabled = FALSE /\ stopping = FALSE
  /\ quota = [u \in Chatters |-> NoQuota] /\ extending = NoExt
  /\ chat = [h \in ChatHandlers |-> NoChat]
  /\ states = <<>> /\ current = NoState /\ old = FALSE
  /\ identity = <<>> /\ persona = NoPersona
  /\ adding = [h \in ChatHandlers |-> NoAdd] /\ resetting = FALSE
  /\ turns = 0 /\ mods = 0 /\ chatFaults = 0
  /\ granted = [u \in Chatters |-> 0] /\ ceiling = [u \in Chatters |-> InitialLimit]
  /\ misread = [u \in Chatters |-> FALSE]
  /\ spoken = <<>> /\ strayed = FALSE
  /\ overtaken = FALSE /\ undropped = FALSE /\ forgotten = {} /\ restored = FALSE

-----------------------------------------------------------------------------
CapFifo(s, n) == IF Len(s) > n THEN SubSeq(s, Len(s) - n + 1, Len(s)) ELSE s

To(h, stage)   == chat' = [chat EXCEPT ![h].stage = stage]
Done(h)        == chat' = [chat EXCEPT ![h] = NoChat]
ChatBoundsKept == UNCHANGED <<now, direct, turns, mods, chatFaults>>

(* Quota: moderators. *)
ModActs == mods < MaxMods[direct] /\ mods' = mods + 1 /\ UNCHANGED <<now, direct, turns, chatFaults>>

Switch(on) ==
  /\ ~stopping /\ ModActs /\ enabled' = on /\ stopping' = (direct /\ ~on)
  /\ UNCHANGED <<chat, quotaVars, memoryVars, identityVars>>

\* What is under way may still hold the object.
ForgetMemory == current' = NoState /\ spoken' = <<>> /\ UNCHANGED <<states, old, strayed>>

\* forget, when the answer to a /chat stop has come.
ForgetChat ==
  /\ stopping /\ stopping' = FALSE /\ ForgetMemory /\ UNCHANGED <<enabled, chat>>
  /\ UNCHANGED <<quotaVars, identityVars>> /\ ChatBoundsKept

SetLimit(u, limit) ==
  /\ ModActs
  /\ quota' = [quota EXCEPT ![u].limit = limit]
  /\ ceiling' = [ceiling EXCEPT ![u] = IF limit > @ THEN limit ELSE @]
  /\ UNCHANGED <<switchVars, chat, granted, misread, extending, memoryVars, identityVars>>

ExtendRead(u) ==
  /\ extending = NoExt /\ ModActs
  /\ extending' = [user |-> u, seen |-> quota[u].used]
  /\ UNCHANGED <<switchVars, chat, quota, granted, ceiling, misread, memoryVars, identityVars>>

Less(used) == IF used > ExtendBy THEN used - ExtendBy ELSE 0

ExtendWrite ==
  LET u == extending.user
  IN  /\ extending # NoExt /\ extending' = NoExt
      /\ quota' = [quota EXCEPT ![u].used = Less(extending.seen)]
      /\ granted' = [granted EXCEPT ![u] = Less(@)]
      /\ misread' = [misread EXCEPT ![u] = @ \/ quota[u].used # extending.seen]
      /\ UNCHANGED <<switchVars, chat, ceiling, memoryVars, identityVars>> /\ ChatBoundsKept

-----------------------------------------------------------------------------
(* /chat: the switch, then the quota, then the model. *)
Hear(h, u, stage) ==
  /\ chat[h] = NoChat /\ turns < MaxTurns /\ turns' = turns + 1
  /\ chat' = [chat EXCEPT ![h] = [NoChat EXCEPT !.stage = stage, !.user = u, !.at = now,
                                           !.turn = turns']]
  /\ UNCHANGED <<now, direct, switchVars, mods, chatFaults, quotaVars, memoryVars, identityVars>>

\* /chat: in a direct chat no switch is asked.
Say(h, u) == Hear(h, u, IF direct THEN "quota" ELSE "switch")

\* handleAutoChat: a text, or a voice note, that is no command.
AutoChat(h, u) == direct /\ \E stage \in {"switch", "spoken"} : Hear(h, u, stage)

ReadSwitch(h) ==
  /\ chat[h].stage \in {"switch", "spoken"}
  /\ IF ~enabled THEN Done(h)
     ELSE IF chat[h].stage = "spoken" THEN To(h, "voice")
     ELSE chat' = [chat EXCEPT ![h].stage = "quota", ![h].at = now]
  /\ UNCHANGED <<switchVars, quotaVars, memoryVars, identityVars>> /\ ChatBoundsKept

\* The voice note is there; that it cannot be had is a failure like others.
Download(h) ==
  /\ chat[h].stage = "voice" /\ chat' = [chat EXCEPT ![h].stage = "quota", ![h].at = now]
  /\ UNCHANGED <<switchVars, quotaVars, memoryVars, identityVars>> /\ ChatBoundsKept

(* consumeChatQuota takes the time, reads the user, and writes what follows. *)
ReadQuota(h) ==
  /\ chat[h].stage = "quota"
  /\ chat' = [chat EXCEPT ![h].stage = "count", ![h].seen = quota[chat[h].user]]
  /\ UNCHANGED <<switchVars, quotaVars, memoryVars, identityVars>> /\ ChatBoundsKept

(* Mutant: what was used is not forgotten with the period. *)
Consumed_Carries(seen, at) ==
  [used    |-> seen.used + (IF seen.used < seen.limit THEN 1 ELSE 0),
   resetAt |-> IF at >= seen.resetAt THEN at + Period ELSE seen.resetAt]

Consumed(seen, at) ==
  LET fresh == at >= seen.resetAt
      used  == IF fresh THEN 0 ELSE seen.used
  IN  [used    |-> IF used < seen.limit THEN used + 1 ELSE used,
       resetAt |-> IF fresh THEN at + Period ELSE seen.resetAt]

Allowed(seen, at) == (IF at >= seen.resetAt THEN 0 ELSE seen.used) < seen.limit

CountUse(h) ==
  LET u     == chat[h].user
      seen  == chat[h].seen
      next  == Consumed(seen, chat[h].at)
      fresh == chat[h].at >= quota[u].resetAt
      let   == Allowed(seen, chat[h].at)
  IN  /\ chat[h].stage = "count"
      /\ quota' = [quota EXCEPT ![u].used = next.used, ![u].resetAt = next.resetAt]
      /\ granted' = [granted EXCEPT ![u] = (IF fresh THEN 0 ELSE @) + (IF let THEN 1 ELSE 0)]
      /\ ceiling' = [ceiling EXCEPT ![u] = IF fresh THEN quota[u].limit ELSE @]
      /\ misread' = [misread EXCEPT ![u] =
           (@ /\ ~fresh) \/ quota[u] # seen]
      /\ IF let THEN To(h, "counted") ELSE Done(h)
      /\ UNCHANGED <<switchVars, extending, memoryVars, identityVars>> /\ ChatBoundsKept

(* ChatAI.chat: the memory object is taken before the first await, and the
   cached persona, if any.                                                 *)
Begin(h) ==
  /\ chat[h].stage = "counted"
  /\ IF current = NoState
     THEN states' = Append(states, <<>>) /\ current' = Len(states') /\ old' = FALSE
     ELSE UNCHANGED <<states, current, old>>
  /\ chat' = [chat EXCEPT ![h].state = current',
                          ![h].stage = IF persona = NoPersona THEN "delta" ELSE "model"]
  /\ UNCHANGED <<switchVars, spoken, strayed, quotaVars, identityVars>> /\ ChatBoundsKept

(* resolve: what getDelta reads, and what is cached when its answer arrives. *)
ReadDelta(h) ==
  /\ chat[h].stage = "delta"
  /\ chat' = [chat EXCEPT ![h].stage = "fill", ![h].delta = identity]
  /\ UNCHANGED <<switchVars, quotaVars, memoryVars, identityVars>> /\ ChatBoundsKept

FillCache(h) ==
  /\ chat[h].stage = "fill"
  /\ persona' = chat[h].delta
  /\ overtaken' = (chat[h].delta # identity) /\ undropped' = FALSE
  /\ To(h, "model")
  /\ UNCHANGED <<switchVars, identity, adding, resetting, forgotten, restored, quotaVars, memoryVars>>
  /\ ChatBoundsKept

Push(i, turn) == [states EXCEPT ![i] = CapFifo(Append(@, turn), RecentTurnCap)]

(* commit: the object that was taken is put back, dropped meanwhile or not. *)
Commit(h) ==
  LET i == chat[h].state
  IN  /\ states' = Push(i, chat[h].turn)
      /\ current' = i /\ old' = FALSE
      /\ spoken' = Append(spoken, chat[h].turn)
      /\ strayed' = (strayed \/ current # i)

(* What reads like an instruction is no fact. *)
Gaslight == 0
Sanitized(entries) == entries \ {Gaslight}

\* What the reply of a model may add: nothing when it is not the JSON asked for.
Additions(h) == SUBSET {chat[h].turn, Gaslight}

(* A model answers.  It may add facts; what survives is left to a task of its own. *)
Answer(h) ==
  /\ chat[h].stage = "model"
  /\ Commit(h)
  /\ \E entries \in Additions(h) :
       IF Sanitized(entries) = {} THEN UNCHANGED adding
       ELSE /\ adding[h] = NoAdd
            /\ \E fact \in Sanitized(entries) :
                 adding' = [adding EXCEPT ![h] = [NoAdd EXCEPT !.stage = "read", !.fact = fact]]
  /\ Done(h)
  /\ UNCHANGED <<switchVars, identity, persona, resetting, overtaken, undropped, forgotten, restored, quotaVars>>
  /\ ChatBoundsKept

(* No provider is configured, or every one of them throws or says nothing. *)
NoAnswer(h) ==
  /\ chat[h].stage = "model" /\ chatFaults < MaxChatFaults /\ chatFaults' = chatFaults + 1
  /\ Done(h)
  /\ UNCHANGED <<now, direct, switchVars, turns, mods, quotaVars, memoryVars, identityVars>>

-----------------------------------------------------------------------------

(* applyAdd: read, write, then drop the cache. *)
AddRead(h) ==
  /\ adding[h].stage = "read"
  /\ adding' = [adding EXCEPT ![h].stage = "write", ![h].base = identity]
  /\ UNCHANGED <<switchVars, chat, identity, persona, resetting, overtaken, undropped, forgotten,
                 restored, quotaVars, memoryVars>> /\ ChatBoundsKept

Dropped == persona' = NoPersona /\ overtaken' = FALSE /\ undropped' = FALSE

WriteDelta(delta) == identity' = delta

AddWrite(h) ==
  /\ adding[h].stage = "write"
  /\ adding' = [adding EXCEPT ![h].stage = "del"]
  /\ WriteDelta(CapFifo(Append(adding[h].base, adding[h].fact), FactCap))
  /\ restored' = (restored \/ Range(adding[h].base) \cap forgotten # {})
  /\ UNCHANGED <<switchVars, chat, persona, resetting, overtaken, undropped, forgotten, quotaVars,
                 memoryVars>>
  /\ ChatBoundsKept

(* Mutant: an addition does not drop the cache. *)
AddDrop_Kept(h) ==
  /\ adding[h].stage = "del"
  /\ adding' = [adding EXCEPT ![h] = NoAdd]
  /\ UNCHANGED <<switchVars, chat, identity, persona, overtaken, undropped, resetting, forgotten, restored,
                 quotaVars, memoryVars>> /\ ChatBoundsKept

AddDrop(h) ==
  /\ adding[h].stage = "del"
  /\ adding' = [adding EXCEPT ![h] = NoAdd]
  /\ Dropped
  /\ UNCHANGED <<switchVars, chat, identity, resetting, forgotten, restored, quotaVars, memoryVars>>
  /\ ChatBoundsKept

(* /identity reset *)
ResetWrite ==
  /\ ~resetting /\ ModActs
  /\ WriteDelta(<<>>) /\ resetting' = TRUE
  /\ forgotten' = forgotten \cup Range(identity)
  /\ UNCHANGED <<switchVars, chat, persona, adding, overtaken, undropped, restored, quotaVars, memoryVars>>

ResetDrop ==
  /\ resetting /\ resetting' = FALSE
  /\ Dropped
  /\ UNCHANGED <<switchVars, chat, identity, adding, forgotten, restored, quotaVars, memoryVars>>
  /\ ChatBoundsKept

(* The five minutes of the cache are over. *)
PersonaExpires ==
  /\ persona # NoPersona
  /\ Dropped
  /\ UNCHANGED <<switchVars, chat, identity, adding, resetting, forgotten, restored, quotaVars, memoryVars>>
  /\ ChatBoundsKept

(* An hour without a chat; the next run of gc drops the memory, though a chat
   may have begun again by then.                                           *)
Hour ==
  /\ current # NoState /\ ~old /\ \A h \in ChatHandlers : chat[h] = NoChat
  /\ old' = TRUE
  /\ UNCHANGED <<switchVars, chat, states, current, spoken, strayed, quotaVars, identityVars>>
  /\ ChatBoundsKept

Gc ==
  /\ current # NoState /\ old
  /\ current' = NoState /\ spoken' = <<>>
  /\ UNCHANGED <<switchVars, chat, states, old, strayed, quotaVars, identityVars>> /\ ChatBoundsKept

ChatTick ==
  /\ now < MaxNow /\ now' = now + 1 /\ UNCHANGED direct
  /\ UNCHANGED <<switchVars, chat, turns, mods, chatFaults, quotaVars, memoryVars, identityVars>>

(* A database operation or a download fails, or the cache takes no more entries:
   the handler, the addition or the extension ends.                        *)
ChatFails(h) ==
  /\ chatFaults < MaxChatFaults /\ chatFaults' = chatFaults + 1
  /\ \/ /\ chat[h].stage \in {"switch", "spoken", "voice", "quota", "count", "delta", "fill"}
        /\ Done(h) /\ UNCHANGED <<adding, extending>>
     \/ /\ adding[h].stage \in {"read", "write"}
        /\ adding' = [adding EXCEPT ![h] = NoAdd] /\ UNCHANGED <<chat, extending>>
     \/ /\ extending # NoExt /\ extending' = NoExt /\ UNCHANGED <<chat, adding>>
  /\ UNCHANGED <<now, direct, switchVars, turns, mods, quota, granted, ceiling, misread, memoryVars,
                 identity, persona, resetting, overtaken, undropped, forgotten, restored>>

(* A write is applied and its answer is lost, so that what follows it is not
   done: the chat is counted and not answered, the memory is not forgotten,
   the cache keeps what it has.                                            *)
AnswerLost(h) ==
  /\ chatFaults < MaxChatFaults /\ chatFaults' = chatFaults + 1
  /\ \/ /\ chat[h].stage = "counted" /\ Done(h)
        /\ UNCHANGED <<stopping, adding, resetting, undropped>>
     \/ /\ stopping /\ stopping' = FALSE
        /\ UNCHANGED <<chat, adding, resetting, undropped>>
     \/ /\ adding[h].stage = "del" /\ adding' = [adding EXCEPT ![h] = NoAdd]
        /\ undropped' = (persona # NoPersona) /\ UNCHANGED <<chat, stopping, resetting>>
     \/ /\ resetting /\ resetting' = FALSE
        /\ undropped' = (persona # NoPersona) /\ UNCHANGED <<chat, stopping, adding>>
  /\ UNCHANGED <<now, direct, enabled, turns, mods, quotaVars, memoryVars, identity, persona,
                 overtaken, forgotten, restored>>

(* A restart forgets what is in memory. *)
ChatCrash ==
  /\ chatFaults < MaxChatFaults /\ chatFaults' = chatFaults + 1
  /\ chat' = [h \in ChatHandlers |-> NoChat] /\ adding' = [h \in ChatHandlers |-> NoAdd]
  /\ extending' = NoExt /\ resetting' = FALSE /\ stopping' = FALSE
  /\ states' = <<>> /\ current' = NoState /\ old' = FALSE /\ spoken' = <<>> /\ strayed' = FALSE
  /\ Dropped
  /\ UNCHANGED <<now, direct, enabled, turns, mods, quota, granted, ceiling, misread,
                 identity, forgotten, restored>>

ChatNext ==
  \/ \E on \in BOOLEAN : Switch(on)
  \/ \E u \in Chatters :
       \/ ExtendRead(u) \/ \E limit \in Limits : SetLimit(u, limit)
       \/ \E h \in ChatHandlers : Say(h, u) \/ AutoChat(h, u)
  \/ \E h \in ChatHandlers :
       \/ ReadSwitch(h) \/ Download(h) \/ ReadQuota(h) \/ CountUse(h) \/ Begin(h)
       \/ ReadDelta(h) \/ FillCache(h) \/ Answer(h) \/ NoAnswer(h)
       \/ AddRead(h) \/ AddWrite(h) \/ AddDrop(h) \/ ChatFails(h) \/ AnswerLost(h)
  \/ ForgetChat \/ ExtendWrite \/ ResetWrite \/ ResetDrop \/ PersonaExpires \/ Hour \/ Gc \/ ChatTick \/ ChatCrash

ChatSpec == ChatInit /\ [][ChatNext]_chatVars

-----------------------------------------------------------------------------
(***************************************************************************)
(* Properties                                                              *)
(***************************************************************************)

(* consumeChatQuota and extendChatQuota read and then write.  Unless two of
   them overlapped in this period, the stored count is the number of chats that
   passed, less the extensions, and no more than the limit were.  A chat whose
   count was written and whose answer was lost has passed, and is not answered. *)
QuotaHolds ==
  \A u \in Chatters : misread[u] \/ (quota[u].used = granted[u] /\ granted[u] <= ceiling[u])

(* Chats that answer at the same time share one memory object: the recent turns
   are the last ones answered, whoever began first, unless the memory was
   dropped while a chat held it.                                           *)
TurnsKept ==
  current # NoState /\ ~strayed => states[current] = CapFifo(spoken, RecentTurnCap)

(* What the cache says of the group is what is stored, but between a write and
   the drop that follows it, or when a fill was overtaken, or when the answer to
   the write was lost and the drop with it, until the entry expires, is dropped
   or is filled again.                                                     *)
PersonaAgrees ==
  persona \in {NoPersona, identity} \/ overtaken \/ undropped \/ resetting
    \/ \E h \in ChatHandlers : adding[h].stage = "del"

(* "Mod panic button: clears all accumulated deltas": what a reset removed is
   not learnt again, unless an addition had read it before.                *)
ResetSticks == restored \/ Range(identity) \cap forgotten = {}

(* The chatAI and the identity of a group are not lost or brought back by chats
   that answer together: the model is given the last turns, the stored persona
   and nothing that was reset, but for the races named above.              *)
MemoryHolds == TurnsKept /\ PersonaAgrees /\ ResetSticks

(* "Atomic per-user quota gate": no more chats are let through in a period than
   its highest limit.                                                      *)
GateIsAtomic == \A u \in Chatters : granted[u] <= ceiling[u]
=============================================================================
