------------------------------- MODULE Inbound ------------------------------
(***************************************************************************)
(* What RuntimeClient makes of the messages WhatsApp delivers: the bot's   *)
(* own are recognised by the ids it noted when it sent them, the ones of   *)
(* its operator's phone are held to a burst limit, the rest is kept in a   *)
(* cache and handed to the pipeline once its group's metadata is there.    *)
(* Beside it, the moderators, whose addresses are resolved when the        *)
(* connection opens.                                                       *)
(*                                                                         *)
(* WhatsApp is external: it delivers a message once or twice, in batches,  *)
(* and the echo of what the bot sends at any time after it accepted it.    *)
(* View-once copies, contacts and calls decide nothing here.               *)
(***************************************************************************)
EXTENDS Integers, SequencesExt, FiniteSetsExt

CONSTANTS
  Others,       \* messages of other people
  Phone,        \* messages sent from the bot's own phone
  Old,          \* those among them that are older than 60 s
  Replies,      \* messages the bot may send
  MaxKeys,      \* the size of messageCache: 1000
  BurstLimit,   \* LOOP_BURST_LIMIT
  Window,       \* LOOP_BURST_WINDOW_MS
  MaxSeconds,   \* bound: time
  ConfigMods,   \* config.mods, in order
  MaxResolves   \* bound: times the connection opens

ASSUME InboundAssumption ==
  /\ Others \cap Phone = {} /\ Replies \cap (Others \cup Phone) = {} /\ Old \subseteq Phone
  /\ MaxKeys \in Nat \ {0}
  /\ ConfigMods \in Seq(STRING)
  /\ BurstLimit \in Nat \ {0} /\ Window \in Nat \ {0} /\ MaxSeconds \in Nat /\ MaxResolves \in Nat

Ids   == Others \cup Phone \cup Replies
Mine  == Phone \cup Replies
Forms == {ConfigMods[i] : i \in DOMAIN ConfigMods} \X {"pn", "lid"}

VARIABLES
  toCome,        \* toCome[i]: deliveries WhatsApp has left to make
  sent,          \* sent[r]: no, accepted by WhatsApp, noted
  owed,          \* replies the pipeline is going to send
  sentByBot, messageCache,
  commandBurst,  \* times of the phone's messages (one chat)
  simplifying,   \* simplifying[i]: deliveries waiting for metadata
  emitted,       \* ghost: emitted[i]: times handed to the pipeline
  came,          \* ghost: came[i]: deliveries made
  excused,       \* ghost: replies whose echo the bot could not know, or met twice
  filled,        \* ghost: messageCache was full
  seconds,
  modJids,
  resolves,      \* the runs of resolveMods: the place each is at
  opened, unmapped   \* times opened; ghost: moderators whose LID was not found

inVars  == <<toCome, sent, owed, sentByBot, messageCache, commandBurst, simplifying, emitted, came,
             excused, filled, seconds>>
modVars == <<modJids, resolves, opened, unmapped>>
inboundVars == <<inVars, modVars>>

InboundTypeOK ==
  /\ toCome \in [Ids -> 0..2] /\ sent \in [Replies -> {"no", "accepted", "noted"}] /\ owed \in Nat
  /\ sentByBot \subseteq Replies
  /\ messageCache \subseteq Ids /\ Cardinality(messageCache) <= MaxKeys
  /\ Len(commandBurst) <= BurstLimit
  /\ simplifying \in [Ids -> 0..2] /\ emitted \in [Ids -> 0..2] /\ came \in [Ids -> 0..2]
  /\ modJids \subseteq Forms /\ \A r \in resolves : r.at \in 1 .. Len(ConfigMods)

InboundInit ==
  /\ toCome \in [Ids -> 0..2] /\ \A i \in Ids : toCome[i] = 0 <=> i \in Replies
  /\ sent = [r \in Replies |-> "no"] /\ owed = 0 /\ sentByBot = {} /\ messageCache = {}
  /\ commandBurst = <<>> /\ simplifying = [i \in Ids |-> 0] /\ emitted = [i \in Ids |-> 0]
  /\ came = [i \in Ids |-> 0] /\ excused = {} /\ filled = FALSE /\ seconds = 0
  /\ modJids = {} /\ resolves = {} /\ opened = 0 /\ unmapped = {}

-----------------------------------------------------------------------------
(* handleMessagesUpsert: a batch is taken without a pause.                 *)

\* Times are noted in order: those that are over come first.
Recent(times) ==
  SubSeq(times, Cardinality({k \in DOMAIN times : seconds - times[k] >= Window}) + 1, Len(times))

\* Mutant: an echo ends the batch instead of its own turn.
Take_EchoEndsBatch(s, i) ==
  CASE s.thrown -> s
    [] ~s.thrown /\ i \in s.sent -> [s EXCEPT !.sent = @ \ {i}, !.thrown = TRUE]
    [] ~s.thrown /\ i \notin s.sent -> [s EXCEPT !.cache = @ \cup {i}, !.out[i] = @ + 1]

\* Mutant: the burst of the phone is counted and not limited.
Take_NoBurst(s, i) ==
  CASE s.thrown -> s
    [] ~s.thrown /\ i \in s.sent -> [s EXCEPT !.sent = @ \ {i}]
    [] ~s.thrown /\ i \notin s.sent /\ i \in Old -> s
    [] OTHER -> [s EXCEPT !.burst = IF i \in Mine THEN Append(Recent(@), seconds) ELSE @,
                          !.cache = @ \cup {i}, !.out[i] = @ + 1]

\* A full cache throws, and with it the rest of the batch is gone.
Take(s, i) ==
  LET times == Recent(s.burst)
      burst == IF i \in Mine THEN Append(times, seconds) ELSE s.burst
  IN  CASE s.thrown -> s
        [] ~s.thrown /\ i \in s.sent -> [s EXCEPT !.sent = @ \ {i}]
        [] ~s.thrown /\ i \notin s.sent /\ i \in Old -> s
        [] ~s.thrown /\ i \notin s.sent /\ i \in Mine \ Old /\ Len(times) >= BurstLimit ->
             [s EXCEPT !.burst = times]
        [] OTHER -> IF Cardinality(s.cache) >= MaxKeys
                    THEN [s EXCEPT !.burst = burst, !.thrown = TRUE]
                    ELSE [s EXCEPT !.burst = burst, !.cache = @ \cup {i}, !.out[i] = @ + 1]

\* One message, or two.
Batches == {<<i>> : i \in Ids} \cup {b \in Ids \X Ids : b[1] # b[2]}

MessagesUpsert(batch) ==
  LET n     == [i \in Ids |-> IF i \in Range(batch) THEN 1 ELSE 0]
      first == Take([sent |-> sentByBot, cache |-> messageCache, burst |-> commandBurst,
                     out |-> simplifying, thrown |-> FALSE], batch[1])
      s     == IF Len(batch) = 1 THEN first ELSE Take(first, batch[2])
  IN
  /\ \A i \in Ids : n[i] <= toCome[i]
  /\ toCome' = [i \in Ids |-> toCome[i] - n[i]]
  /\ came' = [i \in Ids |-> came[i] + n[i]]
  /\ sentByBot' = s.sent /\ messageCache' = s.cache /\ commandBurst' = s.burst
  /\ simplifying' = s.out
  /\ excused' = excused \cup {r \in Replies : n[r] > 0 /\ (sent[r] # "noted" \/ came[r] > 0)}
  /\ filled' = (filled \/ Cardinality(s.cache) >= MaxKeys)
  /\ UNCHANGED <<sent, owed, emitted, seconds, modVars>>

\* simplifyMessage ends, in any order, and the pipeline may answer, also what the bot said.
EmitNewMessage(i) ==
  /\ simplifying[i] > 0
  /\ simplifying' = [simplifying EXCEPT ![i] = @ - 1]
  /\ emitted' = [emitted EXCEPT ![i] = @ + 1]
  /\ owed' \in {owed, owed + 1}
  /\ UNCHANGED <<toCome, sent, sentByBot, messageCache, commandBurst, came, excused, filled, seconds, modVars>>

-----------------------------------------------------------------------------
(* sendMessage and reply.                                                  *)

Send(r) ==
  /\ owed > 0 /\ sent[r] = "no"
  /\ owed' = owed - 1 /\ sent' = [sent EXCEPT ![r] = "accepted"]
  /\ toCome' \in {[toCome EXCEPT ![r] = n] : n \in 1..2}
  /\ UNCHANGED <<sentByBot, messageCache, commandBurst, simplifying, emitted, came, excused, filled,
                 seconds, modVars>>

\* Mutant: the id of what was sent is not noted.
Noted_Not(r) == sentByBot

\* trackSent; that sentByBot holds 5000 ids at most is left out.
Noted(r) == sentByBot \cup {r}

TrackSent(r) ==
  /\ sent[r] = "accepted"
  /\ sent' = [sent EXCEPT ![r] = "noted"]
  /\ sentByBot' = Noted(r)
  /\ UNCHANGED <<toCome, owed, messageCache, commandBurst, simplifying, emitted, came, excused,
                 filled, seconds, modVars>>

\* The caches forget: messages after an hour, the ids after 120 s.
MessageExpires ==
  /\ \E i \in messageCache : messageCache' = messageCache \ {i}
  /\ UNCHANGED <<toCome, sent, owed, sentByBot, commandBurst, simplifying, emitted, came, excused,
                 filled, seconds, modVars>>

SentExpires ==
  /\ \E r \in sentByBot : sentByBot' = sentByBot \ {r} /\ excused' = excused \cup {r}
  /\ UNCHANGED <<toCome, sent, owed, messageCache, commandBurst, simplifying, emitted, came, filled,
                 seconds, modVars>>

SecondPasses ==
  /\ seconds < MaxSeconds /\ seconds' = seconds + 1
  /\ UNCHANGED <<toCome, sent, owed, sentByBot, messageCache, commandBurst, simplifying, emitted,
                 came, excused, filled, modVars>>

-----------------------------------------------------------------------------
(* resolveMods, started each time the connection opens.                    *)

ResolveMods ==
  /\ opened < MaxResolves /\ opened' = opened + 1 /\ Len(ConfigMods) > 0
  /\ modJids' = {<<ConfigMods[1], "pn">>}
  /\ resolves' = resolves \cup {[run |-> opened', at |-> 1]}
  /\ UNCHANGED <<inVars, unmapped>>

Added(lid) == modJids \cup lid

\* The LID of one moderator is found or not; the address of the next is added at once.
LidFound(r) ==
  LET m    == ConfigMods[r.at]
      last == r.at = Len(ConfigMods)
      then == IF last THEN {} ELSE {<<ConfigMods[r.at + 1], "pn">>}
  IN
  /\ \/ modJids' = Added({<<m, "lid">>} \cup then) /\ UNCHANGED unmapped
     \/ modJids' = Added(then) /\ unmapped' = unmapped \cup {m}
  /\ resolves' = (resolves \ {r}) \cup (IF last THEN {} ELSE {[r EXCEPT !.at = @ + 1]})
  /\ UNCHANGED <<inVars, opened>>

MessagesNext ==
  \/ \E b \in Batches : MessagesUpsert(b)
  \/ \E i \in Ids : EmitNewMessage(i)
  \/ \E r \in Replies : Send(r) \/ TrackSent(r)
  \/ MessageExpires \/ SentExpires \/ SecondPasses

ModsNext == ResolveMods \/ \E r \in resolves : LidFound(r)

InboundNext == MessagesNext \/ ModsNext

\* Metadata comes, or its query fails; either way the message goes on.
InboundFairness == \A i \in Ids : WF_inboundVars(EmitNewMessage(i))

InboundSpec == InboundInit /\ [][InboundNext]_inboundVars /\ InboundFairness

-----------------------------------------------------------------------------
(* Properties.                                                             *)

\* The bot never answers what it said itself, unless the echo came before the id was noted,
\* came twice, or was forgotten.
EchoIgnored == \A r \in Replies : emitted[r] + simplifying[r] > 0 => r \in excused

\* A message of somebody else reaches the pipeline, whatever comes with it, unless the cache
\* was full.
OthersAreHeard == \A i \in Others : (came[i] > 0) ~> (emitted[i] > 0 \/ filled)

\* Once no run of resolveMods is under way every moderator is known by both addresses, but for
\* those whose LID was not found.
ModsRecognised ==
  opened > 0 /\ resolves = {} =>
    \A i \in DOMAIN ConfigMods :
      /\ <<ConfigMods[i], "pn">> \in modJids
      /\ <<ConfigMods[i], "lid">> \in modJids \/ ConfigMods[i] \in unmapped

\* The bot and its moderators are known for who they are.
SendersRecognised == EchoIgnored /\ ModsRecognised
=============================================================================
