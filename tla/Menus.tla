-------------------------------- MODULE Menus --------------------------------
(***************************************************************************)
(* MenuManager and the commands that show menus: the stack of menu         *)
(* sessions of a user, the replies that select in it, and the media        *)
(* preferences that a selection may leave in the database.                 *)
(*                                                                         *)
(* Users share nothing here: the module is about one.  Every message has a *)
(* handler, and a handler runs alone between two awaits: the stack is in   *)
(* memory and is read and changed without one, while the preferences are   *)
(* read and written, and menus are sent, across one.                       *)
(*                                                                         *)
(* A session and the message that shows it are both named by the number of *)
(* the message that asked for the menu; the stack is the set of its        *)
(* sessions, each with its place in the order they were set.  What is      *)
(* downloaded, what the quiz scores, and the limit of 2000 users in the    *)
(* cache are left out.  So are the words after /media and /mediareset,     *)
(* which neither command gets to see: M.args[0] is the command itself.     *)
(* /media always shows its menu, and /mediareset changes nothing.          *)
(***************************************************************************)
EXTENDS Integers, FiniteSetsExt

CONSTANTS
  Formats,       \* the media commands that clear their own menu: play, ytvideo ...
  Chats,         \* where the user writes
  Modes,         \* how media is sent: audio, video, document
  Used,          \* the commands that are sent in this instance
  Handlers,      \* message handlers that may be in flight together
  MaxMessages,   \* bound: messages received in one behaviour
  MaxFails,      \* bound: replies and database operations that fail
  MaxCrashes     \* bound: crashes of the process

Commands == Formats \cup {"spotify", "quiz", "media"}

ASSUME MenusAssumption ==
  /\ Formats \cap {"spotify", "quiz", "media"} = {} /\ Used \subseteq Commands
  /\ MaxMessages \in Nat /\ MaxFails \in Nat /\ MaxCrashes \in Nat

Savers == Formats \cup {"spotify"}      \* the commands that know preferences
Steps  == {"format", "playlistDelivery", "question", "selection"}
Unset  == "unset"                       \* no mode is preferred
Ids    == 1 .. MaxMessages
NoId   == 0                             \* no message, no quote

(* The menus a command can show. *)
StepsOf(cmd) == CASE cmd \in Formats   -> {"format"}
                  [] cmd = "spotify"   -> {"format", "playlistDelivery"}
                  [] cmd = "quiz"      -> {"question"}
                  [] cmd = "media"     -> {"selection"}

Sessions == [cmd : Commands, step : Steps, chat : Chats, menu : Ids, botMsgId : Ids \cup {NoId},
             since : Nat]       \* sessions are ordered by when they were set
Prefs    == [Savers -> Modes \cup {Unset}]
NoPrefs  == [c \in Savers |-> Unset]
NoSession == [cmd |-> "none"]

VARIABLES
  stack,      \* the user's menu sessions
  preferred,  \* the stored mediaPreference
  prefs,      \* the stored mediaPreferences, per command
  stage,      \* stage[h]: the await the handler is at
  task,       \* task[h]: the session it shows or has selected in
  mode,       \* mode[h]: the mode that was selected
  got,        \* got[h]: the preferences it read
  received, fails, crashes,
  shown,      \* ghost: the menus that were put on the stack
  answers,    \* answers[m]: ghost, how often menu m was answered
  always,     \* ghost: the menus that were answered "always"
  crossed,    \* ghost: menus shown while another one of the command was on its way
  gone,       \* ghost: menus that were off the stack before their message had an id
  unsent,     \* ghost: menus whose message was not sent, as far as is known
  chosen,     \* ghost: the preferences the user was told of
  raced       \* ghost: preferences were written over others that came in between

memory == <<stack, stage, task, mode, got>>
stored == <<preferred, prefs>>
ghosts == <<shown, answers, always, crossed, gone, unsent, chosen, raced>>
vars   == <<memory, stored, ghosts, received, fails, crashes>>

Stages == {"idle", "asked", "sending", "reading", "writing", "global", "checking", "unsetting"}

TypeOK ==
  /\ stack \subseteq Sessions
  /\ preferred \in Modes \cup {Unset} /\ prefs \in Prefs
  /\ stage \in [Handlers -> Stages]
  /\ task \in [Handlers -> Sessions \cup {NoSession}]
  /\ \A h \in Handlers : stage[h] # "idle" => task[h] \in Sessions
  /\ mode \in [Handlers -> Modes \cup {Unset}] /\ got \in [Handlers -> Prefs]
  /\ received \in 0 .. MaxMessages /\ fails \in 0 .. MaxFails /\ crashes \in 0 .. MaxCrashes
  /\ answers \in [Ids -> Nat]
  /\ {shown, always, crossed, gone, unsent} \subseteq SUBSET Ids
  /\ chosen \in Prefs /\ raced \in BOOLEAN

Init ==
  /\ stack = {} /\ preferred \in Modes \cup {Unset} /\ prefs \in Prefs
  /\ stage = [h \in Handlers |-> "idle"]
  /\ task = [h \in Handlers |-> NoSession]
  /\ mode = [h \in Handlers |-> Unset]
  /\ got = [h \in Handlers |-> NoPrefs]
  /\ received = 0 /\ fails = 0 /\ crashes = 0
  /\ shown = {} /\ answers = [m \in Ids |-> 0] /\ always = {}
  /\ crossed = {} /\ gone = {} /\ unsent = {}
  /\ chosen = prefs /\ raced = FALSE

-----------------------------------------------------------------------------
Newest(sessions) == {s \in sessions : \A t \in sessions : t.since <= s.since}

(* MenuManager.set: one session per command and step, the new one on top. *)
Pushed(session) ==
  {s \in stack : s.cmd # session.cmd \/ s.step # session.step}
    \cup {[session EXCEPT !.since = 1 + Max({0} \cup {s.since : s \in stack})]}

(* MenuManager.clear of one step of a command, of a command, of everything. *)
ClearedStep(cmd, step) == {s \in stack : s.cmd # cmd \/ s.step # step}
Cleared(cmd)           == {s \in stack : s.cmd # cmd}

(* Mutant: the message is linked to the newest session of any command. *)
Linked_ToNewest(cmd, id) ==
  {IF s \in Newest(stack) THEN [s EXCEPT !.botMsgId = id] ELSE s : s \in stack}

(* MenuManager.addId: the newest session of the command gets the message. *)
Linked(cmd, id) ==
  LET newest == Newest({s \in stack : s.cmd = cmd})
  IN  {IF s \in newest THEN [s EXCEPT !.botMsgId = id] ELSE s : s \in stack}

(* handleReply: the session that shows in the quoted message, or else the
   newest one of the chat, if any.                                         *)
Selection(quoted, chat) ==
  LET anchors == Newest({s \in stack : quoted # NoId /\ s.botMsgId = quoted})
  IN  IF anchors # {} THEN anchors ELSE Newest({s \in stack : s.chat = chat})

Forget(h) ==
  /\ task' = [task EXCEPT ![h] = NoSession]
  /\ mode' = [mode EXCEPT ![h] = Unset]
  /\ got' = [got EXCEPT ![h] = NoPrefs]

GoTo(h, next) == stage' = [stage EXCEPT ![h] = next]
Finish(h)     == GoTo(h, "idle") /\ Forget(h)

Receive(h) ==
  /\ stage[h] = "idle" /\ received < MaxMessages
  /\ received' = received + 1
  /\ UNCHANGED <<fails, crashes>>

(* A command that shows a menu.  A format menu is not needed by a user who
   prefers a mode: getPreference reads.                                    *)
Ask(h, cmd, step, chat) ==
  /\ Receive(h) /\ GoTo(h, "asked")
  /\ task' = [task EXCEPT ![h] = [cmd |-> cmd, step |-> step, chat |-> chat,
                                  menu |-> received', botMsgId |-> NoId, since |-> 0]]
  /\ mode' = [mode EXCEPT ![h] = IF step = "format" THEN prefs[cmd] ELSE Unset]
  /\ UNCHANGED <<stack, got, stored, ghosts>>

OnTheirWay(cmd) == {g \in Handlers : stage[g] = "sending" /\ task[g].cmd = cmd}

Show(h) ==
  /\ stage[h] = "asked"
  /\ IF mode[h] # Unset
     THEN Finish(h) /\ UNCHANGED <<stack, shown, crossed>>
     ELSE /\ stack' = Pushed(task[h])
          /\ GoTo(h, "sending") /\ UNCHANGED <<task, mode, got>>
          /\ shown' = shown \cup {task[h].menu}
          /\ crossed' = crossed \cup {task[g].menu : g \in OnTheirWay(task[h].cmd)}
  /\ UNCHANGED <<stored, answers, always, gone, unsent, chosen, raced, received, fails, crashes>>

(* The menu is sent, and its message has an id. *)
Sent(h) ==
  /\ stage[h] = "sending"
  /\ stack' = Linked(task[h].cmd, task[h].menu)
  /\ gone' = IF \E s \in stack : s.menu = task[h].menu
             THEN gone ELSE gone \cup {task[h].menu}
  /\ Finish(h)
  /\ UNCHANGED <<stored, shown, answers, always, crossed, unsent, chosen, raced,
                 received, fails, crashes>>

(* The reply fails: the session stays, without a message. *)
SendFails(h) ==
  /\ stage[h] = "sending" /\ fails < MaxFails
  /\ fails' = fails + 1
  /\ unsent' = unsent \cup {task[h].menu}
  /\ Finish(h)
  /\ UNCHANGED <<stack, stored, shown, answers, always, crossed, gone, chosen, raced, received, crashes>>

(* getAll leaves out the sessions that are ten minutes old: the last one is
   the oldest.                                                             *)
Expire ==
  /\ stack # {}
  /\ stack' = {s \in stack : \E t \in stack : t.since < s.since}
  /\ UNCHANGED <<stage, task, mode, got, stored, ghosts, received, fails, crashes>>

-----------------------------------------------------------------------------
Quotes == {NoId} \cup shown

Counted(m) == answers' = [answers EXCEPT ![m] = @ + 1]

(* A reply that selects and is done with the stack before its first await. *)
AtOnce(h) ==
  /\ Receive(h)
  /\ UNCHANGED <<stage, task, mode, got, stored, shown, always, crossed, gone, unsent, chosen, raced>>

Cancel(h, s) ==
  /\ AtOnce(h)
  /\ stack' = ClearedStep(s.cmd, s.step)
  /\ UNCHANGED answers

(* Formats clear the menus of their command, the others clear them all. *)
After(cmd) == IF cmd \in Formats THEN Cleared(cmd) ELSE {}

(* Mutant: a format menu is not cleared when it is answered. *)
AnswerOnce_Kept(h, s) ==
  /\ AtOnce(h) /\ s.cmd # "media"
  /\ stack' = IF s.cmd \in Formats THEN stack ELSE {}
  /\ Counted(s.menu)

(* The media is sent, or the question is answered. *)
AnswerOnce(h, s) ==
  /\ AtOnce(h) /\ s.cmd # "media"
  /\ stack' = After(s.cmd)
  /\ Counted(s.menu)

(* /media clears its menu whatever the number. *)
AnswerWrongly(h, s) ==
  /\ AtOnce(h) /\ s.cmd = "media"
  /\ stack' = {}
  /\ UNCHANGED answers

(* "Always send as ...": the preference is saved first, the menu stays until
   it is.                                                                  *)
AnswerAlways(h, s, m) ==
  /\ Receive(h) /\ s.step = "format"
  /\ GoTo(h, "reading")
  /\ task' = [task EXCEPT ![h] = s] /\ mode' = [mode EXCEPT ![h] = m]
  /\ always' = always \cup {s.menu}
  /\ UNCHANGED <<stack, got, stored, shown, answers, crossed, gone, unsent, chosen, raced>>

ReadPrefs(h) ==
  /\ stage[h] = "reading"
  /\ got' = [got EXCEPT ![h] = prefs]
  /\ GoTo(h, "writing")
  /\ UNCHANGED <<stack, task, mode, stored, ghosts, received, fails, crashes>>

(* Mutant: the other preferences are not written back. *)
Merged_Alone(h) == [NoPrefs EXCEPT ![task[h].cmd] = mode[h]]

(* All preferences are one string: what was read is written back. *)
Merged(h) == [got[h] EXCEPT ![task[h].cmd] = mode[h]]

Save(h) ==
  /\ prefs' = Merged(h)
  /\ chosen' = [chosen EXCEPT ![task[h].cmd] = mode[h]]
  /\ raced' = (raced \/ got[h] # prefs)

(* Saved: the menus are cleared, those that came meanwhile too, and the media
   is sent.                                                                *)
WritePrefs(h) ==
  /\ stage[h] = "writing"
  /\ Save(h)
  /\ stack' = After(task[h].cmd)
  /\ Counted(task[h].menu)
  /\ Finish(h)
  /\ UNCHANGED <<preferred, shown, always, crossed, gone, unsent, received, fails, crashes>>

(* A selection in the menu of /media: a mode for all media, or the default. *)
AnswerMedia(h, s, m) ==
  /\ Receive(h) /\ s.cmd = "media"
  /\ stack' = {}
  /\ GoTo(h, "global")
  /\ task' = [task EXCEPT ![h] = s] /\ mode' = [mode EXCEPT ![h] = m]
  /\ Counted(s.menu)
  /\ UNCHANGED <<got, stored, shown, always, crossed, gone, unsent, chosen, raced>>

SetGlobal(h) ==
  /\ stage[h] = "global"
  /\ preferred' = mode[h]
  /\ GoTo(h, "checking")
  /\ UNCHANGED <<stack, task, mode, got, prefs, ghosts, received, fails, crashes>>

(* "Clear all per-command preferences so the global preference takes effect". *)
CheckPrefs(h) ==
  /\ stage[h] = "checking"
  /\ IF prefs = NoPrefs
     THEN Finish(h) /\ chosen' = NoPrefs
     ELSE GoTo(h, "unsetting") /\ UNCHANGED <<task, mode, got, chosen>>
  /\ UNCHANGED <<stack, stored, shown, answers, always, crossed, gone, unsent, raced,
                 received, fails, crashes>>

(* Mutant: with nothing stored there are no preferences, not even unset ones. *)
UnsetPrefs_Empty(h) ==
  /\ stage[h] = "unsetting"
  /\ prefs' = <<>> /\ chosen' = NoPrefs
  /\ Finish(h)
  /\ UNCHANGED <<stack, preferred, shown, answers, always, crossed, gone, unsent, raced,
                 received, fails, crashes>>

UnsetPrefs(h) ==
  /\ stage[h] = "unsetting"
  /\ prefs' = NoPrefs /\ chosen' = NoPrefs
  /\ Finish(h)
  /\ UNCHANGED <<stack, preferred, shown, answers, always, crossed, gone, unsent, raced,
                 received, fails, crashes>>

(* A database operation throws; a write of the preferences may have been
   applied, and then the menu is still there.                              *)
StoreFails(h) ==
  /\ stage[h] \in {"reading", "writing", "global", "checking", "unsetting"}
  /\ fails < MaxFails /\ fails' = fails + 1
  /\ \/ UNCHANGED <<prefs, chosen, raced>>
     \/ stage[h] = "writing" /\ Save(h)
  /\ Finish(h)
  /\ UNCHANGED <<stack, preferred, shown, answers, always, crossed, gone, unsent, received, crashes>>

(* The process restarts: the stack is gone, the preferences are not. *)
Crash ==
  /\ crashes < MaxCrashes /\ crashes' = crashes + 1
  /\ stack' = {}
  /\ stage' = [h \in Handlers |-> "idle"]
  /\ task' = [h \in Handlers |-> NoSession]
  /\ mode' = [h \in Handlers |-> Unset]
  /\ got' = [h \in Handlers |-> NoPrefs]
  /\ UNCHANGED <<stored, ghosts, received, fails>>

Next ==
  \/ \E h \in Handlers :
       \/ \E cmd \in Used, chat \in Chats : \E step \in StepsOf(cmd) : Ask(h, cmd, step, chat)
       \/ \E quoted \in Quotes, chat \in Chats : \E s \in Selection(quoted, chat) :
            \/ Cancel(h, s) \/ AnswerOnce(h, s) \/ AnswerWrongly(h, s)
            \/ \E m \in Modes : AnswerAlways(h, s, m)
            \/ \E m \in Modes \cup {Unset} : AnswerMedia(h, s, m)
       \/ Show(h) \/ Sent(h) \/ SendFails(h)
       \/ ReadPrefs(h) \/ WritePrefs(h)
       \/ SetGlobal(h) \/ CheckPrefs(h) \/ UnsetPrefs(h) \/ StoreFails(h)
  \/ Expire \/ Crash

Spec == Init /\ [][Next]_vars

-----------------------------------------------------------------------------
(***************************************************************************)
(* Properties                                                              *)
(***************************************************************************)

(* MenuManager: "Link to the specific message sent by the bot".  A reply that
   quotes a menu which is on the stack selects in that menu, and in no other.
   One that quotes a menu which is off the stack (answered, cancelled, replaced,
   cleared with others, ten minutes old) is as good as one that quotes nothing:
   it selects in the newest menu of the chat, which may be any command's.  Left
   out are menus without a message yet, or whose message was not sent, and
   those whose link went astray: a menu of the same command was shown while
   the quoted one had no message yet, or it was off the stack by then.       *)
QuoteSelectsItsMenu ==
  \A q \in shown \ (crossed \cup gone \cup unsent), chat \in Chats :
    LET own == {s \in stack : s.menu = q}
    IN  \/ \E h \in Handlers : stage[h] = "sending" /\ task[h].menu = q
        \/ \E s \in own : s.botMsgId \in crossed \cup gone
        \/ Selection(q, chat) = IF own # {} THEN own ELSE Selection(NoId, chat)

(* One menu sends its media, or scores its question, once: two replies in
   flight and a fallback to an older session do not answer it again, unless
   one of them is to save a preference first.                              *)
AnsweredOnce == \A m \in Ids \ always : answers[m] <= 1

(* What /media and the "always" answers told the user is what is stored,
   whatever failed or crashed, unless one saved preferences it had read before
   another one wrote.                                                      *)
PrefsAsChosen == raced \/ prefs = chosen
=============================================================================
