-------------------------------- MODULE Chats -------------------------------
(***************************************************************************)
(* The chats a session has observed: a Set that every message and every    *)
(* chats.upsert adds to.  The cron job clears each of them, and iterates   *)
(* the Set itself, with an await at every chat; /broadcast takes a copy of *)
(* the groups first, and sends one message for each, 1.5 s apart.  As      *)
(* M.reply is bound to the chat of the command, all of them go there.      *)
(***************************************************************************)
EXTENDS Integers, Sequences, FiniteSets, Functions

CONSTANTS
  GroupChats, DirectChats,
  Sweeps,            \* runs of the cron job that may be in flight together
  MaxBroadcasts,    \* bound
  MaxChatsLost      \* bound: calls to WhatsApp that fail, and restarts

ChatIds == GroupChats \cup DirectChats
ASSUME ChatsAssumption ==
  IsFiniteSet(GroupChats) /\ GroupChats \cap DirectChats = {} /\ MaxBroadcasts \in Nat /\ MaxChatsLost \in Nat

NoSweep == [at |-> "idle", next |-> 1, reached |-> {}]
NoCast  == [at |-> "idle", groups |-> 0, left |-> 0, sent |-> 0, failed |-> 0, heard |-> 0]

VARIABLES
  observed,    \* the Set, in the order of insertion
  sweep,       \* modifyAllChats("clear"): where it is; reached, a ghost
  cast,        \* a /broadcast: groups to go; heard, a ghost: copies in the command's chat
  casts, chatsLost,
  passedBy,      \* ghost: a status 200 though an observed chat was not cleared
  misreported  \* ghost: a report that was not true

chatsVars == <<observed, sweep, cast, casts, chatsLost, passedBy, misreported>>

ChatsTypeOK ==
  /\ observed \in Seq(ChatIds) /\ IsInjective(observed)
  /\ sweep \in [Sweeps -> [at : {"idle", "clearing"}, next : 1 .. Len(observed) + 1,
                          reached : SUBSET ChatIds]]
  /\ cast \in [at : {"idle", "sending"}, groups : 0 .. Cardinality(GroupChats), left : Nat, sent : Nat,
               failed : Nat, heard : Nat]
  /\ {cast.left, cast.sent, cast.failed, cast.heard} \subseteq 0 .. cast.groups

ChatsInit ==
  /\ observed = <<>> /\ sweep = [j \in Sweeps |-> NoSweep] /\ cast = NoCast
  /\ casts = 0 /\ chatsLost = 0 /\ passedBy = FALSE /\ misreported = FALSE

-----------------------------------------------------------------------------
Observe(c) ==
  /\ c \notin Range(observed) /\ observed' = Append(observed, c)
  /\ UNCHANGED <<sweep, cast, casts, chatsLost, passedBy, misreported>>

StartSweep(j) ==
  /\ sweep[j].at = "idle" /\ sweep' = [sweep EXCEPT ![j].at = "clearing"]
  /\ UNCHANGED <<observed, cast, casts, chatsLost, passedBy, misreported>>

ClearChat(j) ==
  LET s == sweep[j] IN
  /\ s.at = "clearing" /\ s.next <= Len(observed)
  /\ sweep' = [sweep EXCEPT ![j] = [s EXCEPT !.next = @ + 1, !.reached = @ \cup {observed[s.next]}]]
  /\ UNCHANGED <<observed, cast, casts, chatsLost, passedBy, misreported>>

\* Mutant: a chat that is observed meanwhile is not waited for.
Over_OneShort(s) == s.next >= Len(observed)

Over(s) == s.next > Len(observed)

EndSweep(j) ==
  /\ sweep[j].at = "clearing" /\ Over(sweep[j])
  /\ passedBy' = (passedBy \/ Range(observed) # sweep[j].reached)
  /\ sweep' = [sweep EXCEPT ![j] = NoSweep]
  /\ UNCHANGED <<observed, cast, casts, chatsLost, misreported>>

\* chatModify throws: status 500, and the chats after this one are not cleared.
SweepFails(j) ==
  /\ sweep[j].at = "clearing" /\ sweep[j].next <= Len(observed)
  /\ chatsLost < MaxChatsLost /\ chatsLost' = chatsLost + 1
  /\ sweep' = [sweep EXCEPT ![j] = NoSweep]
  /\ UNCHANGED <<observed, cast, casts, passedBy, misreported>>

-----------------------------------------------------------------------------
\* A copy of the groups observed by now; without any there is nothing to send.
Broadcast ==
  LET n == Cardinality(Range(observed) \cap GroupChats) IN
  /\ cast.at = "idle" /\ casts < MaxBroadcasts /\ casts' = casts + 1
  /\ cast' = IF n = 0 THEN NoCast ELSE [NoCast EXCEPT !.at = "sending", !.groups = n, !.left = n]
  /\ UNCHANGED <<observed, sweep, chatsLost, passedBy, misreported>>

Counted(b, ok) == [b EXCEPT !.left = @ - 1, !.sent = IF ok THEN @ + 1 ELSE @,
                            !.failed = IF ok THEN @ ELSE @ + 1]

SendCopy ==
  /\ cast.at = "sending" /\ cast.left > 0
  /\ cast' = [Counted(cast, TRUE) EXCEPT !.heard = @ + 1]
  /\ UNCHANGED <<observed, sweep, casts, chatsLost, passedBy, misreported>>

\* The call fails, or its answer is lost and the copy is there.
CopyFails ==
  /\ cast.at = "sending" /\ cast.left > 0
  /\ chatsLost < MaxChatsLost /\ chatsLost' = chatsLost + 1
  /\ \E there \in {0, 1} : cast' = [Counted(cast, FALSE) EXCEPT !.heard = @ + there]
  /\ UNCHANGED <<observed, sweep, casts, passedBy, misreported>>

\* What "Sent" says in the report.
Reported(b) == b.sent

\* The report; that it may fail itself changes nothing.
Report ==
  /\ cast.at = "sending" /\ cast.left = 0
  /\ misreported' = (misreported \/ cast.heard \notin Reported(cast) .. Reported(cast) + cast.failed
                     \/ Reported(cast) + cast.failed # cast.groups)
  /\ cast' = NoCast
  /\ UNCHANGED <<observed, sweep, casts, chatsLost, passedBy>>

-----------------------------------------------------------------------------
\* The Set is in memory only.
RestartChats ==
  /\ chatsLost < MaxChatsLost /\ chatsLost' = chatsLost + 1
  /\ observed' = <<>> /\ sweep' = [j \in Sweeps |-> NoSweep] /\ cast' = NoCast
  /\ UNCHANGED <<casts, passedBy, misreported>>

ChatsNext ==
  \/ \E c \in ChatIds : Observe(c)
  \/ \E j \in Sweeps : StartSweep(j) \/ ClearChat(j) \/ EndSweep(j) \/ SweepFails(j)
  \/ Broadcast \/ SendCopy \/ CopyFails \/ Report \/ RestartChats

\* "clear" that answers 200 has cleared every chat observed until then, those observed while it
\* ran too, and the numbers of a broadcast's report are those of the groups observed when it
\* was asked for, and of the copies in the chat it was asked in.
ChatsHold == ~passedBy /\ ~misreported
=============================================================================
