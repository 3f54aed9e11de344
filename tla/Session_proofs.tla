---------------------------- MODULE Session_proofs --------------------------
(***************************************************************************)
(* Theorems about what outlives a connection, for any number of keys,      *)
(* secrets, pairings, captures, prunes and readers: the keys a session     *)
(* reads are its own, and as it left them (KeyStore), and a stored snapshot *)
(* is served whole for as long as it is due (ViewOnce).                    *)
(***************************************************************************)
EXTENDS MCSession, Connection_proofs

-----------------------------------------------------------------------------
(* ViewOnce: types.                                                        *)

Texts == {"absent", "part", "whole"}
Todos == {<<>>, <<"json">>, <<"bin", "json">>}
Steps == {"free", "download", "bin", "binPart", "json", "jsonPart"}

Reading == [busy : BOOLEAN, bin : Texts \cup {"unread"}, json : Texts \cup {"unread"}, due : BOOLEAN]

ViewTypes ==
  /\ disk \in [Files -> [text : Texts, mtime : Nat]]
  /\ \A f \in Files : disk[f].mtime <= ticks
  /\ capture \in [Captures -> Steps]
  /\ prune \in [Pruners -> [todo : Todos, old : Files \cup {"none"}, cutoff : Int]]
  /\ read \in [Readers -> Reading]
  /\ ticks \in Nat /\ stored \in Int /\ -1 <= stored /\ stored <= ticks

LEMMA CapturesTyped ==
  ASSUME ViewTypes, NEW c \in Captures,
         Deliver(c) \/ DownloadForCapture(c) \/ WriteBin(c) \/ BinWritten(c) \/ WriteMeta(c)
           \/ MetaWritten(c) \/ CaptureFails(c)
  PROVE  ViewTypes'
<1> USE DEF ViewTypes, CaptureUnchanged
<1>1. CASE Deliver(c) \/ DownloadForCapture(c) \/ CaptureFails(c)
  BY <1>1 DEF Deliver, DownloadForCapture, CaptureFails, Steps
<1>2. ASSUME NEW f \in Files, NEW next \in Steps, Starts(c, f, next) PROVE ViewTypes'
  BY <1>2 DEF Starts, Texts
<1>3. CASE WriteBin(c) \/ WriteMeta(c)
  BY <1>2, <1>3 DEF WriteBin, WriteMeta, Files, Steps
<1>4. ASSUME NEW f \in Files
      PROVE  /\ Completed(f) \in [Files -> [text : Texts, mtime : Nat]]
             /\ \A g \in Files : Completed(f)[g].mtime <= ticks
  BY DEF Completed, Texts
<1>5. CASE BinWritten(c)
  BY <1>4, <1>5 DEF BinWritten, Files, Steps
<1>6. CASE MetaWritten(c)
  <2>1. "bin" \in Files /\ "json" \in Files
    BY DEF Files
  <2> QED BY <1>4, <1>6, <2>1 DEF MetaWritten, Steps
<1> QED BY <1>1, <1>3, <1>5, <1>6

LEMMA ReadersTyped ==
  ASSUME ViewTypes, NEW r \in Readers,
         Retrieve(r) \/ ReadFile(r, "bin") \/ ReadFile(r, "json") \/ Serve(r)
  PROVE  ViewTypes'
<1> USE DEF ViewTypes, ReadUnchanged
<1>1. CASE Retrieve(r)
  <2>1. Due \in BOOLEAN
    BY DEF Due
  <2> DEFINE new == [busy |-> TRUE, bin |-> "unread", json |-> "unread", due |-> Due]
  <2>3. new \in Reading
    BY <2>1 DEF Reading
  <2>4. read' = [read EXCEPT ![r] = new]
    BY <1>1 DEF Retrieve
  <2> HIDE DEF new
  <2> QED BY <1>1, <2>3, <2>4 DEF Retrieve
<1>2. ASSUME NEW f \in Files, ReadFile(r, f) PROVE ViewTypes'
  <2>1. read[r] \in Reading /\ disk[f].text \in Texts /\ (f = "bin" \/ f = "json")
    BY DEF Files
  <2>2. [read[r] EXCEPT ![f] = disk[f].text] \in Reading
    BY <2>1 DEF Reading
  <2>3. read' \in [Readers -> Reading]
    BY <1>2, <2>2 DEF ReadFile
  <2> QED BY <1>2, <2>3 DEF ReadFile
<1>3. CASE Serve(r)
  <2>1. NotReading \in Reading
    BY DEF NotReading, Reading
  <2> QED BY <1>3, <2>1 DEF Serve
<1> QED BY <1>1, <1>2, <1>3 DEF Files

LEMMA ViewTyped ==
  ASSUME ViewTypes, [ViewOnceNext]_viewVars
  PROVE  ViewTypes'
<1>1. ASSUME NEW p \in Pruners, BeginPrune(p) \/ Stat(p) \/ Unlink(p) \/ EndPrune(p)
      PROVE  ViewTypes'
  <2> USE DEF ViewTypes, PruneUnchanged
  <2>1. CASE BeginPrune(p) \/ EndPrune(p)
    <3>1. /\ UNCHANGED <<disk, capture, read, ticks, stored>>
          /\ \/ prune' = [prune EXCEPT ![p] = PruneFrom(ticks - Ttl)]
             \/ prune' = [prune EXCEPT ![p] = NotPruning]
      BY <2>1 DEF BeginPrune, EndPrune
    <3>2. ticks - Ttl \in Int
      BY ViewOnceAssumption
    <3>3. /\ NotPruning \in [todo : Todos, old : Files \cup {"none"}, cutoff : Int]
          /\ PruneFrom(ticks - Ttl) \in [todo : Todos, old : Files \cup {"none"}, cutoff : Int]
      BY <3>2 DEF NotPruning, PruneFrom, Todos
    <3> QED BY <3>1, <3>3
  <2>2. CASE Stat(p)
    <3>1. prune[p].todo \in Todos /\ prune[p].todo # <<>>
      BY <2>2 DEF Stat
    <3>2. Head(prune[p].todo) \in Files /\ Tail(prune[p].todo) \in Todos
      <4>1. /\ Head(<<"json">>) = "json" /\ Tail(<<"json">>) = <<>>
            /\ Head(<<"bin", "json">>) = "bin" /\ Tail(<<"bin", "json">>) = <<"json">>
        OBVIOUS
      <4>2. prune[p].todo = <<"json">> \/ prune[p].todo = <<"bin", "json">>
        BY <3>1 DEF Todos
      <4> QED BY <4>1, <4>2 DEF Todos, Files
    <3> QED BY <2>2, <3>2 DEF Stat
  <2>3. CASE Unlink(p)
    BY <2>3 DEF Unlink, Absent, Texts
  <2> QED BY <1>1, <2>1, <2>2, <2>3
<1>2. ASSUME NEW r \in Readers,
             Retrieve(r) \/ ReadFile(r, "bin") \/ ReadFile(r, "json") \/ Serve(r)
      PROVE  ViewTypes'
  BY <1>2, ReadersTyped
<1>3. CASE ViewOnceTick \/ CdnForgets \/ UNCHANGED viewVars
  BY <1>3 DEF ViewOnceTick, CdnForgets, viewVars, ViewTypes
<1> QED BY CapturesTyped, <1>1, <1>2, <1>3 DEF ViewOnceNext

-----------------------------------------------------------------------------
(* ViewOnce: the invariant.                                                *)

Intact == ~failed /\ ~rewritten

\* No write lasts longer than a tick.
WritesBrief == ~failed => \A f \in Files : disk[f].text = "part" => disk[f].mtime + 1 >= ticks

\* What a prune found old it unlinks, or it is gone.
OldIsStale ==
  Intact => \A p \in Pruners : \A f \in Files :
    prune[p].old = f => \/ disk[f].text = "absent"
                        \/ disk[f].text = "whole" /\ disk[f].mtime < ticks - Ttl

CutoffsPast == \A p \in Pruners : prune[p].todo # <<>> => prune[p].cutoff <= ticks - Ttl

\* One capture at a time is writing a file.
OneWriter ==
  Intact => \A c \in Captures :
    /\ capture[c] = "binPart" =>
         disk["bin"].text = "part" /\ \A d \in Captures \ {c} : capture[d] # "binPart"
    /\ capture[c] = "jsonPart" =>
         disk["json"].text = "part" /\ \A d \in Captures \ {c} : capture[d] # "jsonPart"

\* A snapshot that is due is there.
DueIsWhole == Intact /\ Due => \A f \in Files : disk[f].text = "whole" /\ disk[f].mtime >= stored

\* Whoever asked for it while it was due reads it.
DueIsRead ==
  \A r \in Readers : read[r].due =>
    /\ stored # -1
    /\ Intact /\ Due => read[r].bin \in {"unread", "whole"} /\ read[r].json \in {"unread", "whole"}

ViewInv == WritesBrief /\ OldIsStale /\ CutoffsPast /\ OneWriter /\ DueIsWhole /\ DueIsRead /\ SnapshotsHold

LEMMA CapturesKeep ==
  ASSUME ViewTypes, ViewTypes', ViewInv, NEW c \in Captures,
         Deliver(c) \/ DownloadForCapture(c) \/ WriteBin(c) \/ BinWritten(c) \/ WriteMeta(c)
           \/ MetaWritten(c) \/ CaptureFails(c)
  PROVE  ViewInv'
<1>1. /\ UNCHANGED <<cdn, prune, read, served, ticks>>
      /\ rewritten => rewritten'
      /\ failed => failed'
  <2>1. UNCHANGED <<cdn, prune, read, served, ticks>>
    BY DEF Deliver, DownloadForCapture, WriteBin, BinWritten, WriteMeta, MetaWritten, CaptureFails,
           Starts, CaptureUnchanged
  <2>2. CASE Deliver(c) \/ DownloadForCapture(c) \/ BinWritten(c) \/ MetaWritten(c) \/ CaptureFails(c)
    BY <2>1, <2>2 DEF Deliver, DownloadForCapture, BinWritten, MetaWritten, CaptureFails
  <2>3. CASE WriteBin(c) \/ WriteMeta(c)
    <3>1. Starts(c, "bin", "binPart") \/ Starts(c, "json", "jsonPart")
      BY <2>3 DEF WriteBin, WriteMeta
    <3>2. (rewritten => rewritten') /\ UNCHANGED failed
      BY <3>1, Zenon DEF Starts
    <3> QED BY <2>1, <3>2
  <2> QED BY <2>1, <2>2, <2>3
<1>2. CutoffsPast'
  BY <1>1 DEF ViewInv, CutoffsPast
<1>3. SnapshotsHold'
  BY <1>1 DEF ViewInv, SnapshotsHold
<1>4. CASE Deliver(c) \/ DownloadForCapture(c) \/ CaptureFails(c)
  <2>1. /\ UNCHANGED <<disk, stored>>
        /\ capture' = [capture EXCEPT ![c] = capture'[c]] /\ capture'[c] \notin {"binPart", "jsonPart"}
    BY <1>4 DEF Deliver, DownloadForCapture, CaptureFails, ViewTypes
  <2>2. OneWriter'
    BY <1>1, <2>1 DEF ViewInv, OneWriter, Intact, ViewTypes
  <2> QED BY <1>1, <1>2, <1>3, <2>1, <2>2
          DEF ViewInv, WritesBrief, OldIsStale, DueIsWhole, DueIsRead, Intact, Due
<1>5. ASSUME NEW f \in Files, NEW next \in Steps, Starts(c, f, next),
             \/ f = "bin" /\ next = "binPart"
             \/ f = "json" /\ next = "jsonPart"
      PROVE  ViewInv'
  <2>1. /\ UNCHANGED <<stored, failed>>
        /\ capture[c] = f /\ capture' = [capture EXCEPT ![c] = next]
        /\ disk' = [disk EXCEPT ![f] = [text |-> "part", mtime |-> ticks]]
        /\ ~rewritten' => ~rewritten /\ disk[f].text = "absent" /\ \A p \in Pruners : prune[p].old # f
    BY <1>5 DEF Starts
  <2>2. /\ disk'[f].text = "part" /\ disk'[f].mtime = ticks
        /\ \A g \in Files \ {f} : disk'[g] = disk[g]
    BY <2>1 DEF ViewTypes
  <2>3. WritesBrief'
    BY <1>1, <2>1, <2>2 DEF ViewInv, WritesBrief, ViewTypes
  <2>4. OldIsStale'
    BY <1>1, <2>1, <2>2 DEF ViewInv, OldIsStale, Intact
  <2>5. OneWriter'
    BY <1>1, <1>5, <2>1, <2>2 DEF ViewInv, OneWriter, Intact, ViewTypes, Files
  <2>6. DueIsWhole'
    BY <1>1, <2>1, <2>2 DEF ViewInv, DueIsWhole, Intact, Due
  <2>7. DueIsRead'
    BY <1>1, <2>1 DEF ViewInv, DueIsRead, Intact, Due
  <2> QED BY <1>2, <1>3, <2>3, <2>4, <2>5, <2>6, <2>7 DEF ViewInv
<1>6. CASE WriteBin(c) \/ WriteMeta(c)
  BY <1>5, <1>6 DEF WriteBin, WriteMeta, Files, Steps
<1>7. ASSUME NEW f \in Files, disk' = Completed(f), UNCHANGED failed, UNCHANGED rewritten,
             capture' = [capture EXCEPT ![c] = capture'[c]], capture'[c] \notin {"binPart", "jsonPart"},
             \/ f = "bin" /\ capture[c] = "binPart"
             \/ f = "json" /\ capture[c] = "jsonPart"
      PROVE  /\ WritesBrief' /\ OldIsStale' /\ OneWriter'
             /\ Intact => /\ disk[f].text = "part" /\ disk'[f].text = "whole" /\ disk'[f].mtime = ticks
                          /\ \A g \in Files \ {f} : disk'[g] = disk[g]
  <2>1. Intact => disk[f].text = "part"
    BY <1>7 DEF ViewInv, OneWriter
  <2>2. /\ disk[f].text # "absent" => disk'[f].text = "whole" /\ disk'[f].mtime = ticks
        /\ disk[f].text = "absent" => disk'[f] = disk[f]
        /\ \A g \in Files \ {f} : disk'[g] = disk[g]
    BY <1>7 DEF Completed, ViewTypes
  <2>3. WritesBrief'
    BY <1>1, <1>7, <2>2 DEF ViewInv, WritesBrief, ViewTypes
  <2>4. OldIsStale'
    BY <1>1, <1>7, <2>1, <2>2 DEF ViewInv, OldIsStale, Intact
  <2>5. OneWriter'
    BY <1>1, <1>7, <2>2 DEF ViewInv, OneWriter, Intact, ViewTypes, Files
  <2> QED BY <2>1, <2>2, <2>3, <2>4, <2>5
<1>8. CASE BinWritten(c)
  <2>1. /\ "bin" \in Files /\ disk' = Completed("bin") /\ UNCHANGED <<failed, rewritten, stored>>
        /\ capture[c] = "binPart" /\ capture' = [capture EXCEPT ![c] = capture'[c]]
        /\ capture'[c] \notin {"binPart", "jsonPart"}
    BY <1>8 DEF BinWritten, Files, ViewTypes
  <2>2. DueIsWhole' /\ DueIsRead'
    BY <1>1, <1>7, <2>1 DEF ViewInv, DueIsWhole, DueIsRead, Intact, Due
  <2> QED BY <1>2, <1>3, <1>7, <2>1, <2>2 DEF ViewInv
<1>9. CASE MetaWritten(c)
  <2>1. /\ "json" \in Files /\ "bin" \in Files \ {"json"}
        /\ disk' = Completed("json") /\ UNCHANGED <<failed, rewritten>>
        /\ capture[c] = "jsonPart" /\ capture' = [capture EXCEPT ![c] = capture'[c]]
        /\ capture'[c] \notin {"binPart", "jsonPart"}
        /\ stored' = IF stored = -1 /\ disk'["bin"].text = "whole" /\ disk'["json"].text = "whole"
                     THEN disk["bin"].mtime ELSE stored
    BY <1>9 DEF MetaWritten, Files, ViewTypes
  <2>2. /\ WritesBrief' /\ OldIsStale' /\ OneWriter'
        /\ Intact => /\ disk["json"].text = "part" /\ disk'["json"].text = "whole"
                     /\ disk'["json"].mtime = ticks /\ disk'["bin"] = disk["bin"]
    BY <1>7, <2>1
  <2>3. \A g \in Files : g = "bin" \/ g = "json"
    BY DEF Files
  <2>4. CASE stored' = stored
    <3>1. DueIsWhole'
      BY <1>1, <2>1, <2>2, <2>3, <2>4 DEF ViewInv, DueIsWhole, Intact, Due
    <3>2. DueIsRead'
      BY <1>1, <2>1, <2>4 DEF ViewInv, DueIsRead, Intact, Due
    <3> QED BY <1>2, <1>3, <2>2, <3>1, <3>2 DEF ViewInv
  <2>5. CASE stored' # stored
    <3>1. stored = -1 /\ disk'["bin"].text = "whole" /\ stored' = disk["bin"].mtime
      BY <2>1, <2>5
    <3>2. DueIsWhole'
      BY <1>1, <2>1, <2>2, <2>3, <3>1 DEF DueIsWhole, Intact, ViewTypes
    <3>3. DueIsRead'
      BY <1>1, <3>1 DEF ViewInv, DueIsRead
    <3> QED BY <1>2, <1>3, <2>2, <3>2, <3>3 DEF ViewInv
  <2> QED BY <2>4, <2>5
<1> QED BY <1>4, <1>6, <1>8, <1>9

LEMMA PrunesKeep ==
  ASSUME ViewTypes, ViewTypes', ViewInv, NEW p \in Pruners,
         BeginPrune(p) \/ Stat(p) \/ Unlink(p) \/ EndPrune(p)
  PROVE  ViewInv'
<1>1. UNCHANGED <<cdn, capture, read, served, rewritten, stored, failed, ticks>>
  BY DEF BeginPrune, Stat, Unlink, EndPrune, PruneUnchanged
<1>2. SnapshotsHold' /\ DueIsRead'
  BY <1>1 DEF ViewInv, SnapshotsHold, DueIsRead, Intact, Due
<1>3. CASE BeginPrune(p) \/ EndPrune(p)
  <2>1. /\ UNCHANGED disk /\ prune'[p].old = "none"
        /\ prune'[p].todo # <<>> => prune'[p].cutoff = ticks - Ttl
        /\ \A q \in Pruners \ {p} : prune'[q] = prune[q]
    <3>1. /\ UNCHANGED disk
          /\ \/ prune' = [prune EXCEPT ![p] = PruneFrom(ticks - Ttl)]
             \/ prune' = [prune EXCEPT ![p] = NotPruning]
      BY <1>3 DEF BeginPrune, EndPrune
    <3>2. /\ PruneFrom(ticks - Ttl).old = "none" /\ PruneFrom(ticks - Ttl).cutoff = ticks - Ttl
          /\ NotPruning.old = "none" /\ NotPruning.todo = <<>>
      BY DEF PruneFrom, NotPruning
    <3> QED BY <3>1, <3>2 DEF ViewTypes
  <2>2. OldIsStale'
    BY <1>1, <2>1 DEF ViewInv, OldIsStale, Intact, Files
  <2>3. CutoffsPast'
    <3>1. ticks - Ttl <= ticks - Ttl
      BY ViewOnceAssumption DEF ViewTypes
    <3> QED BY <1>1, <2>1, <3>1 DEF ViewInv, CutoffsPast
  <2> QED BY <1>1, <1>2, <2>1, <2>2, <2>3 DEF ViewInv, WritesBrief, OneWriter, DueIsWhole, Intact, Due
<1>4. CASE Stat(p)
  <2> DEFINE f == Head(prune[p].todo)
  <2>1. /\ UNCHANGED disk /\ prune[p].todo # <<>>
        /\ prune'[p].old = IF disk[f].text # "absent" /\ TooOld(f, prune[p].cutoff) THEN f ELSE "none"
        /\ prune'[p].cutoff = prune[p].cutoff
        /\ \A q \in Pruners \ {p} : prune'[q] = prune[q]
    BY <1>4 DEF Stat, ViewTypes
  <2>2. f \in Files
    BY <2>1 DEF ViewTypes, Todos, Files
  <2> HIDE DEF f
  <2>3. CutoffsPast'
    BY <1>1, <2>1 DEF ViewInv, CutoffsPast
  <2>4. ASSUME Intact, TooOld(f, prune[p].cutoff), disk[f].text # "absent"
        PROVE  disk[f].text = "whole" /\ disk[f].mtime < ticks - Ttl
    <3>1. disk[f].mtime < prune[p].cutoff /\ prune[p].cutoff <= ticks - Ttl
      BY <2>1, <2>4 DEF TooOld, ViewInv, CutoffsPast
    <3>2. disk[f].text \in Texts /\ disk[f].mtime \in Int /\ prune[p].cutoff \in Int /\ ticks \in Int
      BY <2>2 DEF ViewTypes
    <3>3. disk[f].text # "part"
      BY <2>2, <2>4, <3>1, <3>2, ViewOnceAssumption DEF ViewInv, WritesBrief, Intact
    <3> QED BY <2>4, <3>1, <3>2, <3>3, ViewOnceAssumption DEF Texts
  <2>5. OldIsStale'
    BY <1>1, <2>1, <2>2, <2>4 DEF ViewInv, OldIsStale, Intact, Files
  <2> QED BY <1>1, <1>2, <2>1, <2>3, <2>5 DEF ViewInv, WritesBrief, OneWriter, DueIsWhole, Intact, Due
<1>5. CASE Unlink(p)
  <2> DEFINE f == prune[p].old
  <2>1. /\ f \in Files /\ disk'[f] = Absent /\ \A g \in Files \ {f} : disk'[g] = disk[g]
        /\ prune'[p].old = "none" /\ prune'[p].todo = prune[p].todo /\ prune'[p].cutoff = prune[p].cutoff
        /\ \A q \in Pruners \ {p} : prune'[q] = prune[q]
    BY <1>5 DEF Unlink, ViewTypes
  <2>2. disk'[f].text = "absent"
    BY <2>1 DEF Absent
  <2>3. Intact => disk[f].text # "part" /\ (disk[f].text = "whole" => disk[f].mtime < ticks - Ttl)
    BY <2>1 DEF ViewInv, OldIsStale
  <2>4. disk[f].mtime \in Nat /\ ticks \in Nat /\ stored \in Int
    BY <2>1 DEF ViewTypes
  <2> HIDE DEF f
  <2>5. WritesBrief'
    BY <1>1, <2>1, <2>2 DEF ViewInv, WritesBrief
  <2>6. OldIsStale'
    BY <1>1, <2>1, <2>2 DEF ViewInv, OldIsStale, Intact, Files
  <2>7. CutoffsPast'
    BY <1>1, <2>1 DEF ViewInv, CutoffsPast
  <2>8. OneWriter'
    BY <1>1, <2>1, <2>3 DEF ViewInv, OneWriter, Intact, Files
  <2>9. DueIsWhole'
    BY <1>1, <2>1, <2>3, <2>4, ViewOnceAssumption DEF ViewInv, DueIsWhole, Intact, Due
  <2> QED BY <1>2, <2>5, <2>6, <2>7, <2>8, <2>9 DEF ViewInv
<1> QED BY <1>3, <1>4, <1>5

LEMMA ReadersKeep ==
  ASSUME ViewTypes, ViewInv, NEW r \in Readers,
         Retrieve(r) \/ ReadFile(r, "bin") \/ ReadFile(r, "json") \/ Serve(r)
  PROVE  ViewInv'
<1>1. UNCHANGED <<disk, capture, prune, rewritten, stored, failed, ticks>>
  BY DEF Retrieve, ReadFile, Serve, ReadUnchanged
<1>2. WritesBrief' /\ OldIsStale' /\ CutoffsPast' /\ OneWriter' /\ DueIsWhole'
  BY <1>1 DEF ViewInv, WritesBrief, OldIsStale, CutoffsPast, OneWriter, DueIsWhole, Intact, Due
<1>3. \A q \in Readers \ {r} : read'[q] = read[q]
  BY DEF Retrieve, ReadFile, Serve, ViewTypes
<1>4. CASE Retrieve(r)
  <2>1. read'[r].due = Due /\ read'[r].bin = "unread" /\ read'[r].json = "unread" /\ served' = served
    BY <1>4 DEF Retrieve, NotReading, ViewTypes
  <2> QED BY <1>1, <1>2, <1>3, <2>1 DEF ViewInv, DueIsRead, SnapshotsHold, Intact, Due
<1>5. ASSUME NEW f \in Files, ReadFile(r, f) PROVE ViewInv'
  <2>1. /\ served' = served /\ read'[r].due = read[r].due /\ read'[r][f] = disk[f].text
        /\ f = "bin" => read'[r].json = read[r].json
        /\ f = "json" => read'[r].bin = read[r].bin
        /\ f = "bin" => read'[r].bin = disk[f].text
        /\ f = "json" => read'[r].json = disk[f].text
    <3>1. CASE f = "bin"
      BY <1>5, <3>1 DEF ReadFile, ViewTypes, Reading
    <3>2. CASE f = "json"
      BY <1>5, <3>2 DEF ReadFile, ViewTypes, Reading
    <3> QED BY <3>1, <3>2 DEF Files
  <2>2. Intact /\ Due => disk[f].text = "whole"
    BY DEF ViewInv, DueIsWhole
  <2> QED BY <1>1, <1>2, <1>3, <2>1, <2>2 DEF ViewInv, DueIsRead, SnapshotsHold, Intact, Due, Files
<1>6. CASE Serve(r)
  <2>1. ~read'[r].due
    BY <1>6 DEF Serve, NotReading, ViewTypes
  <2>2. DueIsRead'
    BY <1>1, <1>3, <2>1 DEF ViewInv, DueIsRead, Intact, Due
  <2>3. SnapshotsHold'
    BY <1>1, <1>6 DEF Serve, ViewInv, DueIsRead, SnapshotsHold, Intact
  <2> QED BY <1>2, <2>2, <2>3 DEF ViewInv
<1> QED BY <1>4, <1>5, <1>6 DEF Files

LEMMA ViewKept ==
  ASSUME ViewTypes, ViewInv, [ViewOnceNext]_viewVars
  PROVE  ViewInv'
<1>1. ViewTypes'
  BY ViewTyped
<1>2. CASE ViewOnceTick
  <2>1. /\ UNCHANGED <<disk, capture, prune, read, served, rewritten, stored, failed>>
        /\ ticks' = ticks + 1 /\ ticks \in Nat /\ stored \in Int
        /\ ~failed => \A f \in Files : disk[f].text = "part" => disk[f].mtime = ticks
    BY <1>2 DEF ViewOnceTick, ViewTypes
  <2>2. Due' => Due
    BY <2>1, ViewOnceAssumption DEF Due
  <2>3. WritesBrief'
    BY <2>1 DEF WritesBrief
  <2>4. OldIsStale'
    BY <2>1, ViewOnceAssumption DEF ViewInv, OldIsStale, Intact, ViewTypes
  <2>5. CutoffsPast'
    BY <2>1, ViewOnceAssumption DEF ViewInv, CutoffsPast, ViewTypes
  <2>6. DueIsWhole'
    BY <2>1, <2>2 DEF ViewInv, DueIsWhole, Intact
  <2>7. DueIsRead'
    BY <2>1, <2>2 DEF ViewInv, DueIsRead, Intact
  <2> QED BY <2>1, <2>3, <2>4, <2>5, <2>6, <2>7 DEF ViewInv, OneWriter, SnapshotsHold, Intact
<1>3. CASE CdnForgets \/ UNCHANGED viewVars
  BY <1>3 DEF CdnForgets, viewVars, ViewInv, WritesBrief, OldIsStale, CutoffsPast, OneWriter, DueIsWhole,
              DueIsRead, SnapshotsHold, Intact, Due
<1> QED BY <1>1, <1>2, <1>3, CapturesKeep, PrunesKeep, ReadersKeep DEF ViewOnceNext

LEMMA ViewStarts ==
  ASSUME ViewOnceInit
  PROVE  ViewTypes /\ ViewInv
<1>1. /\ Absent \in [text : Texts, mtime : Nat] /\ Absent.mtime = 0 /\ Absent.text = "absent"
      /\ NotPruning \in [todo : Todos, old : Files \cup {"none"}, cutoff : Int]
      /\ NotPruning.todo = <<>> /\ NotPruning.old = "none"
      /\ NotReading \in Reading /\ ~NotReading.due
  BY DEF Absent, NotPruning, NotReading, Reading, Texts, Todos
<1>2. ViewTypes
  BY <1>1 DEF ViewOnceInit, ViewTypes, Steps
<1>3. ~Due
  BY DEF ViewOnceInit, Due
<1> QED BY <1>1, <1>2, <1>3 DEF ViewOnceInit, ViewInv, WritesBrief, OldIsStale, CutoffsPast, OneWriter,
                                DueIsWhole, DueIsRead, SnapshotsHold, Intact, Files

(* A snapshot that was stored and is due is served, and whole, however many
   captures, prunes and readers run at the same time.                      *)
THEOREM SnapshotsServed == ViewOnceSpec => []SnapshotsHold
<1>1. ViewInv => SnapshotsHold
  BY DEF ViewInv
<1> QED BY <1>1, ViewStarts, ViewTyped, ViewKept, PTL DEF ViewOnceSpec

-----------------------------------------------------------------------------
(* KeyStore: types.                                                        *)

Holder == [of : Nat, secret : Nat]
Op     == [key : KeyIds, value : 0 .. MaxSets]
Ops    == {<<o>> : o \in Op} \cup {<<o, p>> : o \in Op, p \in Op}
Write  == [by : Holder, ops : Ops, late : BOOLEAN]

LEMMA OpsFacts ==
  ASSUME NEW ops \in Ops
  PROVE  /\ Len(ops) \in {1, 2} /\ Head(ops) = ops[1]
         /\ \A o \in 1 .. Len(ops) : ops[o] \in Op
         /\ Len(ops) = 2 => Tail(ops) \in Ops /\ Len(Tail(ops)) = 1 /\ Tail(ops)[1] = ops[2]
<1>1. CASE \E o \in Op : ops = <<o>>
  BY <1>1
<1>2. CASE \E o, p \in Op : ops = <<o, p>>
  <2>1. PICK o \in Op, p \in Op : ops = <<o, p>>
    BY <1>2
  <2>2. Tail(ops) = <<p>>
    BY <2>1
  <2>3. <<p>> \in Ops
    BY DEF Ops
  <2> QED BY <2>1, <2>2, <2>3
<1> QED BY <1>1, <1>2 DEF Ops

KeyTypes ==
  /\ socket \in Holder /\ credsDoc \in Holder
  /\ keyDocs \in [KeyIds -> [of : Nat, secret : Nat, value : 0 .. MaxSets]]
  /\ writing \subseteq Write
  /\ phase \in {"down", "up", "closed"}
  /\ deleting \subseteq {"creds", "keys"} /\ (deleting # {} => phase = "closed")
  /\ pairings \in Nat /\ sets \in Nat /\ sets <= MaxSets
  /\ lastSet \in [KeyIds -> 0 .. MaxSets]

\* Pairings and secrets are known, and the secret of the socket is the last of those used.
KeysKnown ==
  /\ pairings <= MaxPairings /\ socket.of <= pairings /\ credsDoc.of <= pairings
  /\ \A w \in writing : w.by.of <= pairings /\ w.by.secret <= socket.secret
  /\ \A k \in KeyIds : keyDocs[k].of <= pairings /\ keyDocs[k].secret <= socket.secret

\* The operations of one write are on different keys.
KeysDiffer ==
  \A w \in writing : Len(w.ops) = 2 => w.ops[1].key # w.ops[2].key

LEMMA LateWrites ==
  ASSUME writing \subseteq Write
  PROVE  /\ Late(writing) \subseteq Write
         /\ \A v \in Late(writing) : v.late /\ \E w \in writing : v.by = w.by /\ v.ops = w.ops
<1>1. ASSUME NEW w \in writing
      PROVE  /\ [w EXCEPT !.late = TRUE] \in Write
             /\ [w EXCEPT !.late = TRUE].late
             /\ [w EXCEPT !.late = TRUE].by = w.by /\ [w EXCEPT !.late = TRUE].ops = w.ops
  BY DEF Write
<1> QED BY <1>1 DEF Late

LEMMA OpsOnTyped ==
  ASSUME sets \in Nat, sets < MaxSets, NEW ops \in OpsOn(KeyIds)
  PROVE  ops \in Ops
<1>1. 0 \in 0 .. MaxSets /\ sets + 1 \in 0 .. MaxSets
  BY KeyStoreAssumption
<1>2. CASE \E k \in KeyIds : \E v \in {0, sets + 1} : ops = <<[key |-> k, value |-> v]>>
  <2>1. PICK k \in KeyIds, v \in {0, sets + 1} : ops = <<[key |-> k, value |-> v]>>
    BY <1>2
  <2>2. [key |-> k, value |-> v] \in Op
    BY <1>1 DEF Op
  <2> QED BY <2>1, <2>2 DEF Ops
<1>3. CASE \E k \in KeyIds : \E l \in KeyIds :
             ops = <<[key |-> k, value |-> sets + 1], [key |-> l, value |-> 0]>>
  <2>1. PICK k \in KeyIds, l \in KeyIds :
          ops = <<[key |-> k, value |-> sets + 1], [key |-> l, value |-> 0]>>
    BY <1>3
  <2>2. [key |-> k, value |-> sets + 1] \in Op /\ [key |-> l, value |-> 0] \in Op
    BY <1>1 DEF Op
  <2> QED BY <2>1, <2>2 DEF Ops
<1> QED BY <1>2, <1>3 DEF OpsOn

LEMMA SetKeysTyped ==
  ASSUME KeyTypes, KeysKnown, KeysDiffer, NEW ops \in OpsOn(KeyIds),
         Len(ops) = 2 => ops[1].key # ops[2].key, SetKeys(ops)
  PROVE  KeyTypes' /\ KeysKnown' /\ KeysDiffer'
<1> DEFINE new == [by |-> socket, ops |-> ops, late |-> FALSE]
<1>1. ops \in Ops
  BY OpsOnTyped DEF KeyTypes, SetKeys
<1>2. new \in Write /\ new.by = socket /\ new.ops = ops
  BY <1>1 DEF KeyTypes, Write
<1>3. writing' = writing \cup {new} /\ sets < MaxSets /\ sets' = sets + 1
  BY DEF SetKeys
<1>4. /\ UNCHANGED <<socket, phase, credsDoc, keyDocs, deleting, pairings>>
      /\ lastSet' = [k \in KeyIds |-> IF \E o \in 1 .. Len(ops) : ops[o].key = k
                                      THEN ops[CHOOSE o \in 1 .. Len(ops) : ops[o].key = k].value
                                      ELSE lastSet[k]]
  BY DEF SetKeys
<1> HIDE DEF new
<1>5. ASSUME NEW k \in KeyIds PROVE lastSet'[k] \in 0 .. MaxSets
  <2>1. CASE \E o \in 1 .. Len(ops) : ops[o].key = k
    <3> DEFINE c == CHOOSE o \in 1 .. Len(ops) : ops[o].key = k
    <3>1. c \in 1 .. Len(ops)
      BY <2>1
    <3>2. lastSet'[k] = ops[c].value
      BY <1>4, <2>1
    <3> HIDE DEF c
    <3>3. ops[c] \in Op
      BY <1>1, <3>1, OpsFacts
    <3> QED BY <3>2, <3>3 DEF Op
  <2>2. CASE ~\E o \in 1 .. Len(ops) : ops[o].key = k
    <3>1. lastSet'[k] = lastSet[k]
      BY <1>4, <2>2
    <3> QED BY <3>1 DEF KeyTypes
  <2> QED BY <2>1, <2>2
<1>6. lastSet' \in [KeyIds -> 0 .. MaxSets]
  <2>1. lastSet' = [k \in KeyIds |-> lastSet'[k]]
    BY <1>4
  <2> QED BY <1>5, <2>1
<1>7. KeyTypes'
  <2>1. sets' \in Nat /\ sets' <= MaxSets
    BY <1>3, KeyStoreAssumption DEF KeyTypes
  <2>2. writing' \subseteq Write
    BY <1>2, <1>3 DEF KeyTypes
  <2> QED BY <1>4, <1>6, <2>1, <2>2 DEF KeyTypes
<1>8. KeysKnown'
  BY <1>2, <1>3, <1>4 DEF KeyTypes, KeysKnown, Holder
<1>9. KeysDiffer'
  BY <1>2, <1>3 DEF KeysDiffer
<1> QED BY <1>7, <1>8, <1>9

\* What is left of a write is one of its parts.
Rest(w) == IF Len(w.ops) = 1 THEN {} ELSE {[w EXCEPT !.ops = Tail(@)]}

LEMMA RestTyped ==
  ASSUME NEW w \in Write, NEW v \in Rest(w)
  PROVE  /\ v \in Write /\ v.by = w.by /\ v.late = w.late
         /\ Len(w.ops) = 2 /\ Len(v.ops) = 1 /\ v.ops[1] = w.ops[2]
<1>1. w.ops \in Ops
  BY DEF Write
<1>2. Len(w.ops) = 2 /\ Tail(w.ops) \in Ops /\ Len(Tail(w.ops)) = 1 /\ Tail(w.ops)[1] = w.ops[2]
  BY <1>1, OpsFacts DEF Rest
<1>3. v = [w EXCEPT !.ops = Tail(w.ops)]
  BY <1>2 DEF Rest
<1>4. v \in Write /\ v.by = w.by /\ v.late = w.late /\ v.ops = Tail(w.ops)
  BY <1>2, <1>3 DEF Write
<1> QED BY <1>2, <1>4

LEMMA LandsTyped ==
  ASSUME KeyTypes, KeysKnown, KeysDiffer, NEW w \in writing, WriteLands(w)
  PROVE  KeyTypes' /\ KeysKnown' /\ KeysDiffer'
<1> DEFINE op == Head(w.ops)
<1> DEFINE doc == [of |-> w.by.of, secret |-> w.by.secret, value |-> op.value]
<1>1. w \in Write /\ w.ops \in Ops /\ w.by \in Holder
  BY DEF KeyTypes, Write
<1>2. op \in Op
  BY <1>1, OpsFacts
<1>3. doc \in [of : Nat, secret : Nat, value : 0 .. MaxSets] /\ doc.of = w.by.of /\ doc.secret = w.by.secret
  BY <1>1, <1>2 DEF Holder, Op
<1>4. /\ keyDocs' = [keyDocs EXCEPT ![op.key] = doc]
      /\ writing' = (writing \ {w}) \cup Rest(w)
      /\ UNCHANGED <<socket, phase, credsDoc, deleting, pairings, lastSet, sets>>
  BY DEF WriteLands, Upserted, Rest
<1> HIDE DEF op, doc
<1>5. KeyTypes'
  BY <1>1, <1>3, <1>4, RestTyped DEF KeyTypes
<1>6. KeysKnown'
  <2>1. \A v \in writing' : \E u \in writing : v.by = u.by
    BY <1>1, <1>4, RestTyped
  <2> QED BY <1>3, <1>4, <2>1 DEF KeysKnown, KeyTypes
<1>7. KeysDiffer'
  BY <1>1, <1>4, RestTyped DEF KeysDiffer
<1> QED BY <1>5, <1>6, <1>7

LEMMA KeysTyped ==
  ASSUME KeyTypes, KeysKnown, KeysDiffer, [KeyStoreNext]_keyVars
  PROVE  KeyTypes' /\ KeysKnown' /\ KeysDiffer'
<1>1. ASSUME NEW s \in Secrets, LoadAuth(s) PROVE KeyTypes' /\ KeysKnown' /\ KeysDiffer'
  <2>1. /\ phase = "down" /\ phase' = "up" /\ s >= socket.secret /\ s \in Nat /\ writing' = Late(writing)
        /\ UNCHANGED <<credsDoc, keyDocs, deleting, sets>>
    BY <1>1, KeyStoreAssumption DEF LoadAuth
  <2>2. /\ Late(writing) \subseteq Write
        /\ \A v \in Late(writing) : \E w \in writing : v.by = w.by /\ v.ops = w.ops
    BY LateWrites DEF KeyTypes
  <2>3. KeysDiffer'
    BY <2>1, <2>2 DEF KeysDiffer
  <2>4. CASE credsDoc.of # 0 /\ credsDoc.secret = s
    <3>1. /\ socket' = [of |-> credsDoc.of, secret |-> s] /\ UNCHANGED <<pairings, lastSet>>
      BY <1>1, <2>4 DEF LoadAuth
    <3>2. KeyTypes'
      BY <2>1, <2>2, <2>4, <3>1 DEF KeyTypes, Holder
    <3>3. KeysKnown'
      BY <2>1, <2>2, <2>4, <3>1, KeyStoreAssumption DEF KeyTypes, KeysKnown, Holder, Write
    <3> QED BY <2>3, <3>2, <3>3
  <2>5. CASE ~(credsDoc.of # 0 /\ credsDoc.secret = s)
    <3>1. /\ pairings < MaxPairings /\ pairings' = pairings + 1
          /\ socket' = [of |-> pairings + 1, secret |-> s] /\ lastSet' = [k \in KeyIds |-> 0]
      BY <1>1, <2>5 DEF LoadAuth
    <3>2. KeyTypes'
      BY <2>1, <2>2, <3>1, KeyStoreAssumption DEF KeyTypes, Holder
    <3>3. KeysKnown'
      BY <2>1, <2>2, <3>1, KeyStoreAssumption DEF KeyTypes, KeysKnown, Holder, Write
    <3> QED BY <2>3, <3>2, <3>3
  <2> QED BY <2>4, <2>5
<1>2. CASE SaveCreds \/ BeginClear \/ Disconnects
  BY <1>2 DEF SaveCreds, BeginClear, Disconnects, KeyTypes, KeysKnown, KeysDiffer
<1>3. ASSUME NEW w \in writing, WriteFails(w) PROVE KeyTypes' /\ KeysKnown' /\ KeysDiffer'
  BY <1>3 DEF WriteFails, KeyTypes, KeysKnown, KeysDiffer
<1>4. CASE ClearStep
  <2>1. /\ phase = "closed" /\ UNCHANGED <<socket, pairings, lastSet, sets>>
        /\ phase' = IF deleting' = {} THEN "down" ELSE phase
    BY <1>4 DEF ClearStep, Kept
  <2>2. CASE credsDoc' = Nobody /\ UNCHANGED <<keyDocs, writing>> /\ deleting' = deleting \ {"creds"}
    <3>1. Nobody \in Holder /\ Nobody.of = 0
      BY DEF Nobody, Holder
    <3>2. KeyTypes'
      BY <2>1, <2>2, <3>1 DEF KeyTypes
    <3>3. KeysKnown' /\ KeysDiffer'
      BY <2>1, <2>2, <3>1 DEF KeyTypes, KeysKnown, KeysDiffer
    <3> QED BY <3>2, <3>3
  <2>3. CASE DeleteKeys /\ UNCHANGED credsDoc /\ deleting' = deleting \ {"keys"}
    <3>1. /\ NoKey \in [of : Nat, secret : Nat, value : 0 .. MaxSets] /\ NoKey.of = 0 /\ NoKey.secret = 0
      BY KeyStoreAssumption DEF NoKey
    <3>2. /\ Late(writing) \subseteq Write
          /\ \A v \in Late(writing) : \E w \in writing : v.by = w.by /\ v.ops = w.ops
      BY LateWrites DEF KeyTypes
    <3>3. keyDocs' = [k \in KeyIds |-> NoKey] /\ writing' = Late(writing)
      BY <2>3 DEF DeleteKeys
    <3>4. KeyTypes'
      BY <2>1, <2>3, <3>1, <3>2, <3>3 DEF KeyTypes
    <3>5. KeysKnown'
      BY <2>1, <2>3, <3>1, <3>2, <3>3 DEF KeysKnown, KeyTypes, Holder
    <3>6. KeysDiffer'
      BY <3>2, <3>3 DEF KeysDiffer
    <3> QED BY <3>4, <3>5, <3>6
  <2> QED BY <1>4, <2>2, <2>3 DEF ClearStep
<1>5. CASE DeletionFails
  BY <1>5 DEF DeletionFails, Kept, KeyTypes, KeysKnown, KeysDiffer
<1>6. CASE KeyStoreCrash
  BY <1>6 DEF KeyStoreCrash, KeyTypes, KeysKnown, KeysDiffer
<1>7. CASE UNCHANGED keyVars
  BY <1>7 DEF keyVars, KeyTypes, KeysKnown, KeysDiffer
<1> QED BY <1>1, <1>2, <1>3, <1>4, <1>5, <1>6, <1>7, SetKeysTyped, LandsTyped DEF KeyStoreNext

-----------------------------------------------------------------------------
(* KeyStore: the invariant.                                                *)

\* A key that the socket's secret decrypts is of its pairing, which is the stored one, until it is cleared.
DocsAreOwn ==
  ~straggled /\ ~half => \A k \in KeyIds :
    \/ keyDocs[k] = NoKey
    \/ keyDocs[k].secret < socket.secret
    \/ /\ keyDocs[k].of = socket.of /\ keyDocs[k].secret = socket.secret
       /\ credsDoc = socket \/ "keys" \in deleting

\* So is a write that is not late, and there is one at a time.
WritesAreOwn ==
  /\ \A w \in writing : w.late \/ (w.by = socket /\ (credsDoc = socket \/ half \/ "keys" \in deleting))
  /\ \A w, v \in writing : w.late \/ v.late \/ w = v

\* Stored credentials are those of the socket, or of one with an earlier secret.
CredsAreOwn ==
  /\ credsDoc = Nobody \/ credsDoc.secret < socket.secret \/ credsDoc = socket
  /\ socket = Nobody \/ socket.of # 0
  /\ phase # "down" => socket.of # 0

\* What clear() has done of its work.
ClearsInTurn ==
  /\ phase = "closed" => deleting # {} /\ (half \/ "creds" \in deleting \/ credsDoc = Nobody)
  /\ phase = "closed" /\ ~half /\ "keys" \notin deleting =>
       /\ \A w \in writing : w.late
       /\ ~straggled => \A k \in KeyIds : keyDocs[k] = NoKey

Settled == ~half /\ ~straggled /\ ~unwritten /\ \A w \in writing : ~w.late

\* A key is what the write on its way will make it, or what was set last.
AsSet(k) ==
  /\ \A w \in writing : \A o \in 1 .. Len(w.ops) : w.ops[o].key = k => lastSet[k] = w.ops[o].value
  /\ (\A w \in writing : \A o \in 1 .. Len(w.ops) : w.ops[o].key # k) => Got(k) = lastSet[k]

KeysAsSet ==
  (phase = "up" \/ (phase = "down" /\ credsDoc = socket)) /\ Settled => \A k \in KeyIds : AsSet(k)

KeyInv == DocsAreOwn /\ WritesAreOwn /\ CredsAreOwn /\ ClearsInTurn /\ KeysAsSet
LEMMA LoadKeeps ==
  ASSUME KeyTypes, KeysKnown, KeyInv, NEW s \in Secrets, LoadAuth(s)
  PROVE  KeyInv'
<1>1. /\ phase = "down" /\ phase' = "up" /\ s >= socket.secret /\ s \in Nat /\ s # 0
      /\ writing' = Late(writing)
      /\ UNCHANGED <<credsDoc, keyDocs, deleting, straggled, half, unwritten>>
  BY KeyStoreAssumption DEF LoadAuth
<1>2. \A w \in writing' : w.late
  BY <1>1, LateWrites DEF KeyTypes
<1>3. deleting = {}
  BY <1>1 DEF KeyTypes
<1>4. /\ socket.secret \in Nat /\ credsDoc.secret \in Nat /\ credsDoc.of \in Nat
      /\ \A k \in KeyIds : keyDocs[k].secret \in Nat /\ keyDocs[k].of \in Nat
      /\ Nobody.of = 0 /\ Nobody.secret = 0
  BY DEF KeyTypes, Holder, Nobody
<1>5. WritesAreOwn'
  BY <1>2 DEF WritesAreOwn
<1>6. ClearsInTurn'
  BY <1>1 DEF ClearsInTurn
<1>7. Settled' => writing = {} /\ writing' = {} /\ Settled
  <2>1. Settled' => writing' = {}
    BY <1>2 DEF Settled
  <2>2. writing' = {} => writing = {}
    BY <1>1 DEF Late
  <2> QED BY <1>1, <2>1, <2>2 DEF Settled
<1>8. CASE credsDoc.of # 0 /\ credsDoc.secret = s
  <2>1. socket' = [of |-> credsDoc.of, secret |-> s] /\ lastSet' = lastSet
    BY <1>8 DEF LoadAuth
  <2>2. credsDoc = socket
    BY <1>1, <1>4, <1>8 DEF KeyInv, CredsAreOwn
  <2>3. socket' = socket
    BY <1>8, <2>1, <2>2 DEF KeyTypes, Holder
  <2>4. DocsAreOwn' /\ CredsAreOwn'
    BY <1>1, <1>8, <2>2, <2>3 DEF KeyInv, DocsAreOwn, CredsAreOwn
  <2>5. KeysAsSet'
    BY <1>1, <1>7, <2>1, <2>2, <2>3 DEF KeyInv, KeysAsSet, AsSet, Got, Deserialized
  <2> QED BY <1>5, <1>6, <2>4, <2>5 DEF KeyInv
<1>9. CASE ~(credsDoc.of # 0 /\ credsDoc.secret = s)
  <2>1. /\ socket' = [of |-> pairings + 1, secret |-> s] /\ lastSet' = [k \in KeyIds |-> 0]
    BY <1>9 DEF LoadAuth
  <2>2. socket'.of = pairings + 1 /\ socket'.secret = s /\ pairings \in Nat
    BY <2>1 DEF KeyTypes
  <2>3. credsDoc = Nobody \/ credsDoc.secret < s
    BY <1>1, <1>4, <1>9, <2>2 DEF KeyInv, CredsAreOwn
  <2>4. CredsAreOwn'
    BY <1>1, <2>2, <2>3 DEF CredsAreOwn
  <2>5. ASSUME ~straggled, ~half, NEW k \in KeyIds
        PROVE  keyDocs[k] = NoKey \/ keyDocs[k].secret < s
    BY <1>1, <1>3, <1>4, <1>9, <2>5 DEF KeyInv, DocsAreOwn, CredsAreOwn
  <2>6. DocsAreOwn'
    BY <1>1, <2>2, <2>5 DEF DocsAreOwn
  <2>7. KeysAsSet'
    <3>1. ASSUME Settled', NEW k \in KeyIds PROVE AsSet(k)'
      <4>1. writing' = {} /\ lastSet'[k] = 0 /\ NoKey.value = 0
        BY <1>7, <2>1, <3>1 DEF NoKey
      <4>2. Got(k)' = 0
        BY <1>1, <1>4, <2>2, <2>5, <3>1, <4>1 DEF Got, Deserialized, Settled
      <4> QED BY <4>1, <4>2 DEF AsSet
    <3> QED BY <3>1 DEF KeysAsSet
  <2> QED BY <1>5, <1>6, <2>4, <2>6, <2>7 DEF KeyInv
<1> QED BY <1>8, <1>9

LEMMA SetKeysKeep ==
  ASSUME KeyTypes, KeyInv, NEW ops \in OpsOn(KeyIds), Len(ops) = 2 => ops[1].key # ops[2].key,
         SetKeys(ops)
  PROVE  KeyInv'
<1> DEFINE new == [by |-> socket, ops |-> ops, late |-> FALSE]
<1>1. new.by = socket /\ new.ops = ops /\ ~new.late
  OBVIOUS
<1>2. /\ phase = "up" /\ credsDoc = socket /\ writing' = writing \cup {new}
      /\ \A w \in writing : w.late
      /\ UNCHANGED <<socket, phase, credsDoc, keyDocs, deleting, straggled, half, unwritten>>
      /\ lastSet' = [k \in KeyIds |-> IF \E o \in 1 .. Len(ops) : ops[o].key = k
                                      THEN ops[CHOOSE o \in 1 .. Len(ops) : ops[o].key = k].value
                                      ELSE lastSet[k]]
  BY DEF SetKeys
<1> HIDE DEF new
<1>3. DocsAreOwn' /\ CredsAreOwn' /\ ClearsInTurn'
  BY <1>2 DEF KeyInv, DocsAreOwn, CredsAreOwn, ClearsInTurn
<1>4. WritesAreOwn'
  BY <1>1, <1>2 DEF KeyInv, WritesAreOwn
<1>5. ASSUME Settled', NEW k \in KeyIds PROVE AsSet(k)'
  <2>1. writing = {} /\ writing' = {new} /\ Settled
    BY <1>2, <1>5 DEF Settled
  <2>2. Got(k)' = lastSet[k]
    BY <1>2, <2>1 DEF KeyInv, KeysAsSet, AsSet, Got, Deserialized
  <2>3. CASE \E o \in 1 .. Len(ops) : ops[o].key = k
    <3> DEFINE c == CHOOSE o \in 1 .. Len(ops) : ops[o].key = k
    <3>1. c \in 1 .. Len(ops) /\ ops[c].key = k
      BY <2>3
    <3>2. lastSet'[k] = ops[c].value
      BY <1>2, <2>3
    <3> HIDE DEF c
    <3>3. Len(ops) \in {1, 2}
      BY OpsOnTyped, OpsFacts DEF KeyTypes, SetKeys
    <3>4. ASSUME NEW o \in 1 .. Len(ops), ops[o].key = k PROVE o = c
      BY <3>1, <3>3, <3>4
    <3> QED BY <1>1, <2>1, <3>1, <3>2, <3>4 DEF AsSet
  <2>4. CASE ~\E o \in 1 .. Len(ops) : ops[o].key = k
    <3>1. lastSet'[k] = lastSet[k]
      BY <1>2, <2>4
    <3> QED BY <1>1, <2>1, <2>2, <2>4, <3>1 DEF AsSet
  <2> QED BY <2>3, <2>4
<1> QED BY <1>3, <1>4, <1>5 DEF KeyInv, KeysAsSet

LEMMA LandsKeep ==
  ASSUME KeyTypes, KeysDiffer, KeyInv, NEW w \in writing, WriteLands(w)
  PROVE  KeyInv'
<1> DEFINE op == Head(w.ops)
<1> DEFINE doc == [of |-> w.by.of, secret |-> w.by.secret, value |-> op.value]
<1>1. w \in Write /\ w.ops \in Ops /\ w.by \in Holder
  BY DEF KeyTypes, Write
<1>2. op \in Op /\ op = w.ops[1]
  BY <1>1, OpsFacts
<1>3. doc.of = w.by.of /\ doc.secret = w.by.secret /\ doc.value = op.value
  OBVIOUS
<1>4. /\ keyDocs' = [keyDocs EXCEPT ![op.key] = doc]
      /\ writing' = (writing \ {w}) \cup Rest(w)
      /\ straggled' = (straggled \/ w.late)
      /\ UNCHANGED <<socket, phase, credsDoc, deleting, lastSet, half, unwritten>>
  BY DEF WriteLands, Upserted, Rest
<1>a. op.key \in KeyIds
  BY <1>2 DEF Op
<1> HIDE DEF op, doc
<1>5. ~straggled' => ~straggled /\ ~w.late
  BY <1>4
<1>6. /\ keyDocs'[op.key] = doc
      /\ \A k \in KeyIds \ {op.key} : keyDocs'[k] = keyDocs[k]
  BY <1>4, <1>a DEF KeyTypes
<1>7. \A v \in Rest(w) : /\ v.by = w.by /\ v.late = w.late
                         /\ Len(w.ops) = 2 /\ Len(v.ops) = 1 /\ v.ops[1] = w.ops[2]
  BY <1>1, RestTyped
<1>8. DocsAreOwn'
  BY <1>3, <1>4, <1>5, <1>6 DEF KeyInv, DocsAreOwn, WritesAreOwn
<1>9. WritesAreOwn'
  <2>1. \A u, v \in Rest(w) : u = v
    BY DEF Rest
  <2> QED BY <1>4, <1>7, <2>1 DEF KeyInv, WritesAreOwn
<1>10. CredsAreOwn'
  BY <1>4 DEF KeyInv, CredsAreOwn
<1>11. ClearsInTurn'
  BY <1>4, <1>5, <1>7 DEF KeyInv, ClearsInTurn
<1>12. ASSUME Settled', phase = "up" \/ (phase = "down" /\ credsDoc = socket), NEW k \in KeyIds
       PROVE  AsSet(k)'
  <2>1. ~w.late /\ ~straggled /\ ~half /\ ~unwritten
    BY <1>4, <1>5, <1>12 DEF Settled
  <2>2. \A v \in writing : v = w
    <3>1. ASSUME NEW v \in writing, v # w PROVE ~v.late
      BY <1>4, <1>12, <3>1 DEF Settled
    <3> QED BY <2>1, <3>1 DEF KeyInv, WritesAreOwn
  <2>3. AsSet(k)
    BY <1>12, <2>1, <2>2 DEF Settled, KeyInv, KeysAsSet
  <2>4. w.by = socket
    BY <2>1 DEF KeyInv, WritesAreOwn
  <2>5. writing' = Rest(w)
    BY <1>4, <2>2
  <2>6. Len(w.ops) \in {1, 2} /\ (Len(w.ops) = 2 => w.ops[1].key # w.ops[2].key)
    BY <1>1, OpsFacts DEF KeysDiffer
  <2>7. \A v \in writing' : \A o \in 1 .. Len(v.ops) : o = 1 /\ v.ops[o] = w.ops[2] /\ Len(w.ops) = 2
    <3>1. ASSUME NEW v \in writing', NEW o \in 1 .. Len(v.ops)
          PROVE  o = 1 /\ v.ops[o] = w.ops[2] /\ Len(w.ops) = 2
      <4>1. Len(v.ops) = 1 /\ v.ops[1] = w.ops[2] /\ Len(w.ops) = 2
        BY <1>7, <2>5
      <4>2. o = 1
        BY <4>1
      <4> QED BY <4>1, <4>2
    <3> QED BY <3>1
  <2>8. CASE k = op.key
    <3>1. lastSet[k] = op.value
      BY <1>2, <2>3, <2>6, <2>8 DEF AsSet
    <3>2. Got(k)' = lastSet'[k]
      BY <1>3, <1>4, <1>6, <2>4, <2>8, <3>1 DEF Got, Deserialized
    <3>3. \A v \in writing' : \A o \in 1 .. Len(v.ops) : v.ops[o].key # k
      BY <1>2, <2>6, <2>7, <2>8
    <3> QED BY <3>2, <3>3 DEF AsSet
  <2>9. CASE k # op.key
    <3>1. Got(k)' = Got(k)
      BY <1>4, <1>6, <2>9 DEF Got, Deserialized
    <3>2. \A v \in writing' : \A o \in 1 .. Len(v.ops) : v.ops[o].key = k => lastSet'[k] = v.ops[o].value
      BY <1>4, <2>3, <2>6, <2>7 DEF AsSet
    <3>3. ASSUME \A v \in writing' : \A o \in 1 .. Len(v.ops) : v.ops[o].key # k
          PROVE  \A v \in writing : \A o \in 1 .. Len(v.ops) : v.ops[o].key # k
      <4>1. CASE Len(w.ops) = 1
        BY <1>2, <2>2, <2>9, <4>1
      <4>2. CASE Len(w.ops) = 2
        <5>1. PICK v \in writing' : Len(v.ops) = 1 /\ v.ops[1] = w.ops[2]
          BY <1>7, <2>5, <4>2 DEF Rest
        <5>2. w.ops[2].key # k
          BY <3>3, <5>1
        <5> QED BY <1>2, <2>2, <2>9, <4>2, <5>2
      <4> QED BY <2>6, <4>1, <4>2
    <3> QED BY <1>4, <2>3, <3>1, <3>2, <3>3 DEF AsSet
  <2> QED BY <2>8, <2>9
<1>13. KeysAsSet'
  BY <1>4, <1>12 DEF KeysAsSet
<1> QED BY <1>8, <1>9, <1>10, <1>11, <1>13 DEF KeyInv

LEMMA ClearKeeps ==
  ASSUME KeyTypes, KeyInv, ClearStep
  PROVE  KeyInv'
<1>1. /\ phase = "closed" /\ UNCHANGED <<socket, lastSet, straggled, half, unwritten>>
      /\ phase' = IF deleting' = {} THEN "down" ELSE phase
  BY DEF ClearStep, Kept
<1>2. socket # Nobody
  BY <1>1 DEF KeyInv, CredsAreOwn, Nobody
<1>3. CASE "creds" \in deleting /\ credsDoc' = Nobody /\ UNCHANGED <<keyDocs, writing>>
             /\ deleting' = deleting \ {"creds"}
  <2>1. "keys" \notin deleting <=> "keys" \notin deleting'
    BY <1>3
  <2>2. DocsAreOwn'
    BY <1>1, <1>3, <2>1 DEF KeyInv, DocsAreOwn, ClearsInTurn
  <2>3. WritesAreOwn'
    BY <1>1, <1>3, <2>1 DEF KeyInv, WritesAreOwn, ClearsInTurn
  <2>4. CredsAreOwn'
    BY <1>1, <1>3 DEF KeyInv, CredsAreOwn
  <2>5. ClearsInTurn'
    BY <1>1, <1>3, <2>1 DEF KeyInv, ClearsInTurn
  <2>6. KeysAsSet'
    BY <1>1, <1>2, <1>3 DEF KeysAsSet
  <2> QED BY <2>2, <2>3, <2>4, <2>5, <2>6 DEF KeyInv
<1>4. CASE DeleteKeys /\ UNCHANGED credsDoc /\ deleting' = deleting \ {"keys"}
  <2>1. keyDocs' = [k \in KeyIds |-> NoKey] /\ \A w \in writing' : w.late
    BY <1>4, LateWrites DEF DeleteKeys, KeyTypes
  <2>2. DocsAreOwn' /\ WritesAreOwn'
    BY <2>1 DEF DocsAreOwn, WritesAreOwn
  <2>3. CredsAreOwn'
    BY <1>1, <1>4 DEF KeyInv, CredsAreOwn
  <2>4. ClearsInTurn'
    BY <1>1, <1>4, <2>1 DEF KeyInv, ClearsInTurn
  <2>5. KeysAsSet'
    <3>1. phase' = "down" /\ ~half => credsDoc = Nobody
      BY <1>1, <1>4 DEF KeyInv, ClearsInTurn
    <3> QED BY <1>1, <1>2, <1>4, <3>1 DEF KeysAsSet, Settled
  <2> QED BY <2>2, <2>3, <2>4, <2>5 DEF KeyInv
<1> QED BY <1>3, <1>4 DEF ClearStep

LEMMA KeysKept ==
  ASSUME KeyTypes, KeysKnown, KeysDiffer, KeyInv, [KeyStoreNext]_keyVars
  PROVE  KeyInv'
<1>1. CASE SaveCreds
  <2>1. /\ phase = "up" /\ credsDoc' = socket
        /\ UNCHANGED <<socket, phase, keyDocs, writing, deleting, lastSet, straggled, half, unwritten>>
    BY <1>1 DEF SaveCreds
  <2> QED BY <2>1 DEF KeyInv, DocsAreOwn, WritesAreOwn, CredsAreOwn, ClearsInTurn, KeysAsSet, Settled, AsSet,
                      Got, Deserialized
<1>2. CASE BeginClear \/ Disconnects
  <2>1. /\ phase = "up" /\ \/ phase' = "closed" /\ deleting' = {"creds", "keys"}
                           \/ phase' = "down" /\ deleting' = deleting
        /\ UNCHANGED <<socket, credsDoc, keyDocs, writing, lastSet, straggled, half, unwritten>>
    BY <1>2 DEF BeginClear, Disconnects
  <2> QED BY <2>1 DEF KeyInv, DocsAreOwn, WritesAreOwn, CredsAreOwn, ClearsInTurn, KeysAsSet, Settled, AsSet,
                      Got, Deserialized
<1>3. ASSUME NEW w \in writing, WriteFails(w) PROVE KeyInv'
  <2>1. /\ writing' = writing \ {w} /\ unwritten' = TRUE
        /\ UNCHANGED <<socket, phase, credsDoc, keyDocs, deleting, lastSet, straggled, half>>
    BY <1>3 DEF WriteFails
  <2> QED BY <2>1 DEF KeyInv, DocsAreOwn, WritesAreOwn, CredsAreOwn, ClearsInTurn, KeysAsSet, Settled
<1>4. CASE DeletionFails
  <2>1. /\ phase = "closed" /\ half' = TRUE /\ UNCHANGED <<socket, credsDoc, keyDocs, writing, lastSet>>
        /\ phase' = IF deleting' = {} THEN "down" ELSE phase
    BY <1>4 DEF DeletionFails, Kept
  <2> QED BY <2>1 DEF KeyInv, DocsAreOwn, WritesAreOwn, CredsAreOwn, ClearsInTurn, KeysAsSet, Settled
<1>5. CASE KeyStoreCrash
  <2>1. /\ phase' = "down" /\ writing' = {} /\ deleting' = {}
        /\ half' = (half \/ deleting # {}) /\ unwritten' = (unwritten \/ writing # {})
        /\ UNCHANGED <<socket, credsDoc, keyDocs, lastSet, straggled>>
    BY <1>5 DEF KeyStoreCrash
  <2>2. ~half' => ~half /\ deleting = {} /\ phase = "up"
    BY <1>5, <2>1 DEF KeyStoreCrash, KeyTypes, KeyInv, ClearsInTurn
  <2>3. ~unwritten' => ~unwritten /\ writing = {}
    BY <2>1
  <2>4. DocsAreOwn' /\ WritesAreOwn' /\ CredsAreOwn' /\ ClearsInTurn'
    BY <2>1, <2>2 DEF KeyInv, DocsAreOwn, WritesAreOwn, CredsAreOwn, ClearsInTurn
  <2>5. KeysAsSet'
    BY <2>1, <2>2, <2>3 DEF KeyInv, KeysAsSet, Settled, AsSet, Got, Deserialized
  <2> QED BY <2>4, <2>5 DEF KeyInv
<1>6. CASE UNCHANGED keyVars
  BY <1>6 DEF keyVars, KeyInv, DocsAreOwn, WritesAreOwn, CredsAreOwn, ClearsInTurn, KeysAsSet, Settled,
              AsSet, Got, Deserialized
<1> QED BY <1>1, <1>2, <1>3, <1>4, <1>5, <1>6, LoadKeeps, SetKeysKeep, LandsKeep, ClearKeeps
        DEF KeyStoreNext

LEMMA KeysStart ==
  ASSUME KeyStoreInit
  PROVE  KeyTypes /\ KeysKnown /\ KeysDiffer /\ KeyInv
<1>1. /\ Nobody \in Holder /\ Nobody.of = 0 /\ Nobody.secret = 0
      /\ NoKey \in [of : Nat, secret : Nat, value : 0 .. MaxSets]
      /\ NoKey.of = 0 /\ NoKey.secret = 0 /\ NoKey.value = 0
  BY KeyStoreAssumption DEF Nobody, NoKey, Holder
<1>2. KeyTypes /\ KeysKnown /\ KeysDiffer
  BY <1>1, KeyStoreAssumption DEF KeyStoreInit, KeyTypes, KeysKnown, KeysDiffer
<1>3. \A k \in KeyIds : AsSet(k)
  BY <1>1 DEF KeyStoreInit, AsSet, Got, Deserialized
<1>4. DocsAreOwn /\ WritesAreOwn /\ CredsAreOwn /\ ClearsInTurn
  BY <1>1 DEF KeyStoreInit, DocsAreOwn, WritesAreOwn, CredsAreOwn, ClearsInTurn
<1> QED BY <1>2, <1>3, <1>4 DEF KeyInv, KeysAsSet

LEMMA KeysHoldThere ==
  ASSUME KeyTypes, KeysKnown, KeyInv
  PROVE  KeysHold
<1>1. OwnKeysOnly
  <2>1. ASSUME phase = "up", ~straggled, ~half, NEW k \in KeyIds, Got(k) # 0
        PROVE  keyDocs[k].of = socket.of
    <3>1. keyDocs[k].secret = socket.secret /\ keyDocs[k].value # 0
      BY <2>1 DEF Got, Deserialized
    <3>2. keyDocs[k] # NoKey /\ ~(keyDocs[k].secret < socket.secret)
      BY <3>1 DEF NoKey, KeyTypes, Holder
    <3> QED BY <2>1, <3>2 DEF KeyInv, DocsAreOwn
  <2> QED BY <2>1 DEF OwnKeysOnly
<1>2. ReadsWhatItSet
  BY DEF KeyInv, KeysAsSet, AsSet, Settled, ReadsWhatItSet
<1> QED BY <1>1, <1>2 DEF KeysHold

(* The keys a session reads are its own, of no pairing that was cleared, and
   as it set them last, across reconnects, new secrets and restarts.       *)
THEOREM KeysAreKept == KeyStoreSpec => []KeysHold
<1> DEFINE Inv == KeyTypes /\ KeysKnown /\ KeysDiffer /\ KeyInv
<1>1. KeyStoreInit => Inv
  BY KeysStart
<1>2. Inv /\ [KeyStoreNext]_keyVars => Inv'
  BY KeysTyped, KeysKept
<1>3. Inv => KeysHold
  BY KeysHoldThere
<1> QED BY <1>1, <1>2, <1>3, PTL DEF KeyStoreSpec

-----------------------------------------------------------------------------
(* The three together.                                                     *)

LEMMA KeyTypesCorrect ==
  ASSUME KeyTypes, KeysKnown
  PROVE  KeyStoreTypeOK
BY KeyStoreAssumption DEF KeyTypes, KeysKnown, KeyStoreTypeOK, Holder

LEMMA ViewTypesCorrect ==
  ASSUME ViewTypes
  PROVE  ViewOnceTypeOK
BY DEF ViewTypes, ViewOnceTypeOK, Texts, Steps

(* Every variable of the three has its type.                               *)
THEOREM SessionTyped == SessionSpec => []SessionTypeOK
<1> DEFINE Inv == TypeOK /\ KeyTypes /\ KeysKnown /\ KeysDiffer /\ ViewTypes
<1>1. SessionInit => Inv
  BY KeysStart, ViewStarts, InitTyped DEF SessionInit
<1>2. Inv /\ [SessionNext]_<<part, vars, keyVars, viewVars>> => Inv'
  <2> SUFFICES ASSUME Inv, [SessionNext]_<<part, vars, keyVars, viewVars>> PROVE Inv'
    OBVIOUS
  <2>1. [Next]_vars /\ [KeyStoreNext]_keyVars /\ [ViewOnceNext]_viewVars
    BY DEF SessionNext
  <2> QED BY <2>1, NextTyped, KeysTyped, ViewTyped
<1>3. Inv => SessionTypeOK
  BY KeyTypesCorrect, ViewTypesCorrect DEF SessionTypeOK
<1> QED BY <1>1, <1>2, <1>3, PTL DEF SessionSpec
=============================================================================
