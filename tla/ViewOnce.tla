------------------------------- MODULE ViewOnce -----------------------------
(***************************************************************************)
(* Snapshots of received images and videos on disk: a .bin with the media, *)
(* written as the message comes in, and then a .json with its type; both   *)
(* read by /retrieve, which otherwise asks the CDN; and pruned file by     *)
(* file, by the age of each, at every connect and every six hours.  A      *)
(* message delivered again is captured again, over the files it has.       *)
(*                                                                         *)
(* The messages are independent of one another: the module has one.  The   *)
(* CDN is external: it forgets the media at some time.  Writing a file     *)
(* empties it first and gives it a new time.                               *)
(***************************************************************************)
EXTENDS Integers, Sequences

CONSTANTS
  Captures, Pruners, Readers,  \* those that may run at the same time
  Ttl,          \* VIEW_ONCE_TTL_MS, in ticks: 7 days
  MaxDeliveries, MaxRetrievals, MaxPrunes,  \* bounds
  MaxTicks      \* bound: ticks of the clock

ASSUME ViewOnceAssumption ==
  /\ Ttl \in Nat \ {0} /\ {MaxDeliveries, MaxRetrievals, MaxPrunes, MaxTicks} \subseteq Nat

Files == {"bin", "json"}
Absent == [text |-> "absent", mtime |-> 0]

VARIABLES
  disk,       \* disk[f]: absent, part (being written) or whole, and the time of its last write
  cdn,        \* whether the CDN still has the media
  capture,    \* capture[c]: the file it is to write next
  prune,      \* prune[p]: the files to look at, and the one it has found old
  read,       \* read[r]: what it has of each file
  served,     \* ghost: the last answer of /retrieve, and whether the snapshot was there
  rewritten,  \* ghost: a file was written over that of an earlier delivery, or in the place of one
              \* that a prune found old and is still to unlink
  stored,     \* ghost: the time of the .bin when both files were whole first, -1 before
  failed,     \* ghost: a write of a file failed
  ticks, deliveries, retrievals, prunes

viewVars == <<disk, cdn, capture, prune, read, served, rewritten, stored, failed, ticks, deliveries,
              retrievals, prunes>>

NotPruning == [todo |-> <<>>, old |-> "none", cutoff |-> 0]
NotReading == [busy |-> FALSE, bin |-> "unread", json |-> "unread", due |-> FALSE]

ViewOnceTypeOK ==
  /\ \A f \in Files : disk[f].text \in {"absent", "part", "whole"} /\ disk[f].mtime \in 0 .. ticks
  /\ \A c \in Captures : capture[c] \in {"free", "download", "bin", "binPart", "json", "jsonPart"}
  /\ \A p \in Pruners : prune[p].old \in Files \cup {"none"}
  /\ stored \in -1 .. ticks

ViewOnceInit ==
  /\ disk = [f \in Files |-> Absent] /\ cdn = TRUE
  /\ capture = [c \in Captures |-> "free"] /\ prune = [p \in Pruners |-> NotPruning]
  /\ read = [r \in Readers |-> NotReading] /\ served = [due |-> FALSE, what |-> "none"] /\ rewritten = FALSE
  /\ stored = -1 /\ failed = FALSE /\ ticks = 0 /\ deliveries = 0 /\ retrievals = 0 /\ prunes = 0

-----------------------------------------------------------------------------
(* captureViewOnce                                                         *)

CaptureUnchanged == UNCHANGED <<cdn, prune, read, served, ticks, retrievals, prunes>>

Deliver(c) ==
  /\ capture[c] = "free" /\ deliveries < MaxDeliveries /\ deliveries' = deliveries + 1
  /\ capture' = [capture EXCEPT ![c] = "download"]
  /\ UNCHANGED <<disk, rewritten, stored, failed>> /\ CaptureUnchanged

\* baileysDownloadMediaMessage
DownloadForCapture(c) ==
  /\ capture[c] = "download"
  /\ capture' = [capture EXCEPT ![c] = IF cdn THEN "bin" ELSE "free"]
  /\ UNCHANGED <<disk, rewritten, stored, failed, deliveries>> /\ CaptureUnchanged

Starts(c, f, next) ==
  /\ capture[c] = f /\ capture' = [capture EXCEPT ![c] = next]
  /\ disk' = [disk EXCEPT ![f] = [text |-> "part", mtime |-> ticks]]
  /\ rewritten' = (rewritten \/ disk[f].text # "absent" \/ \E p \in Pruners : prune[p].old = f)
  /\ UNCHANGED <<stored, failed, deliveries>> /\ CaptureUnchanged

\* The file is there under its name even if it was unlinked meanwhile: then it is not.
Completed(f) == IF disk[f].text = "absent" THEN disk ELSE [disk EXCEPT ![f] = [text |-> "whole", mtime |-> ticks]]

WriteBin(c)  == Starts(c, "bin", "binPart")
WriteMeta(c) == Starts(c, "json", "jsonPart")

BinWritten(c) ==
  /\ capture[c] = "binPart" /\ capture' = [capture EXCEPT ![c] = "json"] /\ disk' = Completed("bin")
  /\ UNCHANGED <<rewritten, stored, failed, deliveries>> /\ CaptureUnchanged

MetaWritten(c) ==
  /\ capture[c] = "jsonPart" /\ capture' = [capture EXCEPT ![c] = "free"] /\ disk' = Completed("json")
  /\ stored' = IF stored = -1 /\ disk'["bin"].text = "whole" /\ disk'["json"].text = "whole"
                THEN disk["bin"].mtime ELSE stored
  /\ UNCHANGED <<rewritten, failed, deliveries>> /\ CaptureUnchanged

\* A write rejects, or the process dies: what was written of the file stays.
CaptureFails(c) ==
  /\ capture[c] \notin {"free", "download"} /\ ~failed /\ failed' = TRUE
  /\ capture' = [capture EXCEPT ![c] = "free"]
  /\ UNCHANGED <<disk, rewritten, stored, deliveries>> /\ CaptureUnchanged

-----------------------------------------------------------------------------
(* pruneViewOnce                                                           *)

PruneUnchanged == UNCHANGED <<cdn, capture, read, served, rewritten, stored, failed, ticks, deliveries,
                              retrievals>>

PruneFrom(t) == [todo |-> <<"bin", "json">>, old |-> "none", cutoff |-> t]

\* The names are read before the clock.
BeginPrune(p) ==
  /\ prune[p] = NotPruning /\ prunes < MaxPrunes /\ prunes' = prunes + 1
  /\ prune' = [prune EXCEPT ![p] = PruneFrom(ticks - Ttl)]
  /\ UNCHANGED disk /\ PruneUnchanged

\* Mutant: a file is old as soon as it has the age of the cutoff's day.
TooOld_Early(f, cutoff) == disk[f].mtime <= cutoff + 1
TooOld(f, cutoff) == disk[f].mtime < cutoff

\* stat
Stat(p) ==
  /\ prune[p].todo # <<>> /\ prune[p].old = "none"
  /\ LET f == Head(prune[p].todo)
     IN prune' = [prune EXCEPT ![p].todo = Tail(@),
                    ![p].old = IF disk[f].text # "absent" /\ TooOld(f, prune[p].cutoff) THEN f ELSE "none"]
  /\ UNCHANGED <<disk, prunes>> /\ PruneUnchanged

\* unlink: the name, whatever it stands for by now.
Unlink(p) ==
  /\ prune[p].old # "none"
  /\ disk' = [disk EXCEPT ![prune[p].old] = Absent]
  /\ prune' = [prune EXCEPT ![p].old = "none"]
  /\ UNCHANGED prunes /\ PruneUnchanged

EndPrune(p) ==
  /\ prune[p] # NotPruning /\ prune[p].todo = <<>> /\ prune[p].old = "none"
  /\ prune' = [prune EXCEPT ![p] = NotPruning]
  /\ UNCHANGED <<disk, prunes>> /\ PruneUnchanged

-----------------------------------------------------------------------------
(* /retrieve                                                               *)

ReadUnchanged == UNCHANGED <<disk, cdn, capture, prune, rewritten, stored, failed, ticks, deliveries, prunes>>

\* Ghost: the snapshot is there, and no older than the limit.
Due == stored # -1 /\ ticks <= stored + Ttl

Retrieve(r) ==
  /\ ~read[r].busy /\ retrievals < MaxRetrievals /\ retrievals' = retrievals + 1
  /\ read' = [read EXCEPT ![r] = [busy |-> TRUE, bin |-> "unread", json |-> "unread", due |-> Due]]
  /\ UNCHANGED served /\ ReadUnchanged

\* getCapturedViewOnce reads both files at once.
ReadFile(r, f) ==
  /\ read[r].busy /\ read[r][f] = "unread"
  /\ read' = [read EXCEPT ![r][f] = disk[f].text]
  /\ UNCHANGED <<served, retrievals>> /\ ReadUnchanged

\* A .json that is not whole does not parse; a .bin is taken as it is.
Serve(r) ==
  /\ read[r].busy /\ read[r].bin # "unread" /\ read[r].json # "unread"
  /\ read' = [read EXCEPT ![r] = NotReading]
  /\ served' = [due |-> read[r].due /\ Due,
                what |-> IF read[r].bin # "absent" /\ read[r].json = "whole" THEN read[r].bin
                         ELSE IF cdn THEN "live" ELSE "sorry"]
  /\ UNCHANGED retrievals /\ ReadUnchanged

-----------------------------------------------------------------------------
\* No write lasts longer than a tick.
ViewOnceTick ==
  /\ ticks < MaxTicks /\ ticks' = ticks + 1
  /\ \A f \in Files : disk[f].text = "part" /\ ~failed => disk[f].mtime = ticks
  /\ UNCHANGED <<disk, cdn, capture, prune, read, served, rewritten, stored, failed, deliveries,
                 retrievals, prunes>>

CdnForgets ==
  /\ cdn /\ cdn' = FALSE
  /\ UNCHANGED <<disk, capture, prune, read, served, rewritten, stored, failed, ticks, deliveries,
                 retrievals, prunes>>

ViewOnceNext ==
  \/ \E c \in Captures : Deliver(c) \/ DownloadForCapture(c) \/ WriteBin(c) \/ BinWritten(c)
                           \/ WriteMeta(c) \/ MetaWritten(c) \/ CaptureFails(c)
  \/ \E p \in Pruners : BeginPrune(p) \/ Stat(p) \/ Unlink(p) \/ EndPrune(p)
  \/ \E r \in Readers : Retrieve(r) \/ ReadFile(r, "bin") \/ ReadFile(r, "json") \/ Serve(r)
  \/ ViewOnceTick \/ CdnForgets

ViewOnceSpec == ViewOnceInit /\ [][ViewOnceNext]_viewVars

-----------------------------------------------------------------------------
(* Properties.                                                             *)

(* A snapshot that was stored, and is asked for within the limit, is served
   and is whole, even while it is being pruned; until a second delivery
   writes over the files of the first, or just as a prune unlinks their
   name, or a write fails.                                                 *)
SnapshotsHold == ~rewritten /\ ~failed /\ served.due => served.what = "whole"
=============================================================================
