--------------------------------- MODULE Media ------------------------------
(***************************************************************************)
(* The media commands of one user: play, spotify, ytaudio, ytvideo, tiktok *)
(* and instagram, from the request over the format menu or the remembered  *)
(* preference to what is sent; and Spotify playlists, streamed or zipped.  *)
(* Every call of the network may fail.  A download tries the APIs in turn. *)
(* One request at a time: menus and preferences in flight are in Menus.    *)
(*                                                                         *)
(* A process that dies leaves the .zip it was writing; the cleanup of a    *)
(* start looks for .webp, .gif, .mp4, .wav and .in.  External: the APIs,   *)
(* yt-dlp, yt-search, Spotify, archiver.  Captions and thumbnails are left *)
(* out.  Texts are taken to be sent.                                       *)
(***************************************************************************)
EXTENDS Integers, SequencesExt, FiniteSetsExt

CONSTANTS
  Wanted,             \* the commands used
  Apis,               \* YOUTUBE_APIS: 5
  MaxTracks,          \* getPlaylist: 100
  MaxPlaylistTracks,  \* MAX_PLAYLIST_TRACKS: 30
  Lengths,            \* how long playlists are
  TrackRanges,        \* <<start, end>> of --start-end
  MaxImages,          \* bound: images of a post
  MaxRequests,        \* bound: requests
  MaxDeaths           \* bound: deaths of the process

ASSUME MediaAssumption ==
  /\ {Apis, MaxTracks, MaxPlaylistTracks} \subseteq Nat \ {0} /\ Lengths \subseteq Nat
  /\ TrackRanges \subseteq Nat \X Nat /\ \A r \in TrackRanges : r[1] > 0 /\ r[2] >= r[1]
  /\ {MaxImages, MaxRequests, MaxDeaths} \subseteq Nat

Everything == <<0, 0>>   \* no range was given

NoJob == [cmd |-> "none", long |-> FALSE, unmeasured |-> FALSE, api |-> 1, images |-> 0,
          video |-> TRUE, type |-> "none", mode |-> "none", range |-> Everything, found |-> 0, tracks |-> <<>>,
          zip |-> FALSE, next |-> 1]

VARIABLES
  at,         \* what the request waits for
  job,        \* what is known of it; next: the image or the track it is at;
              \* unmeasured: no number of seconds was told; found: how many tracks there were
  kept,       \* the stored preferences
  delivered,  \* what was sent: <<how, which>>
  missed,     \* ghost: the images and tracks that were given up
  word,       \* ghost: how the request ended for its user, apart from what was sent
  entries,    \* what the .zip has
  files,      \* how many .zip files are in the temporary directory
  requests, deaths

mediaVars == <<at, job, kept, delivered, missed, word, entries, files, requests, deaths>>

AtApis    == {"infoApi", "download", "fetch"}
ListSteps == {"search", "fetch", "post", "finalize", "sendZip"}
MediaSteps == AtApis \cup ListSteps
  \cup {"idle", "info", "find", "images", "prefer", "menu", "remember", "send", "tracks", "choose", "down"}

MediaTypeOK ==
  /\ at \in MediaSteps /\ job.cmd \in Wanted \cup {"none"} /\ job.api \in 1 .. Apis
  /\ kept \in [Wanted -> {"none", "audio", "video", "document"}]
  /\ word \in {"none", "told", "silent", "cancelled"}
  /\ entries \in Seq(Nat) /\ files \in Nat

MediaInit ==
  /\ at = "idle" /\ job = NoJob /\ kept = [c \in Wanted |-> "none"] /\ delivered = <<>>
  /\ missed = {} /\ word = "none" /\ entries = <<>> /\ files = 0 /\ requests = 0 /\ deaths = 0

Progress(step, j) == at' = step /\ job' = j /\ UNCHANGED <<kept, word, requests, deaths>>
Ends(w) == at' = "idle" /\ word' = w /\ UNCHANGED <<job, kept, requests, deaths>>
SendsNothing == UNCHANGED <<delivered, missed, entries, files>>

-----------------------------------------------------------------------------
(* The APIs, one after the other.                                          *)

ApiFails ==
  /\ job.api < Apis
  /\ Progress(at, [job EXCEPT !.api = @ + 1])

LastApiFails == job.api = Apis

-----------------------------------------------------------------------------
(* The request, and what is learnt of it.                                  *)

\* A menu that is still open is left to the next one.
Request(cmd) ==
  /\ at \in {"idle", "menu", "choose"} /\ requests < MaxRequests
  /\ \/ \E long \in BOOLEAN :
          /\ at' = "info" /\ job' = [NoJob EXCEPT !.cmd = cmd, !.long = long]
          /\ long => cmd = "ytvideo"
     \/ /\ cmd = "spotify" /\ at' = "tracks"
        /\ \E r \in TrackRanges \cup {Everything} : job' = [NoJob EXCEPT !.cmd = cmd, !.range = r]
  /\ requests' = requests + 1 /\ word' = "none" /\ delivered' = <<>> /\ missed' = {} /\ entries' = <<>>
  /\ UNCHANGED <<kept, files, deaths>>

Info(cmd) == at = "info" /\ job.cmd = cmd /\ SendsNothing

\* The search is outside of any try.
PlayInfo == Info("play") /\ (Progress("prefer", job) \/ Ends("told") \/ Ends("silent"))

\* yt-dlp answers, or the APIs are asked.
YtAudioInfo == Info("ytaudio") /\ (Progress("prefer", job) \/ Progress("infoApi", job))

YtVideoInfo ==
  /\ Info("ytvideo")
  /\ \/ IF job.long THEN Ends("told") ELSE Progress("prefer", job)
     \/ Progress("infoApi", job)

TikTokInfo == Info("tiktok") /\ (Progress("prefer", job) \/ Ends("told"))

\* Of several videos the first is offered.
InstagramInfo ==
  /\ Info("instagram")
  /\ \/ \E n \in 0 .. MaxImages, video \in BOOLEAN :
          (n > 0 \/ video) /\ Progress("images", [job EXCEPT !.images = n, !.video = video])
     \/ Ends("told")

SpotifyInfo == Info("spotify") /\ (Progress("find", job) \/ Ends("told"))

\* Any answer is taken.  Only a number of seconds compares with 1800: a duration in words, or
\* none at all, is NaN.
InfoApi ==
  /\ at = "infoApi" /\ SendsNothing
  /\ \/ job.long /\ Ends("told")
     \/ ~job.long /\ Progress("prefer", job)
     \/ job.long /\ Progress("prefer", [job EXCEPT !.unmeasured = TRUE])
     \/ ApiFails
     \/ LastApiFails /\ Ends("told")

\* This search is outside of any try, too.
SearchYouTube ==
  /\ at = "find" /\ SendsNothing
  /\ Progress("prefer", job) \/ Ends("told") \/ Ends("silent")

Images ==
  /\ at = "images" /\ UNCHANGED <<entries, files>>
  /\ \/ /\ job.next <= job.images /\ Progress("images", [job EXCEPT !.next = @ + 1])
        /\ \/ delivered' = Append(delivered, <<"image", job.next>>) /\ UNCHANGED missed
           \/ missed' = missed \cup {job.next} /\ UNCHANGED delivered
     \/ /\ job.next > job.images /\ UNCHANGED <<delivered, missed>>
        /\ IF job.video THEN Progress("prefer", job) ELSE Ends("none")

-----------------------------------------------------------------------------
(* The preference, or the menu.                                            *)

\* Mutant: the videos of TikTok are offered as audio.
Options_Audio(cmd) == IF cmd \in {"play", "spotify", "ytaudio", "tiktok"} THEN <<"audio", "document">>
                      ELSE <<"video", "document">>

\* COMMAND_CONFIGS
Options(cmd) == IF cmd \in {"play", "spotify", "ytaudio"} THEN <<"audio", "document">>
                ELSE <<"video", "document">>

FormatActions(cmd) ==
  [n \in 1 .. 4 |-> [mode |-> Options(cmd)[(n + 1) \div 2], remember |-> n % 2 = 0]]

\* type: what the command says of the media it hands over.
Prefer(cmd, type) ==
  /\ at = "prefer" /\ job.cmd = cmd /\ SendsNothing
  /\ \/ IF kept[cmd] = "none" THEN Progress("menu", [job EXCEPT !.type = type])
        ELSE Progress("download", [job EXCEPT !.type = type, !.mode = kept[cmd], !.api = 1])
     \/ Ends("told")

PlayPrefers      == Prefer("play", "audio")
SpotifyPrefers   == Prefer("spotify", "audio")
YtAudioPrefers   == Prefer("ytaudio", "audio")
YtVideoPrefers   == Prefer("ytvideo", "video")
TikTokPrefers    == Prefer("tiktok", "video")
InstagramPrefers == Prefer("instagram", "video")

Cancels == at \in {"menu", "choose"} /\ Ends("cancelled") /\ SendsNothing

ChooseFormat(n) ==
  /\ at = "menu" /\ SendsNothing
  /\ LET action == FormatActions(job.cmd)[n]
     IN Progress(IF action.remember THEN "remember" ELSE "download",
                 [job EXCEPT !.mode = action.mode, !.api = 1])

\* setPreference; when it rejects the menu is still there.
Remember ==
  /\ at = "remember" /\ SendsNothing
  /\ \/ /\ kept' = [kept EXCEPT ![job.cmd] = job.mode]
        /\ at' = "download" /\ UNCHANGED <<job, word, requests, deaths>>
     \/ Progress("menu", job)

-----------------------------------------------------------------------------
(* sendMediaFromReply                                                      *)

Sendable(type, mode) == mode \in {type, "document"}

Download ==
  /\ at = "download" /\ SendsNothing
  /\ IF ~Sendable(job.type, job.mode) THEN Ends("told")
     ELSE Progress("send", job) \/ ApiFails \/ (LastApiFails /\ Ends("told"))

SendMedia ==
  /\ at = "send" /\ UNCHANGED <<missed, entries, files>>
  /\ \/ Ends("none") /\ delivered' = Append(delivered, <<job.mode, 0>>)
     \/ Ends("told") /\ UNCHANGED delivered

-----------------------------------------------------------------------------
(* Playlists.                                                              *)

Selected(n, range) ==
  IF range = Everything THEN [i \in 1 .. n |-> i]
  ELSE SubSeq([i \in 1 .. n |-> i], range[1], Min({range[2], n}))

\* getPlaylist, or getPlaylistBasic after an error; both may fail.
Tracks ==
  /\ at = "tracks" /\ SendsNothing
  /\ \/ \E n \in Lengths :
          LET found == Min({n, MaxTracks})
          IN Progress("choose", [job EXCEPT !.found = found, !.tracks = Selected(found, job.range)])
     \/ Ends("told")

ToSend == SubSeq(job.tracks, 1, Min({Len(job.tracks), MaxPlaylistTracks}))

ChooseDelivery(zip) ==
  /\ at = "choose" /\ UNCHANGED <<delivered, missed, entries>>
  /\ IF job.tracks = <<>> THEN Ends("told") /\ UNCHANGED files
     ELSE /\ Progress("search", [job EXCEPT !.zip = zip])
          /\ files' = IF zip THEN files + 1 ELSE files

NextTrack == Progress("search", [job EXCEPT !.next = @ + 1, !.api = 1])
GivesUp   == NextTrack /\ missed' = missed \cup {ToSend[job.next]} /\ UNCHANGED <<delivered, entries, files>>

Search ==
  /\ at = "search"
  /\ \/ job.next <= Len(ToSend) /\ (GivesUp \/ (Progress("fetch", job) /\ SendsNothing))
     \/ /\ job.next > Len(ToSend) /\ SendsNothing
        /\ IF job.zip THEN Progress("finalize", job) ELSE Ends("none")

Fetch ==
  /\ at = "fetch"
  /\ \/ ~job.zip /\ Progress("post", job) /\ SendsNothing
     \/ /\ job.zip /\ NextTrack
        /\ entries' = Append(entries, ToSend[job.next]) /\ UNCHANGED <<delivered, missed, files>>
     \/ ApiFails /\ SendsNothing
     \/ LastApiFails /\ GivesUp

Post ==
  /\ at = "post"
  /\ \/ NextTrack /\ delivered' = Append(delivered, <<"audio", ToSend[job.next]>>)
        /\ UNCHANGED <<missed, entries, files>>
     \/ GivesUp

\* What finally does: the .zip is unlinked.
Finalize ==
  /\ at = "finalize" /\ UNCHANGED <<delivered, missed, entries>>
  /\ \/ Progress("sendZip", job) /\ UNCHANGED files
     \/ Ends("silent") /\ files' = files - 1

SendZip ==
  /\ at = "sendZip" /\ UNCHANGED <<missed, entries>> /\ files' = files - 1
  /\ \/ Ends("none") /\ delivered' = Append(delivered, <<"zip", Len(entries)>>)
     \/ Ends("told") /\ UNCHANGED delivered

-----------------------------------------------------------------------------
(* The process dies: by a kill, or because the stream of the .zip breaks   *)
(* while the tracks are collected, when nothing listens for its errors.    *)

Dies ==
  /\ at # "down" /\ deaths < MaxDeaths /\ deaths' = deaths + 1
  /\ at' = "down" /\ word' = "silent"
  /\ UNCHANGED <<job, kept, delivered, missed, entries, files, requests>>

\* cleanupStaleTempFiles has no pattern for a .zip; sessions of menus are in memory.
Restarts ==
  /\ at = "down" /\ at' = "idle"
  /\ UNCHANGED <<job, kept, delivered, missed, word, entries, files, requests, deaths>>

-----------------------------------------------------------------------------
MediaNext ==
  \/ \E c \in Wanted : Request(c)
  \/ PlayInfo \/ YtAudioInfo \/ YtVideoInfo \/ TikTokInfo \/ InstagramInfo \/ SpotifyInfo \/ InfoApi
  \/ SearchYouTube \/ Images \/ PlayPrefers \/ SpotifyPrefers \/ YtAudioPrefers \/ YtVideoPrefers
  \/ TikTokPrefers \/ InstagramPrefers \/ Cancels \/ Remember \/ Download \/ SendMedia
  \/ \E n \in 1 .. 4 : ChooseFormat(n)
  \/ Tracks \/ Search \/ Fetch \/ Post \/ Finalize \/ SendZip
  \/ \E zip \in BOOLEAN : ChooseDelivery(zip)
  \/ Dies \/ Restarts

\* Every request to an API has a timeout of 30 or 120 s.  Nothing bounds a search, yt-dlp or a send.
MediaFairness == WF_mediaVars(InfoApi) /\ WF_mediaVars(Download) /\ WF_mediaVars(Fetch)

MediaSpec == MediaInit /\ [][MediaNext]_mediaVars /\ MediaFairness

-----------------------------------------------------------------------------
(* Properties.                                                             *)

Sent(how)     == {i \in DOMAIN delivered : delivered[i][1] = how}
Numbers       == [i \in DOMAIN delivered |-> delivered[i][2]]
Increasing(s) == \A i, j \in DOMAIN s : i < j => s[i] < s[j]

(* No format that a menu offers, today or on the day it was remembered, is
   refused when the media is to be sent.                                   *)
FormatsFit == at \in {"remember", "download", "send"} => Sendable(job.type, job.mode)

(* The tracks of a playlist are sent, or are in the .zip, in the order of the
   playlist and once; they are the first of those asked for, and each one
   that is behind was either sent or given up, never both.                 *)
PlaylistInOrder ==
  job.tracks # <<>> =>
    LET asked == {t \in 1 .. job.found : job.range = Everything \/ t \in job.range[1] .. job.range[2]}
        due   == {t \in asked : Cardinality({u \in asked : u < t}) < MaxPlaylistTracks}
        out   == IF job.zip THEN entries ELSE Numbers
        given == {out[i] : i \in DOMAIN out}
    IN /\ Increasing(out) /\ given \cap missed = {} /\ (given \cup missed) \subseteq due
       /\ Cardinality(given \cup missed) = job.next - 1
       /\ at \in {"finalize", "sendZip"} => given \cup missed = due
       /\ Sent(IF job.zip THEN "zip" ELSE "audio") = DOMAIN delivered

(* What a .zip held when it was sent is what was collected, and no .zip stays
   behind but those of processes that died.                                *)
ZipHolds ==
  /\ \A i \in Sent("zip") : Numbers[i] = Len(entries)
  /\ files <= deaths + (IF job.zip /\ at \in ListSteps THEN 1 ELSE 0)

(* Images come in their order, and each is sent or reported; a failure that
   is told is not followed by the media, and a request that came to its end
   without a word sent something, unless every track of it was given up.
   Left out are the ends that are "silent": a search that rejects outside of
   any try, a .zip that cannot be finished, the death of the process.      *)
EndsInWords ==
  /\ \A i, j \in Sent("image") : i < j => Numbers[i] < Numbers[j]
  /\ at \in {"prefer", "menu"} =>
       LET given == {Numbers[i] : i \in Sent("image")}
       IN  given \cup missed = 1 .. job.images /\ given \cap missed = {}
  /\ word = "told" => Sent(job.mode) = {}
  /\ at = "idle" /\ word = "none" /\ requests > 0 => delivered # <<>> \/ missed # {}

(* A video of more than 30 minutes is refused, unless the API that answered told its
   duration in words, or none (YTVideo.ts:35 compares NaN with 1800).      *)
LongRefused ==
  job.long /\ job.cmd = "ytvideo" /\ at \notin {"info", "infoApi", "idle", "down"}
    => job.unmeasured

(* What the media commands send is what was asked for, in a form that can be
   sent, in order, and with nothing left behind.                           *)
MediaHolds == FormatsFit /\ PlaylistInOrder /\ ZipHolds /\ EndsInWords /\ LongRefused

(* No API keeps a request: it is answered, or all of them have failed.     *)
DownloadsEnd == (at \in AtApis) ~> (at \notin AtApis)
=============================================================================
