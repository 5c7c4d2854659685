----------------------------- MODULE SharedPage -----------------------------
(***************************************************************************)
(* The public library page (SharedLibrary, with the Player's speed and     *)
(* routes.ts): opened on a link that may name a track and a speed, it      *)
(* plays that track if its list has it playable, and from then on keeps    *)
(* the address bar at a link to whatever plays, at whatever speed.         *)
(*                                                                         *)
(* React runs the effects of a click before the next event, so a handler   *)
(* and its effects are one action.  A list that fails to arrive leaves the *)
(* page as it is for good.                                                 *)
(***************************************************************************)
EXTENDS Speed

CONSTANTS
    Tracks,         \* ids a link may name, in the library or not
    NoTrack,        \* a plain library link; nothing playing
    Typed           \* rates that people type into links

ASSUME TrackAssumption == NoTrack \notin Tracks
ASSUME TypedAssumption == Typed \subseteq Int

VARIABLES
    library,        \* what the api's public list says of each track
    address,        \* the address bar: a track and a rate
    wanted,         \* the track of the link the page was opened on
    shown,          \* the list the page got, once it has
    carried,        \* speed.ts's carried
    player,         \* nowPlaying, and the speed of its Player
    notice,         \* trackNotice
    copied,         \* a link taken from the address bar, with what played then
    untouched       \* the page was opened on that link, and is as it opened

sharedVars == <<library, address, wanted, shown, carried, player, notice, copied, untouched>>

TrackState == {"absent", "waiting", "playable"}
Listing == [Tracks -> TrackState]
Link == [track : Tracks \union {NoTrack}, rate : Int \union {NoSpeed}]
Played == [track : Tracks, step : Steps]
Silence == [track |-> NoTrack, step |-> 0]
NotListed == [t \in {} |-> "absent"]
NoCopy == [link |-> [track |-> NoTrack, rate |-> NoSpeed], played |-> Silence]

SharedTypeOK ==
    /\ library \in Listing /\ shown \in Listing \union {NotListed}
    /\ address \in Link /\ wanted \in Tracks \union {NoTrack}
    /\ carried \in Steps
    /\ player \in Played \union {Silence}
    /\ notice \in {"none", "missing", "unplayable"}
    /\ copied \in [link : Link, played : Played \union {Silence}]
    /\ untouched \in BOOLEAN

\* sharedRoute, and main's carrySpeedStep before the first render.
Opened(link) ==
    /\ address' = link /\ wanted' = link.track
    /\ carried' \in IF link.rate = NoSpeed \/ link.rate <= 0 THEN {0}
                    ELSE StepsFromRate(link.rate)
    /\ shown' = NotListed /\ player' = Silence /\ notice' = "none"

SharedInit ==
    /\ library = [t \in Tracks |-> "absent"]
    /\ address = [track |-> NoTrack, rate |-> NoSpeed] /\ wanted = NoTrack
    /\ shown = NotListed /\ carried = 0 /\ player = Silence /\ notice = "none"
    /\ copied = NoCopy /\ untouched = FALSE

\* A reload, a link someone wrote, or the one that was copied.
Open(link) ==
    /\ Opened(link)
    /\ untouched' = (copied # NoCopy /\ link = copied.link)
    /\ UNCHANGED <<library, copied>>

\* Uploads, transcodes and deletes of the owner.
Change(t) ==
    /\ \/ library[t] = "absent" /\ library' = [library EXCEPT ![t] = "waiting"]
       \/ library[t] = "waiting" /\ library' = [library EXCEPT ![t] = "playable"]
       \/ library[t] # "absent" /\ library' = [library EXCEPT ![t] = "absent"]
    /\ UNCHANGED <<address, wanted, shown, carried, player, notice, copied, untouched>>
-----------------------------------------------------------------------------
\* Slip: the effect that writes the address depends on the track alone.
WrittenPerTrack(t, s) ==
    IF player.track = t THEN address
    ELSE [track |-> t, rate |-> IF s = 0 THEN NoSpeed ELSE Rate(s)]

\* sharedTrackPath
Written(t, s) == [track |-> t, rate |-> IF s = 0 THEN NoSpeed ELSE Rate(s)]

\* The player mounts at, or is set to, a speed: carrySpeedStep,
\* onSpeedStepChange, and the address.
PlayAt(t, s) ==
    /\ player' = [track |-> t, step |-> s]
    /\ carried' = s
    /\ address' = Written(t, s)

ListArrives ==
    /\ shown = NotListed
    /\ shown' = library
    /\ \/ /\ wanted = NoTrack
          /\ UNCHANGED <<notice, player, carried, address>>
       \/ /\ wanted # NoTrack /\ library[wanted] # "playable"
          /\ notice' = IF library[wanted] = "absent" THEN "missing" ELSE "unplayable"
          /\ UNCHANGED <<player, carried, address>>
       \/ /\ wanted # NoTrack /\ library[wanted] = "playable"
          /\ PlayAt(wanted, carried)
          /\ UNCHANGED notice
    /\ UNCHANGED <<library, wanted, copied, untouched>>

\* Slip: the notice left standing.
PlayRowUnderNotice(t) ==
    /\ shown # NotListed /\ shown[t] = "playable"
    /\ player.track # t
    /\ PlayAt(t, carried)
    /\ untouched' = FALSE
    /\ UNCHANGED <<library, wanted, shown, notice, copied>>

\* A click on a row; on the one that plays it is a pause.
PlayRow(t) ==
    /\ shown # NotListed /\ shown[t] = "playable"
    /\ player.track # t
    /\ notice' = "none"
    /\ PlayAt(t, carried)
    /\ untouched' = FALSE
    /\ UNCHANGED <<library, wanted, shown, copied>>

SetSpeed(s) ==
    /\ player # Silence
    /\ PlayAt(player.track, s)
    /\ untouched' = FALSE
    /\ UNCHANGED <<library, wanted, shown, notice, copied>>

\* changeSpeed, by a stepper; resetSpeed.
ChangeSpeed(steps) == SetSpeed(Clamp(player.step + steps))
ResetSpeed == SetSpeed(0)

CopyLink ==
    /\ player # Silence
    /\ copied' = [link |-> address, played |-> player]
    /\ untouched' = FALSE
    /\ UNCHANGED <<library, address, wanted, shown, carried, player, notice>>

SharedNext ==
    \/ \E t \in Tracks \union {NoTrack}, r \in Typed \union {NoSpeed} :
          Open([track |-> t, rate |-> r])
    \/ Open(address)
    \/ Open(copied.link)
    \/ ListArrives
    \/ \E t \in Tracks : Change(t) \/ PlayRow(t)
    \/ \E steps \in {-1, 1} : ChangeSpeed(steps)
    \/ ResetSpeed
    \/ CopyLink

SharedSpec == SharedInit /\ [][SharedNext]_sharedVars
-----------------------------------------------------------------------------
(***************************************************************************)
(* A link keeps its word.  Taken from the address bar while a track plays  *)
(* and opened on another page, it plays the same track at the same speed   *)
(* and is the address of that page too; or, if the track cannot be played  *)
(* by then, it keeps the speed for whatever is played instead (routes.ts   *)
(* and speed.ts there and back, and SharedLibrary's and Player's effects). *)
(***************************************************************************)
LinkKeepsItsWord ==
    untouched /\ shown # NotListed =>
        /\ address = copied.link
        /\ IF shown[wanted] = "playable"
           THEN player = copied.played
           ELSE player = Silence /\ carried = copied.played.step

(***************************************************************************)
(* The page says why a link's track is not playing, as long as it is not   *)
(* and nothing else is, and never over a track that plays (trackNotice).   *)
(***************************************************************************)
SaysWhy ==
    /\ notice # "none" => player = Silence /\ address.track = wanted
    /\ wanted # NoTrack /\ shown # NotListed /\ player = Silence =>
          notice = IF shown[wanted] = "absent" THEN "missing" ELSE "unplayable"
=============================================================================
