--------------------------- MODULE SharedPageProofs ---------------------------
(***************************************************************************)
(* A speed of the grid survives a link, for every grid; and with it the    *)
(* public page keeps the word of its links, for every set of tracks and of *)
(* rates that people may type.                                             *)
(***************************************************************************)
EXTENDS SharedPage, TLAPS

\* A clamped step is on the grid, and one on the grid is not moved.
LEMMA ClampOnGrid ==
    ASSUME NEW n \in Int
    PROVE  Clamp(n) \in Steps /\ (n \in Steps => Clamp(n) = n)
BY GridAssumption DEF Clamp, Steps

\* Rounding returns whole numbers of steps ...
LEMMA RoundedWhole ==
    ASSUME NEW x \in Int
    PROVE  Rounded(x) \subseteq Int
BY DEF Rounded

\* ... and leaves an exact one alone.
LEMMA RoundedExact ==
    ASSUME NEW s \in Int
    PROVE  Rounded(250 * s) = {s}
<1>1. (250 * s) \div 250 = s
  BY Z3
<1>2. s \in Rounded(250 * s)
  BY <1>1 DEF Rounded
<1>3. s + 1 \notin Rounded(250 * s)
  BY DEF Rounded
<1> QED  BY <1>1, <1>2, <1>3 DEF Rounded

(***************************************************************************)
(* Every speed the player can be set to is the one its link is read as     *)
(* (speedStepFromRate of speedRateParam): neither the rounding nor the     *)
(* clamp moves it, and the slowest is not taken for no speed at all.       *)
(***************************************************************************)
THEOREM LinkRoundTrip ==
    ASSUME NEW s \in Steps
    PROVE  Rate(s) > 0 /\ StepsFromRate(Rate(s)) = {s}
<1>1. s \in Int /\ MinStep <= s
  BY GridAssumption DEF Steps
<1>2. Rate(s) > 0
  BY <1>1, SlowestAssumption, GridAssumption DEF Rate
<1>3. Rate(s) - 10000 = 250 * s
  BY <1>1 DEF Rate
<1>4. Rounded(Rate(s) - 10000) = {s}
  BY <1>1, <1>3, RoundedExact
<1>5. Clamp(s) = s
  BY <1>1, ClampOnGrid
<1>6. ~(Rate(s) <= 0)
  BY <1>1, <1>2 DEF Rate
<1> QED  BY <1>2, <1>4, <1>5, <1>6 DEF StepsFromRate

\* A usable rate of a link is read as a step of the grid, whatever it is.
LEMMA LinkOnGrid ==
    ASSUME NEW rate \in Int, rate > 0
    PROVE  StepsFromRate(rate) \subseteq Steps
<1>1. ~(rate <= 0)
  OBVIOUS
<1>2. Rounded(rate - 10000) \subseteq Int
  BY RoundedWhole
<1> QED  BY <1>1, <1>2, ClampOnGrid DEF StepsFromRate
-----------------------------------------------------------------------------
\* The links of the page's own making.
Made == [link : Link, played : Played]
Honest(copy) == copy.link = Written(copy.played.track, copy.played.step)

(***************************************************************************)
(* What holds between two loads: the address is that of what plays, so a   *)
(* copied link is one the page wrote; and a page opened on it is on its    *)
(* way to, or at, what was copied.                                         *)
(***************************************************************************)
AddressFollows ==
    /\ player # Silence => address = Written(player.track, player.step) /\ carried = player.step
    /\ player = Silence => address.track = wanted
    /\ shown = NotListed => player = Silence /\ notice = "none"

CopyIsHonest == copied # NoCopy => copied \in Made /\ Honest(copied)

OpenedOnCopy ==
    untouched =>
        /\ copied # NoCopy /\ address = copied.link /\ wanted = copied.link.track
        /\ shown = NotListed => carried = copied.played.step

LinkInv ==
    SharedTypeOK /\ AddressFollows /\ CopyIsHonest /\ OpenedOnCopy /\ LinkKeepsItsWord /\ SaysWhy

\* What plays is not silence.
LEMMA PlayedIsNotSilence ==
    ASSUME NEW t \in Tracks, NEW s \in Steps
    PROVE  /\ [track |-> t, step |-> s] \in Played
           /\ [track |-> t, step |-> s] # Silence
           /\ Written(t, s) \in Link /\ Written(t, s).track = t
<1>1. Rate(s) \in Int
  BY GridAssumption DEF Rate, Steps
<1> QED  BY <1>1, TrackAssumption DEF Played, Silence, Written, Link

LEMMA LinkInit == SharedInit => LinkInv
<1> SUFFICES ASSUME SharedInit PROVE LinkInv
  OBVIOUS
<1> USE DEF SharedInit
<1>1. library \in Listing
  BY DEF Listing, TrackState
<1>2. address \in Link /\ NoCopy \in [link : Link, played : Played \union {Silence}]
  BY DEF Link, NoCopy
<1>3. 0 \in Steps
  BY GridAssumption DEF Steps
<1>4. SharedTypeOK
  BY <1>1, <1>2, <1>3 DEF SharedTypeOK
<1> QED
  BY <1>4 DEF LinkInv, AddressFollows, CopyIsHonest, OpenedOnCopy, LinkKeepsItsWord, SaysWhy

\* A page load.
LEMMA OpenStep ==
    ASSUME LinkInv, NEW link \in Link, Open(link)
    PROVE  LinkInv'
<1> USE DEF LinkInv
<1>1. /\ address' = link /\ wanted' = link.track /\ shown' = NotListed
      /\ player' = Silence /\ notice' = "none" /\ UNCHANGED <<library, copied>>
      /\ untouched' = (copied # NoCopy /\ link = copied.link)
  BY DEF Open, Opened
<1>2. carried' \in Steps
  <2>1. CASE link.rate = NoSpeed \/ link.rate <= 0
    BY <2>1, GridAssumption DEF Open, Opened, Steps
  <2>2. CASE ~(link.rate = NoSpeed \/ link.rate <= 0)
    <3>1. link.rate \in Int /\ link.rate > 0
      BY <2>2 DEF Link
    <3> QED  BY <2>2, <3>1, LinkOnGrid DEF Open, Opened
  <2> QED  BY <2>1, <2>2
<1>3. SharedTypeOK'
  BY <1>1, <1>2 DEF SharedTypeOK, Link
<1>4. ASSUME untouched' PROVE carried' = copied.played.step
  <2>1. copied \in Made /\ link = Written(copied.played.track, copied.played.step)
    BY <1>1, <1>4 DEF CopyIsHonest, Honest
  <2> DEFINE s == copied.played.step
  <2>2. s \in Steps
    BY <2>1 DEF Made, Played
  <2>3. CASE s = 0
    BY <2>1, <2>3 DEF Open, Opened, Written
  <2>4. CASE s # 0
    <3>1. link.rate = Rate(s)
      BY <2>1, <2>4 DEF Written
    <3>2. Rate(s) \in Int /\ Rate(s) > 0 /\ StepsFromRate(Rate(s)) = {s}
      BY <2>2, LinkRoundTrip, GridAssumption DEF Steps, Rate
    <3>3. ~(link.rate = NoSpeed \/ link.rate <= 0)
      BY <3>1, <3>2, NoSpeedAssumption
    <3> QED  BY <3>1, <3>2, <3>3 DEF Open, Opened
  <2> QED  BY <2>3, <2>4
<1> QED
  BY <1>1, <1>3, <1>4
     DEF AddressFollows, CopyIsHonest, Honest, OpenedOnCopy, LinkKeepsItsWord, SaysWhy, Written

\* What starts to play, or changes its speed.
LEMMA PlayStep ==
    ASSUME LinkInv, NEW t \in Tracks, NEW s \in Steps, PlayAt(t, s)
    PROVE  /\ player' = [track |-> t, step |-> s] /\ player' \in Played /\ player' # Silence
           /\ carried' = s /\ carried' \in Steps
           /\ address' = Written(t, s) /\ address' \in Link /\ address'.track = t
BY PlayedIsNotSilence DEF PlayAt

LEMMA ListStep ==
    ASSUME LinkInv, ListArrives
    PROVE  LinkInv'
<1> USE DEF LinkInv
<1>1. /\ shown = NotListed /\ shown' = library /\ library \in Listing
      /\ UNCHANGED <<library, wanted, copied, untouched>>
      /\ player = Silence /\ notice = "none" /\ address.track = wanted
      /\ wanted \in Tracks \union {NoTrack}
  BY DEF ListArrives, SharedTypeOK, AddressFollows
<1>2. ASSUME wanted # NoTrack PROVE library # NotListed
  <2>1. DOMAIN library = Tracks /\ DOMAIN NotListed = {}
    BY <1>1 DEF Listing, NotListed
  <2> QED  BY <1>1, <1>2, <2>1
<1>3. CASE wanted = NoTrack
  <2>1. UNCHANGED <<notice, player, carried, address>>
    BY <1>3 DEF ListArrives
  <2>2. ~untouched
    BY <1>3, TrackAssumption DEF OpenedOnCopy, CopyIsHonest, Made, Honest, Written, Played
  <2> QED
    BY <1>1, <1>3, <2>1, <2>2
       DEF SharedTypeOK, AddressFollows, CopyIsHonest, Honest, OpenedOnCopy, LinkKeepsItsWord,
           SaysWhy, Written
<1>4. CASE wanted # NoTrack /\ library[wanted] # "playable"
  <2>1. /\ UNCHANGED <<player, carried, address>>
        /\ notice' = IF library[wanted] = "absent" THEN "missing" ELSE "unplayable"
    BY <1>4 DEF ListArrives
  <2> QED
    BY <1>1, <1>2, <1>4, <2>1
       DEF SharedTypeOK, AddressFollows, CopyIsHonest, Honest, OpenedOnCopy, LinkKeepsItsWord,
           SaysWhy, Written
<1>5. CASE wanted # NoTrack /\ library[wanted] = "playable"
  <2>1. PlayAt(wanted, carried) /\ UNCHANGED notice
    BY <1>5 DEF ListArrives
  <2>2. wanted \in Tracks /\ carried \in Steps
    BY <1>1, <1>5 DEF SharedTypeOK
  <2>3. /\ player' = [track |-> wanted, step |-> carried] /\ player' \in Played
        /\ player' # Silence /\ carried' = carried /\ carried' \in Steps
        /\ address' = Written(wanted, carried) /\ address' \in Link
    BY <2>1, <2>2, PlayStep
  <2>4. SharedTypeOK'
    BY <1>1, <2>1, <2>3 DEF SharedTypeOK
  <2>5. AddressFollows'
    BY <1>1, <1>2, <1>5, <2>1, <2>3 DEF AddressFollows, Written
  <2>6. ASSUME untouched PROVE copied.played = player' /\ copied.link = address'
    <3>1. /\ copied \in Made /\ wanted = copied.link.track /\ carried = copied.played.step
          /\ copied.link = Written(copied.played.track, copied.played.step)
      BY <1>1, <2>6 DEF OpenedOnCopy, CopyIsHonest, Honest
    <3>2. copied.played.track = wanted
      BY <3>1 DEF Written
    <3>3. copied.played = [track |-> wanted, step |-> carried]
      BY <3>1, <3>2 DEF Made, Played
    <3> QED  BY <2>3, <3>1, <3>2, <3>3
  <2> QED
    BY <1>1, <1>5, <2>1, <2>3, <2>4, <2>5, <2>6
       DEF CopyIsHonest, Honest, OpenedOnCopy, LinkKeepsItsWord, SaysWhy, Written
<1> QED  BY <1>3, <1>4, <1>5

\* A click that plays, or a stepper: the page is no longer as it was opened.
LEMMA ClickStep ==
    ASSUME LinkInv, NEW t \in Tracks, NEW s \in Steps, PlayAt(t, s), untouched' = FALSE,
           UNCHANGED <<library, wanted, shown, copied>>, shown # NotListed,
           notice' = "none"
    PROVE  LinkInv'
<1>1. /\ player' = [track |-> t, step |-> s] /\ player' \in Played /\ player' # Silence
      /\ carried' = s /\ carried' \in Steps
      /\ address' = Written(t, s) /\ address' \in Link /\ address'.track = t
  BY PlayStep
<1>2. SharedTypeOK'
  BY <1>1 DEF LinkInv, SharedTypeOK
<1>3. AddressFollows'
  BY <1>1 DEF AddressFollows, Written
<1> QED
  BY <1>1, <1>2, <1>3
     DEF LinkInv, CopyIsHonest, Honest, OpenedOnCopy, LinkKeepsItsWord, SaysWhy, Written

LEMMA SpeedStep ==
    ASSUME LinkInv, NEW s \in Steps, SetSpeed(s)
    PROVE  LinkInv'
<1>1. player \in Played /\ player # Silence /\ shown # NotListed
  BY DEF SetSpeed, LinkInv, SharedTypeOK, AddressFollows
<1>2. player.track \in Tracks /\ notice = "none"
  BY <1>1 DEF Played, LinkInv, SaysWhy
<1> QED  BY <1>1, <1>2, ClickStep DEF SetSpeed

LEMMA CopyStep ==
    ASSUME LinkInv, CopyLink
    PROVE  LinkInv'
<1> USE DEF LinkInv
<1>1. /\ player \in Played /\ address \in Link
      /\ address = Written(player.track, player.step)
      /\ copied' = [link |-> address, played |-> player] /\ untouched' = FALSE
      /\ UNCHANGED <<library, address, wanted, shown, carried, player, notice>>
  BY DEF CopyLink, SharedTypeOK, AddressFollows
<1>2. copied' \in Made
  BY <1>1 DEF Made
<1>3. SharedTypeOK'
  <2>1. copied' \in [link : Link, played : Played \union {Silence}]
    BY <1>1
  <2> QED  BY <1>1, <2>1 DEF SharedTypeOK
<1>4. CopyIsHonest'
  BY <1>1, <1>2 DEF CopyIsHonest, Honest, Written
<1> QED
  BY <1>1, <1>3, <1>4 DEF AddressFollows, OpenedOnCopy, LinkKeepsItsWord, SaysWhy, Written

\* Steps that leave the page alone.
LEMMA IdleStep ==
    ASSUME LinkInv, library' \in Listing,
           UNCHANGED <<address, wanted, shown, carried, player, notice, copied, untouched>>
    PROVE  LinkInv'
BY DEF LinkInv, SharedTypeOK, AddressFollows, CopyIsHonest, Honest, OpenedOnCopy,
       LinkKeepsItsWord, SaysWhy, Written

LEMMA LinkNext == LinkInv /\ [SharedNext]_sharedVars => LinkInv'
<1> SUFFICES ASSUME LinkInv, [SharedNext]_sharedVars PROVE LinkInv'
  OBVIOUS
<1>1. ASSUME NEW t \in Tracks \union {NoTrack}, NEW r \in Typed \union {NoSpeed},
             Open([track |-> t, rate |-> r])
      PROVE  LinkInv'
  <2>1. [track |-> t, rate |-> r] \in Link
    BY TypedAssumption DEF Link
  <2> QED  BY <1>1, <2>1, OpenStep
<1>2. CASE Open(address)
  BY <1>2, OpenStep DEF LinkInv, SharedTypeOK
<1>3. CASE Open(copied.link)
  <2>1. copied.link \in Link
    BY DEF LinkInv, SharedTypeOK
  <2> QED  BY <1>3, <2>1, OpenStep
<1>4. CASE ListArrives
  BY <1>4, ListStep
<1>5. ASSUME NEW t \in Tracks, Change(t) PROVE LinkInv'
  <2>1. library' \in Listing
    BY <1>5 DEF Change, LinkInv, SharedTypeOK, Listing, TrackState
  <2> QED  BY <1>5, <2>1, IdleStep DEF Change
<1>6. ASSUME NEW t \in Tracks, PlayRow(t) PROVE LinkInv'
  <2>1. carried \in Steps
    BY DEF LinkInv, SharedTypeOK
  <2> QED  BY <1>6, <2>1, ClickStep DEF PlayRow
<1>7. ASSUME NEW steps \in {-1, 1}, ChangeSpeed(steps) PROVE LinkInv'
  <2>1. player \in Played
    BY <1>7 DEF ChangeSpeed, SetSpeed, LinkInv, SharedTypeOK
  <2>2. player.step + steps \in Int
    BY <2>1, GridAssumption DEF Played, Steps
  <2> QED  BY <1>7, <2>2, ClampOnGrid, SpeedStep DEF ChangeSpeed
<1>8. CASE ResetSpeed
  <2>1. 0 \in Steps
    BY GridAssumption DEF Steps
  <2> QED  BY <1>8, <2>1, SpeedStep DEF ResetSpeed
<1>9. CASE CopyLink
  BY <1>9, CopyStep
<1>10. CASE UNCHANGED sharedVars
  <2>1. library' \in Listing
    BY <1>10 DEF sharedVars, LinkInv, SharedTypeOK
  <2> QED  BY <1>10, <2>1, IdleStep DEF sharedVars
<1> QED
  BY <1>1, <1>2, <1>3, <1>4, <1>5, <1>6, <1>7, <1>8, <1>9, <1>10 DEF SharedNext

(***************************************************************************)
(* A link copied from the address bar and opened on another page plays the *)
(* same track at the same speed (routes.ts, SharedLibrary), on any grid.   *)
(***************************************************************************)
THEOREM LinkKept == SharedSpec => []LinkKeepsItsWord
<1>1. LinkInv => LinkKeepsItsWord
  BY DEF LinkInv
<1> QED  BY <1>1, LinkInit, LinkNext, PTL DEF SharedSpec

(***************************************************************************)
(* The notice over the list is there when, and only when, it is true.      *)
(***************************************************************************)
THEOREM WhySaid == SharedSpec => []SaysWhy
<1>1. LinkInv => SaysWhy
  BY DEF LinkInv
<1> QED  BY <1>1, LinkInit, LinkNext, PTL DEF SharedSpec
=============================================================================
