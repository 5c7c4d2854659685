---------------------------- MODULE AudioLibrary ----------------------------
(***************************************************************************)
(* What the service promises about a library, with no bucket, queue or     *)
(* worker in sight.  A file arrives, may go live, and leaves for good; no  *)
(* two live files are the same upload; its tiers become ready one by one   *)
(* while it is live; and what may be fetched is exactly the live files and *)
(* their ready tiers: nothing on offer disappears but by a withdrawal.     *)
(***************************************************************************)
CONSTANTS Files, Targets, Content

VARIABLES
    phase,      \* of each file: absent, arriving, live, leaving, gone
    ready,      \* tiers a file's row advertises
    fetchable   \* <<file, object>> a client can be served

libraryVars == <<phase, ready, fetchable>>

LibraryInit ==
    /\ phase = [f \in Files |-> "absent"]
    /\ ready = [f \in Files |-> {}]
    /\ fetchable = {}

Move(f, from, to) ==
    /\ phase[f] \in from
    /\ phase' = [phase EXCEPT ![f] = to]

Arrive(f) == Move(f, {"absent"}, "arriving") /\ UNCHANGED <<ready, fetchable>>

Publish(f) ==
    /\ \A g \in Files \ {f} : phase[g] = "live" => Content[g] # Content[f]
    /\ Move(f, {"arriving"}, "live")
    /\ fetchable' = fetchable \union {<<f, "source">>}
    /\ UNCHANGED ready

MakeReady(f, t) ==
    /\ phase[f] = "live"
    /\ ready' = [ready EXCEPT ![f] = @ \union {t}]
    /\ fetchable' = fetchable \union {<<f, t>>}
    /\ UNCHANGED phase

Withdraw(f) ==
    /\ Move(f, {"arriving", "live"}, "leaving")
    /\ fetchable' = {k \in fetchable : k[1] # f}
    /\ UNCHANGED ready

\* A duplicate is turned away without ever having been live.
TurnAway(f) == Move(f, {"arriving"}, "gone") /\ UNCHANGED <<ready, fetchable>>

Erase(f) == Move(f, {"leaving"}, "gone") /\ UNCHANGED <<ready, fetchable>>

LibraryNext ==
    \E f \in Files :
        \/ Arrive(f)
        \/ Publish(f)
        \/ \E t \in Targets : MakeReady(f, t)
        \/ Withdraw(f)
        \/ TurnAway(f)
        \/ Erase(f)

LibrarySpec == LibraryInit /\ [][LibraryNext]_libraryVars
=============================================================================
