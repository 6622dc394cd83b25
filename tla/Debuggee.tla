------------------------------ MODULE Debuggee ------------------------------
(***************************************************************************)
(* What the daemon's debugger core promises a client, with the hooks, the  *)
(* breakpoints, the recursion locks and the C stack left out: sessions     *)
(* follow one another in a process; a session runs and pauses in turns;    *)
(* and once it is aborted it never pauses again, however much of the Lua   *)
(* program still runs.                                                     *)
(***************************************************************************)
VARIABLES phase,   \* of the process: a session runs or pauses, or none does
          doomed   \* the session was aborted

view == <<phase, doomed>>

Init == phase = "idle" /\ doomed = FALSE

Start   == phase = "idle" /\ phase' = "running" /\ UNCHANGED doomed
Pause   == phase = "running" /\ ~doomed /\ phase' = "paused" /\ UNCHANGED doomed
Resume  == phase = "paused" /\ phase' = "running" /\ UNCHANGED doomed
Abort   == phase = "paused" /\ phase' = "running" /\ doomed' = TRUE
End     == phase = "running" /\ phase' = "idle" /\ doomed' = FALSE
\* A failed assert, a Lua panic, or the exit of a process without a client.
Die     == phase # "dead" /\ phase' = "dead" /\ doomed' = FALSE

\* Another process is started on the host.
Launch  == phase = "dead" /\ phase' = "idle" /\ UNCHANGED doomed

Next == Start \/ Pause \/ Resume \/ Abort \/ End \/ Die \/ Launch

Spec == Init /\ [][Next]_view
=============================================================================
