----------------------------- MODULE DaemonLife -----------------------------
(***************************************************************************)
(* What an installation may rely on of its daemon: there is one at a time, *)
(* it may go away at any moment, its exit may hang, and it is replaced as  *)
(* long as a master is left.  Daemon implements this specification, and    *)
(* DaemonServices is built on it.                                          *)
(***************************************************************************)

VARIABLES
    phase,   \* of the daemon; "none" while there is none
    left     \* a master is left that would start one

lifeVars == <<phase, left>>

LifeTypeOK == phase \in {"none", "run", "exiting", "hung", "stopping", "ping"} /\ left \in BOOLEAN

LifeInit == phase = "none" /\ left = TRUE

Start == phase = "none" /\ phase' = "run" /\ UNCHANGED left

\* SIGINT.
Exit == phase = "run" /\ phase' = "exiting"

\* The scheduler stops, or never calls back because a job runs.
SchedulerStops == phase = "exiting" /\ phase' \in {"stopping", "hung"} /\ UNCHANGED left

ServicesStop == phase = "stopping" /\ phase' = "ping" /\ UNCHANGED left

Ends == phase = "ping" /\ phase' = "none" /\ UNCHANGED left

Dies == phase \in {"run", "exiting", "hung", "stopping"} /\ phase' = "none" /\ UNCHANGED left

LastMasterLeaves == left /\ left' = FALSE /\ UNCHANGED phase

\* SIGINT reaches the daemon by way of its master, which may be the last one.
ExitWithMaster == Exit /\ (left' = FALSE \/ UNCHANGED left)

LifeNext ==
    Start \/ ExitWithMaster \/ SchedulerStops \/ ServicesStop \/ Ends \/ Dies \/ LastMasterLeaves

LifeSpec ==
    /\ LifeInit /\ [][LifeNext]_lifeVars
    /\ WF_lifeVars(left /\ Start)
    /\ WF_lifeVars(SchedulerStops) /\ WF_lifeVars(ServicesStop) /\ WF_lifeVars(Ends)
=============================================================================
