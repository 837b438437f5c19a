--------------------------- MODULE MCNcmSchedule ----------------------------
(***************************************************************************)
(* What only TLC checks of NcmSchedule: liveness, and a sentence of the    *)
(* documentation that the code does not keep.                              *)
(***************************************************************************)
EXTENDS NcmSchedule

Due(s) ==
  /\ IsLive(s)
  /\ schedule[s].enabled
  /\ schedule[s].at # BadTime
  /\ schedule[s].created <= DueSlot(schedule[s].at, now)
  /\ Checkpoint(s) < DueSlot(schedule[s].at, now)

\* An occurrence that is due is eventually attempted (or edited away):
\* a busy writer or a busy schedule defers it, a death loses it, only for a
\* while.
DueIsAttempted == \A s \in Schedules : Due(s) ~> ~Due(s)

\* A schedule does not show "running" for ever, though its executor may die
\* and though it may be disabled meanwhile.
RunningIsSettled ==
  \A s \in Schedules : state[s].status = "running" ~> state[s].status # "running"

\* docs/CONFIGURATION.md: "An attempted occurrence, including a blocked or
\* interrupted attempt, is not automatically retried."
NeverRetriedAutomatically ==
  \A j, k \in JobIds :
    /\ Automatic(j) /\ Automatic(k)
    /\ job[j].schedule = job[k].schedule /\ job[j].schedule # Nobody
    /\ job[j].slot = job[k].slot
    => j = k
=============================================================================
