---------------------------- MODULE BackupLedger ----------------------------
(***************************************************************************)
(* What the backup scheduler promises about its jobs, without saying how:  *)
(* the platform executes one backup at a time; a job is started once; its  *)
(* result comes from its live executor, which writes it when it has        *)
(* concluded and at the latest when it finishes; and a job whose executor  *)
(* is gone is settled as failed, never executed again.                     *)
(***************************************************************************)
CONSTANTS JobIds, Outcomes

VARIABLES outcome,  \* job -> "none", "running" or a member of Outcomes
          working,  \* jobs whose live executor is backing devices up
          closing   \* jobs whose live executor has concluded

ledger == <<outcome, working, closing>>

Active == working \cup closing

Init ==
  /\ outcome = [j \in JobIds |-> "none"]
  /\ working = {}
  /\ closing = {}

Start(j) ==
  /\ Active = {}
  /\ outcome[j] = "none"
  /\ outcome' = [outcome EXCEPT ![j] = "running"]
  /\ working' = {j}
  /\ UNCHANGED closing

\* The executor is done with the devices, and may commit its result already.
Conclude(j) ==
  /\ j \in working
  /\ \/ UNCHANGED outcome
     \/ \E r \in Outcomes : outcome' = [outcome EXCEPT ![j] = r]
  /\ working' = {}
  /\ closing' = {j}

\* The executor's last write: from here on the result is final.
Finish(j) ==
  /\ j \in Active
  /\ \E r \in Outcomes : outcome' = [outcome EXCEPT ![j] = r]
  /\ working' = {}
  /\ closing' = {}

\* The executor dies; whatever it last committed stays.
Abandon(j) ==
  /\ j \in Active
  /\ working' = {}
  /\ closing' = {}
  /\ UNCHANGED outcome

\* Somebody else closes a job that nobody executes any more.
Settle(j) ==
  /\ j \notin Active
  /\ outcome[j] = "running"
  /\ outcome' = [outcome EXCEPT ![j] = "failed"]
  /\ UNCHANGED <<working, closing>>

Next == \E j \in JobIds : \/ Start(j) \/ Conclude(j) \/ Finish(j)
                          \/ Abandon(j) \/ Settle(j)

Spec == Init /\ [][Next]_ledger
=============================================================================
