------------------------------- MODULE Tasks -------------------------------
(***************************************************************************)
(* One claimable work item (server.py, _create_task, _claim_task and       *)
(* _complete_task): a record file and a claim marker in .tasks/, read and  *)
(* written by the tool calls of several processes with no lock between     *)
(* them.  Every file operation is a step.  Tasks share no state, so one    *)
(* task stands for all.                                                    *)
(***************************************************************************)
EXTENDS Naturals, FiniteSets

CONSTANTS Agents, Nobody

ASSUME AgentsOK ==
    /\ Agents \cap {"absent", "empty"} = {}
    /\ Nobody \notin Agents \cup {"absent", "empty"}

VARIABLES
    record,  \* <id>.json: its state and claimed_by; "none" before it is created
    marker,  \* <id>.claim: "absent", "empty" (created, not written) or its holder
    at,      \* where each agent is in its tool call
    winners  \* history: agents whose claim call has returned the task to them

taskVars == <<record, marker, at, winners>>

Records == [state : {"none", "open", "claimed", "done"}, by : Agents \cup {Nobody}]

TaskTypeOK ==
    /\ record \in Records
    /\ marker \in Agents \cup {"absent", "empty"}
    /\ at \in [Agents -> {"idle", "claiming", "won", "stamped", "completing"}]
    /\ winners \subseteq Agents

TaskInit ==
    /\ record = [state |-> "none", by |-> Nobody]
    /\ marker = "absent"
    /\ at = [a \in Agents |-> "idle"]
    /\ winners = {}

\* The call returns or raises.
Return(a) == at' = [at EXCEPT ![a] = "idle"]

\* _read_task.  The call keeps what it read until it writes the record back, but
\* by then it has overwritten every field that is modelled here.
Read(a, next) ==
    /\ at[a] = "idle" /\ record.state # "none"
    /\ at' = [at EXCEPT ![a] = next]

Create(a) ==
    /\ at[a] = "idle" /\ record.state = "none"
    /\ record' = [state |-> "open", by |-> Nobody]
    /\ UNCHANGED <<marker, at, winners>>

-----------------------------------------------------------------------------
(* _claim_task                                                             *)

ClaimRead(a) ==
    /\ record.state # "done"
    /\ Read(a, "claiming")
    /\ UNCHANGED <<record, marker, winners>>

\* Mutant: os.open without O_EXCL.
ClaimOpenShared(a) ==
    /\ at[a] = "claiming"
    /\ marker' = "empty"
    /\ at' = [at EXCEPT ![a] = "won"]
    /\ UNCHANGED <<record, winners>>

\* os.open(marker, O_CREAT | O_EXCL) succeeds.
ClaimCreate(a) ==
    /\ at[a] = "claiming" /\ marker = "absent"
    /\ marker' = "empty"
    /\ at' = [at EXCEPT ![a] = "won"]
    /\ UNCHANGED <<record, winners>>

\* It exists: claiming your own task again is not an error, anything else is.
ClaimExists(a) ==
    /\ at[a] = "claiming" /\ marker # "absent"
    /\ winners' = IF marker = a THEN winners \cup {a} ELSE winners
    /\ Return(a)
    /\ UNCHANGED <<record, marker>>

\* Mutant: the marker is stamped with no holder.
ClaimStampNobody(a) ==
    /\ at[a] = "won"
    /\ marker' = Nobody
    /\ at' = [at EXCEPT ![a] = "stamped"]
    /\ UNCHANGED <<record, winners>>

ClaimStamp(a) ==
    /\ at[a] = "won"
    /\ marker' = a
    /\ at' = [at EXCEPT ![a] = "stamped"]
    /\ UNCHANGED <<record, winners>>

\* Write the record back with the holder filled in, whatever it says by now.
ClaimRecord(a) ==
    /\ at[a] = "stamped"
    /\ record' = [state |-> "claimed", by |-> a]
    /\ winners' = winners \cup {a}
    /\ Return(a)
    /\ UNCHANGED <<marker>>

-----------------------------------------------------------------------------
(* _complete_task: the holder is read from the record, not the marker.     *)

CompleteRead(a) ==
    /\ record.by \in {Nobody, a}
    /\ Read(a, "completing")
    /\ UNCHANGED <<record, marker, winners>>

CompleteWrite(a) ==
    /\ at[a] = "completing"
    /\ record' = [state |-> "done", by |-> a]
    /\ Return(a)
    /\ UNCHANGED <<marker, winners>>

\* The process dies between two file operations.
Crash(a) ==
    /\ at[a] # "idle"
    /\ Return(a)
    /\ UNCHANGED <<record, marker, winners>>

ClaimTask(a) ==
    ClaimRead(a) \/ ClaimCreate(a) \/ ClaimExists(a) \/ ClaimStamp(a) \/ ClaimRecord(a)

TaskNext ==
    \E a \in Agents : Create(a) \/ ClaimTask(a) \/ CompleteRead(a) \/ CompleteWrite(a) \/ Crash(a)

TaskSpec == TaskInit /\ [][TaskNext]_taskVars

-----------------------------------------------------------------------------
(* Safety.                                                                 *)

\* At most one agent is ever told that it holds the task, whatever the
\* interleaving of claims and crashes (README, "exactly one agent wins a race").
OneWinner == \A a, b \in winners : a = b

\* A record that says "claimed" names the agent the marker was made by: readers
\* of the record never see a holder the kernel did not pick.
RecordFollowsMarker == record.state = "claimed" => record.by = marker

\* The inductive invariant: a claim past its exclusive create owns the marker.
ClaimInv ==
    /\ TaskTypeOK
    /\ RecordFollowsMarker
    /\ \A a \in winners : marker = a
    /\ \A a, b \in Agents :
         at[a] \in {"won", "stamped"} /\ at[b] \in {"won", "stamped"} => a = b
    /\ \A a \in Agents : at[a] = "won" => marker = "empty"
    /\ \A a \in Agents : at[a] = "stamped" => marker = a

=============================================================================
