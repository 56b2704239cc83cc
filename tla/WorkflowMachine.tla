--------------------------- MODULE WorkflowMachine ---------------------------
(***************************************************************************)
(* The lifecycle automaton of a workflow instance                          *)
(* (services/workflow/src/engine/workflow-machine.ts) and the replay that  *)
(* rebuilds it from a stored status (restoreMachine in index.ts).          *)
(*                                                                         *)
(* The transition table has one target per event, so the table is given as *)
(* that target and the set of states the event is legal in.                *)
(***************************************************************************)

WorkflowState ==
    { "draft", "planned", "running", "verifying", "repairing", "reporting",
      "waiting_user", "blocked", "paused", "succeeded", "failed",
      "cancelled", "archived" }

WorkflowEvent ==
    { "PLAN", "START", "VERIFY", "REPAIR", "REPORT", "WAIT_USER", "BLOCK",
      "PAUSE", "RESUME", "FAIL", "CANCEL", "COMPLETE", "ARCHIVE" }

\* isFinal(): the states that end a workflow.
Final == { "succeeded", "failed", "cancelled", "archived" }

\* Where an event leads.
Target(event) ==
    CASE event = "PLAN"      -> "planned"
      [] event = "START"     -> "running"
      [] event = "VERIFY"    -> "verifying"
      [] event = "REPAIR"    -> "repairing"
      [] event = "REPORT"    -> "reporting"
      [] event = "WAIT_USER" -> "waiting_user"
      [] event = "BLOCK"     -> "blocked"
      [] event = "PAUSE"     -> "paused"
      [] event = "RESUME"    -> "running"
      [] event = "FAIL"      -> "failed"
      [] event = "CANCEL"    -> "cancelled"
      [] event = "COMPLETE"  -> "succeeded"
      [] event = "ARCHIVE"   -> "archived"

\* The states an event is legal in.
Sources(event) ==
    CASE event = "PLAN"      -> {"draft"}
      [] event = "START"     -> {"planned", "reporting", "waiting_user", "blocked"}
      [] event = "VERIFY"    -> {"running", "repairing"}
      [] event = "REPAIR"    -> {"verifying"}
      [] event = "REPORT"    -> {"verifying"}
      [] event = "WAIT_USER" -> {"running"}
      [] event = "BLOCK"     -> {"running"}
      [] event = "PAUSE"     -> {"running", "repairing", "reporting"}
      [] event = "RESUME"    -> {"paused"}
      [] event = "FAIL"      -> WorkflowState \ Final
      [] event = "CANCEL"    -> {"draft", "planned", "running", "waiting_user",
                                 "blocked", "paused"}
      [] event = "COMPLETE"  -> {"reporting"}
      [] event = "ARCHIVE"   -> {"succeeded", "failed", "cancelled"}

CanHandle(state, event) == state \in Sources(event)

\* send(): an event that is not legal in the state leaves it alone.
Send(state, event) == IF CanHandle(state, event) THEN Target(event) ELSE state

(***************************************************************************)
(* restoreMachine: the machine of a loaded record is a fresh one to which  *)
(* the event list of the stored status is sent.  A status without a list   *)
(* (a status the table does not know) is replayed as "planned".            *)
(***************************************************************************)
RestoreMachine(status) ==
    LET planned   == Send("draft", "PLAN")
        running   == Send(planned, "START")
        verifying == Send(running, "VERIFY")
        reporting == Send(verifying, "REPORT")
        succeeded == Send(reporting, "COMPLETE")
    IN  CASE status = "draft"        -> "draft"
          [] status = "running"      -> running
          [] status = "verifying"    -> verifying
          [] status = "repairing"    -> Send(verifying, "REPAIR")
          [] status = "reporting"    -> reporting
          [] status = "waiting_user" -> Send(running, "WAIT_USER")
          [] status = "blocked"      -> Send(running, "BLOCK")
          [] status = "paused"       -> Send(running, "PAUSE")
          [] status = "succeeded"    -> succeeded
          [] status = "failed"       -> Send(planned, "FAIL")
          [] status = "cancelled"    -> Send(planned, "CANCEL")
          [] status = "archived"     -> Send(succeeded, "ARCHIVE")
          [] OTHER                   -> planned

=============================================================================
