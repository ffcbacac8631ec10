--------------------------- MODULE OperationLedger ---------------------------
(***************************************************************************)
(* The managed-operation ledger of the Session Host.                       *)
(*                                                                         *)
(* run_command admits a command into SQLite, pastes it into the tmux pane  *)
(* of its session, and a monitor turns the exit record the shell leaves on *)
(* disk into the final status (apps/agent/src/tmux.js and state-store.js). *)
(* The Session Host is one Node.js process: a handler runs without         *)
(* interruption up to its next await, so every action below is the code    *)
(* between two awaits.  tmux and the shells in it are separate processes   *)
(* that survive a restart of the Session Host (KillMode=process).          *)
(*                                                                         *)
(* The operation a call admits has a fresh UUID; here its id is the call.  *)
(***************************************************************************)
EXTENDS Naturals, Sequences, FiniteSets

CONSTANTS
    Sessions,    \* terminal sessions, all opened before the model starts
    Calls,       \* run_command calls, each naming the operation it may admit
    Keys,        \* idempotency keys
    Commands,    \* command texts (their fingerprints are equal iff they are)
    UserInput,   \* text typed with send_input, not a managed operation
    NoOp,        \* "no operation was reported to the client"
    MaxInputs,   \* bound: send_input calls
    MaxEvents    \* bound: close_terminal calls, transcript updates, and crashes of
                 \* the Session Host or reboots of the machine, together

ASSUME InputAssumption == UserInput \notin Calls
ASSUME NoOpAssumption  == NoOp \notin Calls
ASSUME BoundAssumption == {MaxInputs, MaxEvents} \subseteq Nat

VARIABLES
    host,        \* "up", or "recovering" while store.init() reconciles
    req,         \* the session, key and command of each call
    pc,          \* where each runCommand handler is suspended
    answer,      \* the operation whose result a call returned to its client
    status,      \* operations.status; "NONE" when the row does not exist
    reason,      \* operations.outcome_reason (exit_code follows from it)
    record,      \* the <operation>.exit file as readOperationCompletion sees it
    monitor,     \* the operationMonitors entry of each operation
    row,         \* the sessions row: OPEN, CLOSED or GONE
    json,        \* the session.json that save() writes beside the row
    closing,     \* where a close() of each session is suspended
    updating,    \* the row an updateTranscript() has read and is about to save
    intr,        \* where an interrupt() of each session is suspended
    alive,       \* the tmux session exists
    pane,        \* head: the program in the foreground; tail: its unread input
    interrupted, \* history: operations an interrupt() ever marked
    dispatched,  \* history: operations whose text reached the pane
    past,        \* history: whether the operations of a session were purged, and
                 \* whether its row came back OPEN afterwards
    inputs, events

calls    == <<req, pc, answer>>
ledger   == <<status, reason>>
control  == <<row, json, closing, updating, intr>>
terminal == <<alive, pane, record>>
history  == <<interrupted, dispatched, past>>
bounds   == <<inputs, events>>
vars     == <<host, calls, ledger, monitor, control, terminal, history, bounds>>

Requests == [session : Sessions, key : Keys, command : Commands]
Active   == {"ACCEPTED", "RUNNING", "UNKNOWN"}
Final    == {"SUCCEEDED", "FAILED"}
Statuses == Active \cup Final \cup {"INTERRUPTED", "NONE"}
Reasons  == {"null", "exit_zero", "exit_nonzero", "control_record_invalid",
             "session_host_restart", "spawn_result_uncertain",
             "control_channel_unavailable", "session_lost_during_operation",
             "owner_interrupt"}
Records  == {"none", "zero", "nonzero", "invalid"}

Session(c) == req[c].session

(***************************************************************************)
(* The operations table.                                                   *)
(***************************************************************************)
Rows(s) == {c \in Calls : status[c] # "NONE" /\ Session(c) = s}

\* Mutant: an uncertain outcome does not hold the session.
UnfinishedOperations(s) == {c \in Rows(s) : status[c] \in {"ACCEPTED", "RUNNING"}}

\* activeOperation: the operations the partial index operations_one_writer
\* covers.  An UNKNOWN outcome still blocks the session.
ActiveOperations(s) == {c \in Rows(s) : status[c] \in Active}

\* Mutant: a key is free again once its operation has ended.
KeyNotActive(c) == \A o \in ActiveOperations(Session(c)) : req[o].key # req[c].key

\* UNIQUE(session_id, idempotency_key), also looked up before the INSERT.
KeyFree(c) == \A o \in Rows(Session(c)) : req[o].key # req[c].key

\* An UPDATE to an active status fails while another operation of the same
\* session is active.
IndexAllows(c, new) ==
    new \in Active => ActiveOperations(Session(c)) \subseteq {c}

\* updateOperation: an UPDATE by id is a no-op on a deleted row, throws when it
\* breaks the unique index, and checks nothing about the status it replaces.
UpdateOperation(c, new, why) ==
    IF status[c] # "NONE" /\ IndexAllows(c, new)
      THEN /\ status' = [status EXCEPT ![c] = new]
           /\ reason' = [reason EXCEPT ![c] = why]
      ELSE UNCHANGED ledger

\* What a completion record says, for the monitor and for reconciliation.
Outcome(rec) ==
    CASE rec = "zero"    -> [status |-> "SUCCEEDED", reason |-> "exit_zero"]
      [] rec = "nonzero" -> [status |-> "FAILED",    reason |-> "exit_nonzero"]
      [] rec = "invalid" -> [status |-> "UNKNOWN",   reason |-> "control_record_invalid"]

-----------------------------------------------------------------------------
Init ==
    /\ host = "up"
    /\ req \in [Calls -> Requests]
    /\ pc = [c \in Calls |-> "idle"]
    /\ answer = [c \in Calls |-> NoOp]
    /\ status = [c \in Calls |-> "NONE"]
    /\ reason = [c \in Calls |-> "null"]
    /\ record = [c \in Calls |-> "none"]
    /\ monitor = [c \in Calls |-> "off"]
    /\ row = [s \in Sessions |-> "OPEN"]
    /\ json = [s \in Sessions |-> "OPEN"]
    /\ closing = [s \in Sessions |-> "idle"]
    /\ updating = [s \in Sessions |-> "idle"]
    /\ intr = [s \in Sessions |-> "idle"]
    /\ alive = [s \in Sessions |-> TRUE]
    /\ pane = [s \in Sessions |-> <<>>]
    /\ interrupted = {}
    /\ dispatched = {}
    /\ past = [s \in Sessions |-> "kept"]
    /\ inputs = 0
    /\ events = 0

Step(c, from, to) == host = "up" /\ pc[c] = from /\ pc' = [pc EXCEPT ![c] = to]

\* requireSession passes on an OPEN row whose tmux session answers the probe.
Usable(s) == row[s] = "OPEN" /\ alive[s]

-----------------------------------------------------------------------------
(***************************************************************************)
(* runCommand.                                                             *)
(***************************************************************************)

\* The row and the liveness of the session are checked before the call knows
\* whether its key is taken.
RequireSession(c) ==
    /\ Usable(Session(c))
    /\ Step(c, "idle", "required")
    /\ UNCHANGED <<host, req, answer, ledger, monitor, control, terminal, history, bounds>>

\* admitOperation finds the key bound to the same fingerprint: the call answers
\* with the existing operation and dispatches nothing.
AdmitDuplicate(c) ==
    /\ Step(c, "required", "done")
    /\ \E o \in Rows(Session(c)) :
          /\ req[o].key = req[c].key
          /\ req[o].command = req[c].command
          /\ answer' = [answer EXCEPT ![c] = o]
    /\ UNCHANGED <<host, req, ledger, monitor, control, terminal, history, bounds>>

\* idempotency_conflict, session_busy, a missing session row (foreign key), or
\* a failure before the transaction (transcript, fingerprint key).
AdmitRefused(c) ==
    /\ Step(c, "required", "done")
    /\ UNCHANGED <<host, req, answer, ledger, monitor, control, terminal, history, bounds>>

\* admitOperation inserts an ACCEPTED row: the key is free, no operation of the
\* session is active, and the session row (even a CLOSED one) exists.
AdmitInsert(c) ==
    /\ Step(c, "required", "admitted")
    /\ row[Session(c)] # "GONE"
    /\ KeyFree(c)
    /\ ActiveOperations(Session(c)) = {}
    /\ status' = [status EXCEPT ![c] = "ACCEPTED"]
    /\ reason' = [reason EXCEPT ![c] = "null"]
    /\ UNCHANGED <<host, req, answer, monitor, control, terminal, history, bounds>>

\* prepareOperationCompletion succeeds; the same turn writes RUNNING without
\* looking at the status an interrupt may have written during the await.  When
\* the index rejects the update the handler throws before it pastes anything.
PrepareOk(c) ==
    /\ Step(c, "admitted",
            IF status[c] = "NONE" \/ IndexAllows(c, "RUNNING") THEN "pasting" ELSE "done")
    /\ UpdateOperation(c, "RUNNING", "null")
    /\ record' = [record EXCEPT ![c] = "none"]
    /\ UNCHANGED <<host, req, answer, monitor, control, alive, pane, history, bounds>>

PrepareFail(c) ==
    /\ Step(c, "admitted", "done")
    /\ UpdateOperation(c, "FAILED", "control_channel_unavailable")
    /\ UNCHANGED <<host, req, answer, monitor, control, terminal, history, bounds>>

\* paste() requires the session again, then loads the tmux buffer.
PasteCheck(c) ==
    /\ Usable(Session(c))
    /\ Step(c, "pasting", "checked")
    /\ UNCHANGED <<host, req, answer, ledger, monitor, control, terminal, history, bounds>>

\* paste-buffer delivers the whole line to the pane: an idle shell starts it, a
\* busy one leaves it in the input of the foreground program.
PasteDeliver(c) ==
    /\ Step(c, "checked", "delivered")
    /\ alive[Session(c)]
    /\ pane' = [pane EXCEPT ![Session(c)] = Append(@, c)]
    /\ dispatched' = dispatched \cup {c}
    /\ UNCHANGED <<host, req, answer, ledger, monitor, control, alive, record, interrupted, past, bounds>>

\* Any step of paste() may fail, also the removal of the input file after the
\* text has reached the pane.
PasteFail(c) ==
    /\ \E at \in {"pasting", "checked", "delivered"} : Step(c, at, "done")
    /\ UpdateOperation(c, "UNKNOWN", "spawn_result_uncertain")
    /\ UNCHANGED <<host, req, answer, monitor, control, terminal, history, bounds>>

\* Mutant: the monitor is started only when the client waits for the result.
PasteOkUnmonitored(c) ==
    /\ \E next \in {"waiting", "done"} : Step(c, "delivered", next)
    /\ UNCHANGED <<host, req, answer, ledger, monitor, control, terminal, history, bounds>>

PasteOk(c) ==
    /\ Step(c, "delivered", "waiting")
    /\ monitor' = [monitor EXCEPT ![c] = "head"]
    /\ UNCHANGED <<host, req, answer, ledger, control, terminal, history, bounds>>

\* The handler answers when the status leaves RUNNING or its deadline passes; a
\* purge meanwhile makes it throw.
Respond(c) ==
    /\ Step(c, "waiting", "done")
    /\ answer' = IF status[c] = "NONE" THEN answer ELSE [answer EXCEPT ![c] = c]
    /\ UNCHANGED <<host, req, ledger, monitor, control, terminal, history, bounds>>

RunCommand(c) ==
    \/ RequireSession(c)
    \/ AdmitDuplicate(c) \/ AdmitRefused(c) \/ AdmitInsert(c)
    \/ PrepareOk(c) \/ PrepareFail(c)
    \/ PasteCheck(c) \/ PasteDeliver(c) \/ PasteFail(c) \/ PasteOk(c)
    \/ Respond(c)

-----------------------------------------------------------------------------
(***************************************************************************)
(* startOperationMonitor: one loop per dispatched operation.               *)
(***************************************************************************)

\* The loop ends as soon as it finds another status than RUNNING.
MonitorHead(c) ==
    /\ host = "up" /\ monitor[c] = "head"
    /\ monitor' = [monitor EXCEPT ![c] = IF status[c] = "RUNNING" THEN "reading" ELSE "off"]
    /\ UNCHANGED <<host, calls, ledger, control, terminal, history, bounds>>

\* A record was found during the await; its outcome is written over whatever
\* the status is by now.  If the index rejects it, the loop ends with an error.
MonitorRead(c) ==
    /\ host = "up" /\ monitor[c] = "reading"
    /\ record[c] # "none"
    /\ UpdateOperation(c, Outcome(record[c]).status, Outcome(record[c]).reason)
    /\ monitor' = [monitor EXCEPT ![c] =
                     IF IndexAllows(c, Outcome(record[c]).status) THEN "off" ELSE "failed"]
    /\ UNCHANGED <<host, calls, control, terminal, history, bounds>>

MonitorReadNothing(c) ==
    /\ host = "up" /\ monitor[c] = "reading"
    /\ record[c] = "none"
    /\ monitor' = [monitor EXCEPT ![c] = "probing"]
    /\ UNCHANGED <<host, calls, ledger, control, terminal, history, bounds>>

\* Any read error other than ENOENT and an invalid record ends the loop.
MonitorFails(c) ==
    /\ host = "up" /\ monitor[c] = "reading"
    /\ monitor' = [monitor EXCEPT ![c] = "failed"]
    /\ UNCHANGED <<host, calls, ledger, control, terminal, history, bounds>>

\* Mutant: the loop is not entered a second time.
MonitorAliveOnce(c) ==
    /\ host = "up" /\ monitor[c] = "probing"
    /\ alive[Session(c)]
    /\ monitor' = [monitor EXCEPT ![c] = "off"]
    /\ UNCHANGED <<host, calls, ledger, control, terminal, history, bounds>>

MonitorAlive(c) ==
    /\ host = "up" /\ monitor[c] = "probing"
    /\ alive[Session(c)]
    /\ monitor' = [monitor EXCEPT ![c] = "head"]
    /\ UNCHANGED <<host, calls, ledger, control, terminal, history, bounds>>

\* Mutant: a lost session is reported as a failed command.
MonitorLostFails(c) ==
    /\ host = "up" /\ monitor[c] = "probing"
    /\ UpdateOperation(c, "FAILED", "session_lost_during_operation")
    /\ monitor' = [monitor EXCEPT ![c] = "off"]
    /\ UNCHANGED <<host, calls, control, terminal, history, bounds>>

\* isAlive answers FALSE for a dead session and for every failure of the probe;
\* the record is not read again.
MonitorLost(c) ==
    /\ host = "up" /\ monitor[c] = "probing"
    /\ UpdateOperation(c, "UNKNOWN", "session_lost_during_operation")
    /\ monitor' = [monitor EXCEPT ![c] = IF IndexAllows(c, "UNKNOWN") THEN "off" ELSE "failed"]
    /\ UNCHANGED <<host, calls, control, terminal, history, bounds>>

Monitor(c) ==
    \/ MonitorHead(c)
    \/ MonitorRead(c) \/ MonitorReadNothing(c) \/ MonitorFails(c)
    \/ MonitorAlive(c) \/ MonitorLost(c)

-----------------------------------------------------------------------------
(***************************************************************************)
(* interrupt, close, purge and sendInput.                                  *)
(***************************************************************************)
InterruptRequire(s) ==
    /\ host = "up" /\ intr[s] = "idle"
    /\ Usable(s)
    /\ intr' = [intr EXCEPT ![s] = "checked"]
    /\ UNCHANGED <<host, calls, ledger, monitor, row, json, closing, updating, terminal, history, bounds>>

\* C-c may be ignored, end the foreground program without a record, or flush
\* the unread input too.
InterruptSend(s) ==
    /\ host = "up" /\ intr[s] = "checked"
    /\ alive[s]
    /\ intr' = [intr EXCEPT ![s] = "sent"]
    /\ \E after \in {pane[s], <<>>} \cup (IF pane[s] = <<>> THEN {} ELSE {Tail(pane[s])}) :
          pane' = [pane EXCEPT ![s] = after]
    /\ UNCHANGED <<host, calls, ledger, monitor, row, json, closing, updating, alive, record, history, bounds>>

InterruptSendFails(s) ==
    /\ host = "up" /\ intr[s] = "checked"
    /\ intr' = [intr EXCEPT ![s] = "idle"]
    /\ UNCHANGED <<host, calls, ledger, monitor, row, json, closing, updating, terminal, history, bounds>>

\* Mutant: an operation of the session is marked even when it has ended.
InterruptMarkAny(s) ==
    /\ host = "up" /\ intr[s] = "sent"
    /\ intr' = [intr EXCEPT ![s] = "idle"]
    /\ IF Rows(s) = {}
         THEN UNCHANGED <<ledger, interrupted>>
         ELSE \E c \in Rows(s) :
                /\ UpdateOperation(c, "INTERRUPTED", "owner_interrupt")
                /\ interrupted' = interrupted \cup {c}
    /\ UNCHANGED <<host, calls, monitor, row, json, closing, updating, terminal, dispatched, past, bounds>>

\* interruptActiveOperation marks the operation that is active when send-keys
\* has returned, whichever the C-c met.
InterruptMark(s) ==
    /\ host = "up" /\ intr[s] = "sent"
    /\ intr' = [intr EXCEPT ![s] = "idle"]
    /\ IF ActiveOperations(s) = {}
         THEN UNCHANGED <<ledger, interrupted>>
         ELSE \E c \in ActiveOperations(s) :
                /\ UpdateOperation(c, "INTERRUPTED", "owner_interrupt")
                /\ interrupted' = interrupted \cup {c}
    /\ UNCHANGED <<host, calls, monitor, row, json, closing, updating, terminal, dispatched, past, bounds>>

\* close() kills the tmux session, unless its probe fails: then the session is
\* taken for dead and lives on.
CloseKill(s) ==
    /\ host = "up" /\ closing[s] = "idle"
    /\ row[s] # "GONE"
    /\ events < MaxEvents
    /\ events' = events + 1
    /\ closing' = [closing EXCEPT ![s] = "killed"]
    /\ \/ alive' = [alive EXCEPT ![s] = FALSE] /\ pane' = [pane EXCEPT ![s] = <<>>]
       \/ UNCHANGED <<alive, pane>>
    /\ UNCHANGED <<host, calls, ledger, monitor, row, json, updating, intr, record, history, inputs>>

\* closeSession reads the row, and save() writes it back after an await.
CloseRead(s) ==
    /\ host = "up" /\ closing[s] = "killed"
    /\ closing' = [closing EXCEPT ![s] = IF row[s] = "GONE" THEN "idle" ELSE "read"]
    /\ UNCHANGED <<host, calls, ledger, monitor, row, json, updating, intr, terminal, history, bounds>>

\* updateTranscript reads the row too: readOutput and runCommand call it when
\* they find that the capture has stopped or lost something.
UpdateRead(s) ==
    /\ host = "up" /\ updating[s] = "idle"
    /\ row[s] # "GONE"
    /\ events < MaxEvents
    /\ events' = events + 1
    /\ updating' = [updating EXCEPT ![s] = row[s]]
    /\ UNCHANGED <<host, calls, ledger, monitor, row, json, closing, intr, terminal, history,
                   inputs>>

\* A session whose operations were purged is OPEN again.
Returned(s, state) == state = "OPEN" /\ past[s] # "kept"

\* save() inserts or replaces the row, whatever became of it since it was read,
\* and then writes session.json; each may fail.
Save(s, state) ==
    \/ UNCHANGED <<row, json, past>>
    \/ /\ row' = [row EXCEPT ![s] = state]
       /\ json' \in {json, [json EXCEPT ![s] = state]}
       /\ past' = IF Returned(s, state) THEN [past EXCEPT ![s] = "returned"] ELSE past

CloseSave(s) ==
    /\ host = "up" /\ closing[s] = "read"
    /\ closing' = [closing EXCEPT ![s] = "idle"]
    /\ Save(s, "CLOSED")
    /\ UNCHANGED <<host, calls, ledger, monitor, updating, intr, terminal, interrupted,
                   dispatched, bounds>>

UpdateSave(s) ==
    /\ host = "up" /\ updating[s] # "idle"
    /\ updating' = [updating EXCEPT ![s] = "idle"]
    /\ Save(s, updating[s])
    /\ UNCHANGED <<host, calls, ledger, monitor, closing, intr, terminal, interrupted,
                   dispatched, bounds>>

\* purge() deletes a CLOSED row, its operations with it (ON DELETE CASCADE), and
\* the session directory with session.json and the completion records; removing
\* the directory may fail (SessionRegistry has the steps in between).
Purge(s) ==
    /\ host = "up" /\ row[s] = "CLOSED"
    /\ row' = [row EXCEPT ![s] = "GONE"]
    /\ past' = [past EXCEPT ![s] = IF @ = "kept" THEN "purged" ELSE @]
    /\ status' = [c \in Calls |-> IF Session(c) = s THEN "NONE" ELSE status[c]]
    /\ reason' = [c \in Calls |-> IF Session(c) = s THEN "null" ELSE reason[c]]
    /\ \/ /\ json' = [json EXCEPT ![s] = "GONE"]
          /\ record' = [c \in Calls |-> IF Session(c) = s THEN "none" ELSE record[c]]
       \/ UNCHANGED <<json, record>>
    /\ UNCHANGED <<host, calls, monitor, closing, updating, intr, alive, pane, interrupted,
                   dispatched, bounds>>

SendInput(s) ==
    /\ host = "up" /\ inputs < MaxInputs
    /\ Usable(s)
    /\ inputs' = inputs + 1
    /\ pane' = [pane EXCEPT ![s] = Append(@, UserInput)]
    /\ UNCHANGED <<host, calls, ledger, monitor, control, alive, record, history, events>>

Control(s) ==
    \/ InterruptRequire(s) \/ InterruptSend(s) \/ InterruptSendFails(s) \/ InterruptMark(s)
    \/ CloseKill(s) \/ CloseRead(s) \/ CloseSave(s) \/ Purge(s)
    \/ UpdateRead(s) \/ UpdateSave(s)
    \/ SendInput(s)

-----------------------------------------------------------------------------
(***************************************************************************)
(* tmux and the shell, outside the Session Host.                           *)
(***************************************************************************)

\* The foreground program ends.  A managed command then leaves its record (the
\* wrapper renames a .part file), or none when that write fails; the shell goes
\* on with the next unread line.
ShellFinish(s) ==
    /\ alive[s] /\ pane[s] # <<>>
    /\ pane' = [pane EXCEPT ![s] = Tail(@)]
    /\ IF Head(pane[s]) \in Calls
         THEN \E rec \in Records : record' = [record EXCEPT ![Head(pane[s])] = rec]
         ELSE UNCHANGED record
    /\ UNCHANGED <<host, calls, ledger, monitor, control, alive, history, bounds>>

\* The foreground program reads the next line as its own input.
ShellSwallow(s) ==
    /\ alive[s] /\ Len(pane[s]) > 1
    /\ pane' = [pane EXCEPT ![s] = <<Head(@)>> \o Tail(Tail(@))]
    /\ UNCHANGED <<host, calls, ledger, monitor, control, alive, record, history, bounds>>

ShellExit(s) ==
    /\ alive[s]
    /\ alive' = [alive EXCEPT ![s] = FALSE]
    /\ pane' = [pane EXCEPT ![s] = <<>>]
    /\ UNCHANGED <<host, calls, ledger, monitor, control, record, history, bounds>>

Shell(s) == ShellFinish(s) \/ ShellSwallow(s) \/ ShellExit(s)

-----------------------------------------------------------------------------
(***************************************************************************)
(* Crash and recovery.                                                     *)
(***************************************************************************)

\* A crash takes every suspended handler and every monitor.  The next start
\* inserts a row for each session.json that has none (importLegacySessions).
LoseMemory ==
    /\ events < MaxEvents
    /\ events' = events + 1
    /\ host' = "recovering"
    /\ pc' = [c \in Calls |-> IF pc[c] = "idle" THEN "idle" ELSE "done"]
    /\ monitor' = [c \in Calls |-> "off"]
    /\ closing' = [s \in Sessions |-> "idle"]
    /\ updating' = [s \in Sessions |-> "idle"]
    /\ intr' = [s \in Sessions |-> "idle"]
    /\ row' = [s \in Sessions |-> IF row[s] = "GONE" THEN json[s] ELSE row[s]]
    /\ past' = [s \in Sessions |-> IF row[s] = "GONE" /\ Returned(s, json[s])
                                     THEN "returned" ELSE past[s]]
    /\ UNCHANGED <<req, answer, ledger, json, record, interrupted, dispatched, inputs>>

Crash == LoseMemory /\ UNCHANGED <<alive, pane>>

Reboot ==
    /\ LoseMemory
    /\ alive' = [s \in Sessions |-> FALSE]
    /\ pane' = [s \in Sessions |-> <<>>]

Unreconciled == {c \in Calls : status[c] \in {"ACCEPTED", "RUNNING"}}

\* Mutant: a restart declares the operations it finds interrupted.
ReconcileReleases(c) ==
    /\ host = "recovering" /\ c \in Unreconciled
    /\ IF record[c] = "none"
         THEN UpdateOperation(c, "INTERRUPTED", "session_host_restart")
         ELSE UpdateOperation(c, Outcome(record[c]).status, Outcome(record[c]).reason)
    /\ UNCHANGED <<host, calls, monitor, control, terminal, history, bounds>>

\* reconcileUncertainOperations: a record decides, its absence means UNKNOWN.
Reconcile(c) ==
    /\ host = "recovering" /\ c \in Unreconciled
    /\ IF record[c] = "none"
         THEN UpdateOperation(c, "UNKNOWN", "session_host_restart")
         ELSE UpdateOperation(c, Outcome(record[c]).status, Outcome(record[c]).reason)
    /\ UNCHANGED <<host, calls, monitor, control, terminal, history, bounds>>

\* The server listens once store.init() has reconciled every row.
Listen ==
    /\ host = "recovering" /\ Unreconciled = {}
    /\ host' = "up"
    /\ UNCHANGED <<calls, ledger, monitor, control, terminal, history, bounds>>

Recover == Listen \/ \E c \in Calls : Reconcile(c)

-----------------------------------------------------------------------------
Next ==
    \/ \E c \in Calls : RunCommand(c) \/ Monitor(c)
    \/ \E s \in Sessions : Control(s) \/ Shell(s)
    \/ Crash \/ Reboot \/ Recover

\* Node.js resumes every handler and monitor whose await settles, and systemd
\* restarts the host; clients, shells and crashes promise nothing.
Fairness ==
    /\ \A c \in Calls : /\ WF_vars(pc[c] # "idle" /\ RunCommand(c))
                        /\ WF_vars(Monitor(c))
    /\ WF_vars(Recover)

Spec == Init /\ [][Next]_vars
FairSpec == Spec /\ Fairness

-----------------------------------------------------------------------------
(***************************************************************************)
(* Properties.                                                             *)
(***************************************************************************)

\* Type invariant of the ledger's state; a deleted row keeps no outcome.
TypeOK ==
    /\ host \in {"up", "recovering"}
    /\ req \in [Calls -> Requests]
    /\ pc \in [Calls -> {"idle", "required", "admitted", "pasting", "checked",
                        "delivered", "waiting", "done"}]
    /\ answer \in [Calls -> Calls \cup {NoOp}]
    /\ status \in [Calls -> Statuses]
    /\ reason \in [Calls -> Reasons]
    /\ record \in [Calls -> Records]
    /\ monitor \in [Calls -> {"off", "head", "reading", "probing", "failed"}]
    /\ row \in [Sessions -> {"OPEN", "CLOSED", "GONE"}]
    /\ json \in [Sessions -> {"OPEN", "CLOSED", "GONE"}]
    /\ closing \in [Sessions -> {"idle", "killed", "read"}]
    /\ updating \in [Sessions -> {"idle", "OPEN", "CLOSED"}]
    /\ intr \in [Sessions -> {"idle", "checked", "sent"}]
    /\ alive \in [Sessions -> BOOLEAN]
    /\ pane \in [Sessions -> Seq(Calls \cup {UserInput})]
    /\ interrupted \subseteq Calls
    /\ dispatched \subseteq Calls
    /\ past \in [Sessions -> {"kept", "purged", "returned"}]
    /\ inputs \in 0..MaxInputs
    /\ events \in 0..MaxEvents

\* One writer per session: admitOperation, updateOperation and the monitors
\* never leave two operations of a session ACCEPTED, RUNNING or UNKNOWN.
OneWriter ==
    \A c, d \in Calls :
        /\ status[c] \in {"ACCEPTED", "RUNNING", "UNKNOWN"}
        /\ status[d] \in {"ACCEPTED", "RUNNING", "UNKNOWN"}
        /\ Session(c) = Session(d)
        => c = d

\* Retrying a call never types its command twice: whatever crashes, interrupts,
\* closes and purges come between, runCommand pastes at most one operation for
\* each session and idempotency key.  The one exception is a session that came
\* back OPEN after a purge had deleted its operations: a save that had read the
\* row before, or a session.json the purge could not remove, brings it back.
AtMostOncePerKey ==
    \A c, d \in dispatched :
        Session(c) = Session(d) /\ req[c].key = req[d].key
            => c = d \/ past[Session(c)] = "returned"

\* A final status is backed by evidence: SUCCEEDED by a record of exit code
\* zero, FAILED by a record of another code or by the certainty that runCommand
\* never pasted the command.
FinalStatusHasEvidence ==
    \A c \in Calls :
        /\ status[c] = "SUCCEEDED" => record[c] = "zero"
        /\ status[c] = "FAILED" => record[c] = "nonzero" \/ c \notin dispatched

PaneOps(s) == {pane[s][i] : i \in 1..Len(pane[s])} \cap Calls

\* The ledger releases a session only when its pane is free: a managed command
\* that is still in a pane is RUNNING or UNKNOWN, unless an interrupt() marked
\* it or its session was purged.
PaneIsAccountedFor ==
    \A s \in Sessions : \A c \in PaneOps(s) :
        status[c] \in {"RUNNING", "UNKNOWN", "NONE"} \/ c \in interrupted

\* An operation reported as RUNNING by a listening host is still looked after:
\* its runCommand has not handed over yet or its monitor loops, or the monitor
\* failed on a read error.
RunningIsWatched ==
    \A c \in Calls :
        host = "up" /\ status[c] = "RUNNING"
            => \/ pc[c] \in {"pasting", "checked", "delivered"}
               \/ monitor[c] # "off"

\* Why RunningIsWatched is preserved: each suspended handler or monitor knows
\* which statuses its row can have, and only an admitted call is ACCEPTED.
HandlerKnowsRow ==
    \A c \in Calls :
        /\ pc[c] \in {"idle", "required"} => status[c] = "NONE"
        /\ pc[c] = "admitted" => status[c] \in {"ACCEPTED", "INTERRUPTED", "NONE"}
        /\ pc[c] \in {"pasting", "checked", "delivered"}
             => status[c] \in {"RUNNING", "INTERRUPTED", "NONE"}
        /\ pc[c] \notin {"waiting", "done"} => monitor[c] = "off"
        /\ monitor[c] \in {"head", "reading", "probing"}
             => status[c] \in {"RUNNING", "INTERRUPTED", "NONE"}
        /\ host = "up" /\ status[c] = "ACCEPTED" => pc[c] = "admitted"
        /\ host = "recovering" => pc[c] \in {"idle", "done"} /\ monitor[c] = "off"

\* Why AtMostOncePerKey is preserved: rows of a session have different keys, a
\* session that was never purged has lost none of its rows, and a purged one is
\* not OPEN before it has returned, so that no handler pastes into it.
AdmittedRows ==
    /\ \A c, d \in Calls :
          /\ status[c] # "NONE" /\ status[d] # "NONE"
          /\ Session(c) = Session(d) /\ req[c].key = req[d].key
          => c = d
    /\ \A c \in Calls :
          /\ c \in dispatched \/ pc[c] \in {"admitted", "pasting", "checked", "delivered"}
          /\ past[Session(c)] = "kept"
          => status[c] # "NONE"
    /\ \A s \in Sessions : past[s] = "purged" => row[s] # "OPEN"

\* The operations whose text is on its way to the pane, or has reached it.
Reached == dispatched \cup {c \in Calls : pc[c] \in {"checked", "delivered"}}

ReachedOncePerKey ==
    \A c, d \in Reached :
        Session(c) = Session(d) /\ req[c].key = req[d].key
            => c = d \/ past[Session(c)] = "returned"

StatusStep(c) ==
    /\ status[c] \in {"SUCCEEDED", "FAILED"} => status'[c] \in {status[c], "NONE"}
    /\ status[c] = "UNKNOWN" => status'[c] \in {"UNKNOWN", "INTERRUPTED", "NONE"}

\* What a step may never do: an ended operation keeps its status until a purge,
\* and an UNKNOWN one leaves it only through an interrupt() or a purge, so the
\* monitors and the reconciliation never turn uncertainty into a result.
StatusSteps == [][\A c \in Calls : StatusStep(c)]_vars

\* A completion record is eventually turned into an outcome: by the monitor,
\* or by the reconciliation after a crash, unless the monitor failed.
RecordIsObserved ==
    \A c \in Calls :
        status[c] = "RUNNING" /\ record[c] # "none"
            ~> status[c] # "RUNNING" \/ monitor[c] = "failed"

=============================================================================
