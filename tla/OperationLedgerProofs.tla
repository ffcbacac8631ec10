------------------------ MODULE OperationLedgerProofs ------------------------
(***************************************************************************)
(* What TLAPS proves about OperationLedger, for any number of sessions,    *)
(* calls, keys and commands and for any bounds.                            *)
(***************************************************************************)
EXTENDS OperationLedger, SequenceTheorems, TLAPS

(***************************************************************************)
(* Type correctness.                                                       *)
(***************************************************************************)

\* An UPDATE of the operations table keeps statuses and reasons in their
\* domains (updateOperation).
LEMMA UpdateOperationType ==
    ASSUME TypeOK, NEW c \in Calls, NEW new \in Statuses, NEW why \in Reasons,
           UpdateOperation(c, new, why)
    PROVE  /\ status' \in [Calls -> Statuses]
           /\ reason' \in [Calls -> Reasons]
<1>1. status \in [Calls -> Statuses] /\ reason \in [Calls -> Reasons] BY DEF TypeOK
<1> QED BY <1>1 DEF UpdateOperation, ledger

\* What save() writes is a row, a session.json and a past of their types.
LEMMA SaveType ==
    ASSUME TypeOK, NEW s \in Sessions, NEW state \in {"OPEN", "CLOSED"}, Save(s, state)
    PROVE  /\ row' \in [Sessions -> {"OPEN", "CLOSED", "GONE"}]
           /\ json' \in [Sessions -> {"OPEN", "CLOSED", "GONE"}]
           /\ past' \in [Sessions -> {"kept", "purged", "returned"}]
<1>1. /\ row \in [Sessions -> {"OPEN", "CLOSED", "GONE"}]
      /\ json \in [Sessions -> {"OPEN", "CLOSED", "GONE"}]
      /\ past \in [Sessions -> {"kept", "purged", "returned"}]
  BY DEF TypeOK
<1> QED BY <1>1 DEF Save

\* A completion record always maps to a status and a reason of the schema.
LEMMA OutcomeType ==
    ASSUME NEW rec \in Records \ {"none"}
    PROVE  Outcome(rec).status \in Statuses /\ Outcome(rec).reason \in Reasons
BY DEF Outcome, Records, Statuses, Active, Final, Reasons

\* Dropping the second line of a pane (ShellSwallow) leaves a pane.
LEMMA SwallowType ==
    ASSUME NEW S, NEW q \in Seq(S), Len(q) > 1
    PROVE  <<Head(q)>> \o Tail(Tail(q)) \in Seq(S)
<1>1. q # <<>> BY EmptySeq
<1>2. Tail(q) \in Seq(S) /\ Len(Tail(q)) = Len(q) - 1 BY <1>1, HeadTailProperties
<1>3. Len(Tail(q)) # 0
  <2>1. Len(q) \in Nat BY LenProperties
  <2> QED BY <1>2, <2>1
<1>4. Tail(q) # <<>> BY <1>3, EmptySeq, Zenon
<1>5. Tail(Tail(q)) \in Seq(S) BY <1>2, <1>4, HeadTailProperties
<1>6. <<Head(q)>> \in Seq(S) BY <1>1
<1> QED BY <1>5, <1>6, ConcatProperties

\* What ShellSwallow leaves: the first line, and all but the second of the rest.
LEMMA SwallowLines ==
    ASSUME NEW S, NEW q \in Seq(S), Len(q) > 1
    PROVE  LET r == <<Head(q)>> \o Tail(Tail(q))
           IN  /\ Len(q) \in Nat /\ Len(r) = Len(q) - 1
               /\ \A i \in 1..Len(r) : r[i] = q[IF i = 1 THEN 1 ELSE i + 1]
<1>1. q # <<>> /\ Len(q) \in Nat BY EmptySeq, LenProperties
<1>2. /\ Tail(q) \in Seq(S) /\ Len(Tail(q)) = Len(q) - 1
      /\ \A i \in 1..Len(Tail(q)) : Tail(q)[i] = q[i + 1]
  BY <1>1
<1>3. Tail(q) # <<>>
  <2>1. Len(Tail(q)) # 0 BY <1>1, <1>2
  <2> QED BY <2>1, EmptySeq, Zenon
<1>4. /\ Tail(Tail(q)) \in Seq(S) /\ Len(Tail(Tail(q))) = Len(q) - 2
      /\ \A i \in 1..Len(Tail(Tail(q))) : Tail(Tail(q))[i] = Tail(q)[i + 1]
  BY <1>1, <1>2, <1>3
<1>5. \A i \in 1..Len(Tail(Tail(q))) : Tail(Tail(q))[i] = q[i + 2]
  BY <1>1, <1>2, <1>4
<1> DEFINE u == Tail(Tail(q))
           r == <<Head(q)>> \o u
<1> HIDE DEF u
<1>6. u \in Seq(S) /\ Len(u) = Len(q) - 2 /\ \A i \in 1..Len(u) : u[i] = q[i + 2]
  BY <1>4, <1>5 DEF u
<1>7. Len(r) = Len(q) - 1 BY <1>1, <1>6
<1>8. ASSUME NEW i \in 1..Len(r) PROVE r[i] = q[IF i = 1 THEN 1 ELSE i + 1]
  <2>1. r[i] = IF i = 1 THEN Head(q) ELSE u[i - 1] BY <1>1, <1>6, <1>7
  <2>2. i # 1 => i - 1 \in 1..Len(u) /\ (i - 1) + 2 = i + 1 BY <1>1, <1>6, <1>7
  <2>3. Head(q) = q[1] BY <1>1
  <2> QED BY <1>6, <2>1, <2>2, <2>3
<1> QED BY <1>1, <1>7, <1>8 DEF u

\* Every step keeps the state well typed.
LEMMA TypeStep == ASSUME TypeOK, [Next]_vars PROVE TypeOK'
<1> USE DEF TypeOK, calls, ledger, control, terminal, history, bounds
<1>0. CASE UNCHANGED vars
  BY <1>0 DEF vars
<1>1. ASSUME NEW c \in Calls, RunCommand(c) PROVE TypeOK'
  <2> USE DEF Step
  <2>1. CASE RequireSession(c) BY <2>1 DEF RequireSession
  <2>2. CASE AdmitDuplicate(c) BY <2>2 DEF AdmitDuplicate, Rows
  <2>3. CASE AdmitRefused(c) BY <2>3 DEF AdmitRefused
  <2>4. CASE AdmitInsert(c) BY <2>4 DEF AdmitInsert, Statuses, Active, Reasons
  <2>5. CASE PrepareOk(c)
    <3>1. "RUNNING" \in Statuses /\ "null" \in Reasons
      BY DEF Statuses, Active, Reasons
    <3>2. status' \in [Calls -> Statuses] /\ reason' \in [Calls -> Reasons]
      BY <2>5, <3>1, UpdateOperationType DEF PrepareOk
    <3> QED BY <2>5, <3>2 DEF PrepareOk, Records
  <2>6. CASE PrepareFail(c)
    <3>1. "FAILED" \in Statuses /\ "control_channel_unavailable" \in Reasons
      BY DEF Statuses, Final, Reasons
    <3>2. status' \in [Calls -> Statuses] /\ reason' \in [Calls -> Reasons]
      BY <2>6, <3>1, UpdateOperationType DEF PrepareFail
    <3> QED BY <2>6, <3>2 DEF PrepareFail
  <2>7. CASE PasteCheck(c) BY <2>7 DEF PasteCheck
  <2>8. CASE PasteDeliver(c)
    <3>1. Session(c) \in Sessions BY DEF Session, Requests
    <3>2. Append(pane[Session(c)], c) \in Seq(Calls \cup {UserInput}) BY <3>1
    <3> QED BY <2>8, <3>1, <3>2 DEF PasteDeliver
  <2>9. CASE PasteFail(c)
    <3>1. "UNKNOWN" \in Statuses /\ "spawn_result_uncertain" \in Reasons
      BY DEF Statuses, Active, Reasons
    <3>2. status' \in [Calls -> Statuses] /\ reason' \in [Calls -> Reasons]
      BY <2>9, <3>1, UpdateOperationType DEF PasteFail
    <3> QED BY <2>9, <3>2 DEF PasteFail
  <2>10. CASE PasteOk(c) BY <2>10 DEF PasteOk
  <2>11. CASE Respond(c) BY <2>11 DEF Respond
  <2> QED BY <1>1, <2>1, <2>2, <2>3, <2>4, <2>5, <2>6, <2>7, <2>8, <2>9, <2>10, <2>11
          DEF RunCommand
<1>2. ASSUME NEW c \in Calls, Monitor(c) PROVE TypeOK'
  <2>1. CASE MonitorHead(c) BY <2>1 DEF MonitorHead
  <2>2. CASE MonitorRead(c)
    <3>1. record[c] \in Records \ {"none"} BY <2>2 DEF MonitorRead
    <3>2. status' \in [Calls -> Statuses] /\ reason' \in [Calls -> Reasons]
      BY <2>2, <3>1, OutcomeType, UpdateOperationType DEF MonitorRead
    <3> QED BY <2>2, <3>2 DEF MonitorRead
  <2>3. CASE MonitorReadNothing(c) BY <2>3 DEF MonitorReadNothing
  <2>4. CASE MonitorFails(c) BY <2>4 DEF MonitorFails
  <2>5. CASE MonitorAlive(c) BY <2>5 DEF MonitorAlive
  <2>6. CASE MonitorLost(c)
    <3>1. "UNKNOWN" \in Statuses /\ "session_lost_during_operation" \in Reasons
      BY DEF Statuses, Active, Reasons
    <3>2. status' \in [Calls -> Statuses] /\ reason' \in [Calls -> Reasons]
      BY <2>6, <3>1, UpdateOperationType DEF MonitorLost
    <3> QED BY <2>6, <3>2 DEF MonitorLost
  <2> QED BY <1>2, <2>1, <2>2, <2>3, <2>4, <2>5, <2>6 DEF Monitor
<1>3. ASSUME NEW s \in Sessions, Control(s) PROVE TypeOK'
  <2>1. CASE InterruptRequire(s) BY <2>1 DEF InterruptRequire
  <2>2. CASE InterruptSend(s)
    <3>1. PICK after \in {pane[s], <<>>} \cup (IF pane[s] = <<>> THEN {} ELSE {Tail(pane[s])}) :
             pane' = [pane EXCEPT ![s] = after]
      BY <2>2 DEF InterruptSend
    <3>2. after \in Seq(Calls \cup {UserInput})
      <4>1. pane[s] \in Seq(Calls \cup {UserInput}) OBVIOUS
      <4>2. pane[s] # <<>> => Tail(pane[s]) \in Seq(Calls \cup {UserInput}) BY <4>1
      <4>3. after = pane[s] \/ after = <<>> \/ (pane[s] # <<>> /\ after = Tail(pane[s]))
        OBVIOUS
      <4>4. <<>> \in Seq(Calls \cup {UserInput}) BY EmptySeq
      <4> QED BY <4>1, <4>2, <4>3, <4>4, Zenon
    <3>3. pane' \in [Sessions -> Seq(Calls \cup {UserInput})] BY <3>1, <3>2
    <3> QED BY <2>2, <3>3 DEF InterruptSend
  <2>3. CASE InterruptSendFails(s) BY <2>3 DEF InterruptSendFails
  <2>4. CASE InterruptMark(s)
    <3>1. "INTERRUPTED" \in Statuses /\ "owner_interrupt" \in Reasons
      BY DEF Statuses, Reasons
    <3>2. ActiveOperations(s) \subseteq Calls BY DEF ActiveOperations, Rows
    <3>3. /\ status' \in [Calls -> Statuses] /\ reason' \in [Calls -> Reasons]
          /\ interrupted' \subseteq Calls
      <4>1. CASE ActiveOperations(s) = {} BY <2>4, <4>1 DEF InterruptMark
      <4>2. CASE ActiveOperations(s) # {}
        <5>1. PICK c \in ActiveOperations(s) :
                 /\ UpdateOperation(c, "INTERRUPTED", "owner_interrupt")
                 /\ interrupted' = interrupted \cup {c}
          BY <2>4, <4>2 DEF InterruptMark
        <5> QED BY <3>1, <3>2, <5>1, UpdateOperationType
      <4> QED BY <4>1, <4>2
    <3> QED BY <2>4, <3>3 DEF InterruptMark
  <2>5. CASE CloseKill(s)
    <3>1. /\ alive' \in [Sessions -> BOOLEAN]
          /\ pane' \in [Sessions -> Seq(Calls \cup {UserInput})]
      <4>1. <<>> \in Seq(Calls \cup {UserInput}) BY EmptySeq
      <4>2. alive \in [Sessions -> BOOLEAN] /\ pane \in [Sessions -> Seq(Calls \cup {UserInput})]
        OBVIOUS
      <4>3. \/ alive' = [alive EXCEPT ![s] = FALSE] /\ pane' = [pane EXCEPT ![s] = <<>>]
            \/ UNCHANGED <<alive, pane>>
        BY <2>5 DEF CloseKill
      <4> HIDE DEF TypeOK
      <4> QED BY <4>1, <4>2, <4>3
    <3>2. events' \in 0..MaxEvents BY <2>5, BoundAssumption DEF CloseKill
    <3> QED BY <2>5, <3>1, <3>2 DEF CloseKill
  <2>6. CASE CloseRead(s) BY <2>6 DEF CloseRead
  <2>7. CASE CloseSave(s) BY <2>7, SaveType DEF CloseSave
  <2>8. CASE Purge(s)
    <3>1. /\ status' \in [Calls -> Statuses] /\ reason' \in [Calls -> Reasons]
          /\ record' \in [Calls -> Records]
      BY <2>8 DEF Purge, Statuses, Reasons, Records
    <3>2. /\ row' \in [Sessions -> {"OPEN", "CLOSED", "GONE"}]
          /\ json' \in [Sessions -> {"OPEN", "CLOSED", "GONE"}]
          /\ past' \in [Sessions -> {"kept", "purged", "returned"}]
      BY <2>8 DEF Purge
    <3> QED BY <2>8, <3>1, <3>2 DEF Purge
  <2>10. CASE UpdateRead(s)
    <3>1. row[s] \in {"OPEN", "CLOSED"} BY <2>10 DEF UpdateRead
    <3> QED BY <2>10, <3>1, BoundAssumption DEF UpdateRead
  <2>11. CASE UpdateSave(s)
    <3>1. updating[s] \in {"OPEN", "CLOSED"} BY <2>11 DEF UpdateSave
    <3> QED BY <2>11, <3>1, SaveType DEF UpdateSave
  <2>9. CASE SendInput(s)
    <3>1. Append(pane[s], UserInput) \in Seq(Calls \cup {UserInput}) OBVIOUS
    <3> QED BY <2>9, <3>1, BoundAssumption DEF SendInput
  <2> QED BY <1>3, <2>1, <2>2, <2>3, <2>4, <2>5, <2>6, <2>7, <2>8, <2>9, <2>10, <2>11 DEF Control
<1>4. ASSUME NEW s \in Sessions, Shell(s) PROVE TypeOK'
  <2>1. CASE ShellFinish(s)
    <3>1. Tail(pane[s]) \in Seq(Calls \cup {UserInput}) BY <2>1 DEF ShellFinish
    <3>2. record' \in [Calls -> Records] BY <2>1 DEF ShellFinish
    <3> QED BY <2>1, <3>1, <3>2 DEF ShellFinish
  <2>2. CASE ShellSwallow(s)
    <3>1. <<Head(pane[s])>> \o Tail(Tail(pane[s])) \in Seq(Calls \cup {UserInput})
      BY <2>2, SwallowType DEF ShellSwallow
    <3> QED BY <2>2, <3>1 DEF ShellSwallow
  <2>3. CASE ShellExit(s) BY <2>3 DEF ShellExit
  <2> QED BY <1>4, <2>1, <2>2, <2>3 DEF Shell
<1>5. CASE Crash BY <1>5, BoundAssumption DEF Crash, LoseMemory
<1>6. CASE Reboot
  <2>1. pane' \in [Sessions -> Seq(Calls \cup {UserInput})]
    <3>1. <<>> \in Seq(Calls \cup {UserInput}) BY EmptySeq
    <3> QED BY <1>6, <3>1 DEF Reboot
  <2> QED BY <1>6, <2>1, BoundAssumption DEF Reboot, LoseMemory
<1>7. CASE Recover
  <2>1. CASE Listen BY <2>1 DEF Listen
  <2>2. ASSUME NEW c \in Calls, Reconcile(c) PROVE TypeOK'
    <3>1. "UNKNOWN" \in Statuses /\ "session_host_restart" \in Reasons
      BY DEF Statuses, Active, Reasons
    <3>2. status' \in [Calls -> Statuses] /\ reason' \in [Calls -> Reasons]
      <4>1. CASE record[c] = "none"
        BY <2>2, <3>1, <4>1, UpdateOperationType DEF Reconcile
      <4>2. CASE record[c] # "none"
        <5>1. record[c] \in Records \ {"none"} BY <4>2
        <5> QED BY <2>2, <4>2, <5>1, OutcomeType, UpdateOperationType DEF Reconcile
      <4> QED BY <4>1, <4>2
    <3> QED BY <2>2, <3>2 DEF Reconcile
  <2> QED BY <1>7, <2>1, <2>2 DEF Recover
<1> QED BY <1>0, <1>1, <1>2, <1>3, <1>4, <1>5, <1>6, <1>7 DEF Next

\* Type correctness of the ledger: the statuses, reasons, handler positions and
\* counters always stay in the domains the schema and the code allow.
THEOREM TypeCorrect == Spec => []TypeOK
<1>1. Init => TypeOK
  BY BoundAssumption DEF Init, TypeOK, Statuses, Reasons, Records
<1>2. TypeOK /\ [Next]_vars => TypeOK'
  BY TypeStep
<1> QED BY <1>1, <1>2, PTL DEF Spec

(***************************************************************************)
(* One writer per session.                                                 *)
(***************************************************************************)

\* updateOperation keeps the partial unique index: a row becomes active only
\* when no other row of its session is.
LEMMA UpdateOperationOneWriter ==
    ASSUME TypeOK, OneWriter, NEW c \in Calls, NEW new, NEW why,
           UpdateOperation(c, new, why), UNCHANGED req
    PROVE  OneWriter'
<1> USE DEF OneWriter, Session, ledger
<1>0. status \in [Calls -> Statuses] BY DEF TypeOK
<1>1. CASE status[c] # "NONE" /\ IndexAllows(c, new)
  <2>1. \A d \in Calls \ {c} : status'[d] = status[d]
    BY <1>0, <1>1 DEF UpdateOperation
  <2>2. status'[c] = new BY <1>0, <1>1 DEF UpdateOperation
  <2>3. ASSUME new \in {"ACCEPTED", "RUNNING", "UNKNOWN"}, NEW d \in Calls \ {c},
               status[d] \in {"ACCEPTED", "RUNNING", "UNKNOWN"}, Session(d) = Session(c)
        PROVE  FALSE
    BY <1>1, <2>3 DEF IndexAllows, ActiveOperations, Rows, Active
  <2> QED BY <2>1, <2>2, <2>3
<1>2. CASE ~(status[c] # "NONE" /\ IndexAllows(c, new))
  BY <1>2 DEF UpdateOperation
<1> QED BY <1>1, <1>2

\* Every step keeps at most one active operation in each session.
LEMMA OneWriterStep == ASSUME TypeOK, OneWriter, [Next]_vars PROVE OneWriter'
<1> USE DEF calls, ledger, control, terminal, history, bounds
<1>0. ASSUME UNCHANGED <<status, req>> PROVE OneWriter'
  BY <1>0 DEF OneWriter, Session
<1>1. ASSUME NEW c \in Calls, RunCommand(c) PROVE OneWriter'
  <2>1. CASE RequireSession(c) \/ AdmitDuplicate(c) \/ AdmitRefused(c) \/ PasteCheck(c)
              \/ PasteDeliver(c) \/ PasteOk(c) \/ Respond(c)
    BY <1>0, <2>1 DEF RequireSession, AdmitDuplicate, AdmitRefused, PasteCheck,
                      PasteDeliver, PasteOk, Respond
  <2>2. CASE AdmitInsert(c)
    <3>1. /\ ActiveOperations(Session(c)) = {}
          /\ status' = [status EXCEPT ![c] = "ACCEPTED"]
          /\ UNCHANGED req
      BY <2>2 DEF AdmitInsert
    <3>2. \A d \in Calls : Session(d) = Session(c)
                             => status[d] \notin {"ACCEPTED", "RUNNING", "UNKNOWN"}
      BY <3>1 DEF ActiveOperations, Rows, Active
    <3> QED BY <3>1, <3>2 DEF OneWriter, TypeOK, Session
  <2>3. CASE PrepareOk(c) BY <2>3, UpdateOperationOneWriter DEF PrepareOk
  <2>4. CASE PrepareFail(c) BY <2>4, UpdateOperationOneWriter DEF PrepareFail
  <2>5. CASE PasteFail(c) BY <2>5, UpdateOperationOneWriter DEF PasteFail
  <2> QED BY <1>1, <2>1, <2>2, <2>3, <2>4, <2>5 DEF RunCommand
<1>2. ASSUME NEW c \in Calls, Monitor(c) PROVE OneWriter'
  <2>1. CASE MonitorHead(c) \/ MonitorReadNothing(c) \/ MonitorFails(c) \/ MonitorAlive(c)
    BY <1>0, <2>1 DEF MonitorHead, MonitorReadNothing, MonitorFails, MonitorAlive
  <2>2. CASE MonitorRead(c) BY <2>2, UpdateOperationOneWriter DEF MonitorRead
  <2>3. CASE MonitorLost(c) BY <2>3, UpdateOperationOneWriter DEF MonitorLost
  <2> QED BY <1>2, <2>1, <2>2, <2>3 DEF Monitor
<1>3. ASSUME NEW s \in Sessions, Control(s) PROVE OneWriter'
  <2>1. CASE InterruptRequire(s) \/ InterruptSend(s) \/ InterruptSendFails(s)
              \/ CloseKill(s) \/ CloseRead(s) \/ CloseSave(s) \/ SendInput(s)
              \/ UpdateRead(s) \/ UpdateSave(s)
    BY <1>0, <2>1 DEF InterruptRequire, InterruptSend, InterruptSendFails, CloseKill,
                      CloseRead, CloseSave, SendInput, UpdateRead, UpdateSave
  <2>2. CASE InterruptMark(s)
    <3>1. CASE ActiveOperations(s) = {} BY <1>0, <2>2, <3>1 DEF InterruptMark
    <3>2. CASE ActiveOperations(s) # {}
      <4>1. PICK c \in ActiveOperations(s) : UpdateOperation(c, "INTERRUPTED", "owner_interrupt")
        BY <2>2, <3>2 DEF InterruptMark
      <4>2. c \in Calls BY DEF ActiveOperations, Rows
      <4> QED BY <2>2, <4>1, <4>2, UpdateOperationOneWriter DEF InterruptMark
    <3> QED BY <3>1, <3>2
  <2>3. CASE Purge(s)
    <3>1. \A d \in Calls : status'[d] \in {status[d], "NONE"} BY <2>3 DEF Purge
    <3>2. UNCHANGED req BY <2>3 DEF Purge
    <3> QED BY <3>1, <3>2 DEF OneWriter, Session
  <2> QED BY <1>3, <2>1, <2>2, <2>3 DEF Control
<1>4. ASSUME NEW s \in Sessions, Shell(s) PROVE OneWriter'
  BY <1>0, <1>4 DEF Shell, ShellFinish, ShellSwallow, ShellExit
<1>5. CASE Crash \/ Reboot BY <1>0, <1>5 DEF Crash, Reboot, LoseMemory
<1>6. CASE Recover
  <2>1. CASE Listen BY <1>0, <2>1 DEF Listen
  <2>2. ASSUME NEW c \in Calls, Reconcile(c) PROVE OneWriter'
    BY <2>2, UpdateOperationOneWriter DEF Reconcile
  <2> QED BY <1>6, <2>1, <2>2 DEF Recover
<1>7. CASE UNCHANGED vars BY <1>0, <1>7 DEF vars
<1> QED BY <1>1, <1>2, <1>3, <1>4, <1>5, <1>6, <1>7 DEF Next

\* One writer per terminal session: for every interleaving of calls, monitors,
\* interrupts, purges, crashes and recoveries, the operations table never holds
\* two ACCEPTED, RUNNING or UNKNOWN operations of the same session.
THEOREM OneWriterHolds == Spec => []OneWriter
<1>1. Init => OneWriter BY DEF Init, OneWriter
<1>2. TypeOK /\ OneWriter /\ [Next]_vars => OneWriter' BY OneWriterStep
<1> QED BY <1>1, <1>2, TypeCorrect, PTL DEF Spec

(***************************************************************************)
(* A RUNNING operation is watched, and results are final.                  *)
(***************************************************************************)

\* What an UPDATE does to the status column, row by row.
LEMMA UpdateOperationEffect ==
    ASSUME TypeOK, NEW c \in Calls, NEW new, NEW why, UpdateOperation(c, new, why)
    PROVE  /\ \A d \in Calls \ {c} : status'[d] = status[d]
           /\ status[c] = "NONE" => status'[c] = "NONE"
           /\ status[c] # "NONE" /\ IndexAllows(c, new) => status'[c] = new
           /\ status'[c] \in {status[c], new}
BY DEF UpdateOperation, TypeOK, ledger

\* The index never rejects an update of the session's own writer, nor one that
\* ends an operation.
LEMMA WriterMayUpdate ==
    ASSUME OneWriter, NEW c \in Calls, NEW new,
           status[c] \in Active \/ new \notin Active
    PROVE  IndexAllows(c, new)
BY DEF OneWriter, IndexAllows, ActiveOperations, Rows, Active

\* Every step keeps RUNNING operations watched and obeys StatusStep.
LEMMA WatchStep ==
    ASSUME TypeOK, OneWriter, HandlerKnowsRow, RunningIsWatched, [Next]_vars
    PROVE  HandlerKnowsRow' /\ RunningIsWatched' /\ \A c \in Calls : StatusStep(c)
<1> DEFINE Goal == HandlerKnowsRow' /\ RunningIsWatched' /\ \A d \in Calls : StatusStep(d)
<1> SUFFICES Goal OBVIOUS
<1> USE DEF calls, ledger, control, terminal, history, bounds,
            HandlerKnowsRow, RunningIsWatched, StatusStep
<1>0. ASSUME UNCHANGED <<host, pc, status, monitor>> PROVE Goal
  BY <1>0
<1>1. ASSUME NEW c \in Calls, RunCommand(c) PROVE Goal
  <2>1. CASE RequireSession(c) BY <2>1 DEF RequireSession, Step, TypeOK
  <2>2. CASE AdmitDuplicate(c) BY <2>2 DEF AdmitDuplicate, Step, TypeOK
  <2>3. CASE AdmitRefused(c) BY <2>3 DEF AdmitRefused, Step, TypeOK
  <2>4. CASE AdmitInsert(c) BY <2>4 DEF AdmitInsert, Step, TypeOK
  <2>5. CASE PrepareOk(c)
    <3>1. UpdateOperation(c, "RUNNING", "null") BY <2>5 DEF PrepareOk
    <3>2. status[c] \in Active => IndexAllows(c, "RUNNING") BY WriterMayUpdate
    <3>3. /\ \A d \in Calls \ {c} : status'[d] = status[d]
          /\ status[c] = "NONE" => status'[c] = "NONE"
          /\ status[c] # "NONE" /\ IndexAllows(c, "RUNNING") => status'[c] = "RUNNING"
          /\ status'[c] \in {status[c], "RUNNING"}
      BY <3>1, UpdateOperationEffect
    <3>4. CASE status[c] = "NONE" \/ IndexAllows(c, "RUNNING")
      <4>1. pc' = [pc EXCEPT ![c] = "pasting"] BY <2>5, <3>4 DEF PrepareOk, Step
      <4>2. status'[c] \in {"RUNNING", "NONE"} BY <3>3, <3>4
      <4> QED BY <2>5, <3>3, <4>1, <4>2 DEF PrepareOk, Step, TypeOK
    <3>5. CASE ~(status[c] = "NONE" \/ IndexAllows(c, "RUNNING"))
      <4>1. pc' = [pc EXCEPT ![c] = "done"] BY <2>5, <3>5 DEF PrepareOk, Step
      <4>2. UNCHANGED status BY <3>1, <3>5 DEF UpdateOperation
      <4>3. status[c] = "INTERRUPTED"
        BY <2>5, <3>2, <3>5 DEF PrepareOk, Step, Active
      <4> QED BY <2>5, <4>1, <4>2, <4>3 DEF PrepareOk, Step, TypeOK
    <3> QED BY <3>4, <3>5
  <2>6. CASE PrepareFail(c)
    <3>1. UpdateOperation(c, "FAILED", "control_channel_unavailable") BY <2>6 DEF PrepareFail
    <3>2. "FAILED" \notin Active BY DEF Active
    <3>3. IndexAllows(c, "FAILED") BY <3>2, WriterMayUpdate
    <3>4. /\ \A d \in Calls \ {c} : status'[d] = status[d]
          /\ status'[c] = IF status[c] = "NONE" THEN "NONE" ELSE "FAILED"
      BY <3>1, <3>3, UpdateOperationEffect
    <3> QED BY <2>6, <3>4 DEF PrepareFail, Step, TypeOK
  <2>7. CASE PasteCheck(c) BY <2>7 DEF PasteCheck, Step, TypeOK
  <2>8. CASE PasteDeliver(c) BY <2>8 DEF PasteDeliver, Step, TypeOK
  <2>9. CASE PasteFail(c)
    <3>1. UpdateOperation(c, "UNKNOWN", "spawn_result_uncertain") BY <2>9 DEF PasteFail
    <3>2. status[c] = "RUNNING" => IndexAllows(c, "UNKNOWN") BY WriterMayUpdate DEF Active
    <3>3. /\ \A d \in Calls \ {c} : status'[d] = status[d]
          /\ status[c] = "NONE" => status'[c] = "NONE"
          /\ status[c] = "RUNNING" => status'[c] = "UNKNOWN"
          /\ status'[c] \in {status[c], "UNKNOWN"}
      BY <3>1, <3>2, UpdateOperationEffect
    <3> QED BY <2>9, <3>3 DEF PasteFail, Step, TypeOK
  <2>10. CASE PasteOk(c) BY <2>10 DEF PasteOk, Step, TypeOK
  <2>11. CASE Respond(c) BY <2>11 DEF Respond, Step, TypeOK
  <2> QED BY <1>1, <2>1, <2>2, <2>3, <2>4, <2>5, <2>6, <2>7, <2>8, <2>9, <2>10, <2>11
          DEF RunCommand
<1>2. ASSUME NEW c \in Calls, Monitor(c) PROVE Goal
  <2>1. CASE MonitorHead(c) BY <2>1 DEF MonitorHead, TypeOK
  <2>2. CASE MonitorRead(c)
    <3> DEFINE new == Outcome(record[c]).status
    <3>1. UpdateOperation(c, new, Outcome(record[c]).reason) BY <2>2 DEF MonitorRead
    <3>2. new \in {"SUCCEEDED", "FAILED", "UNKNOWN"}
      BY <2>2 DEF MonitorRead, Outcome, Records, TypeOK
    <3>3. status[c] = "RUNNING" => IndexAllows(c, new) BY WriterMayUpdate DEF Active
    <3>4. /\ \A d \in Calls \ {c} : status'[d] = status[d]
          /\ status[c] = "NONE" => status'[c] = "NONE"
          /\ status[c] = "RUNNING" => status'[c] = new
          /\ status'[c] \in {status[c], new}
      BY <3>1, <3>3, UpdateOperationEffect
    <3> HIDE DEF new
    <3> QED BY <2>2, <3>2, <3>4 DEF MonitorRead, TypeOK
  <2>3. CASE MonitorReadNothing(c) BY <2>3 DEF MonitorReadNothing, TypeOK
  <2>4. CASE MonitorFails(c) BY <2>4 DEF MonitorFails, TypeOK
  <2>5. CASE MonitorAlive(c) BY <2>5 DEF MonitorAlive, TypeOK
  <2>6. CASE MonitorLost(c)
    <3>1. UpdateOperation(c, "UNKNOWN", "session_lost_during_operation") BY <2>6 DEF MonitorLost
    <3>2. status[c] = "RUNNING" => IndexAllows(c, "UNKNOWN") BY WriterMayUpdate DEF Active
    <3>3. /\ \A d \in Calls \ {c} : status'[d] = status[d]
          /\ status[c] = "NONE" => status'[c] = "NONE"
          /\ status[c] = "RUNNING" => status'[c] = "UNKNOWN"
          /\ status'[c] \in {status[c], "UNKNOWN"}
      BY <3>1, <3>2, UpdateOperationEffect
    <3> QED BY <2>6, <3>3 DEF MonitorLost, TypeOK
  <2> QED BY <1>2, <2>1, <2>2, <2>3, <2>4, <2>5, <2>6 DEF Monitor
<1>3. ASSUME NEW s \in Sessions, Control(s) PROVE Goal
  <2>1. CASE InterruptRequire(s) \/ InterruptSend(s) \/ InterruptSendFails(s)
              \/ CloseKill(s) \/ CloseRead(s) \/ CloseSave(s) \/ SendInput(s)
              \/ UpdateRead(s) \/ UpdateSave(s)
    BY <1>0, <2>1 DEF InterruptRequire, InterruptSend, InterruptSendFails, CloseKill,
                      CloseRead, CloseSave, SendInput, UpdateRead, UpdateSave
  <2>2. CASE InterruptMark(s)
    <3>1. CASE ActiveOperations(s) = {} BY <1>0, <2>2, <3>1 DEF InterruptMark
    <3>2. CASE ActiveOperations(s) # {}
      <4>1. PICK c \in ActiveOperations(s) : UpdateOperation(c, "INTERRUPTED", "owner_interrupt")
        BY <2>2, <3>2 DEF InterruptMark
      <4>2. c \in Calls /\ status[c] \in {"ACCEPTED", "RUNNING", "UNKNOWN"}
        BY DEF ActiveOperations, Rows, Active
      <4>3. status'[c] = "INTERRUPTED" /\ \A d \in Calls \ {c} : status'[d] = status[d]
        BY <4>1, <4>2, WriterMayUpdate, UpdateOperationEffect DEF Active
      <4> QED BY <2>2, <4>2, <4>3 DEF InterruptMark
    <3> QED BY <3>1, <3>2
  <2>3. CASE Purge(s) BY <2>3 DEF Purge, TypeOK
  <2> QED BY <1>3, <2>1, <2>2, <2>3 DEF Control
<1>4. ASSUME NEW s \in Sessions, Shell(s) PROVE Goal
  BY <1>0, <1>4 DEF Shell, ShellFinish, ShellSwallow, ShellExit
<1>5. CASE Crash \/ Reboot BY <1>5 DEF Crash, Reboot, LoseMemory, TypeOK
<1>6. CASE Recover
  <2>1. CASE Listen BY <2>1 DEF Listen, Unreconciled
  <2>2. ASSUME NEW c \in Calls, Reconcile(c) PROVE Goal
    <3>1. PICK new \in {"SUCCEEDED", "FAILED", "UNKNOWN"}, why \in Reasons :
             UpdateOperation(c, new, why)
      BY <2>2 DEF Reconcile, Outcome, Records, Reasons, TypeOK
    <3>2. status[c] \in {"ACCEPTED", "RUNNING"} BY <2>2 DEF Reconcile, Unreconciled
    <3> QED BY <2>2, <3>1, <3>2, UpdateOperationEffect DEF Reconcile
  <2> QED BY <1>6, <2>1, <2>2 DEF Recover
<1>7. CASE UNCHANGED vars BY <1>0, <1>7 DEF vars
<1> QED BY <1>1, <1>2, <1>3, <1>4, <1>5, <1>6, <1>7 DEF Next

\* A listening host never reports a RUNNING operation that nobody looks after:
\* its handler will start the monitor, or the monitor runs or has failed.
THEOREM RunningIsWatchedHolds == Spec => []RunningIsWatched
<1>1. Init => HandlerKnowsRow /\ RunningIsWatched
  BY DEF Init, HandlerKnowsRow, RunningIsWatched
<1>2. TypeOK /\ OneWriter /\ HandlerKnowsRow /\ RunningIsWatched /\ [Next]_vars
        => HandlerKnowsRow' /\ RunningIsWatched'
  BY WatchStep
<1> QED BY <1>1, <1>2, TypeCorrect, OneWriterHolds, PTL DEF Spec

\* SUCCEEDED and FAILED are final until a purge, and UNKNOWN is left only
\* through an interrupt or a purge: no monitor, late handler or recovery
\* rewrites a recorded outcome.
THEOREM StatusStepsHold == Spec => StatusSteps
<1>1. Init => HandlerKnowsRow /\ RunningIsWatched
  BY DEF Init, HandlerKnowsRow, RunningIsWatched
<1>2. TypeOK /\ OneWriter /\ HandlerKnowsRow /\ RunningIsWatched /\ [Next]_vars
        => HandlerKnowsRow' /\ RunningIsWatched'
  BY WatchStep
<1>3. TypeOK /\ OneWriter /\ HandlerKnowsRow /\ RunningIsWatched /\ [Next]_vars
        => [\A c \in Calls : StatusStep(c)]_vars
  BY WatchStep
<1> QED BY <1>1, <1>2, <1>3, TypeCorrect, OneWriterHolds, PTL DEF Spec, StatusSteps

(***************************************************************************)
(* A command is pasted at most once for each session and key.              *)
(***************************************************************************)

\* A step that deletes no operation, adds none, dispatches nothing and makes no
\* purged session OPEN unless it has returned keeps both parts of the argument.
LEMMA SameRowsOnce ==
    ASSUME TypeOK, AdmittedRows, ReachedOncePerKey, UNCHANGED <<req, dispatched>>,
           \A c \in Calls : status'[c] = "NONE" <=> status[c] = "NONE",
           \A c \in Calls : pc'[c] \in {"admitted", "pasting", "checked", "delivered"}
                           => pc[c] \in {"admitted", "pasting", "checked", "delivered"},
           \A c \in Calls : pc'[c] \in {"checked", "delivered"}
                           => pc[c] \in {"checked", "delivered"},
           \A s \in Sessions :
              \/ past'[s] = "returned"
              \/ past'[s] = past[s] /\ (row'[s] = "OPEN" => row[s] = "OPEN" \/ past[s] # "purged")
    PROVE  AdmittedRows' /\ ReachedOncePerKey'
<1>1. \A c \in Calls : Session(c) \in Sessions /\ Session(c)' = Session(c)
  BY DEF TypeOK, Session, Requests
<1>2. Reached' \subseteq Reached BY DEF Reached
<1>3. AdmittedRows' BY <1>1 DEF AdmittedRows
<1>4. ReachedOncePerKey'
  <2> SUFFICES ASSUME NEW c \in Reached', NEW d \in Reached',
                      Session(c)' = Session(d)', req'[c].key = req'[d].key
               PROVE  c = d \/ past'[Session(c)'] = "returned"
    BY DEF ReachedOncePerKey
  <2>1. c \in Reached /\ d \in Reached BY <1>2
  <2>2. c \in Calls /\ d \in Calls BY <2>1 DEF Reached, TypeOK
  <2> QED BY <1>1, <2>1, <2>2 DEF ReachedOncePerKey
<1> QED BY <1>3, <1>4

\* An UPDATE neither inserts nor deletes a row.
LEMMA UpdateKeepsRows ==
    ASSUME TypeOK, NEW c \in Calls, NEW new, new # "NONE", NEW why,
           UpdateOperation(c, new, why)
    PROVE  \A d \in Calls : status'[d] = "NONE" <=> status[d] = "NONE"
BY UpdateOperationEffect

\* Every step keeps the two parts of the argument.
LEMMA OnceStep ==
    ASSUME TypeOK, AdmittedRows, ReachedOncePerKey, [Next]_vars
    PROVE  AdmittedRows' /\ ReachedOncePerKey'
<1> DEFINE Goal == AdmittedRows' /\ ReachedOncePerKey'
<1> SUFFICES Goal OBVIOUS
<1> USE DEF calls, ledger, control, terminal, history, bounds
<1>0. ASSUME UNCHANGED <<req, dispatched, status, pc, row, past>> PROVE Goal
  BY <1>0, SameRowsOnce
<1>1. ASSUME NEW c \in Calls, RunCommand(c) PROVE Goal
  <2>1. CASE RequireSession(c)
    BY <2>1, SameRowsOnce DEF RequireSession, Step, TypeOK
  <2>2. CASE AdmitDuplicate(c)
    BY <2>2, SameRowsOnce DEF AdmitDuplicate, Step, TypeOK
  <2>3. CASE AdmitRefused(c)
    BY <2>3, SameRowsOnce DEF AdmitRefused, Step, TypeOK
  <2>4. CASE AdmitInsert(c)
    <3>1. /\ pc[c] = "required" /\ pc' = [pc EXCEPT ![c] = "admitted"]
          /\ status' = [status EXCEPT ![c] = "ACCEPTED"]
          /\ UNCHANGED <<req, dispatched, row, past>>
      BY <2>4 DEF AdmitInsert, Step
    <3>2. \A d \in Calls : status[d] # "NONE" /\ Session(d) = Session(c)
                             => req[d].key # req[c].key
      BY <2>4 DEF AdmitInsert, KeyFree, Rows
    <3>3. AdmittedRows'
      <4>1. \A d \in Calls \ {c} : pc'[d] = pc[d] /\ status'[d] = status[d]
        BY <3>1 DEF TypeOK
      <4>2. status'[c] = "ACCEPTED" BY <3>1 DEF TypeOK
      <4>3. \A a, b \in Calls :
               /\ status'[a] # "NONE" /\ status'[b] # "NONE"
               /\ Session(a) = Session(b) /\ req[a].key = req[b].key
               => a = b
        BY <3>2, <4>1, <4>2 DEF AdmittedRows
      <4>4. \A a \in Calls :
               /\ a \in dispatched \/ pc'[a] \in {"admitted", "pasting", "checked", "delivered"}
               /\ past[Session(a)] = "kept"
               => status'[a] # "NONE"
        BY <4>1, <4>2 DEF AdmittedRows
      <4> QED BY <3>1, <4>3, <4>4 DEF AdmittedRows, Session
    <3>4. Reached' = Reached BY <3>1 DEF Reached, TypeOK
    <3>5. ReachedOncePerKey' BY <3>1, <3>4 DEF ReachedOncePerKey, Session
    <3> QED BY <3>3, <3>5
  <2>5. CASE PrepareOk(c)
    <3>1. \A d \in Calls : status'[d] = "NONE" <=> status[d] = "NONE"
      BY <2>5, UpdateKeepsRows DEF PrepareOk
    <3>2. /\ \A d \in Calls : pc'[d] \in {"admitted", "pasting", "checked", "delivered"}
                               => pc[d] \in {"admitted", "pasting", "checked", "delivered"}
          /\ \A d \in Calls : pc'[d] \in {"checked", "delivered"}
                               => pc[d] \in {"checked", "delivered"}
      BY <2>5 DEF PrepareOk, Step, TypeOK
    <3> QED BY <2>5, <3>1, <3>2, SameRowsOnce DEF PrepareOk
  <2>6. CASE PrepareFail(c)
    <3>1. \A d \in Calls : status'[d] = "NONE" <=> status[d] = "NONE"
      BY <2>6, UpdateKeepsRows DEF PrepareFail
    <3> QED BY <2>6, <3>1, SameRowsOnce DEF PrepareFail, Step, TypeOK
  <2>7. CASE PasteCheck(c)
    <3>1. /\ pc[c] = "pasting" /\ pc' = [pc EXCEPT ![c] = "checked"]
          /\ row[Session(c)] = "OPEN" /\ Session(c) \in Sessions
          /\ UNCHANGED <<req, dispatched, row, status, past>>
      BY <2>7 DEF PasteCheck, Step, Usable, TypeOK, Session, Requests
    <3>2. AdmittedRows' BY <3>1 DEF AdmittedRows, Session, TypeOK
    <3>3. Reached' = Reached \cup {c} BY <3>1 DEF Reached, TypeOK
    <3>4. ASSUME NEW d \in Reached, Session(d) = Session(c), req[d].key = req[c].key,
                 past[Session(c)] # "returned"
          PROVE  d = c
      <4>0. past[Session(c)] = "kept" BY <3>1, <3>4 DEF AdmittedRows, TypeOK
      <4>1. d \in Calls BY DEF Reached, TypeOK
      <4>2. status[d] # "NONE" BY <3>1, <3>4, <4>0, <4>1 DEF AdmittedRows, Reached
      <4>3. status[c] # "NONE" BY <3>1, <4>0 DEF AdmittedRows
      <4> QED BY <3>4, <4>1, <4>2, <4>3 DEF AdmittedRows
    <3>5. ReachedOncePerKey' BY <3>1, <3>3, <3>4 DEF ReachedOncePerKey, Session
    <3> QED BY <3>2, <3>5
  <2>8. CASE PasteDeliver(c)
    <3>1. /\ pc[c] = "checked" /\ pc' = [pc EXCEPT ![c] = "delivered"]
          /\ dispatched' = dispatched \cup {c}
          /\ UNCHANGED <<req, row, status, past>>
      BY <2>8 DEF PasteDeliver, Step
    <3>2. AdmittedRows' BY <3>1 DEF AdmittedRows, Session, TypeOK
    <3>3. Reached' = Reached BY <3>1 DEF Reached, TypeOK
    <3>4. ReachedOncePerKey' BY <3>1, <3>3 DEF ReachedOncePerKey, Session
    <3> QED BY <3>2, <3>4
  <2>9. CASE PasteFail(c)
    <3>1. \A d \in Calls : status'[d] = "NONE" <=> status[d] = "NONE"
      BY <2>9, UpdateKeepsRows DEF PasteFail
    <3> QED BY <2>9, <3>1, SameRowsOnce DEF PasteFail, Step, TypeOK
  <2>10. CASE PasteOk(c)
    BY <2>10, SameRowsOnce DEF PasteOk, Step, TypeOK
  <2>11. CASE Respond(c)
    BY <2>11, SameRowsOnce DEF Respond, Step, TypeOK
  <2> QED BY <1>1, <2>1, <2>2, <2>3, <2>4, <2>5, <2>6, <2>7, <2>8, <2>9, <2>10, <2>11
          DEF RunCommand
<1>2. ASSUME NEW c \in Calls, Monitor(c) PROVE Goal
  <2>1. CASE MonitorHead(c) \/ MonitorReadNothing(c) \/ MonitorFails(c) \/ MonitorAlive(c)
    BY <1>0, <2>1 DEF MonitorHead, MonitorReadNothing, MonitorFails, MonitorAlive
  <2>2. CASE MonitorRead(c)
    <3>1. Outcome(record[c]).status # "NONE"
      BY <2>2 DEF MonitorRead, Outcome, Records, TypeOK
    <3>2. \A d \in Calls : status'[d] = "NONE" <=> status[d] = "NONE"
      BY <2>2, <3>1, UpdateKeepsRows DEF MonitorRead
    <3> QED BY <2>2, <3>2, SameRowsOnce DEF MonitorRead
  <2>3. CASE MonitorLost(c)
    <3>1. \A d \in Calls : status'[d] = "NONE" <=> status[d] = "NONE"
      BY <2>3, UpdateKeepsRows DEF MonitorLost
    <3> QED BY <2>3, <3>1, SameRowsOnce DEF MonitorLost
  <2> QED BY <1>2, <2>1, <2>2, <2>3 DEF Monitor
<1>3. ASSUME NEW s \in Sessions, Control(s) PROVE Goal
  <2>1. CASE InterruptRequire(s) \/ InterruptSend(s) \/ InterruptSendFails(s)
              \/ CloseKill(s) \/ CloseRead(s) \/ UpdateRead(s) \/ SendInput(s)
    BY <1>0, <2>1 DEF InterruptRequire, InterruptSend, InterruptSendFails, CloseKill,
                      CloseRead, UpdateRead, SendInput
  <2>2. CASE InterruptMark(s)
    <3>1. CASE ActiveOperations(s) = {} BY <1>0, <2>2, <3>1 DEF InterruptMark
    <3>2. CASE ActiveOperations(s) # {}
      <4>1. PICK c \in ActiveOperations(s) : UpdateOperation(c, "INTERRUPTED", "owner_interrupt")
        BY <2>2, <3>2 DEF InterruptMark
      <4>2. c \in Calls BY DEF ActiveOperations, Rows
      <4>3. \A d \in Calls : status'[d] = "NONE" <=> status[d] = "NONE"
        BY <4>1, <4>2, UpdateKeepsRows
      <4> QED BY <2>2, <4>3, SameRowsOnce DEF InterruptMark
    <3> QED BY <3>1, <3>2
  <2>3. CASE CloseSave(s) \/ UpdateSave(s)
    <3>1. PICK state \in {"OPEN", "CLOSED"} : Save(s, state)
      BY <2>3 DEF CloseSave, UpdateSave, TypeOK
    <3>2. UNCHANGED <<req, dispatched, status, pc>> BY <2>3 DEF CloseSave, UpdateSave
    <3>3. \A t \in Sessions :
             \/ past'[t] = "returned"
             \/ past'[t] = past[t] /\ (row'[t] = "OPEN" => row[t] = "OPEN" \/ past[t] # "purged")
      BY <3>1 DEF Save, Returned, TypeOK
    <3> QED BY <3>2, <3>3, SameRowsOnce
  <2>4. CASE Purge(s)
    <3>1. /\ row' = [row EXCEPT ![s] = "GONE"]
          /\ past' = [past EXCEPT ![s] = IF @ = "kept" THEN "purged" ELSE @]
          /\ \A d \in Calls : status'[d] = IF Session(d) = s THEN "NONE" ELSE status[d]
          /\ UNCHANGED <<req, pc, dispatched>>
      BY <2>4 DEF Purge
    <3>2. AdmittedRows' BY <3>1 DEF AdmittedRows, Session, TypeOK, Requests
    <3>3. Reached' = Reached BY <3>1 DEF Reached
    <3>4. \A t \in Sessions : past[t] = "returned" => past'[t] = "returned" BY <3>1 DEF TypeOK
    <3>5. ReachedOncePerKey'
      <4>1. \A d \in Reached : Session(d) \in Sessions
        BY DEF Reached, TypeOK, Session, Requests
      <4> QED BY <3>1, <3>3, <3>4, <4>1 DEF ReachedOncePerKey, Session
    <3> QED BY <3>2, <3>5
  <2> QED BY <1>3, <2>1, <2>2, <2>3, <2>4 DEF Control
<1>4. ASSUME NEW s \in Sessions, Shell(s) PROVE Goal
  BY <1>0, <1>4 DEF Shell, ShellFinish, ShellSwallow, ShellExit
<1>5. CASE Crash \/ Reboot
  <2>1. \A d \in Calls : pc'[d] \in {"idle", "done"}
    BY <1>5 DEF Crash, Reboot, LoseMemory, TypeOK
  <2>2. UNCHANGED <<req, dispatched, status>>
    BY <1>5 DEF Crash, Reboot, LoseMemory
  <2>3. \A s \in Sessions :
           \/ past'[s] = "returned"
           \/ past'[s] = past[s] /\ (row'[s] = "OPEN" => row[s] = "OPEN" \/ past[s] # "purged")
    BY <1>5 DEF Crash, Reboot, LoseMemory, Returned, TypeOK
  <2> QED BY <2>1, <2>2, <2>3, SameRowsOnce
<1>6. CASE Recover
  <2>1. CASE Listen BY <1>0, <2>1 DEF Listen
  <2>2. ASSUME NEW c \in Calls, Reconcile(c) PROVE Goal
    <3>1. PICK new \in {"SUCCEEDED", "FAILED", "UNKNOWN"}, why \in Reasons :
             UpdateOperation(c, new, why)
      BY <2>2 DEF Reconcile, Outcome, Records, Reasons, TypeOK
    <3>2. \A d \in Calls : status'[d] = "NONE" <=> status[d] = "NONE"
      BY <3>1, UpdateKeepsRows
    <3> QED BY <2>2, <3>2, SameRowsOnce DEF Reconcile
  <2> QED BY <1>6, <2>1, <2>2 DEF Recover
<1>7. CASE UNCHANGED vars BY <1>0, <1>7 DEF vars
<1> QED BY <1>1, <1>2, <1>3, <1>4, <1>5, <1>6, <1>7 DEF Next

\* Retrying is safe: for any number of calls, retries, crashes, closes, updates
\* and purges, runCommand types a command into a pane at most once for each
\* session and idempotency key, as long as no purged session came back OPEN.
THEOREM AtMostOncePerKeyHolds == Spec => []AtMostOncePerKey
<1>1. Init => AdmittedRows /\ ReachedOncePerKey
  BY DEF Init, AdmittedRows, ReachedOncePerKey, Reached
<1>2. TypeOK /\ AdmittedRows /\ ReachedOncePerKey /\ [Next]_vars
        => AdmittedRows' /\ ReachedOncePerKey'
  BY OnceStep
<1>3. ReachedOncePerKey => AtMostOncePerKey
  BY DEF ReachedOncePerKey, AtMostOncePerKey, Reached
<1> QED BY <1>1, <1>2, <1>3, TypeCorrect, PTL DEF Spec

(***************************************************************************)
(* Outcomes have evidence, and panes are accounted for.                    *)
(***************************************************************************)

\* What is known of a dispatched command, of a record and of an interrupt.
DispatchedIsPast ==
    \A c \in Calls :
        /\ c \in dispatched => pc[c] \in {"delivered", "waiting", "done"} /\ status[c] # "ACCEPTED"
        /\ record[c] # "none" => c \in dispatched
        /\ status[c] = "INTERRUPTED" => c \in interrupted

\* A managed command is in a pane once, in the pane of its session, and only
\* until its record is written.
PaneHoldsUnrecorded ==
    \A s \in Sessions : \A i \in 1..Len(pane[s]) :
        pane[s][i] \in Calls =>
            /\ Session(pane[s][i]) = s
            /\ pane[s][i] \in dispatched
            /\ record[pane[s][i]] = "none"
            /\ \A j \in 1..Len(pane[s]) : pane[s][j] = pane[s][i] => j = i

\* The inductive invariant of this section.
Evidence == DispatchedIsPast /\ PaneHoldsUnrecorded /\ FinalStatusHasEvidence

\* Lines leave a pane without being copied or changing places: line i of what
\* is left was line f[i].  Records are written only for lines that have left.
LEMMA PaneShrinks ==
    ASSUME TypeOK, PaneHoldsUnrecorded, UNCHANGED req, dispatched \subseteq dispatched',
           NEW s \in Sessions, NEW q \in Seq(Calls \cup {UserInput}),
           pane' = [pane EXCEPT ![s] = q],
           NEW f, \A i \in 1..Len(q) : f[i] \in 1..Len(pane[s]) /\ q[i] = pane[s][f[i]],
           \A i, j \in 1..Len(q) : f[i] = f[j] => i = j,
           \A t \in Sessions : \A i \in 1..Len(pane'[t]) :
              pane'[t][i] \in Calls /\ record[pane'[t][i]] = "none"
                => record'[pane'[t][i]] = "none"
    PROVE  PaneHoldsUnrecorded'
<1> SUFFICES ASSUME NEW t \in Sessions, NEW i \in 1..Len(pane'[t]), pane'[t][i] \in Calls
             PROVE  /\ req'[pane'[t][i]].session = t
                    /\ pane'[t][i] \in dispatched'
                    /\ record'[pane'[t][i]] = "none"
                    /\ \A j \in 1..Len(pane'[t]) : pane'[t][j] = pane'[t][i] => j = i
    BY DEF PaneHoldsUnrecorded, Session
<1>1. CASE t # s
  <2>1. pane'[t] = pane[t] BY <1>1 DEF TypeOK
  <2>2. /\ Session(pane[t][i]) = t /\ pane[t][i] \in dispatched /\ record[pane[t][i]] = "none"
        /\ \A j \in 1..Len(pane[t]) : pane[t][j] = pane[t][i] => j = i
    BY <2>1 DEF PaneHoldsUnrecorded
  <2>3. record'[pane'[t][i]] = "none" BY <2>1, <2>2
  <2> QED BY <2>1, <2>2, <2>3 DEF Session
<1>2. CASE t = s
  <2>1. pane'[t] = q BY <1>2 DEF TypeOK
  <2>2. f[i] \in 1..Len(pane[s]) /\ pane'[t][i] = pane[s][f[i]]
    BY <2>1
  <2>3. /\ Session(pane'[t][i]) = s /\ pane'[t][i] \in dispatched
        /\ record[pane'[t][i]] = "none"
        /\ \A k \in 1..Len(pane[s]) : pane[s][k] = pane'[t][i] => k = f[i]
    BY <2>2 DEF PaneHoldsUnrecorded
  <2>4. ASSUME NEW j \in 1..Len(pane'[t]), pane'[t][j] = pane'[t][i] PROVE j = i
    <3>1. j \in 1..Len(q) /\ i \in 1..Len(q) BY <2>1
    <3>2. f[j] \in 1..Len(pane[s]) /\ pane[s][f[j]] = pane'[t][i] BY <2>1, <2>4, <3>1
    <3>3. f[j] = f[i] BY <2>3, <3>2
    <3> QED BY <3>1, <3>3
  <2>5. record'[pane'[t][i]] = "none" BY <2>3
  <2> QED BY <1>2, <2>3, <2>4, <2>5 DEF Session
<1> QED BY <1>1, <1>2

\* Losing the first line: line i was line i + 1.
LEMMA PaneTail ==
    ASSUME TypeOK, PaneHoldsUnrecorded, UNCHANGED <<req, dispatched>>,
           NEW s \in Sessions, pane[s] # <<>>,
           pane' = [pane EXCEPT ![s] = Tail(pane[s])],
           \A c \in Calls : record[c] = "none" /\ c # Head(pane[s]) => record'[c] = "none"
    PROVE  PaneHoldsUnrecorded'
<1> DEFINE q == Tail(pane[s])
           f == [i \in 1..Len(q) |-> i + 1]
<1>0. pane[s] \in Seq(Calls \cup {UserInput}) BY DEF TypeOK
<1>1. /\ q \in Seq(Calls \cup {UserInput}) /\ Len(q) = Len(pane[s]) - 1
      /\ \A i \in 1..Len(q) : q[i] = pane[s][i + 1]
      /\ Len(pane[s]) \in Nat /\ Head(pane[s]) = pane[s][1]
  BY <1>0
<1> HIDE DEF q
<1>2. /\ \A i \in 1..Len(q) : f[i] \in 1..Len(pane[s]) /\ q[i] = pane[s][f[i]]
      /\ \A i, j \in 1..Len(q) : f[i] = f[j] => i = j
  BY <1>1
<1>3. ASSUME NEW t \in Sessions, NEW i \in 1..Len(pane'[t]), pane'[t][i] \in Calls,
             record[pane'[t][i]] = "none"
      PROVE  record'[pane'[t][i]] = "none"
  <2> SUFFICES pane'[t][i] # Head(pane[s]) BY <1>3
  <2>1. CASE t = s
    <3>1. pane'[t] = q BY <2>1 DEF TypeOK, q
    <3>2. pane'[t][i] = pane[s][i + 1] /\ i + 1 \in 1..Len(pane[s]) /\ i + 1 # 1
      BY <1>1, <3>1
    <3>3. 1 \in 1..Len(pane[s]) BY <3>2
    <3> QED BY <1>1, <1>3, <3>2, <3>3 DEF PaneHoldsUnrecorded
  <2>2. CASE t # s
    <3>1. pane'[t] = pane[t] BY <2>2 DEF TypeOK
    <3>2. Session(pane'[t][i]) = t BY <1>3, <3>1 DEF PaneHoldsUnrecorded
    <3>3. 1 \in 1..Len(pane[s])
      <4>1. Len(pane[s]) # 0 BY <1>0
      <4> QED BY <1>1, <4>1
    <3>4. pane[s][1] \in Calls => Session(pane[s][1]) = s BY <3>3 DEF PaneHoldsUnrecorded
    <3> QED BY <1>1, <1>3, <2>2, <3>2, <3>4
  <2> QED BY <2>1, <2>2
<1>4. pane' = [pane EXCEPT ![s] = q] BY DEF q
<1>5. /\ UNCHANGED req /\ dispatched \subseteq dispatched'
      /\ \A t \in Sessions : \A i \in 1..Len(pane'[t]) :
            pane'[t][i] \in Calls /\ record[pane'[t][i]] = "none"
              => record'[pane'[t][i]] = "none"
  BY <1>3
<1> HIDE DEF f
<1> QED BY <1>1, <1>2, <1>4, <1>5, PaneShrinks, Zenon

\* Losing the second line (the agent read it as input): every later line was
\* one further on.
LEMMA PaneSwallow ==
    ASSUME TypeOK, PaneHoldsUnrecorded, UNCHANGED <<req, dispatched, record>>,
           NEW s \in Sessions, Len(pane[s]) \in Nat,
           NEW q \in Seq(Calls \cup {UserInput}), Len(q) = Len(pane[s]) - 1,
           \A i \in 1..Len(q) : q[i] = pane[s][IF i = 1 THEN 1 ELSE i + 1],
           pane' = [pane EXCEPT ![s] = q]
    PROVE  PaneHoldsUnrecorded'
<1> DEFINE f == [i \in 1..Len(q) |-> IF i = 1 THEN 1 ELSE i + 1]
<1>1. /\ \A i \in 1..Len(q) : f[i] \in 1..Len(pane[s]) /\ q[i] = pane[s][f[i]]
      /\ \A i, j \in 1..Len(q) : f[i] = f[j] => i = j
  OBVIOUS
<1>2. pane' = [pane EXCEPT ![s] = q] OBVIOUS
<1>3. /\ UNCHANGED req /\ dispatched \subseteq dispatched'
      /\ \A t \in Sessions : \A i \in 1..Len(pane'[t]) :
            pane'[t][i] \in Calls /\ record[pane'[t][i]] = "none"
              => record'[pane'[t][i]] = "none"
  OBVIOUS
<1> HIDE DEF f
<1> QED BY <1>1, <1>2, <1>3, PaneShrinks, Zenon

\* A pane that is emptied, and the others as they were.
LEMMA PaneEmptied ==
    ASSUME TypeOK, PaneHoldsUnrecorded, UNCHANGED <<req, dispatched, record>>,
           \A s \in Sessions : pane'[s] = pane[s] \/ pane'[s] = <<>>
    PROVE  PaneHoldsUnrecorded'
BY DEF PaneHoldsUnrecorded, Session

\* A line is added to a pane: text typed by the user, or a command that was in
\* no pane yet.
LEMMA PaneGrows ==
    ASSUME TypeOK, PaneHoldsUnrecorded, UNCHANGED <<req, record>>,
           NEW s \in Sessions, NEW x \in Calls \cup {UserInput},
           pane' = [pane EXCEPT ![s] = Append(@, x)],
           dispatched \subseteq dispatched',
           x \in Calls => /\ Session(x) = s /\ record[x] = "none"
                          /\ x \notin dispatched /\ x \in dispatched'
    PROVE  PaneHoldsUnrecorded'
<1>0. pane[s] \in Seq(Calls \cup {UserInput}) BY DEF TypeOK
<1> DEFINE n == Len(pane[s])
<1>1. /\ n \in Nat /\ Len(pane'[s]) = n + 1 /\ pane'[s][n + 1] = x
      /\ \A i \in 1..n : pane'[s][i] = pane[s][i]
      /\ \A t \in Sessions \ {s} : pane'[t] = pane[t]
  BY <1>0 DEF TypeOK
<1> HIDE DEF n
<1>2. \A i \in 1..n : pane[s][i] \in Calls => pane[s][i] # x
  BY DEF PaneHoldsUnrecorded, n
<1> SUFFICES ASSUME NEW t \in Sessions, NEW i \in 1..Len(pane'[t]), pane'[t][i] \in Calls
             PROVE  /\ req'[pane'[t][i]].session = t
                    /\ pane'[t][i] \in dispatched'
                    /\ record'[pane'[t][i]] = "none"
                    /\ \A j \in 1..Len(pane'[t]) : pane'[t][j] = pane'[t][i] => j = i
    BY DEF PaneHoldsUnrecorded, Session
<1>3. CASE t # s
  BY <1>1, <1>3 DEF PaneHoldsUnrecorded, Session
<1>4. CASE t = s
  <2>1. CASE i = n + 1
    <3>1. \A j \in 1..Len(pane'[t]) : pane'[t][j] = pane'[t][i] => j = i
      BY <1>1, <1>2, <1>4, <2>1
    <3> QED BY <1>1, <1>4, <2>1, <3>1 DEF Session
  <2>2. CASE i \in 1..n
    <3>1. /\ Session(pane[s][i]) = s /\ pane[s][i] \in dispatched
          /\ record[pane[s][i]] = "none"
          /\ \A j \in 1..n : pane[s][j] = pane[s][i] => j = i
      BY <1>1, <1>4, <2>2 DEF PaneHoldsUnrecorded, n
    <3>2. \A j \in 1..Len(pane'[t]) : pane'[t][j] = pane'[t][i] => j = i
      BY <1>1, <1>2, <1>4, <2>2, <3>1
    <3> QED BY <1>1, <1>4, <2>2, <3>1, <3>2 DEF Session
  <2> QED BY <1>1, <1>4, <2>1, <2>2
<1> QED BY <1>3, <1>4

\* A step that touches no pane and no record, dispatches nothing, and writes at
\* most the status of one operation, with the evidence that status needs.
LEMMA OutcomeWritten ==
    ASSUME TypeOK, Evidence, UNCHANGED <<req, pane, record, dispatched>>,
           interrupted \subseteq interrupted',
           \A d \in dispatched : pc[d] \in {"delivered", "waiting", "done"}
                                   => pc'[d] \in {"delivered", "waiting", "done"},
           NEW c \in Calls, NEW new,
           \A d \in Calls \ {c} : status'[d] = status[d],
           status'[c] \in {status[c], new},
           new = "ACCEPTED" => c \notin dispatched,
           new = "INTERRUPTED" => c \in interrupted',
           new = "SUCCEEDED" => record[c] = "zero",
           new = "FAILED" => record[c] = "nonzero" \/ c \notin dispatched
    PROVE  Evidence'
<1>1. PaneHoldsUnrecorded' BY PaneEmptied DEF Evidence
<1>2. DispatchedIsPast' BY DEF Evidence, DispatchedIsPast, TypeOK
<1>3. FinalStatusHasEvidence' BY DEF Evidence, FinalStatusHasEvidence
<1> QED BY <1>1, <1>2, <1>3 DEF Evidence

\* The same for a step that changes no status.
LEMMA NothingWritten ==
    ASSUME TypeOK, Evidence, UNCHANGED <<req, pane, record, dispatched, status, interrupted>>,
           \A d \in dispatched : pc[d] \in {"delivered", "waiting", "done"}
                                   => pc'[d] \in {"delivered", "waiting", "done"}
    PROVE  Evidence'
<1>1. PaneHoldsUnrecorded' BY PaneEmptied DEF Evidence
<1>2. DispatchedIsPast' BY DEF Evidence, DispatchedIsPast, TypeOK
<1>3. FinalStatusHasEvidence' BY DEF Evidence, FinalStatusHasEvidence
<1> QED BY <1>1, <1>2, <1>3 DEF Evidence

\* Every step keeps the evidence.
LEMMA EvidenceStep ==
    ASSUME TypeOK, OneWriter, HandlerKnowsRow, Evidence, [Next]_vars PROVE Evidence'
<1> USE DEF calls, ledger, control, terminal, history, bounds
<1>0. ASSUME UNCHANGED <<req, pane, record, dispatched, status, interrupted, pc>>
      PROVE  Evidence'
  BY <1>0, NothingWritten
<1>1. ASSUME NEW c \in Calls, RunCommand(c) PROVE Evidence'
  <2>1. CASE RequireSession(c) \/ AdmitDuplicate(c) \/ AdmitRefused(c) \/ PasteCheck(c)
              \/ PasteOk(c) \/ Respond(c)
    <3>1. /\ UNCHANGED <<req, pane, record, dispatched, status, interrupted>>
          /\ \A d \in Calls : pc[d] \in {"delivered", "waiting", "done"}
                                => pc'[d] \in {"delivered", "waiting", "done"}
      BY <2>1 DEF RequireSession, AdmitDuplicate, AdmitRefused, PasteCheck, PasteOk, Respond,
                  Step, TypeOK
    <3> QED BY <3>1, NothingWritten DEF TypeOK
  <2>2. CASE AdmitInsert(c)
    <3>1. /\ pc[c] = "required" /\ pc' = [pc EXCEPT ![c] = "admitted"]
          /\ status' = [status EXCEPT ![c] = "ACCEPTED"]
          /\ UNCHANGED <<req, pane, record, dispatched, interrupted>>
      BY <2>2 DEF AdmitInsert, Step
    <3>2. c \notin dispatched BY <3>1 DEF Evidence, DispatchedIsPast
    <3>3. \A d \in dispatched : pc'[d] = pc[d] BY <3>1, <3>2 DEF TypeOK
    <3>4. /\ \A d \in Calls \ {c} : status'[d] = status[d]
          /\ status'[c] \in {status[c], "ACCEPTED"}
      BY <3>1 DEF TypeOK
    <3> QED BY <3>1, <3>2, <3>3, <3>4, OutcomeWritten
  <2>3. CASE PrepareOk(c)
    <3>1. /\ pc[c] = "admitted" /\ \A d \in Calls \ {c} : pc'[d] = pc[d]
          /\ record' = [record EXCEPT ![c] = "none"]
          /\ UNCHANGED <<req, pane, dispatched, interrupted>>
          /\ UpdateOperation(c, "RUNNING", "null")
      BY <2>3 DEF PrepareOk, Step, TypeOK
    <3>2. c \notin dispatched BY <3>1 DEF Evidence, DispatchedIsPast
    <3>3. record[c] = "none" BY <3>2 DEF Evidence, DispatchedIsPast
    <3>4. UNCHANGED record BY <3>1, <3>3 DEF TypeOK
    <3>5. /\ \A d \in Calls \ {c} : status'[d] = status[d]
          /\ status'[c] \in {status[c], "RUNNING"}
      BY <3>1, UpdateOperationEffect
    <3>6. \A d \in dispatched : pc'[d] = pc[d] BY <3>1, <3>2 DEF TypeOK
    <3> QED BY <3>1, <3>4, <3>5, <3>6, OutcomeWritten
  <2>4. CASE PrepareFail(c)
    <3>1. /\ pc[c] = "admitted" /\ \A d \in Calls \ {c} : pc'[d] = pc[d]
          /\ UNCHANGED <<req, pane, record, dispatched, interrupted>>
          /\ UpdateOperation(c, "FAILED", "control_channel_unavailable")
      BY <2>4 DEF PrepareFail, Step, TypeOK
    <3>2. c \notin dispatched BY <3>1 DEF Evidence, DispatchedIsPast
    <3>3. /\ \A d \in Calls \ {c} : status'[d] = status[d]
          /\ status'[c] \in {status[c], "FAILED"}
      BY <3>1, UpdateOperationEffect
    <3>4. \A d \in dispatched : pc'[d] = pc[d] BY <3>1, <3>2 DEF TypeOK
    <3> QED BY <3>1, <3>2, <3>3, <3>4, OutcomeWritten
  <2>5. CASE PasteDeliver(c)
    <3>1. /\ pc[c] = "checked" /\ pc' = [pc EXCEPT ![c] = "delivered"]
          /\ pane' = [pane EXCEPT ![Session(c)] = Append(@, c)]
          /\ dispatched' = dispatched \cup {c}
          /\ UNCHANGED <<req, record, status, interrupted>>
      BY <2>5 DEF PasteDeliver, Step
    <3>2. c \notin dispatched BY <3>1 DEF Evidence, DispatchedIsPast
    <3>3. record[c] = "none" BY <3>2 DEF Evidence, DispatchedIsPast
    <3>4. status[c] \in {"RUNNING", "INTERRUPTED", "NONE"} BY <3>1 DEF HandlerKnowsRow
    <3>5. Session(c) \in Sessions BY DEF Session, TypeOK, Requests
    <3>6. PaneHoldsUnrecorded' BY <3>1, <3>2, <3>3, <3>5, PaneGrows DEF Evidence
    <3>7. DispatchedIsPast' BY <3>1, <3>3, <3>4 DEF Evidence, DispatchedIsPast, TypeOK
    <3>8. FinalStatusHasEvidence' BY <3>1, <3>4 DEF Evidence, FinalStatusHasEvidence
    <3> QED BY <3>6, <3>7, <3>8 DEF Evidence
  <2>6. CASE PasteFail(c)
    <3>1. /\ pc' = [pc EXCEPT ![c] = "done"]
          /\ UNCHANGED <<req, pane, record, dispatched, interrupted>>
          /\ UpdateOperation(c, "UNKNOWN", "spawn_result_uncertain")
      BY <2>6 DEF PasteFail, Step
    <3>2. /\ \A d \in Calls \ {c} : status'[d] = status[d]
          /\ status'[c] \in {status[c], "UNKNOWN"}
      BY <3>1, UpdateOperationEffect
    <3> QED BY <3>1, <3>2, OutcomeWritten DEF TypeOK
  <2> QED BY <1>1, <2>1, <2>2, <2>3, <2>4, <2>5, <2>6 DEF RunCommand
<1>2. ASSUME NEW c \in Calls, Monitor(c) PROVE Evidence'
  <2>1. CASE MonitorHead(c) \/ MonitorReadNothing(c) \/ MonitorFails(c) \/ MonitorAlive(c)
    BY <1>0, <2>1 DEF MonitorHead, MonitorReadNothing, MonitorFails, MonitorAlive
  <2>2. CASE MonitorRead(c)
    <3> DEFINE new == Outcome(record[c]).status
    <3>1. /\ UpdateOperation(c, new, Outcome(record[c]).reason)
          /\ UNCHANGED <<req, pane, record, dispatched, interrupted, pc>>
      BY <2>2 DEF MonitorRead
    <3>2. /\ \A d \in Calls \ {c} : status'[d] = status[d]
          /\ status'[c] \in {status[c], new}
      BY <3>1, UpdateOperationEffect
    <3>3. /\ new \notin {"ACCEPTED", "INTERRUPTED"}
          /\ new = "SUCCEEDED" => record[c] = "zero"
          /\ new = "FAILED" => record[c] = "nonzero"
      BY <2>2 DEF MonitorRead, Outcome, Records, TypeOK
    <3> HIDE DEF new
    <3> QED BY <3>1, <3>2, <3>3, OutcomeWritten
  <2>3. CASE MonitorLost(c)
    <3>1. /\ UpdateOperation(c, "UNKNOWN", "session_lost_during_operation")
          /\ UNCHANGED <<req, pane, record, dispatched, interrupted, pc>>
      BY <2>3 DEF MonitorLost
    <3>2. /\ \A d \in Calls \ {c} : status'[d] = status[d]
          /\ status'[c] \in {status[c], "UNKNOWN"}
      BY <3>1, UpdateOperationEffect
    <3> QED BY <3>1, <3>2, OutcomeWritten
  <2> QED BY <1>2, <2>1, <2>2, <2>3 DEF Monitor
<1>3. ASSUME NEW s \in Sessions, Control(s) PROVE Evidence'
  <2>1. CASE InterruptRequire(s) \/ InterruptSendFails(s) \/ CloseRead(s) \/ CloseSave(s)
              \/ UpdateRead(s) \/ UpdateSave(s)
    BY <1>0, <2>1 DEF InterruptRequire, InterruptSendFails, CloseRead, CloseSave,
                      UpdateRead, UpdateSave
  <2>2. CASE InterruptSend(s)
    <3>1. UNCHANGED <<req, record, dispatched, status, interrupted, pc>>
      BY <2>2 DEF InterruptSend
    <3>2. PICK after \in {pane[s], <<>>} \cup (IF pane[s] = <<>> THEN {} ELSE {Tail(pane[s])}) :
             pane' = [pane EXCEPT ![s] = after]
      BY <2>2 DEF InterruptSend
    <3>3. CASE after \in {pane[s], <<>>}
      BY <3>1, <3>2, <3>3, PaneEmptied
         DEF Evidence, DispatchedIsPast, FinalStatusHasEvidence, TypeOK
    <3>4. CASE pane[s] # <<>> /\ after = Tail(pane[s])
      <4>1. PaneHoldsUnrecorded' BY <3>1, <3>2, <3>4, PaneTail DEF Evidence
      <4> QED BY <3>1, <4>1 DEF Evidence, DispatchedIsPast, FinalStatusHasEvidence
    <3> QED BY <3>2, <3>3, <3>4
  <2>3. CASE InterruptMark(s)
    <3>1. UNCHANGED <<req, pane, record, dispatched, pc>> BY <2>3 DEF InterruptMark
    <3>2. CASE ActiveOperations(s) = {} BY <1>0, <2>3, <3>1, <3>2 DEF InterruptMark
    <3>3. CASE ActiveOperations(s) # {}
      <4>1. PICK c \in ActiveOperations(s) :
               /\ UpdateOperation(c, "INTERRUPTED", "owner_interrupt")
               /\ interrupted' = interrupted \cup {c}
        BY <2>3, <3>3 DEF InterruptMark
      <4>2. c \in Calls BY DEF ActiveOperations, Rows
      <4>3. /\ \A d \in Calls \ {c} : status'[d] = status[d]
            /\ status'[c] \in {status[c], "INTERRUPTED"}
        BY <4>1, <4>2, UpdateOperationEffect
      <4> QED BY <3>1, <4>1, <4>2, <4>3, OutcomeWritten
    <3> QED BY <3>2, <3>3
  <2>4. CASE CloseKill(s)
    <3>1. /\ UNCHANGED <<req, record, dispatched, status, interrupted, pc>>
          /\ \A t \in Sessions : pane'[t] = pane[t] \/ pane'[t] = <<>>
      BY <2>4 DEF CloseKill, TypeOK
    <3>2. PaneHoldsUnrecorded' BY <3>1, PaneEmptied DEF Evidence
    <3> QED BY <3>1, <3>2 DEF Evidence, DispatchedIsPast, FinalStatusHasEvidence
  <2>5. CASE Purge(s)
    <3>1. /\ \A c \in Calls : status'[c] = IF Session(c) = s THEN "NONE" ELSE status[c]
          /\ \A c \in Calls : record'[c] \in {record[c], IF Session(c) = s THEN "none" ELSE record[c]}
          /\ UNCHANGED <<req, pane, dispatched, interrupted, pc>>
      BY <2>5 DEF Purge
    <3>2. PaneHoldsUnrecorded' BY <3>1 DEF Evidence, PaneHoldsUnrecorded, Session
    <3>3. DispatchedIsPast' BY <3>1 DEF Evidence, DispatchedIsPast
    <3>4. FinalStatusHasEvidence' BY <3>1 DEF Evidence, FinalStatusHasEvidence
    <3> QED BY <3>2, <3>3, <3>4 DEF Evidence
  <2>6. CASE SendInput(s)
    <3>1. /\ UNCHANGED <<req, record, dispatched, status, interrupted, pc>>
          /\ pane' = [pane EXCEPT ![s] = Append(@, UserInput)]
      BY <2>6 DEF SendInput
    <3>2. PaneHoldsUnrecorded' BY <3>1, InputAssumption, PaneGrows DEF Evidence
    <3> QED BY <3>1, <3>2 DEF Evidence, DispatchedIsPast, FinalStatusHasEvidence
  <2> QED BY <1>3, <2>1, <2>2, <2>3, <2>4, <2>5, <2>6 DEF Control
<1>4. ASSUME NEW s \in Sessions, Shell(s) PROVE Evidence'
  <2>0. pane[s] \in Seq(Calls \cup {UserInput}) BY DEF TypeOK
  <2>1. CASE ShellFinish(s)
    <3>1. /\ pane[s] # <<>> /\ pane' = [pane EXCEPT ![s] = Tail(pane[s])]
          /\ UNCHANGED <<req, dispatched, status, interrupted, pc>>
          /\ \A c \in Calls : c # Head(pane[s]) => record'[c] = record[c]
      BY <2>1 DEF ShellFinish, TypeOK
    <3>2. PaneHoldsUnrecorded' BY <3>1, PaneTail DEF Evidence
    <3>3. CASE Head(pane[s]) \in Calls
      <4>1. 1 \in 1..Len(pane[s]) /\ Head(pane[s]) = pane[s][1]
        <5>1. Len(pane[s]) \in Nat /\ Len(pane[s]) # 0 BY <2>0, <3>1
        <5> QED BY <2>0, <3>1, <5>1
      <4>2. Head(pane[s]) \in dispatched /\ record[Head(pane[s])] = "none"
        BY <3>3, <4>1 DEF Evidence, PaneHoldsUnrecorded
      <4>3. DispatchedIsPast' BY <3>1, <4>2 DEF Evidence, DispatchedIsPast
      <4>4. status[Head(pane[s])] \notin {"SUCCEEDED", "FAILED"}
        BY <3>3, <4>2 DEF Evidence, FinalStatusHasEvidence
      <4>5. FinalStatusHasEvidence' BY <3>1, <4>4 DEF Evidence, FinalStatusHasEvidence
      <4> QED BY <3>2, <4>3, <4>5 DEF Evidence
    <3>4. CASE Head(pane[s]) \notin Calls
      <4>1. UNCHANGED record BY <2>1, <3>4 DEF ShellFinish
      <4> QED BY <3>1, <3>2, <4>1 DEF Evidence, DispatchedIsPast, FinalStatusHasEvidence
    <3> QED BY <3>3, <3>4
  <2>2. CASE ShellSwallow(s)
    <3>1. /\ Len(pane[s]) > 1
          /\ pane' = [pane EXCEPT ![s] = <<Head(pane[s])>> \o Tail(Tail(pane[s]))]
          /\ UNCHANGED <<req, record, dispatched, status, interrupted, pc>>
      BY <2>2 DEF ShellSwallow
    <3> DEFINE q == <<Head(pane[s])>> \o Tail(Tail(pane[s]))
    <3>2. /\ q \in Seq(Calls \cup {UserInput})
          /\ Len(pane[s]) \in Nat /\ Len(q) = Len(pane[s]) - 1
          /\ \A i \in 1..Len(q) : q[i] = pane[s][IF i = 1 THEN 1 ELSE i + 1]
      BY <2>0, <3>1, SwallowType, SwallowLines
    <3>3. pane' = [pane EXCEPT ![s] = q] BY <3>1
    <3> HIDE DEF q
    <3>4. PaneHoldsUnrecorded' BY <3>1, <3>2, <3>3, PaneSwallow DEF Evidence
    <3> QED BY <3>1, <3>4 DEF Evidence, DispatchedIsPast, FinalStatusHasEvidence
  <2>3. CASE ShellExit(s)
    <3>1. /\ UNCHANGED <<req, record, dispatched, status, interrupted, pc>>
          /\ \A t \in Sessions : pane'[t] = pane[t] \/ pane'[t] = <<>>
      BY <2>3 DEF ShellExit, TypeOK
    <3>2. PaneHoldsUnrecorded' BY <3>1, PaneEmptied DEF Evidence
    <3> QED BY <3>1, <3>2 DEF Evidence, DispatchedIsPast, FinalStatusHasEvidence
  <2> QED BY <1>4, <2>1, <2>2, <2>3 DEF Shell
<1>5. CASE Crash \/ Reboot
  <2>1. /\ UNCHANGED <<req, record, dispatched, status, interrupted>>
        /\ \A d \in Calls : pc'[d] = IF pc[d] = "idle" THEN "idle" ELSE "done"
        /\ \A t \in Sessions : pane'[t] = pane[t] \/ pane'[t] = <<>>
    BY <1>5 DEF Crash, Reboot, LoseMemory, TypeOK
  <2>2. PaneHoldsUnrecorded' BY <2>1, PaneEmptied DEF Evidence
  <2>3. DispatchedIsPast' BY <2>1 DEF Evidence, DispatchedIsPast
  <2> QED BY <2>1, <2>2, <2>3 DEF Evidence, FinalStatusHasEvidence
<1>6. CASE Recover
  <2>1. CASE Listen BY <1>0, <2>1 DEF Listen
  <2>2. ASSUME NEW c \in Calls, Reconcile(c) PROVE Evidence'
    <3>1. UNCHANGED <<req, pane, record, dispatched, interrupted, pc>> BY <2>2 DEF Reconcile
    <3>2. PICK new \in {"SUCCEEDED", "FAILED", "UNKNOWN"}, why \in Reasons :
             /\ UpdateOperation(c, new, why)
             /\ new = "SUCCEEDED" => record[c] = "zero"
             /\ new = "FAILED" => record[c] = "nonzero"
      BY <2>2 DEF Reconcile, Outcome, Records, Reasons, TypeOK
    <3>3. /\ \A d \in Calls \ {c} : status'[d] = status[d]
          /\ status'[c] \in {status[c], new}
      BY <3>2, UpdateOperationEffect
    <3> QED BY <3>1, <3>2, <3>3, OutcomeWritten
  <2> QED BY <1>6, <2>1, <2>2 DEF Recover
<1>7. CASE UNCHANGED vars BY <1>0, <1>7 DEF vars
<1> QED BY <1>1, <1>2, <1>3, <1>4, <1>5, <1>6, <1>7 DEF Next

\* What each suspended handler and monitor knows of its row, and the evidence.
LEMMA EvidenceInvariance == Spec => []Evidence
<1>1. Init => HandlerKnowsRow /\ RunningIsWatched /\ Evidence
  BY DEF Init, HandlerKnowsRow, RunningIsWatched, Evidence, DispatchedIsPast,
         PaneHoldsUnrecorded, FinalStatusHasEvidence
<1>2. TypeOK /\ OneWriter /\ HandlerKnowsRow /\ RunningIsWatched /\ [Next]_vars
        => HandlerKnowsRow' /\ RunningIsWatched'
  BY WatchStep
<1>3. TypeOK /\ OneWriter /\ HandlerKnowsRow /\ Evidence /\ [Next]_vars => Evidence'
  BY EvidenceStep
<1> QED BY <1>1, <1>2, <1>3, TypeCorrect, OneWriterHolds, PTL DEF Spec

\* An outcome is never invented: whatever interrupts, crashes, purges and late
\* records come between, SUCCEEDED has a record of exit code zero, and FAILED a
\* record of another code or a command that was never pasted.
THEOREM FinalStatusHasEvidenceHolds == Spec => []FinalStatusHasEvidence
<1>1. Evidence => FinalStatusHasEvidence BY DEF Evidence
<1> QED BY <1>1, EvidenceInvariance, PTL

\* The ledger frees a session only when its pane is free: a command that is
\* still in a pane is RUNNING or UNKNOWN, or was marked by an interrupt, or lost
\* its row to a purge.
THEOREM PaneIsAccountedForHolds == Spec => []PaneIsAccountedFor
<1>1. TypeOK /\ Evidence => PaneIsAccountedFor
  <2> SUFFICES ASSUME TypeOK, Evidence, NEW s \in Sessions, NEW c \in PaneOps(s)
               PROVE  status[c] \in {"RUNNING", "UNKNOWN", "NONE"} \/ c \in interrupted
    BY DEF PaneIsAccountedFor
  <2>1. c \in Calls /\ c \in dispatched /\ record[c] = "none"
    BY DEF PaneOps, Evidence, PaneHoldsUnrecorded
  <2>2. status[c] \notin {"SUCCEEDED", "FAILED", "ACCEPTED"}
    BY <2>1 DEF Evidence, FinalStatusHasEvidence, DispatchedIsPast
  <2>3. status[c] = "INTERRUPTED" => c \in interrupted
    BY <2>1 DEF Evidence, DispatchedIsPast
  <2>4. status[c] \in Statuses BY <2>1 DEF TypeOK
  <2> QED BY <2>2, <2>3, <2>4 DEF Statuses, Active, Final
<1> QED BY <1>1, EvidenceInvariance, TypeCorrect, PTL

=============================================================================
