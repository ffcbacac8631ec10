------------------------- MODULE RequestPathProofs -------------------------
(***************************************************************************)
(* The safety of the request path, for any number of requests, owners and  *)
(* sessions and any bounds on deaths, failures and pauses.                 *)
(*                                                                         *)
(* None of the three properties is inductive.  A drain report rests on the *)
(* counter being the number of handlers that are past its increment;       *)
(* ownership on what a session id in a request, in the owner table and at  *)
(* the Session Host can refer to; and the fate of a session that could not *)
(* be recorded on how far its cleanup has come.                            *)
(***************************************************************************)
EXTENDS RequestPath, TLAPS, FiniteSetTheorems

\* A handler that has not asked the service below for anything.
Entering == {"sent", "counted", "admitted"}

\* The handlers of service t that are past the increment of its counter.
CountedAt(t) == {r \in Requests : at[t][r] \in Counted}

\* The counter of a service is the number of its handlers.
CountersMatch == inFlight = [t \in Tiers |-> Cardinality(CountedAt(t))]

\* A health report that found the gate closed was right, and a report of a
\* drained service has nobody behind the gate.
ReportsMatch ==
    \A t \in Tiers :
        /\ probe[t] \in {"paused", "clean"} => flag = "present"
        /\ probe[t] = "clean" => \A r \in Requests : at[t][r] \notin Behind

\* A service works on a request only after the one above it has passed it on,
\* and an answer of the Session Host ends its handler.
StagesFollow ==
    \A r \in Requests :
        /\ kind[r] = None => /\ \A t \in Tiers : at[t][r] = "none"
                             /\ call[r] = "none"
                             /\ reply["host"][r] = "none"
                             /\ target[r] = None
        /\ at["mcp"][r] \in Entering =>
              at["agent"][r] = "none" /\ at["host"][r] = "none" /\ call[r] = "none"
        /\ at["agent"][r] \in Entering => at["host"][r] = "none" /\ call[r] = "none"
        /\ reply["host"][r] # "none" => at["host"][r] = "none"

\* What the Agent asks of the Session Host follows from what the client asked.
CallsFollow ==
    \A r \in Requests :
        /\ call[r] = "open" => kind[r] = "open"
        /\ call[r] \in {"use", "close", "purge"} =>
              kind[r] = call[r] \/ (kind[r] = "open" /\ call[r] # "use" /\ target[r] # None)
        /\ at["host"][r] # "none" => call[r] # "none"

\* The session a request names exists; one that it opened was opened for it.
TargetsExist ==
    \A r \in Requests :
        /\ kind[r] \in {"use", "close", "purge"} => target[r] # None
        /\ target[r] # None => sess[target[r]] # "none"
        /\ kind[r] = "open" /\ target[r] # None => creator[target[r]] = by[r]
        /\ call[r] = "open" /\ reply["host"][r] = "ok" => target[r] # None
        /\ kind[r] = "open" /\ call[r] = "none" => target[r] = None
        /\ call[r] = "open" /\ at["host"][r] # "none" => target[r] = None

\* An owner row names the principal the session was opened for.
OwnersMatch ==
    \A s \in Sessions : owner[s] # None => sess[s] # "none" /\ creator[s] = owner[s]

\* No process died, no Session Host operation failed, no update paused.
Quiet == crashes = 0 /\ hostFails = 0 /\ pauses = 0

\* Then every call reaches the Session Host and its answer the Agent, and the
\* cleanup of a session that could not be recorded closes and purges it.
CleanupProgresses ==
    Quiet =>
        /\ flag = "absent" /\ up = Tiers
        /\ \A r \in Requests :
            /\ at["host"][r] # "none" => at["agent"][r] = "waiting"
            /\ call[r] = "open" /\ reply["host"][r] = "failed" => target[r] = None
            /\ kind[r] = "open" /\ call[r] = "close" /\ reply["host"][r] # "none" =>
                  sess[target[r]] \in {"closed", "purged"}
            /\ kind[r] = "open" /\ call[r] = "purge" => sess[target[r]] \in {"closed", "purged"}
            /\ kind[r] = "open" /\ call[r] = "purge" /\ reply["host"][r] # "none" =>
                  sess[target[r]] = "purged"
            /\ kind[r] = "purge" /\ reply["host"][r] = "ok" => sess[target[r]] = "purged"

IInv ==
    /\ TypeOK
    /\ CountersMatch
    /\ ReportsMatch
    /\ StagesFollow
    /\ CallsFollow
    /\ TargetsExist
    /\ OwnersMatch
    /\ OwnerOnly
    /\ CleanupProgresses
    /\ UnownedHasCause

USE PrincipalsAssumption, KindsAssumption, BoundsAssumption DEF Behind, Reported

-----------------------------------------------------------------------------
\* The counters.

\* The handlers of a service are finitely many.
LEMMA CountIsNat ==
    ASSUME NEW t \in Tiers
    PROVE  IsFiniteSet(CountedAt(t)) /\ Cardinality(CountedAt(t)) \in Nat
<1>1. IsFiniteSet(CountedAt(t))
    BY RequestsAssumption, FS_Subset DEF CountedAt
<1> QED
    BY <1>1, FS_CardinalityType

\* A step that moves no handler past an increment, nor ends one, moves no counter.
LEMMA CountStays ==
    ASSUME CountersMatch, inFlight' = inFlight,
           \A t \in Tiers : CountedAt(t)' = CountedAt(t)
    PROVE  CountersMatch'
    BY DEF CountersMatch

\* The increment: one more handler, one more on the counter.
LEMMA CountJoins ==
    ASSUME CountersMatch, inFlight \in [Tiers -> Nat], NEW t \in Tiers, NEW r \in Requests,
           r \notin CountedAt(t), CountedAt(t)' = CountedAt(t) \cup {r},
           \A u \in Tiers \ {t} : CountedAt(u)' = CountedAt(u), Count(t)
    PROVE  CountersMatch'
<1>1. Cardinality(CountedAt(t)') = Cardinality(CountedAt(t)) + 1
    BY CountIsNat, FS_AddElement
<1> QED
    BY <1>1 DEF CountersMatch, Count

\* The decrement in `finally`: one handler less, one less on the counter.
LEMMA CountLeaves ==
    ASSUME CountersMatch, inFlight \in [Tiers -> Nat], NEW t \in Tiers, NEW r \in Requests,
           r \in CountedAt(t), CountedAt(t)' = CountedAt(t) \ {r},
           \A u \in Tiers \ {t} : CountedAt(u)' = CountedAt(u), Uncount(t)
    PROVE  CountersMatch'
<1>1. Cardinality(CountedAt(t)') = Cardinality(CountedAt(t)) - 1
    BY CountIsNat, FS_RemoveElement
<1> QED
    BY <1>1 DEF CountersMatch, Uncount

\* A handler that is past its increment and answers leaves the counter.
LEMMA EndCounts ==
    ASSUME IInv, NEW t \in Tiers, NEW r \in Requests, NEW a, at[t][r] \in Counted, End(t, r, a)
    PROVE  CountersMatch'
<1>1. /\ r \in CountedAt(t) /\ CountedAt(t)' = CountedAt(t) \ {r}
      /\ \A u \in Tiers \ {t} : CountedAt(u)' = CountedAt(u)
    BY DEF IInv, TypeOK, CountedAt, End, Counted
<1> QED
    BY <1>1, CountLeaves DEF IInv, TypeOK, End

\* A handler that passes its request on stays counted, and the handler below is
\* not counted yet.
LEMMA ForwardCounts ==
    ASSUME IInv, NEW t \in Tiers, NEW b \in Tiers \ {t}, NEW r \in Requests,
           at[t][r] \in Counted, at[b][r] = "none", Forward(t, b, r)
    PROVE  CountersMatch'
<1>1. ASSUME NEW u \in Tiers, NEW q \in Requests
      PROVE  at'[u][q] \in Counted <=> at[u][q] \in Counted
    BY DEF IInv, TypeOK, Forward, Counted
<1>2. \A u \in Tiers : CountedAt(u)' = CountedAt(u)
    BY <1>1 DEF CountedAt
<1> QED
    BY <1>2, CountStays DEF IInv, Forward

\* Every step keeps the counters and the handlers in agreement.
LEMMA CountersKept == ASSUME IInv, Next PROVE CountersMatch'
<1> USE DEF IInv, Tiers, Counted
<1>1. ASSUME NEW r \in Requests, NEW k \in Kinds, NEW p \in Principals,
             NEW s \in Sessions \cup {None}, ClientCalls(r, k, p, s)
      PROVE CountersMatch'
  <2>1. \A u \in Tiers : CountedAt(u)' = CountedAt(u)
    BY <1>1 DEF ClientCalls, CountedAt, TypeOK, StagesFollow
  <2> QED
    BY <1>1, <2>1, CountStays DEF ClientCalls, requestVars
<1>2. ASSUME NEW r \in Requests, McpRefuses(r) PROVE CountersMatch'
    BY <1>2, EndCounts DEF McpRefuses, Answered
<1>3. ASSUME NEW r \in Requests, McpForwards(r) PROVE CountersMatch'
    BY <1>3, ForwardCounts DEF McpForwards, StagesFollow, Entering
<1>4. ASSUME NEW r \in Requests, McpResponds(r) PROVE CountersMatch'
    BY <1>4, EndCounts DEF McpResponds, Answered
<1>5. ASSUME NEW r \in Requests, McpAbandons(r) PROVE CountersMatch'
    BY <1>5, EndCounts DEF McpAbandons
<1>6. ASSUME NEW r \in Requests, AgentRefuses(r) PROVE CountersMatch'
    BY <1>6, EndCounts DEF AgentRefuses, Answered
<1>7. ASSUME NEW r \in Requests, AgentForwards(r) PROVE CountersMatch'
    BY <1>7, ForwardCounts DEF AgentForwards, StagesFollow, Entering
<1>8. ASSUME NEW r \in Requests, AgentServesFile(r) PROVE CountersMatch'
    BY <1>8, EndCounts DEF AgentServesFile, Answered
<1>9. ASSUME NEW r \in Requests, AgentResponds(r) PROVE CountersMatch'
    BY <1>9, EndCounts DEF AgentResponds, Answered
<1>10. ASSUME NEW r \in Requests, OwnerSet(r) PROVE CountersMatch'
    BY <1>10, EndCounts DEF OwnerSet, Answered
<1>11. ASSUME NEW r \in Requests, OwnerSetFails(r) PROVE CountersMatch'
    BY <1>11, ForwardCounts DEF OwnerSetFails, Answered, StagesFollow
<1>12. ASSUME NEW r \in Requests, CleanupPurges(r) PROVE CountersMatch'
    BY <1>12, ForwardCounts DEF CleanupPurges, Answered, StagesFollow
<1>13. ASSUME NEW r \in Requests, CleanupEnds(r) PROVE CountersMatch'
    BY <1>13, EndCounts DEF CleanupEnds, Answered
<1>14. ASSUME NEW r \in Requests, OwnerDelete(r) PROVE CountersMatch'
    BY <1>14, EndCounts DEF OwnerDelete, Answered
<1>15. ASSUME NEW r \in Requests, HostServes(r) PROVE CountersMatch'
    BY <1>15, EndCounts DEF HostServes, HostChanges, HostOpens
<1>16. ASSUME NEW r \in Requests, HostRejects(r) PROVE CountersMatch'
    BY <1>16, EndCounts DEF HostRejects, Answered
<1>17. ASSUME NEW r \in Requests, HostFails(r) PROVE CountersMatch'
    BY <1>17, EndCounts DEF HostFails, Answered
<1>18. ASSUME NEW t \in Tiers, NEW r \in Requests, Arrive(t, r) PROVE CountersMatch'
  <2>1. /\ r \notin CountedAt(t) /\ CountedAt(t)' = CountedAt(t) \cup {r}
        /\ \A u \in Tiers \ {t} : CountedAt(u)' = CountedAt(u)
    BY <1>18 DEF Arrive, CountedAt, TypeOK
  <2> QED
    BY <1>18, <2>1, CountJoins DEF Arrive, TypeOK
<1>19. ASSUME NEW t \in Tiers, NEW r \in Requests, Gate(t, r) PROVE CountersMatch'
  <2>1. CASE GateOpens
    <3>1. \A u \in Tiers : CountedAt(u)' = CountedAt(u)
      BY <1>19, <2>1 DEF Gate, CountedAt, TypeOK
    <3> QED
      BY <1>19, <2>1, <3>1, CountStays DEF Gate
  <2>2. CASE ~GateOpens
    BY <1>19, <2>2, EndCounts DEF Gate
  <2> QED
    BY <2>1, <2>2
<1>20. ASSUME NEW t \in Tiers, NEW r \in Requests, Unreachable(t, r)
      PROVE CountersMatch'
  <2>1. \A u \in Tiers : CountedAt(u)' = CountedAt(u)
    BY <1>20 DEF Unreachable, CountedAt, TypeOK
  <2> QED
    BY <1>20, <2>1, CountStays DEF Unreachable, requestVars
<1>21. ASSUME NEW t \in Tiers, Crash(t) PROVE CountersMatch'
  <2>1. CountedAt(t)' = {} /\ \A u \in Tiers \ {t} : CountedAt(u)' = CountedAt(u)
    BY <1>21 DEF Crash, CountedAt, TypeOK
  <2> QED
    BY <1>21, <2>1, FS_EmptySet DEF Crash, CountersMatch, TypeOK
<1>22. ASSUME NEW t \in Tiers, Restart(t) PROVE CountersMatch'
    BY <1>22, CountStays DEF Restart, CountedAt, requestVars
<1>23. ASSUME NEW t \in Tiers, HealthReadsGate(t) PROVE CountersMatch'
    BY <1>23, CountStays DEF HealthReadsGate, CountedAt, requestVars
<1>24. ASSUME NEW t \in Tiers, HealthReadsCount(t) PROVE CountersMatch'
    BY <1>24, CountStays DEF HealthReadsCount, CountedAt, requestVars
<1>25. ASSUME PauseAdmission PROVE CountersMatch'
    BY <1>25, CountStays DEF PauseAdmission, CountedAt, requestVars
<1>26. ASSUME ResumeAdmission PROVE CountersMatch'
    BY <1>26, CountStays DEF ResumeAdmission, CountedAt, requestVars
<1>27. ASSUME StartDrain PROVE CountersMatch'
    BY <1>27, CountStays DEF StartDrain, CountedAt, requestVars
<1>28. ASSUME EvaluateReports PROVE CountersMatch'
    BY <1>28, CountStays DEF EvaluateReports, CountedAt, requestVars
<1>29. ASSUME DrainTimesOut PROVE CountersMatch'
    BY <1>29, CountStays DEF DrainTimesOut, CountedAt, requestVars
<1>30. ASSUME DeadlinePasses PROVE CountersMatch'
    BY <1>30, CountStays DEF DeadlinePasses, CountedAt, requestVars
<1>31. ASSUME NEW r \in Requests, ClientLeaves(r) PROVE CountersMatch'
  <2>1. \A u \in Tiers : CountedAt(u)' = CountedAt(u)
    BY <1>31 DEF ClientLeaves, CountedAt, TypeOK
  <2> QED
    BY <1>31, <2>1, CountStays DEF ClientLeaves
<1>32. ASSUME NEW r \in Requests, AgentAborts(r) PROVE CountersMatch'
    BY <1>32, EndCounts DEF AgentAborts
<1> HIDE DEF IInv, Tiers, Counted
<1> QED BY <1>1, <1>2, <1>3, <1>4, <1>5, <1>6, <1>7, <1>8, <1>9, <1>10, <1>11,
           <1>12, <1>13, <1>14, <1>15, <1>16, <1>17, <1>18, <1>19, <1>20,
           <1>21, <1>22, <1>23, <1>24, <1>25, <1>26, <1>27, <1>28, <1>29, <1>30,
           <1>31, <1>32
        DEF Next, McpStep, AgentStep, HostStep, DrainStep

\* So they stay natural numbers: no handler is counted down twice.
LEMMA CountersAreNat == ASSUME CountersMatch' PROVE inFlight' \in [Tiers -> Nat]
<1>1. ASSUME NEW t \in Tiers PROVE Cardinality(CountedAt(t)') \in Nat
  <2>1. IsFiniteSet(CountedAt(t)')
    BY RequestsAssumption, FS_Subset DEF CountedAt
  <2> QED
    BY <2>1, FS_CardinalityType
<1> QED
    BY <1>1 DEF CountersMatch

-----------------------------------------------------------------------------
\* The other parts.

\* Every step keeps the types.
LEMMA TypeKept == ASSUME IInv, Next, inFlight' \in [Tiers -> Nat] PROVE TypeOK'
<1> USE DEF IInv, TypeOK, Kinds, Principals, Counted, Tiers, CallsFollow,
        StagesFollow, Entering, requestVars, sessionVars, drainVars,
        faultVars, Count, Uncount, End, GateOpens, Forward, Answered,
        OwnerAllows, HostOpens, HostChanges
<1>1. ASSUME NEW r \in Requests, NEW k \in Kinds, NEW p \in Principals,
             NEW s \in Sessions \cup {None}, ClientCalls(r, k, p, s)
      PROVE TypeOK'
    BY <1>1 DEF ClientCalls
<1>2. ASSUME NEW r \in Requests, McpRefuses(r) PROVE TypeOK'
    BY <1>2 DEF McpRefuses
<1>3. ASSUME NEW r \in Requests, McpForwards(r) PROVE TypeOK'
    BY <1>3 DEF McpForwards
<1>4. ASSUME NEW r \in Requests, McpResponds(r) PROVE TypeOK'
    BY <1>4 DEF McpResponds
<1>5. ASSUME NEW r \in Requests, McpAbandons(r) PROVE TypeOK'
    BY <1>5 DEF McpAbandons
<1>6. ASSUME NEW r \in Requests, AgentRefuses(r) PROVE TypeOK'
    BY <1>6 DEF AgentRefuses
<1>7. ASSUME NEW r \in Requests, AgentForwards(r) PROVE TypeOK'
    BY <1>7 DEF AgentForwards
<1>8. ASSUME NEW r \in Requests, AgentServesFile(r) PROVE TypeOK'
    BY <1>8 DEF AgentServesFile
<1>9. ASSUME NEW r \in Requests, AgentResponds(r) PROVE TypeOK'
    BY <1>9 DEF AgentResponds
<1>10. ASSUME NEW r \in Requests, OwnerSet(r) PROVE TypeOK'
    BY <1>10 DEF OwnerSet
<1>11. ASSUME NEW r \in Requests, OwnerSetFails(r) PROVE TypeOK'
    BY <1>11 DEF OwnerSetFails
<1>12. ASSUME NEW r \in Requests, CleanupPurges(r) PROVE TypeOK'
    BY <1>12 DEF CleanupPurges
<1>13. ASSUME NEW r \in Requests, CleanupEnds(r) PROVE TypeOK'
    BY <1>13 DEF CleanupEnds
<1>14. ASSUME NEW r \in Requests, OwnerDelete(r) PROVE TypeOK'
    BY <1>14 DEF OwnerDelete
<1>15. ASSUME NEW r \in Requests, HostServes(r) PROVE TypeOK'
  <2>1. CASE HostChanges(r)
    BY <1>15, <2>1 DEF HostServes
  <2>2. ASSUME NEW s \in Sessions, HostOpens(r, s) PROVE TypeOK'
    BY <1>15, <2>2 DEF HostServes
  <2> QED
    BY <1>15, <2>1, <2>2 DEF HostServes
<1>16. ASSUME NEW r \in Requests, HostRejects(r) PROVE TypeOK'
    BY <1>16 DEF HostRejects
<1>17. ASSUME NEW r \in Requests, HostFails(r) PROVE TypeOK'
    BY <1>17 DEF HostFails
<1>18. ASSUME NEW t \in Tiers, NEW r \in Requests, Arrive(t, r) PROVE TypeOK'
    BY <1>18 DEF Arrive
<1>19. ASSUME NEW t \in Tiers, NEW r \in Requests, Gate(t, r) PROVE TypeOK'
  <2>1. CASE GateOpens
    BY <1>19, <2>1 DEF Gate
  <2>2. CASE ~GateOpens
    BY <1>19, <2>2 DEF Gate
  <2> QED
    BY <2>1, <2>2
<1>20. ASSUME NEW t \in Tiers, NEW r \in Requests, Unreachable(t, r) PROVE TypeOK'
    BY <1>20 DEF Unreachable
<1>21. ASSUME NEW t \in Tiers, Crash(t) PROVE TypeOK'
    BY <1>21 DEF Crash
<1>22. ASSUME NEW t \in Tiers, Restart(t) PROVE TypeOK'
    BY <1>22 DEF Restart
<1>23. ASSUME NEW t \in Tiers, HealthReadsGate(t) PROVE TypeOK'
    BY <1>23 DEF HealthReadsGate
<1>24. ASSUME NEW t \in Tiers, HealthReadsCount(t) PROVE TypeOK'
    BY <1>24 DEF HealthReadsCount
<1>25. ASSUME PauseAdmission PROVE TypeOK'
    BY <1>25 DEF PauseAdmission
<1>26. ASSUME ResumeAdmission PROVE TypeOK'
    BY <1>26 DEF ResumeAdmission
<1>27. ASSUME StartDrain PROVE TypeOK'
    BY <1>27 DEF StartDrain
<1>28. ASSUME EvaluateReports PROVE TypeOK'
    BY <1>28 DEF EvaluateReports
<1>29. ASSUME DrainTimesOut PROVE TypeOK'
    BY <1>29 DEF DrainTimesOut
<1>30. ASSUME DeadlinePasses PROVE TypeOK'
    BY <1>30 DEF DeadlinePasses
<1>31. ASSUME NEW r \in Requests, ClientLeaves(r) PROVE TypeOK'
    BY <1>31 DEF ClientLeaves
<1>32. ASSUME NEW r \in Requests, AgentAborts(r) PROVE TypeOK'
    BY <1>32 DEF AgentAborts
<1> HIDE DEF IInv, TypeOK, Kinds, Principals, Counted, Tiers, CallsFollow,
        StagesFollow, Entering, requestVars, sessionVars, drainVars,
        faultVars, Count, Uncount, End, GateOpens, Forward, Answered,
        OwnerAllows, HostOpens, HostChanges
<1> QED BY <1>1, <1>2, <1>3, <1>4, <1>5, <1>6, <1>7, <1>8, <1>9, <1>10, <1>11,
           <1>12, <1>13, <1>14, <1>15, <1>16, <1>17, <1>18, <1>19, <1>20,
           <1>21, <1>22, <1>23, <1>24, <1>25, <1>26, <1>27, <1>28, <1>29, <1>30,
           <1>31, <1>32
        DEF Next, McpStep, AgentStep, HostStep, DrainStep

\* No step makes a health report untrue while the flag stays.
LEMMA ReportsKept == ASSUME IInv, Next PROVE ReportsMatch'
<1> USE DEF IInv, ReportsMatch, TypeOK, Tiers, requestVars, sessionVars,
        drainVars, faultVars, Count, Uncount, End, GateOpens, Forward,
        Answered, OwnerAllows, HostOpens, HostChanges
<1>1. ASSUME NEW r \in Requests, NEW k \in Kinds, NEW p \in Principals,
             NEW s \in Sessions \cup {None}, ClientCalls(r, k, p, s)
      PROVE ReportsMatch'
    BY <1>1 DEF ClientCalls
<1>2. ASSUME NEW r \in Requests, McpRefuses(r) PROVE ReportsMatch'
    BY <1>2 DEF McpRefuses
<1>3. ASSUME NEW r \in Requests, McpForwards(r) PROVE ReportsMatch'
    BY <1>3 DEF McpForwards
<1>4. ASSUME NEW r \in Requests, McpResponds(r) PROVE ReportsMatch'
    BY <1>4 DEF McpResponds
<1>5. ASSUME NEW r \in Requests, McpAbandons(r) PROVE ReportsMatch'
    BY <1>5 DEF McpAbandons
<1>6. ASSUME NEW r \in Requests, AgentRefuses(r) PROVE ReportsMatch'
    BY <1>6 DEF AgentRefuses
<1>7. ASSUME NEW r \in Requests, AgentForwards(r) PROVE ReportsMatch'
    BY <1>7 DEF AgentForwards
<1>8. ASSUME NEW r \in Requests, AgentServesFile(r) PROVE ReportsMatch'
    BY <1>8 DEF AgentServesFile
<1>9. ASSUME NEW r \in Requests, AgentResponds(r) PROVE ReportsMatch'
    BY <1>9 DEF AgentResponds
<1>10. ASSUME NEW r \in Requests, OwnerSet(r) PROVE ReportsMatch'
    BY <1>10 DEF OwnerSet
<1>11. ASSUME NEW r \in Requests, OwnerSetFails(r) PROVE ReportsMatch'
    BY <1>11 DEF OwnerSetFails
<1>12. ASSUME NEW r \in Requests, CleanupPurges(r) PROVE ReportsMatch'
    BY <1>12 DEF CleanupPurges
<1>13. ASSUME NEW r \in Requests, CleanupEnds(r) PROVE ReportsMatch'
    BY <1>13 DEF CleanupEnds
<1>14. ASSUME NEW r \in Requests, OwnerDelete(r) PROVE ReportsMatch'
    BY <1>14 DEF OwnerDelete
<1>15. ASSUME NEW r \in Requests, HostServes(r) PROVE ReportsMatch'
    BY <1>15 DEF HostServes
<1>16. ASSUME NEW r \in Requests, HostRejects(r) PROVE ReportsMatch'
    BY <1>16 DEF HostRejects
<1>17. ASSUME NEW r \in Requests, HostFails(r) PROVE ReportsMatch'
    BY <1>17 DEF HostFails
<1>18. ASSUME NEW t \in Tiers, NEW r \in Requests, Arrive(t, r) PROVE ReportsMatch'
    BY <1>18 DEF Arrive
<1>19. ASSUME NEW t \in Tiers, NEW r \in Requests, Gate(t, r) PROVE ReportsMatch'
    BY <1>19 DEF Gate
<1>20. ASSUME NEW t \in Tiers, NEW r \in Requests, Unreachable(t, r) PROVE ReportsMatch'
    BY <1>20 DEF Unreachable
<1>21. ASSUME NEW t \in Tiers, Crash(t) PROVE ReportsMatch'
    BY <1>21 DEF Crash
<1>22. ASSUME NEW t \in Tiers, Restart(t) PROVE ReportsMatch'
    BY <1>22 DEF Restart
<1>23. ASSUME NEW t \in Tiers, HealthReadsGate(t) PROVE ReportsMatch'
    BY <1>23 DEF HealthReadsGate
<1>24. ASSUME NEW t \in Tiers, HealthReadsCount(t) PROVE ReportsMatch'
  <2>1. ASSUME inFlight[t] = 0 PROVE \A r \in Requests : at[t][r] \notin Counted
    <3>1. IsFiniteSet(CountedAt(t)) /\ Cardinality(CountedAt(t)) = 0
      BY <2>1, CountIsNat DEF CountersMatch
    <3>2. CountedAt(t) = {}
      BY <3>1, FS_EmptySet
    <3> QED
      BY <3>2 DEF CountedAt
  <2> QED
    BY <1>24, <2>1 DEF HealthReadsCount, Counted
<1>25. ASSUME PauseAdmission PROVE ReportsMatch'
    BY <1>25 DEF PauseAdmission
<1>26. ASSUME ResumeAdmission PROVE ReportsMatch'
    BY <1>26 DEF ResumeAdmission
<1>27. ASSUME StartDrain PROVE ReportsMatch'
    BY <1>27 DEF StartDrain
<1>28. ASSUME EvaluateReports PROVE ReportsMatch'
    BY <1>28 DEF EvaluateReports
<1>29. ASSUME DrainTimesOut PROVE ReportsMatch'
    BY <1>29 DEF DrainTimesOut
<1>30. ASSUME DeadlinePasses PROVE ReportsMatch'
    BY <1>30 DEF DeadlinePasses
<1>31. ASSUME NEW r \in Requests, ClientLeaves(r) PROVE ReportsMatch'
    BY <1>31 DEF ClientLeaves
<1>32. ASSUME NEW r \in Requests, AgentAborts(r) PROVE ReportsMatch'
    BY <1>32 DEF AgentAborts
<1> HIDE DEF IInv, ReportsMatch, TypeOK, Tiers, requestVars, sessionVars,
        drainVars, faultVars, Count, Uncount, End, GateOpens, Forward,
        Answered, OwnerAllows, HostOpens, HostChanges
<1> QED BY <1>1, <1>2, <1>3, <1>4, <1>5, <1>6, <1>7, <1>8, <1>9, <1>10, <1>11,
           <1>12, <1>13, <1>14, <1>15, <1>16, <1>17, <1>18, <1>19, <1>20,
           <1>21, <1>22, <1>23, <1>24, <1>25, <1>26, <1>27, <1>28, <1>29, <1>30,
           <1>31, <1>32
        DEF Next, McpStep, AgentStep, HostStep, DrainStep

\* A request moves down one service at a time.
LEMMA StagesKept == ASSUME IInv, Next PROVE StagesFollow'
<1> USE DEF IInv, StagesFollow, TypeOK, Tiers, Counted, Entering, Kinds,
        requestVars, sessionVars, drainVars, faultVars, Count, Uncount, End,
        GateOpens, Forward, Answered, OwnerAllows, HostOpens, HostChanges
<1>1. ASSUME NEW r \in Requests, NEW k \in Kinds, NEW p \in Principals,
             NEW s \in Sessions \cup {None}, ClientCalls(r, k, p, s)
      PROVE StagesFollow'
    BY <1>1 DEF ClientCalls
<1>2. ASSUME NEW r \in Requests, McpRefuses(r) PROVE StagesFollow'
    BY <1>2 DEF McpRefuses
<1>3. ASSUME NEW r \in Requests, McpForwards(r) PROVE StagesFollow'
    BY <1>3 DEF McpForwards
<1>4. ASSUME NEW r \in Requests, McpResponds(r) PROVE StagesFollow'
    BY <1>4 DEF McpResponds
<1>5. ASSUME NEW r \in Requests, McpAbandons(r) PROVE StagesFollow'
    BY <1>5 DEF McpAbandons
<1>6. ASSUME NEW r \in Requests, AgentRefuses(r) PROVE StagesFollow'
    BY <1>6 DEF AgentRefuses
<1>7. ASSUME NEW r \in Requests, AgentForwards(r) PROVE StagesFollow'
    BY <1>7 DEF AgentForwards
<1>8. ASSUME NEW r \in Requests, AgentServesFile(r) PROVE StagesFollow'
    BY <1>8 DEF AgentServesFile
<1>9. ASSUME NEW r \in Requests, AgentResponds(r) PROVE StagesFollow'
    BY <1>9 DEF AgentResponds
<1>10. ASSUME NEW r \in Requests, OwnerSet(r) PROVE StagesFollow'
    BY <1>10 DEF OwnerSet
<1>11. ASSUME NEW r \in Requests, OwnerSetFails(r) PROVE StagesFollow'
    BY <1>11 DEF OwnerSetFails
<1>12. ASSUME NEW r \in Requests, CleanupPurges(r) PROVE StagesFollow'
    BY <1>12 DEF CleanupPurges
<1>13. ASSUME NEW r \in Requests, CleanupEnds(r) PROVE StagesFollow'
    BY <1>13 DEF CleanupEnds
<1>14. ASSUME NEW r \in Requests, OwnerDelete(r) PROVE StagesFollow'
    BY <1>14 DEF OwnerDelete
<1>15. ASSUME NEW r \in Requests, HostServes(r) PROVE StagesFollow'
    BY <1>15 DEF HostServes
<1>16. ASSUME NEW r \in Requests, HostRejects(r) PROVE StagesFollow'
    BY <1>16 DEF HostRejects
<1>17. ASSUME NEW r \in Requests, HostFails(r) PROVE StagesFollow'
    BY <1>17 DEF HostFails
<1>18. ASSUME NEW t \in Tiers, NEW r \in Requests, Arrive(t, r) PROVE StagesFollow'
    BY <1>18 DEF Arrive
<1>19. ASSUME NEW t \in Tiers, NEW r \in Requests, Gate(t, r) PROVE StagesFollow'
    BY <1>19 DEF Gate
<1>20. ASSUME NEW t \in Tiers, NEW r \in Requests, Unreachable(t, r) PROVE StagesFollow'
    BY <1>20 DEF Unreachable
<1>21. ASSUME NEW t \in Tiers, Crash(t) PROVE StagesFollow'
    BY <1>21 DEF Crash
<1>22. ASSUME NEW t \in Tiers, Restart(t) PROVE StagesFollow'
    BY <1>22 DEF Restart
<1>23. ASSUME NEW t \in Tiers, HealthReadsGate(t) PROVE StagesFollow'
    BY <1>23 DEF HealthReadsGate
<1>24. ASSUME NEW t \in Tiers, HealthReadsCount(t) PROVE StagesFollow'
    BY <1>24 DEF HealthReadsCount
<1>25. ASSUME PauseAdmission PROVE StagesFollow'
    BY <1>25 DEF PauseAdmission
<1>26. ASSUME ResumeAdmission PROVE StagesFollow'
    BY <1>26 DEF ResumeAdmission
<1>27. ASSUME StartDrain PROVE StagesFollow'
    BY <1>27 DEF StartDrain
<1>28. ASSUME EvaluateReports PROVE StagesFollow'
    BY <1>28 DEF EvaluateReports
<1>29. ASSUME DrainTimesOut PROVE StagesFollow'
    BY <1>29 DEF DrainTimesOut
<1>30. ASSUME DeadlinePasses PROVE StagesFollow'
    BY <1>30 DEF DeadlinePasses
<1>31. ASSUME NEW r \in Requests, ClientLeaves(r) PROVE StagesFollow'
    BY <1>31 DEF ClientLeaves
<1>32. ASSUME NEW r \in Requests, AgentAborts(r) PROVE StagesFollow'
    BY <1>32 DEF AgentAborts
<1> HIDE DEF IInv, StagesFollow, TypeOK, Tiers, Counted, Entering, Kinds,
        requestVars, sessionVars, drainVars, faultVars, Count, Uncount, End,
        GateOpens, Forward, Answered, OwnerAllows, HostOpens, HostChanges
<1> QED BY <1>1, <1>2, <1>3, <1>4, <1>5, <1>6, <1>7, <1>8, <1>9, <1>10, <1>11,
           <1>12, <1>13, <1>14, <1>15, <1>16, <1>17, <1>18, <1>19, <1>20,
           <1>21, <1>22, <1>23, <1>24, <1>25, <1>26, <1>27, <1>28, <1>29, <1>30,
           <1>31, <1>32
        DEF Next, McpStep, AgentStep, HostStep, DrainStep

\* Calls stay those of the request.
LEMMA CallsKept == ASSUME IInv, Next PROVE CallsFollow'
<1> USE DEF IInv, CallsFollow, StagesFollow, TargetsExist, TypeOK, Tiers,
        Entering, Kinds, Counted, requestVars, sessionVars, drainVars,
        faultVars, Count, Uncount, End, GateOpens, Forward, Answered,
        OwnerAllows, HostOpens, HostChanges
<1>1. ASSUME NEW r \in Requests, NEW k \in Kinds, NEW p \in Principals,
             NEW s \in Sessions \cup {None}, ClientCalls(r, k, p, s)
      PROVE CallsFollow'
    BY <1>1 DEF ClientCalls
<1>2. ASSUME NEW r \in Requests, McpRefuses(r) PROVE CallsFollow'
    BY <1>2 DEF McpRefuses
<1>3. ASSUME NEW r \in Requests, McpForwards(r) PROVE CallsFollow'
    BY <1>3 DEF McpForwards
<1>4. ASSUME NEW r \in Requests, McpResponds(r) PROVE CallsFollow'
    BY <1>4 DEF McpResponds
<1>5. ASSUME NEW r \in Requests, McpAbandons(r) PROVE CallsFollow'
    BY <1>5 DEF McpAbandons
<1>6. ASSUME NEW r \in Requests, AgentRefuses(r) PROVE CallsFollow'
    BY <1>6 DEF AgentRefuses
<1>7. ASSUME NEW r \in Requests, AgentForwards(r) PROVE CallsFollow'
    BY <1>7 DEF AgentForwards
<1>8. ASSUME NEW r \in Requests, AgentServesFile(r) PROVE CallsFollow'
    BY <1>8 DEF AgentServesFile
<1>9. ASSUME NEW r \in Requests, AgentResponds(r) PROVE CallsFollow'
    BY <1>9 DEF AgentResponds
<1>10. ASSUME NEW r \in Requests, OwnerSet(r) PROVE CallsFollow'
    BY <1>10 DEF OwnerSet
<1>11. ASSUME NEW r \in Requests, OwnerSetFails(r) PROVE CallsFollow'
    BY <1>11 DEF OwnerSetFails
<1>12. ASSUME NEW r \in Requests, CleanupPurges(r) PROVE CallsFollow'
    BY <1>12 DEF CleanupPurges
<1>13. ASSUME NEW r \in Requests, CleanupEnds(r) PROVE CallsFollow'
    BY <1>13 DEF CleanupEnds
<1>14. ASSUME NEW r \in Requests, OwnerDelete(r) PROVE CallsFollow'
    BY <1>14 DEF OwnerDelete
<1>15. ASSUME NEW r \in Requests, HostServes(r) PROVE CallsFollow'
    BY <1>15 DEF HostServes
<1>16. ASSUME NEW r \in Requests, HostRejects(r) PROVE CallsFollow'
    BY <1>16 DEF HostRejects
<1>17. ASSUME NEW r \in Requests, HostFails(r) PROVE CallsFollow'
    BY <1>17 DEF HostFails
<1>18. ASSUME NEW t \in Tiers, NEW r \in Requests, Arrive(t, r) PROVE CallsFollow'
    BY <1>18 DEF Arrive
<1>19. ASSUME NEW t \in Tiers, NEW r \in Requests, Gate(t, r) PROVE CallsFollow'
    BY <1>19 DEF Gate
<1>20. ASSUME NEW t \in Tiers, NEW r \in Requests, Unreachable(t, r) PROVE CallsFollow'
    BY <1>20 DEF Unreachable
<1>21. ASSUME NEW t \in Tiers, Crash(t) PROVE CallsFollow'
    BY <1>21 DEF Crash
<1>22. ASSUME NEW t \in Tiers, Restart(t) PROVE CallsFollow'
    BY <1>22 DEF Restart
<1>23. ASSUME NEW t \in Tiers, HealthReadsGate(t) PROVE CallsFollow'
    BY <1>23 DEF HealthReadsGate
<1>24. ASSUME NEW t \in Tiers, HealthReadsCount(t) PROVE CallsFollow'
    BY <1>24 DEF HealthReadsCount
<1>25. ASSUME PauseAdmission PROVE CallsFollow'
    BY <1>25 DEF PauseAdmission
<1>26. ASSUME ResumeAdmission PROVE CallsFollow'
    BY <1>26 DEF ResumeAdmission
<1>27. ASSUME StartDrain PROVE CallsFollow'
    BY <1>27 DEF StartDrain
<1>28. ASSUME EvaluateReports PROVE CallsFollow'
    BY <1>28 DEF EvaluateReports
<1>29. ASSUME DrainTimesOut PROVE CallsFollow'
    BY <1>29 DEF DrainTimesOut
<1>30. ASSUME DeadlinePasses PROVE CallsFollow'
    BY <1>30 DEF DeadlinePasses
<1>31. ASSUME NEW r \in Requests, ClientLeaves(r) PROVE CallsFollow'
    BY <1>31 DEF ClientLeaves
<1>32. ASSUME NEW r \in Requests, AgentAborts(r) PROVE CallsFollow'
    BY <1>32 DEF AgentAborts
<1> HIDE DEF IInv, CallsFollow, StagesFollow, TargetsExist, TypeOK, Tiers,
        Entering, Kinds, Counted, requestVars, sessionVars, drainVars,
        faultVars, Count, Uncount, End, GateOpens, Forward, Answered,
        OwnerAllows, HostOpens, HostChanges
<1> QED BY <1>1, <1>2, <1>3, <1>4, <1>5, <1>6, <1>7, <1>8, <1>9, <1>10, <1>11,
           <1>12, <1>13, <1>14, <1>15, <1>16, <1>17, <1>18, <1>19, <1>20,
           <1>21, <1>22, <1>23, <1>24, <1>25, <1>26, <1>27, <1>28, <1>29, <1>30,
           <1>31, <1>32
        DEF Next, McpStep, AgentStep, HostStep, DrainStep

\* Named sessions stay what they are: ids are not used twice.
LEMMA TargetsKept == ASSUME IInv, Next PROVE TargetsExist'
<1> USE DEF IInv, CallsFollow, StagesFollow, TargetsExist, TypeOK, Tiers,
        Entering, Kinds, Counted, requestVars, sessionVars, drainVars,
        faultVars, Count, Uncount, End, GateOpens, Forward, Answered,
        OwnerAllows, HostOpens, HostChanges
<1>1. ASSUME NEW r \in Requests, NEW k \in Kinds, NEW p \in Principals,
             NEW s \in Sessions \cup {None}, ClientCalls(r, k, p, s)
      PROVE TargetsExist'
    BY <1>1 DEF ClientCalls
<1>2. ASSUME NEW r \in Requests, McpRefuses(r) PROVE TargetsExist'
    BY <1>2 DEF McpRefuses
<1>3. ASSUME NEW r \in Requests, McpForwards(r) PROVE TargetsExist'
    BY <1>3 DEF McpForwards
<1>4. ASSUME NEW r \in Requests, McpResponds(r) PROVE TargetsExist'
    BY <1>4 DEF McpResponds
<1>5. ASSUME NEW r \in Requests, McpAbandons(r) PROVE TargetsExist'
    BY <1>5 DEF McpAbandons
<1>6. ASSUME NEW r \in Requests, AgentRefuses(r) PROVE TargetsExist'
    BY <1>6 DEF AgentRefuses
<1>7. ASSUME NEW r \in Requests, AgentForwards(r) PROVE TargetsExist'
    BY <1>7 DEF AgentForwards
<1>8. ASSUME NEW r \in Requests, AgentServesFile(r) PROVE TargetsExist'
    BY <1>8 DEF AgentServesFile
<1>9. ASSUME NEW r \in Requests, AgentResponds(r) PROVE TargetsExist'
    BY <1>9 DEF AgentResponds
<1>10. ASSUME NEW r \in Requests, OwnerSet(r) PROVE TargetsExist'
    BY <1>10 DEF OwnerSet
<1>11. ASSUME NEW r \in Requests, OwnerSetFails(r) PROVE TargetsExist'
    BY <1>11 DEF OwnerSetFails
<1>12. ASSUME NEW r \in Requests, CleanupPurges(r) PROVE TargetsExist'
    BY <1>12 DEF CleanupPurges
<1>13. ASSUME NEW r \in Requests, CleanupEnds(r) PROVE TargetsExist'
    BY <1>13 DEF CleanupEnds
<1>14. ASSUME NEW r \in Requests, OwnerDelete(r) PROVE TargetsExist'
    BY <1>14 DEF OwnerDelete
<1>15. ASSUME NEW r \in Requests, HostServes(r) PROVE TargetsExist'
    BY <1>15 DEF HostServes
<1>16. ASSUME NEW r \in Requests, HostRejects(r) PROVE TargetsExist'
    BY <1>16 DEF HostRejects
<1>17. ASSUME NEW r \in Requests, HostFails(r) PROVE TargetsExist'
    BY <1>17 DEF HostFails
<1>18. ASSUME NEW t \in Tiers, NEW r \in Requests, Arrive(t, r) PROVE TargetsExist'
    BY <1>18 DEF Arrive
<1>19. ASSUME NEW t \in Tiers, NEW r \in Requests, Gate(t, r) PROVE TargetsExist'
    BY <1>19 DEF Gate
<1>20. ASSUME NEW t \in Tiers, NEW r \in Requests, Unreachable(t, r) PROVE TargetsExist'
    BY <1>20 DEF Unreachable
<1>21. ASSUME NEW t \in Tiers, Crash(t) PROVE TargetsExist'
    BY <1>21 DEF Crash
<1>22. ASSUME NEW t \in Tiers, Restart(t) PROVE TargetsExist'
    BY <1>22 DEF Restart
<1>23. ASSUME NEW t \in Tiers, HealthReadsGate(t) PROVE TargetsExist'
    BY <1>23 DEF HealthReadsGate
<1>24. ASSUME NEW t \in Tiers, HealthReadsCount(t) PROVE TargetsExist'
    BY <1>24 DEF HealthReadsCount
<1>25. ASSUME PauseAdmission PROVE TargetsExist'
    BY <1>25 DEF PauseAdmission
<1>26. ASSUME ResumeAdmission PROVE TargetsExist'
    BY <1>26 DEF ResumeAdmission
<1>27. ASSUME StartDrain PROVE TargetsExist'
    BY <1>27 DEF StartDrain
<1>28. ASSUME EvaluateReports PROVE TargetsExist'
    BY <1>28 DEF EvaluateReports
<1>29. ASSUME DrainTimesOut PROVE TargetsExist'
    BY <1>29 DEF DrainTimesOut
<1>30. ASSUME DeadlinePasses PROVE TargetsExist'
    BY <1>30 DEF DeadlinePasses
<1>31. ASSUME NEW r \in Requests, ClientLeaves(r) PROVE TargetsExist'
    BY <1>31 DEF ClientLeaves
<1>32. ASSUME NEW r \in Requests, AgentAborts(r) PROVE TargetsExist'
    BY <1>32 DEF AgentAborts
<1> HIDE DEF IInv, CallsFollow, StagesFollow, TargetsExist, TypeOK, Tiers,
        Entering, Kinds, Counted, requestVars, sessionVars, drainVars,
        faultVars, Count, Uncount, End, GateOpens, Forward, Answered,
        OwnerAllows, HostOpens, HostChanges
<1> QED BY <1>1, <1>2, <1>3, <1>4, <1>5, <1>6, <1>7, <1>8, <1>9, <1>10, <1>11,
           <1>12, <1>13, <1>14, <1>15, <1>16, <1>17, <1>18, <1>19, <1>20,
           <1>21, <1>22, <1>23, <1>24, <1>25, <1>26, <1>27, <1>28, <1>29, <1>30,
           <1>31, <1>32
        DEF Next, McpStep, AgentStep, HostStep, DrainStep

\* Owner rows are written for the principal that opened the session.
LEMMA OwnersKept == ASSUME IInv, Next PROVE OwnersMatch'
<1> USE DEF IInv, OwnersMatch, CallsFollow, StagesFollow, TargetsExist,
        TypeOK, Tiers, requestVars, sessionVars, drainVars, faultVars, Count,
        Uncount, End, GateOpens, Forward, Answered, OwnerAllows, HostOpens,
        HostChanges
<1>1. ASSUME NEW r \in Requests, NEW k \in Kinds, NEW p \in Principals,
             NEW s \in Sessions \cup {None}, ClientCalls(r, k, p, s)
      PROVE OwnersMatch'
    BY <1>1 DEF ClientCalls
<1>2. ASSUME NEW r \in Requests, McpRefuses(r) PROVE OwnersMatch'
    BY <1>2 DEF McpRefuses
<1>3. ASSUME NEW r \in Requests, McpForwards(r) PROVE OwnersMatch'
    BY <1>3 DEF McpForwards
<1>4. ASSUME NEW r \in Requests, McpResponds(r) PROVE OwnersMatch'
    BY <1>4 DEF McpResponds
<1>5. ASSUME NEW r \in Requests, McpAbandons(r) PROVE OwnersMatch'
    BY <1>5 DEF McpAbandons
<1>6. ASSUME NEW r \in Requests, AgentRefuses(r) PROVE OwnersMatch'
    BY <1>6 DEF AgentRefuses
<1>7. ASSUME NEW r \in Requests, AgentForwards(r) PROVE OwnersMatch'
    BY <1>7 DEF AgentForwards
<1>8. ASSUME NEW r \in Requests, AgentServesFile(r) PROVE OwnersMatch'
    BY <1>8 DEF AgentServesFile
<1>9. ASSUME NEW r \in Requests, AgentResponds(r) PROVE OwnersMatch'
    BY <1>9 DEF AgentResponds
<1>10. ASSUME NEW r \in Requests, OwnerSet(r) PROVE OwnersMatch'
    BY <1>10 DEF OwnerSet
<1>11. ASSUME NEW r \in Requests, OwnerSetFails(r) PROVE OwnersMatch'
    BY <1>11 DEF OwnerSetFails
<1>12. ASSUME NEW r \in Requests, CleanupPurges(r) PROVE OwnersMatch'
    BY <1>12 DEF CleanupPurges
<1>13. ASSUME NEW r \in Requests, CleanupEnds(r) PROVE OwnersMatch'
    BY <1>13 DEF CleanupEnds
<1>14. ASSUME NEW r \in Requests, OwnerDelete(r) PROVE OwnersMatch'
    BY <1>14 DEF OwnerDelete
<1>15. ASSUME NEW r \in Requests, HostServes(r) PROVE OwnersMatch'
    BY <1>15 DEF HostServes
<1>16. ASSUME NEW r \in Requests, HostRejects(r) PROVE OwnersMatch'
    BY <1>16 DEF HostRejects
<1>17. ASSUME NEW r \in Requests, HostFails(r) PROVE OwnersMatch'
    BY <1>17 DEF HostFails
<1>18. ASSUME NEW t \in Tiers, NEW r \in Requests, Arrive(t, r) PROVE OwnersMatch'
    BY <1>18 DEF Arrive
<1>19. ASSUME NEW t \in Tiers, NEW r \in Requests, Gate(t, r) PROVE OwnersMatch'
    BY <1>19 DEF Gate
<1>20. ASSUME NEW t \in Tiers, NEW r \in Requests, Unreachable(t, r) PROVE OwnersMatch'
    BY <1>20 DEF Unreachable
<1>21. ASSUME NEW t \in Tiers, Crash(t) PROVE OwnersMatch'
    BY <1>21 DEF Crash
<1>22. ASSUME NEW t \in Tiers, Restart(t) PROVE OwnersMatch'
    BY <1>22 DEF Restart
<1>23. ASSUME NEW t \in Tiers, HealthReadsGate(t) PROVE OwnersMatch'
    BY <1>23 DEF HealthReadsGate
<1>24. ASSUME NEW t \in Tiers, HealthReadsCount(t) PROVE OwnersMatch'
    BY <1>24 DEF HealthReadsCount
<1>25. ASSUME PauseAdmission PROVE OwnersMatch'
    BY <1>25 DEF PauseAdmission
<1>26. ASSUME ResumeAdmission PROVE OwnersMatch'
    BY <1>26 DEF ResumeAdmission
<1>27. ASSUME StartDrain PROVE OwnersMatch'
    BY <1>27 DEF StartDrain
<1>28. ASSUME EvaluateReports PROVE OwnersMatch'
    BY <1>28 DEF EvaluateReports
<1>29. ASSUME DrainTimesOut PROVE OwnersMatch'
    BY <1>29 DEF DrainTimesOut
<1>30. ASSUME DeadlinePasses PROVE OwnersMatch'
    BY <1>30 DEF DeadlinePasses
<1>31. ASSUME NEW r \in Requests, ClientLeaves(r) PROVE OwnersMatch'
    BY <1>31 DEF ClientLeaves
<1>32. ASSUME NEW r \in Requests, AgentAborts(r) PROVE OwnersMatch'
    BY <1>32 DEF AgentAborts
<1> HIDE DEF IInv, OwnersMatch, CallsFollow, StagesFollow, TargetsExist,
        TypeOK, Tiers, requestVars, sessionVars, drainVars, faultVars, Count,
        Uncount, End, GateOpens, Forward, Answered, OwnerAllows, HostOpens,
        HostChanges
<1> QED BY <1>1, <1>2, <1>3, <1>4, <1>5, <1>6, <1>7, <1>8, <1>9, <1>10, <1>11,
           <1>12, <1>13, <1>14, <1>15, <1>16, <1>17, <1>18, <1>19, <1>20,
           <1>21, <1>22, <1>23, <1>24, <1>25, <1>26, <1>27, <1>28, <1>29, <1>30,
           <1>31, <1>32
        DEF Next, McpStep, AgentStep, HostStep, DrainStep

\* The Agent passes on only what the owner row allows, or its own cleanup.
LEMMA OwnerOnlyKept == ASSUME IInv, Next PROVE OwnerOnly'
<1> USE DEF IInv, OwnerOnly, OwnersMatch, CallsFollow, StagesFollow,
        TargetsExist, TypeOK, Tiers, Entering, Kinds, requestVars,
        sessionVars, drainVars, faultVars, Count, Uncount, End, GateOpens,
        Forward, Answered, OwnerAllows, HostOpens, HostChanges
<1>1. ASSUME NEW r \in Requests, NEW k \in Kinds, NEW p \in Principals,
             NEW s \in Sessions \cup {None}, ClientCalls(r, k, p, s)
      PROVE OwnerOnly'
    BY <1>1 DEF ClientCalls
<1>2. ASSUME NEW r \in Requests, McpRefuses(r) PROVE OwnerOnly'
    BY <1>2 DEF McpRefuses
<1>3. ASSUME NEW r \in Requests, McpForwards(r) PROVE OwnerOnly'
    BY <1>3 DEF McpForwards
<1>4. ASSUME NEW r \in Requests, McpResponds(r) PROVE OwnerOnly'
    BY <1>4 DEF McpResponds
<1>5. ASSUME NEW r \in Requests, McpAbandons(r) PROVE OwnerOnly'
    BY <1>5 DEF McpAbandons
<1>6. ASSUME NEW r \in Requests, AgentRefuses(r) PROVE OwnerOnly'
    BY <1>6 DEF AgentRefuses
<1>7. ASSUME NEW r \in Requests, AgentForwards(r) PROVE OwnerOnly'
    BY <1>7 DEF AgentForwards
<1>8. ASSUME NEW r \in Requests, AgentServesFile(r) PROVE OwnerOnly'
    BY <1>8 DEF AgentServesFile
<1>9. ASSUME NEW r \in Requests, AgentResponds(r) PROVE OwnerOnly'
    BY <1>9 DEF AgentResponds
<1>10. ASSUME NEW r \in Requests, OwnerSet(r) PROVE OwnerOnly'
    BY <1>10 DEF OwnerSet
<1>11. ASSUME NEW r \in Requests, OwnerSetFails(r) PROVE OwnerOnly'
    BY <1>11 DEF OwnerSetFails
<1>12. ASSUME NEW r \in Requests, CleanupPurges(r) PROVE OwnerOnly'
    BY <1>12 DEF CleanupPurges
<1>13. ASSUME NEW r \in Requests, CleanupEnds(r) PROVE OwnerOnly'
    BY <1>13 DEF CleanupEnds
<1>14. ASSUME NEW r \in Requests, OwnerDelete(r) PROVE OwnerOnly'
    BY <1>14 DEF OwnerDelete
<1>15. ASSUME NEW r \in Requests, HostServes(r) PROVE OwnerOnly'
    BY <1>15 DEF HostServes
<1>16. ASSUME NEW r \in Requests, HostRejects(r) PROVE OwnerOnly'
    BY <1>16 DEF HostRejects
<1>17. ASSUME NEW r \in Requests, HostFails(r) PROVE OwnerOnly'
    BY <1>17 DEF HostFails
<1>18. ASSUME NEW t \in Tiers, NEW r \in Requests, Arrive(t, r) PROVE OwnerOnly'
    BY <1>18 DEF Arrive
<1>19. ASSUME NEW t \in Tiers, NEW r \in Requests, Gate(t, r) PROVE OwnerOnly'
    BY <1>19 DEF Gate
<1>20. ASSUME NEW t \in Tiers, NEW r \in Requests, Unreachable(t, r) PROVE OwnerOnly'
    BY <1>20 DEF Unreachable
<1>21. ASSUME NEW t \in Tiers, Crash(t) PROVE OwnerOnly'
    BY <1>21 DEF Crash
<1>22. ASSUME NEW t \in Tiers, Restart(t) PROVE OwnerOnly'
    BY <1>22 DEF Restart
<1>23. ASSUME NEW t \in Tiers, HealthReadsGate(t) PROVE OwnerOnly'
    BY <1>23 DEF HealthReadsGate
<1>24. ASSUME NEW t \in Tiers, HealthReadsCount(t) PROVE OwnerOnly'
    BY <1>24 DEF HealthReadsCount
<1>25. ASSUME PauseAdmission PROVE OwnerOnly'
    BY <1>25 DEF PauseAdmission
<1>26. ASSUME ResumeAdmission PROVE OwnerOnly'
    BY <1>26 DEF ResumeAdmission
<1>27. ASSUME StartDrain PROVE OwnerOnly'
    BY <1>27 DEF StartDrain
<1>28. ASSUME EvaluateReports PROVE OwnerOnly'
    BY <1>28 DEF EvaluateReports
<1>29. ASSUME DrainTimesOut PROVE OwnerOnly'
    BY <1>29 DEF DrainTimesOut
<1>30. ASSUME DeadlinePasses PROVE OwnerOnly'
    BY <1>30 DEF DeadlinePasses
<1>31. ASSUME NEW r \in Requests, ClientLeaves(r) PROVE OwnerOnly'
    BY <1>31 DEF ClientLeaves
<1>32. ASSUME NEW r \in Requests, AgentAborts(r) PROVE OwnerOnly'
    BY <1>32 DEF AgentAborts
<1> HIDE DEF IInv, OwnerOnly, OwnersMatch, CallsFollow, StagesFollow,
        TargetsExist, TypeOK, Tiers, Entering, Kinds, requestVars,
        sessionVars, drainVars, faultVars, Count, Uncount, End, GateOpens,
        Forward, Answered, OwnerAllows, HostOpens, HostChanges
<1> QED BY <1>1, <1>2, <1>3, <1>4, <1>5, <1>6, <1>7, <1>8, <1>9, <1>10, <1>11,
           <1>12, <1>13, <1>14, <1>15, <1>16, <1>17, <1>18, <1>19, <1>20,
           <1>21, <1>22, <1>23, <1>24, <1>25, <1>26, <1>27, <1>28, <1>29, <1>30,
           <1>31, <1>32
        DEF Next, McpStep, AgentStep, HostStep, DrainStep

\* Without deaths, failures and pauses the cleanup gets through.
LEMMA CleanupKept == ASSUME IInv, Next PROVE CleanupProgresses'
<1> USE DEF IInv, CleanupProgresses, Quiet, CallsFollow, StagesFollow,
        TargetsExist, TypeOK, Tiers, Entering, Kinds, requestVars,
        sessionVars, drainVars, faultVars, Count, Uncount, End, GateOpens,
        Forward, Answered, OwnerAllows, HostOpens, HostChanges
<1>1. ASSUME NEW r \in Requests, NEW k \in Kinds, NEW p \in Principals,
             NEW s \in Sessions \cup {None}, ClientCalls(r, k, p, s)
      PROVE CleanupProgresses'
    BY <1>1 DEF ClientCalls
<1>2. ASSUME NEW r \in Requests, McpRefuses(r) PROVE CleanupProgresses'
    BY <1>2 DEF McpRefuses
<1>3. ASSUME NEW r \in Requests, McpForwards(r) PROVE CleanupProgresses'
    BY <1>3 DEF McpForwards
<1>4. ASSUME NEW r \in Requests, McpResponds(r) PROVE CleanupProgresses'
    BY <1>4 DEF McpResponds
<1>5. ASSUME NEW r \in Requests, McpAbandons(r) PROVE CleanupProgresses'
    BY <1>5 DEF McpAbandons
<1>6. ASSUME NEW r \in Requests, AgentRefuses(r) PROVE CleanupProgresses'
    BY <1>6 DEF AgentRefuses
<1>7. ASSUME NEW r \in Requests, AgentForwards(r) PROVE CleanupProgresses'
    BY <1>7 DEF AgentForwards
<1>8. ASSUME NEW r \in Requests, AgentServesFile(r) PROVE CleanupProgresses'
    BY <1>8 DEF AgentServesFile
<1>9. ASSUME NEW r \in Requests, AgentResponds(r) PROVE CleanupProgresses'
    BY <1>9 DEF AgentResponds
<1>10. ASSUME NEW r \in Requests, OwnerSet(r) PROVE CleanupProgresses'
    BY <1>10 DEF OwnerSet
<1>11. ASSUME NEW r \in Requests, OwnerSetFails(r) PROVE CleanupProgresses'
    BY <1>11 DEF OwnerSetFails
<1>12. ASSUME NEW r \in Requests, CleanupPurges(r) PROVE CleanupProgresses'
    BY <1>12 DEF CleanupPurges
<1>13. ASSUME NEW r \in Requests, CleanupEnds(r) PROVE CleanupProgresses'
    BY <1>13 DEF CleanupEnds
<1>14. ASSUME NEW r \in Requests, OwnerDelete(r) PROVE CleanupProgresses'
    BY <1>14 DEF OwnerDelete
<1>15. ASSUME NEW r \in Requests, HostServes(r) PROVE CleanupProgresses'
    BY <1>15 DEF HostServes
<1>16. ASSUME NEW r \in Requests, HostRejects(r) PROVE CleanupProgresses'
    BY <1>16 DEF HostRejects
<1>17. ASSUME NEW r \in Requests, HostFails(r) PROVE CleanupProgresses'
    BY <1>17 DEF HostFails
<1>18. ASSUME NEW t \in Tiers, NEW r \in Requests, Arrive(t, r) PROVE CleanupProgresses'
    BY <1>18 DEF Arrive
<1>19. ASSUME NEW t \in Tiers, NEW r \in Requests, Gate(t, r) PROVE CleanupProgresses'
    BY <1>19 DEF Gate
<1>20. ASSUME NEW t \in Tiers, NEW r \in Requests, Unreachable(t, r)
      PROVE CleanupProgresses'
    BY <1>20 DEF Unreachable
<1>21. ASSUME NEW t \in Tiers, Crash(t) PROVE CleanupProgresses'
    BY <1>21 DEF Crash
<1>22. ASSUME NEW t \in Tiers, Restart(t) PROVE CleanupProgresses'
    BY <1>22 DEF Restart
<1>23. ASSUME NEW t \in Tiers, HealthReadsGate(t) PROVE CleanupProgresses'
    BY <1>23 DEF HealthReadsGate
<1>24. ASSUME NEW t \in Tiers, HealthReadsCount(t) PROVE CleanupProgresses'
    BY <1>24 DEF HealthReadsCount
<1>25. ASSUME PauseAdmission PROVE CleanupProgresses'
    BY <1>25 DEF PauseAdmission
<1>26. ASSUME ResumeAdmission PROVE CleanupProgresses'
    BY <1>26 DEF ResumeAdmission
<1>27. ASSUME StartDrain PROVE CleanupProgresses'
    BY <1>27 DEF StartDrain
<1>28. ASSUME EvaluateReports PROVE CleanupProgresses'
    BY <1>28 DEF EvaluateReports
<1>29. ASSUME DrainTimesOut PROVE CleanupProgresses'
    BY <1>29 DEF DrainTimesOut
<1>30. ASSUME DeadlinePasses PROVE CleanupProgresses'
    BY <1>30 DEF DeadlinePasses
<1>31. ASSUME NEW r \in Requests, ClientLeaves(r) PROVE CleanupProgresses'
    BY <1>31 DEF ClientLeaves
<1>32. ASSUME NEW r \in Requests, AgentAborts(r) PROVE CleanupProgresses'
    BY <1>32 DEF AgentAborts
<1> HIDE DEF IInv, CleanupProgresses, Quiet, CallsFollow, StagesFollow,
        TargetsExist, TypeOK, Tiers, Entering, Kinds, requestVars,
        sessionVars, drainVars, faultVars, Count, Uncount, End, GateOpens,
        Forward, Answered, OwnerAllows, HostOpens, HostChanges
<1> QED BY <1>1, <1>2, <1>3, <1>4, <1>5, <1>6, <1>7, <1>8, <1>9, <1>10, <1>11,
           <1>12, <1>13, <1>14, <1>15, <1>16, <1>17, <1>18, <1>19, <1>20,
           <1>21, <1>22, <1>23, <1>24, <1>25, <1>26, <1>27, <1>28, <1>29, <1>30,
           <1>31, <1>32
        DEF Next, McpStep, AgentStep, HostStep, DrainStep

\* So a session without an owner row is in the hands of its open, or purged.
LEMMA UnownedKept == ASSUME IInv, Next PROVE UnownedHasCause'
<1> USE DEF IInv, UnownedHasCause, HeldByOpen, CleanupProgresses, Quiet,
        CallsFollow, StagesFollow, TargetsExist, OwnersMatch, TypeOK, Tiers,
        Entering, Kinds, requestVars, sessionVars, drainVars, faultVars,
        Count, Uncount, End, GateOpens, Forward, Answered, OwnerAllows,
        HostOpens, HostChanges
<1>1. ASSUME NEW r \in Requests, NEW k \in Kinds, NEW p \in Principals,
             NEW s \in Sessions \cup {None}, ClientCalls(r, k, p, s)
      PROVE UnownedHasCause'
    BY <1>1 DEF ClientCalls
<1>2. ASSUME NEW r \in Requests, McpRefuses(r) PROVE UnownedHasCause'
    BY <1>2 DEF McpRefuses
<1>3. ASSUME NEW r \in Requests, McpForwards(r) PROVE UnownedHasCause'
    BY <1>3 DEF McpForwards
<1>4. ASSUME NEW r \in Requests, McpResponds(r) PROVE UnownedHasCause'
    BY <1>4 DEF McpResponds
<1>5. ASSUME NEW r \in Requests, McpAbandons(r) PROVE UnownedHasCause'
    BY <1>5 DEF McpAbandons
<1>6. ASSUME NEW r \in Requests, AgentRefuses(r) PROVE UnownedHasCause'
    BY <1>6 DEF AgentRefuses
<1>7. ASSUME NEW r \in Requests, AgentForwards(r) PROVE UnownedHasCause'
    BY <1>7 DEF AgentForwards
<1>8. ASSUME NEW r \in Requests, AgentServesFile(r) PROVE UnownedHasCause'
    BY <1>8 DEF AgentServesFile
<1>9. ASSUME NEW r \in Requests, AgentResponds(r) PROVE UnownedHasCause'
    BY <1>9 DEF AgentResponds
<1>10. ASSUME NEW r \in Requests, OwnerSet(r) PROVE UnownedHasCause'
    BY <1>10 DEF OwnerSet
<1>11. ASSUME NEW r \in Requests, OwnerSetFails(r) PROVE UnownedHasCause'
    BY <1>11 DEF OwnerSetFails
<1>12. ASSUME NEW r \in Requests, CleanupPurges(r) PROVE UnownedHasCause'
    BY <1>12 DEF CleanupPurges
<1>13. ASSUME NEW r \in Requests, CleanupEnds(r) PROVE UnownedHasCause'
    BY <1>13 DEF CleanupEnds
<1>14. ASSUME NEW r \in Requests, OwnerDelete(r) PROVE UnownedHasCause'
    BY <1>14 DEF OwnerDelete
<1>15. ASSUME NEW r \in Requests, HostServes(r) PROVE UnownedHasCause'
    BY <1>15 DEF HostServes
<1>16. ASSUME NEW r \in Requests, HostRejects(r) PROVE UnownedHasCause'
    BY <1>16 DEF HostRejects
<1>17. ASSUME NEW r \in Requests, HostFails(r) PROVE UnownedHasCause'
    BY <1>17 DEF HostFails
<1>18. ASSUME NEW t \in Tiers, NEW r \in Requests, Arrive(t, r) PROVE UnownedHasCause'
    BY <1>18 DEF Arrive
<1>19. ASSUME NEW t \in Tiers, NEW r \in Requests, Gate(t, r) PROVE UnownedHasCause'
    BY <1>19 DEF Gate
<1>20. ASSUME NEW t \in Tiers, NEW r \in Requests, Unreachable(t, r)
      PROVE UnownedHasCause'
    BY <1>20 DEF Unreachable
<1>21. ASSUME NEW t \in Tiers, Crash(t) PROVE UnownedHasCause'
    BY <1>21 DEF Crash
<1>22. ASSUME NEW t \in Tiers, Restart(t) PROVE UnownedHasCause'
    BY <1>22 DEF Restart
<1>23. ASSUME NEW t \in Tiers, HealthReadsGate(t) PROVE UnownedHasCause'
    BY <1>23 DEF HealthReadsGate
<1>24. ASSUME NEW t \in Tiers, HealthReadsCount(t) PROVE UnownedHasCause'
    BY <1>24 DEF HealthReadsCount
<1>25. ASSUME PauseAdmission PROVE UnownedHasCause'
    BY <1>25 DEF PauseAdmission
<1>26. ASSUME ResumeAdmission PROVE UnownedHasCause'
    BY <1>26 DEF ResumeAdmission
<1>27. ASSUME StartDrain PROVE UnownedHasCause'
    BY <1>27 DEF StartDrain
<1>28. ASSUME EvaluateReports PROVE UnownedHasCause'
    BY <1>28 DEF EvaluateReports
<1>29. ASSUME DrainTimesOut PROVE UnownedHasCause'
    BY <1>29 DEF DrainTimesOut
<1>30. ASSUME DeadlinePasses PROVE UnownedHasCause'
    BY <1>30 DEF DeadlinePasses
<1>31. ASSUME NEW r \in Requests, ClientLeaves(r) PROVE UnownedHasCause'
    BY <1>31 DEF ClientLeaves
<1>32. ASSUME NEW r \in Requests, AgentAborts(r) PROVE UnownedHasCause'
    BY <1>32 DEF AgentAborts
<1> HIDE DEF IInv, UnownedHasCause, HeldByOpen, CleanupProgresses, Quiet,
        CallsFollow, StagesFollow, TargetsExist, OwnersMatch, TypeOK, Tiers,
        Entering, Kinds, requestVars, sessionVars, drainVars, faultVars,
        Count, Uncount, End, GateOpens, Forward, Answered, OwnerAllows,
        HostOpens, HostChanges
<1> QED BY <1>1, <1>2, <1>3, <1>4, <1>5, <1>6, <1>7, <1>8, <1>9, <1>10, <1>11,
           <1>12, <1>13, <1>14, <1>15, <1>16, <1>17, <1>18, <1>19, <1>20,
           <1>21, <1>22, <1>23, <1>24, <1>25, <1>26, <1>27, <1>28, <1>29, <1>30,
           <1>31, <1>32
        DEF Next, McpStep, AgentStep, HostStep, DrainStep

-----------------------------------------------------------------------------
\* The theorems.

\* Nothing is under way at first.
LEMMA InitIInv == Init => IInv
<1> SUFFICES ASSUME Init PROVE IInv
    OBVIOUS
<1>1. \A t \in Tiers : CountedAt(t) = {}
    BY DEF Init, CountedAt, Counted
<1>2. CountersMatch
    BY <1>1, FS_EmptySet DEF Init, CountersMatch
<1>3. TypeOK
    BY DEF Init, TypeOK
<1>4. ReportsMatch /\ StagesFollow /\ CallsFollow /\ TargetsExist
    BY DEF Init, ReportsMatch, StagesFollow, CallsFollow, TargetsExist, Entering, Tiers, Kinds
<1>5. OwnersMatch /\ OwnerOnly /\ CleanupProgresses /\ UnownedHasCause
    BY DEF Init, OwnersMatch, OwnerOnly, CleanupProgresses, UnownedHasCause, Tiers
<1> QED
    BY <1>2, <1>3, <1>4, <1>5 DEF IInv

\* Every step of a handler, a fault or the updater keeps the invariant.
LEMMA NextIInv == IInv /\ [Next]_vars => IInv'
<1> SUFFICES ASSUME IInv, [Next]_vars PROVE IInv'
    OBVIOUS
<1>1. CASE Next
    BY <1>1, CountersKept, CountersAreNat, TypeKept, ReportsKept, StagesKept, CallsKept,
       TargetsKept, OwnersKept, OwnerOnlyKept, CleanupKept, UnownedKept DEF IInv
<1>2. CASE UNCHANGED vars
    BY <1>2 DEF vars, requestVars, sessionVars, drainVars, faultVars, IInv, TypeOK,
       CountersMatch, CountedAt, ReportsMatch, StagesFollow, CallsFollow, TargetsExist,
       OwnersMatch, OwnerOnly, CleanupProgresses, Quiet, UnownedHasCause, HeldByOpen
<1> QED
    BY <1>1, <1>2

\* The invariant holds in every reachable state.
LEMMA Invariance == Spec => []IInv
    BY InitIInv, NextIInv, PTL DEF Spec

\* Positions, counters, replies and reports stay in their domains; no counter of
\* a service is ever decremented below zero (the `finally` of its handler).
THEOREM TypeCorrect == Spec => []TypeOK
<1>1. IInv => TypeOK
    BY DEF IInv
<1> QED
    BY Invariance, <1>1, PTL

\* A service that reported itself drained has no handler behind its gate for as
\* long as the flag stays, for any number of requests (admission-gate.js, the
\* health routes, wait-admission-drain.mjs).
THEOREM DrainIsTruthfulHolds == Spec => []DrainIsTruthful
<1>1. IInv => DrainIsTruthful
    BY DEF IInv, ReportsMatch, DrainIsTruthful
<1> QED
    BY Invariance, <1>1, PTL

\* The Session Host acts in a session for an OAuth principal only if it opened
\* the session for that principal (requireSessionOwner of the Agent).
THEOREM OwnerOnlyHolds == Spec => []OwnerOnly
<1>1. IInv => OwnerOnly
    BY DEF IInv
<1> QED
    BY Invariance, <1>1, PTL

\* A failing owner database alone strands no session: closing and purging it
\* (the catch clause of the Agent's open route) succeeds.
THEOREM UnownedHasCauseHolds == Spec => []UnownedHasCause
<1>1. IInv => UnownedHasCause
    BY DEF IInv
<1> QED
    BY Invariance, <1>1, PTL
=============================================================================
