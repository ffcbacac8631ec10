---------------------------- MODULE RequestPath ----------------------------
(***************************************************************************)
(* The path of a client request through the three services of the bridge:  *)
(* the MCP server, the Agent behind it and the Session Host behind that    *)
(* (apps/mcp/src/server.js, apps/agent/src/server.js,                      *)
(* apps/session-host/src/server.js), with the three things that cut across *)
(* them: the admission gate (packages/core/src/admission-gate.js) that an  *)
(* update closes, the drain observation it then makes through the health   *)
(* routes (scripts/release/wait-admission-drain.mjs), and the record of    *)
(* which owner opened which terminal                                       *)
(* (apps/agent/src/session-owner-store.js).                                *)
(*                                                                         *)
(* A handler runs without interruption between two awaits, so every action *)
(* below is the code from one await to the next.  What the Session Host    *)
(* does inside a session is OperationLedger and SessionRegistry; whether a *)
(* credential is good is AuthLifecycle.  Here both are outcomes.           *)
(***************************************************************************)
EXTENDS Naturals, FiniteSets

CONSTANTS Requests,     \* client requests, each made once
          Owners,       \* OAuth owners
          Static,       \* the principal of the static token
          Sessions,     \* terminal session ids
          None,
          MaxMishaps,   \* process deaths, failed Session Host operations and
                        \* failed owner writes, together
          MaxPauses     \* updates

ASSUME RequestsAssumption == IsFiniteSet(Requests)
ASSUME PrincipalsAssumption == /\ Static \notin Owners
                               /\ None \notin Owners \cup {Static} \cup Sessions
ASSUME BoundsAssumption == /\ MaxMishaps \in Nat
                           /\ MaxPauses \in Nat

VARIABLES
    kind,      \* kind[r]: what the client asks for
    by,        \* by[r]: on whose authority
    target,    \* target[r]: the session it names, or the one it opened
    at,        \* at[t][r]: where the handler of r is in service t
    reply,     \* reply[t][r]: what t answered to the service that called it (what
               \* the client was told is not kept)
    call,      \* call[r]: the operation the Agent last asked of the Session Host
    inFlight,  \* inFlight[t]: inFlightRequests, the counter of service t
    up,        \* the services whose process runs
    flag,      \* the admission pause flag: absent or present
    sess,      \* sess[s]: the session at the Session Host
    creator,   \* creator[s]: for whom s was opened (in no database)
    owner,     \* owner[s]: session-owners.sqlite
    drain,     \* where the updater is in waitForAdmissionDrain
    probe,     \* probe[t]: the health report it is collecting from t
    deadline,  \* its deadline: ahead or passed
    crashes, hostFails, ownerFails, pauses

requestVars == <<kind, by, target, at, reply, call, inFlight>>
sessionVars == <<sess, creator, owner>>
drainVars == <<flag, drain, probe, deadline, pauses>>
faultVars == <<up, crashes, hostFails, ownerFails>>
vars == <<requestVars, sessionVars, drainVars, faultVars>>

Tiers == {"mcp", "agent", "host"}

\* The session routes that act inside a session (commands, output, input,
\* interrupt, operations) are one kind; so are the file routes, which end at
\* the Agent.
Kinds == {"open", "use", "close", "purge", "file"}

ASSUME KindsAssumption == None \notin Kinds

Principals == Owners \cup {Static}

\* Behind the gate: admitted, waiting for the service below, and waiting on
\* behalf of a client that has gone.
Behind == {"admitted", "waiting", "orphaned"}

\* A handler is counted before the gate.
Counted == {"counted"} \cup Behind

-----------------------------------------------------------------------------
TypeOK ==
    /\ kind \in [Requests -> Kinds \cup {None}]
    /\ by \in [Requests -> Principals \cup {None}]
    /\ target \in [Requests -> Sessions \cup {None}]
    /\ at \in [Tiers -> [Requests -> Counted \cup {"none", "sent"}]]
    /\ reply \in [Tiers -> [Requests -> {"none", "ok", "failed"}]]
    /\ call \in [Requests -> {"none", "open", "use", "close", "purge"}]
    /\ inFlight \in [Tiers -> Nat]
    /\ up \in SUBSET Tiers
    /\ flag \in {"absent", "present"}
    /\ sess \in [Sessions -> {"none", "live", "closed", "purged"}]
    /\ creator \in [Sessions -> Principals \cup {None}]
    /\ owner \in [Sessions -> Owners \cup {None}]
    /\ drain \in {"off", "probing", "drained"}
    /\ probe \in [Tiers -> {"none", "paused", "open", "clean", "busy"}]
    /\ deadline \in {"ahead", "passed"}
    /\ crashes \in 0..MaxMishaps
    /\ hostFails \in 0..MaxMishaps
    /\ ownerFails \in 0..MaxMishaps
    /\ pauses \in 0..MaxPauses

Init ==
    /\ kind = [r \in Requests |-> None]
    /\ by = [r \in Requests |-> None]
    /\ target = [r \in Requests |-> None]
    /\ at = [t \in Tiers |-> [r \in Requests |-> "none"]]
    /\ reply = [t \in Tiers |-> [r \in Requests |-> "none"]]
    /\ call = [r \in Requests |-> "none"]
    /\ inFlight = [t \in Tiers |-> 0]
    /\ up = Tiers
    /\ flag = "absent"
    /\ sess = [s \in Sessions |-> "none"]
    /\ creator = [s \in Sessions |-> None]
    /\ owner = [s \in Sessions |-> None]
    /\ drain = "off"
    /\ probe = [t \in Tiers |-> "none"]
    /\ deadline = "ahead"
    /\ crashes = 0
    /\ hostFails = 0
    /\ ownerFails = 0
    /\ pauses = 0

-----------------------------------------------------------------------------
\* What every handler does.

\* Mutant: the counter moves only once the gate has let the request in.
CountLater(t) == inFlight' = inFlight

\* A request reaches service t: it is counted before anything else is done
\* with it.
Count(t) == inFlight' = [inFlight EXCEPT ![t] = @ + 1]

Arrive(t, r) ==
    /\ t \in up
    /\ at[t][r] = "sent"
    /\ at' = [at EXCEPT ![t][r] = "counted"]
    /\ Count(t)
    /\ UNCHANGED <<kind, by, target, reply, call, sessionVars, drainVars, faultVars>>

\* A refused or a served request leaves through `finally`.
Uncount(t) == inFlight' = [inFlight EXCEPT ![t] = @ - 1]

\* The handler of r at t answers and ends.
End(t, r, answer) ==
    /\ at' = [at EXCEPT ![t][r] = "none"]
    /\ reply' = [reply EXCEPT ![t][r] = IF t = "mcp" THEN "none" ELSE answer]
    /\ Uncount(t)

\* isAdmissionPaused: the flag as lstat finds it.  The rest of the handler
\* runs later, when the answer of lstat is back.
GateOpens == flag = "absent"

\* The gate refuses, or lets the handler through.
Gate(t, r) ==
    /\ t \in up
    /\ at[t][r] = "counted"
    /\ IF GateOpens
       THEN /\ at' = [at EXCEPT ![t][r] = "admitted"]
            /\ UNCHANGED <<reply, inFlight>>
       ELSE End(t, r, "failed")
    /\ UNCHANGED <<kind, by, target, call, sessionVars, drainVars, faultVars>>

\* The handler of r at t awaits a call to the service below.
Forward(t, below, r) ==
    /\ at' = [at EXCEPT ![t][r] = "waiting", ![below][r] = "sent"]
    /\ reply' = [reply EXCEPT ![below][r] = "none"]
    /\ UNCHANGED inFlight

\* The service below has answered the call of the handler of r at t.
Answered(t, below, r) ==
    /\ t \in up
    /\ at[t][r] = "waiting"
    /\ reply[below][r] # "none"

-----------------------------------------------------------------------------
\* The MCP server.

\* A client's request: a tool call, or a download with a link issued before.
ClientCalls(r, k, p, s) ==
    /\ kind[r] = None
    /\ kind' = [kind EXCEPT ![r] = k]
    /\ by' = [by EXCEPT ![r] = p]
    /\ target' = [target EXCEPT ![r] = s]
    /\ (s # None) = (k \in {"use", "close", "purge"})
    /\ s # None => sess[s] # "none"
    /\ at' = [at EXCEPT !["mcp"][r] = "sent"]
    /\ UNCHANGED <<reply, call, inFlight, sessionVars, drainVars, faultVars>>

\* The token, the link or the scope of the tool is not accepted.
McpRefuses(r) ==
    /\ "mcp" \in up
    /\ at["mcp"][r] = "admitted"
    /\ End("mcp", r, "failed")
    /\ UNCHANGED <<kind, by, target, call, sessionVars, drainVars, faultVars>>

\* AgentClient.request, with the signed context of an OAuth principal.
McpForwards(r) ==
    /\ "mcp" \in up
    /\ at["mcp"][r] = "admitted"
    /\ Forward("mcp", "agent", r)
    /\ UNCHANGED <<kind, by, target, call, sessionVars, drainVars, faultVars>>

McpResponds(r) ==
    /\ Answered("mcp", "agent", r)
    /\ End("mcp", r, reply["agent"][r])
    /\ UNCHANGED <<kind, by, target, call, sessionVars, drainVars, faultVars>>

\* The client goes away in the middle of a request: the response closes, which
\* aborts a transfer and closes the transport of a tool call.  (Before the call
\* to the Agent nothing depends on it.)
ClientLeaves(r) ==
    /\ at["mcp"][r] = "waiting"
    /\ at' = [at EXCEPT !["mcp"][r] = "orphaned"]
    /\ UNCHANGED <<kind, by, target, reply, call, inFlight, sessionVars, drainVars, faultVars>>

\* The handler ends without an answer while the Agent goes on with the call: the
\* pipeline of a download rejects, and handleRequest of a closed transport may
\* resolve.  It need not: then the request stays counted until the process ends.
McpAbandons(r) ==
    /\ "mcp" \in up
    /\ at["mcp"][r] = "orphaned"
    /\ End("mcp", r, "failed")
    /\ UNCHANGED <<kind, by, target, call, sessionVars, drainVars, faultVars>>

-----------------------------------------------------------------------------
\* The Agent.

\* Mutant: a session without an owner row is anybody's.
OwnerAllowsUnowned(r) ==
    (by[r] \in Owners /\ target[r] # None) => owner[target[r]] \in {by[r], None}

\* requireSessionOwner; the routes without a session are not asked.
OwnerAllows(r) ==
    (by[r] \in Owners /\ target[r] # None) => owner[target[r]] = by[r]

\* The credential, the signed context (expired, or for another request), the
\* scope or the owner is not accepted.
AgentRefuses(r) ==
    /\ "agent" \in up
    /\ at["agent"][r] = "admitted"
    /\ End("agent", r, "failed")
    /\ UNCHANGED <<kind, by, target, call, sessionVars, drainVars, faultVars>>

\* A session route passes the call on to the Session Host.
AgentForwards(r) ==
    /\ "agent" \in up
    /\ at["agent"][r] = "admitted"
    /\ kind[r] # "file"
    /\ OwnerAllows(r)
    /\ call' = [call EXCEPT ![r] = kind[r]]
    /\ Forward("agent", "host", r)
    /\ UNCHANGED <<kind, by, target, sessionVars, drainVars, faultVars>>

\* A file route does its work in the Agent, as fast as the client reads or
\* sends: a client that stalls holds it up.
AgentServesFile(r) ==
    /\ "agent" \in up
    /\ at["agent"][r] = "admitted"
    /\ kind[r] = "file"
    /\ End("agent", r, "ok")
    /\ UNCHANGED <<kind, by, target, call, sessionVars, drainVars, faultVars>>

\* The connection of a file route breaks, because the MCP server has aborted
\* its call or has died: the pipeline rejects.
AgentAborts(r) ==
    /\ "agent" \in up
    /\ at["agent"][r] = "admitted"
    /\ kind[r] = "file"
    /\ at["mcp"][r] \in {"orphaned", "none"}
    /\ End("agent", r, "failed")
    /\ UNCHANGED <<kind, by, target, call, sessionVars, drainVars, faultVars>>

\* Nothing is left to do after the call: a session route other than purge, an
\* open for the static principal, a call that failed.
AgentResponds(r) ==
    /\ Answered("agent", "host", r)
    /\ \/ kind[r] \in {"use", "close"}
       \/ call[r] = "open" /\ by[r] = Static
       \/ call[r] = kind[r] /\ reply["host"][r] = "failed"
    /\ End("agent", r, reply["host"][r])
    /\ UNCHANGED <<kind, by, target, call, sessionVars, drainVars, faultVars>>

\* The session is open: sessionOwners.set.
OwnerSet(r) ==
    /\ Answered("agent", "host", r)
    /\ reply["host"][r] = "ok"
    /\ call[r] = "open"
    /\ by[r] \in Owners
    /\ owner' = [owner EXCEPT ![target[r]] = by[r]]
    /\ End("agent", r, "ok")
    /\ UNCHANGED <<kind, by, target, call, sess, creator, drainVars, faultVars>>

\* Mutant: the session is purged without being closed first.
OwnerSetFailsPurges(r) ==
    /\ Answered("agent", "host", r)
    /\ reply["host"][r] = "ok"
    /\ call[r] = "open"
    /\ by[r] \in Owners
    /\ crashes + hostFails + ownerFails < MaxMishaps
    /\ ownerFails' = ownerFails + 1
    /\ call' = [call EXCEPT ![r] = "purge"]
    /\ Forward("agent", "host", r)
    /\ UNCHANGED <<kind, by, target, sessionVars, drainVars, up, crashes, hostFails>>

\* sessionOwners.set throws: the Agent closes the session it cannot record,
\* and then purges it.
OwnerSetFails(r) ==
    /\ Answered("agent", "host", r)
    /\ reply["host"][r] = "ok"
    /\ call[r] = "open"
    /\ by[r] \in Owners
    /\ crashes + hostFails + ownerFails < MaxMishaps
    /\ ownerFails' = ownerFails + 1
    /\ call' = [call EXCEPT ![r] = "close"]
    /\ Forward("agent", "host", r)
    /\ UNCHANGED <<kind, by, target, sessionVars, drainVars, up, crashes, hostFails>>

\* Whatever the close answered, the purge is tried.
CleanupPurges(r) ==
    /\ Answered("agent", "host", r)
    /\ kind[r] = "open"
    /\ call[r] = "close"
    /\ call' = [call EXCEPT ![r] = "purge"]
    /\ Forward("agent", "host", r)
    /\ UNCHANGED <<kind, by, target, sessionVars, drainVars, faultVars>>

\* Whatever the purge answered, the open is reported as failed.
CleanupEnds(r) ==
    /\ Answered("agent", "host", r)
    /\ kind[r] = "open"
    /\ call[r] = "purge"
    /\ End("agent", r, "failed")
    /\ UNCHANGED <<kind, by, target, call, sessionVars, drainVars, faultVars>>

\* A purge succeeded: sessionOwners.delete, which may throw.
OwnerDelete(r) ==
    /\ Answered("agent", "host", r)
    /\ reply["host"][r] = "ok"
    /\ kind[r] = "purge"
    /\ \/ /\ owner' = [owner EXCEPT ![target[r]] = None]
          /\ End("agent", r, "ok")
          /\ UNCHANGED ownerFails
       \/ /\ crashes + hostFails + ownerFails < MaxMishaps
          /\ ownerFails' = ownerFails + 1
          /\ End("agent", r, "failed")
          /\ UNCHANGED owner
    /\ UNCHANGED <<kind, by, target, call, sess, creator, drainVars, up, crashes, hostFails>>

-----------------------------------------------------------------------------
\* The Session Host serves an admitted call.

HostOpens(r, s) ==
    /\ call[r] = "open"
    /\ sess[s] = "none"
    /\ sess' = [sess EXCEPT ![s] = "live"]
    /\ creator' = [creator EXCEPT ![s] = by[r]]
    /\ target' = [target EXCEPT ![r] = s]
    /\ End("host", r, "ok")

\* A session that is closed can be read and closed again; purge wants it
\* closed.
HostChanges(r) ==
    /\ target[r] # None
    /\ \/ /\ call[r] = "use"
          /\ sess[target[r]] \in {"live", "closed"}
          /\ UNCHANGED sess
       \/ /\ call[r] = "close"
          /\ sess[target[r]] \in {"live", "closed"}
          /\ sess' = [sess EXCEPT ![target[r]] = "closed"]
       \/ /\ call[r] = "purge"
          /\ sess[target[r]] = "closed"
          /\ sess' = [sess EXCEPT ![target[r]] = "purged"]
    /\ End("host", r, "ok")
    /\ UNCHANGED <<target, creator>>

HostServes(r) ==
    /\ "host" \in up
    /\ at["host"][r] = "admitted"
    /\ HostChanges(r) \/ \E s \in Sessions : HostOpens(r, s)
    /\ UNCHANGED <<kind, by, call, owner, drainVars, faultVars>>

\* The session does not exist, or is not closed; a session limit is reached.
HostRejects(r) ==
    /\ "host" \in up
    /\ at["host"][r] = "admitted"
    /\ call[r] # "open" =>
        \/ sess[target[r]] = "purged"
        \/ call[r] = "purge" /\ sess[target[r]] = "live"
        \/ call[r] = "use" /\ sess[target[r]] = "closed"
    /\ End("host", r, "failed")
    /\ UNCHANGED <<kind, by, target, call, sessionVars, drainVars, faultVars>>

\* tmux or state.sqlite fails.
HostFails(r) ==
    /\ "host" \in up
    /\ at["host"][r] = "admitted"
    /\ crashes + hostFails + ownerFails < MaxMishaps
    /\ hostFails' = hostFails + 1
    /\ End("host", r, "failed")
    /\ UNCHANGED <<kind, by, target, call, sessionVars, drainVars, up, crashes, ownerFails>>

-----------------------------------------------------------------------------
\* Process deaths.  The caller of a dead service sees its connection break; the
\* services below it go on with what they were asked.

\* The handlers and the counter of t are its memory.
Crash(t) ==
    /\ t \in up
    /\ crashes + hostFails + ownerFails < MaxMishaps
    /\ crashes' = crashes + 1
    /\ up' = up \ {t}
    /\ reply' = [reply EXCEPT ![t] = [r \in Requests |->
                    IF t = "mcp" \/ at[t][r] = "none" THEN reply[t][r] ELSE "failed"]]
    /\ at' = [at EXCEPT ![t] = [r \in Requests |-> "none"]]
    /\ inFlight' = [inFlight EXCEPT ![t] = 0]
    /\ probe' = [probe EXCEPT ![t] = IF @ \in {"paused", "open"} THEN "busy" ELSE @]
    /\ UNCHANGED <<kind, by, target, call, sessionVars, flag, drain, deadline, pauses,
                   hostFails, ownerFails>>

\* systemd starts a tier that died again (Restart=on-failure).
Restart(t) ==
    /\ t \notin up
    /\ up' = up \cup {t}
    /\ UNCHANGED <<requestVars, sessionVars, drainVars, crashes, hostFails, ownerFails>>

\* A call to a service that is down is answered by the connection.
Unreachable(t, r) ==
    /\ t \notin up
    /\ at[t][r] = "sent"
    /\ at' = [at EXCEPT ![t][r] = "none"]
    /\ reply' = [reply EXCEPT ![t][r] = IF t = "mcp" THEN "none" ELSE "failed"]
    /\ UNCHANGED <<kind, by, target, call, inFlight, sessionVars, drainVars, faultVars>>

-----------------------------------------------------------------------------
\* The updater: pause, observe the drain, resume.

PauseAdmission ==
    /\ flag = "absent"
    /\ drain = "off"
    /\ pauses < MaxPauses
    /\ pauses' = pauses + 1
    /\ flag' = "present"
    /\ UNCHANGED <<requestVars, sessionVars, drain, probe, deadline, faultVars>>

\* The update is over and its observation of no further use.
ResumeAdmission ==
    /\ flag = "present"
    /\ drain # "probing"
    /\ flag' = "absent"
    /\ drain' = "off"
    /\ probe' = [t \in Tiers |-> "none"]
    /\ UNCHANGED <<requestVars, sessionVars, deadline, pauses, faultVars>>

\* waitForAdmissionDrain sets its deadline and sends the three probes.
StartDrain ==
    /\ drain = "off"
    /\ flag = "present"
    /\ drain' = "probing"
    /\ probe' = [t \in Tiers |-> "none"]
    /\ UNCHANGED <<requestVars, sessionVars, flag, deadline, pauses, faultVars>>

\* GET /health awaits the gate ...
HealthReadsGate(t) ==
    /\ drain = "probing"
    /\ probe[t] = "none"
    /\ probe' = [probe EXCEPT ![t] = IF t \notin up THEN "busy"
                                     ELSE IF flag = "present" THEN "paused" ELSE "open"]
    /\ UNCHANGED <<requestVars, sessionVars, flag, drain, deadline, pauses, faultVars>>

\* ... and reads the counter when it has the answer.
HealthReadsCount(t) ==
    /\ drain = "probing"
    /\ probe[t] \in {"paused", "open"}
    /\ probe' = [probe EXCEPT ![t] = IF @ = "paused" /\ inFlight[t] = 0
                                     THEN "clean" ELSE "busy"]
    /\ UNCHANGED <<requestVars, sessionVars, flag, drain, deadline, pauses, faultVars>>

\* The deadline passes.
DeadlinePasses ==
    /\ drain = "probing"
    /\ deadline = "ahead"
    /\ deadline' = "passed"
    /\ UNCHANGED <<requestVars, sessionVars, flag, drain, probe, pauses, faultVars>>

Reported(t) == probe[t] \in {"clean", "busy"}


\* All reports are in: drained, or another round if there is time left.
EvaluateReports ==
    /\ drain = "probing"
    /\ \A t \in Tiers : Reported(t)
    /\ IF \A t \in Tiers : probe[t] = "clean"
       THEN drain' = "drained" /\ UNCHANGED probe
       ELSE /\ probe' = [t \in Tiers |-> "none"]
            /\ drain' = IF deadline = "passed" THEN "off" ELSE drain
    /\ deadline' = "ahead"
    /\ UNCHANGED <<requestVars, sessionVars, flag, pauses, faultVars>>

\* A report is missing when the deadline passes: its timer ends the round, and
\* there is no other.
DrainTimesOut ==
    /\ drain = "probing"
    /\ deadline = "passed"
    /\ \E t \in Tiers : ~Reported(t)
    /\ drain' = "off"
    /\ probe' = [t \in Tiers |-> "none"]
    /\ deadline' = "ahead"
    /\ UNCHANGED <<requestVars, sessionVars, flag, pauses, faultVars>>

-----------------------------------------------------------------------------
\* What a handler does by itself: not the body of a transfer, which goes on
\* with the client, nor the end of a tool call whose client has gone.
AgentStep(r) ==
    \/ AgentRefuses(r) \/ AgentForwards(r) \/ AgentAborts(r) \/ AgentResponds(r)
    \/ OwnerSet(r) \/ OwnerSetFails(r) \/ CleanupPurges(r) \/ CleanupEnds(r)
    \/ OwnerDelete(r)

McpStep(r) == McpRefuses(r) \/ McpForwards(r) \/ McpResponds(r)

HostStep(r) == HostServes(r) \/ HostRejects(r) \/ HostFails(r)

\* The updater's own steps, beside the answers of the services.
DrainStep == EvaluateReports \/ DrainTimesOut

Next ==
    \/ \E r \in Requests :
        \/ \E k \in Kinds, p \in Principals, s \in Sessions \cup {None} : ClientCalls(r, k, p, s)
        \/ McpStep(r) \/ AgentStep(r) \/ HostStep(r)
        \/ ClientLeaves(r) \/ McpAbandons(r) \/ AgentServesFile(r)
        \/ \E t \in Tiers : Arrive(t, r) \/ Gate(t, r) \/ Unreachable(t, r)
    \/ \E t \in Tiers : Crash(t) \/ Restart(t) \/ HealthReadsGate(t) \/ HealthReadsCount(t)
    \/ PauseAdmission \/ ResumeAdmission \/ StartDrain \/ DeadlinePasses \/ DrainStep

Spec == Init /\ [][Next]_vars

\* Each service goes on with the requests it has and systemd restarts it; time
\* passes and the updater's loop runs.  That a Session Host operation ends is
\* assumed (tmux commands have no time limit of their own).  A probe need not be
\* answered, a client need neither call, read nor leave, a handler whose client
\* has gone need not end, and an updater need neither pause nor resume.
Fairness ==
    /\ \A r \in Requests :
        /\ WF_vars(McpStep(r)) /\ WF_vars(AgentStep(r)) /\ WF_vars(HostStep(r))
        /\ \A t \in Tiers : WF_vars(Arrive(t, r) \/ Gate(t, r) \/ Unreachable(t, r))
    /\ \A t \in Tiers : WF_vars(Restart(t))
    /\ WF_vars(DeadlinePasses) /\ WF_vars(DrainStep)

FairSpec == Spec /\ Fairness

-----------------------------------------------------------------------------
\* A report of a drained service stays true for as long as the flag stays:
\* behind a report of "paused, nothing in flight" no handler is past that
\* service's gate, whatever it was doing when the flag was created and however
\* the probes and the requests interleaved (the request is counted before the
\* gate is read; the report reads the gate before the counter).
DrainIsTruthful ==
    \A t \in Tiers : probe[t] = "clean" =>
        /\ flag = "present"
        /\ \A r \in Requests : at[t][r] \notin Behind

\* What the Session Host is asked to do in a session for an OAuth principal
\* concerns a session it opened for that principal.
OwnerOnly ==
    \A r \in Requests :
        (/\ at["host"][r] # "none"
         /\ call[r] # "open"
         /\ by[r] \in Owners) => creator[target[r]] = by[r]

\* The request that opened s still runs in the Agent.
HeldByOpen(s) == \E r \in Requests :
    kind[r] = "open" /\ target[r] = s /\ at["agent"][r] = "waiting"

\* A session opened for an OAuth principal that has no owner row, which no
\* OAuth principal can reach any more, is still in the hands of the request
\* that opened it, or a process died, the Session Host failed, or an update
\* closed the gate under the cleanup.  A failing owner database alone leaves
\* none behind: the session is closed and purged.
UnownedHasCause ==
    \A s \in Sessions :
        (/\ sess[s] \in {"live", "closed"}
         /\ creator[s] \in Owners
         /\ owner[s] = None)
        => HeldByOpen(s) \/ crashes > 0 \/ hostFails > 0 \/ pauses > 0

\* The handlers whose client has gone, and the transfers whose client is there
\* and may stall.
Orphans   == {r \in Requests : at["mcp"][r] = "orphaned"}
Transfers == {r \in Requests : kind[r] = "file" /\ at["mcp"][r] = "waiting"}

\* The Session Host has nothing in flight, the Agent only transfers that a client
\* holds up, and the MCP server those and requests whose client has gone.
OnlyClientsHold ==
    /\ inFlight["host"] = 0
    /\ inFlight["agent"] <= Cardinality(Transfers)
    /\ inFlight["mcp"] <= Cardinality(Transfers \cup Orphans)

=============================================================================
