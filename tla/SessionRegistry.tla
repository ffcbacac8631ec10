--------------------------- MODULE SessionRegistry ---------------------------
(***************************************************************************)
(* The registry of terminal sessions: open, close, purge and transcript    *)
(* updates over the sessions table, the session.json files and tmux.       *)
(*                                                                         *)
(* TmuxSessionManager (apps/agent/src/tmux.js) admits opens through a      *)
(* promise chain, the gate; StateStore (apps/agent/src/state-store.js)     *)
(* saves a session by reading the row, awaiting a mkdir, writing the whole *)
(* row back, and rewriting session.json through a .part file, which all    *)
(* savers of a session share.  Actions are the code between two awaits, or *)
(* between two file operations of one await.  An open creates a fresh      *)
(* session id; here the open is named by the id it creates.                *)
(***************************************************************************)
EXTENDS Naturals, FiniteSets

CONSTANTS
    Sessions,         \* session ids, one for each open
    FullTranscripts,  \* sessions whose transcript reaches the per-session limit
    MaxActive,        \* DP_TERMINAL_MAX_ACTIVE
    Quota,            \* transcriptTotalMaxBytes, in per-session limits
    MaxEvents,        \* bound: close_terminal calls, transcript updates of readOutput,
                      \* failing removals of a directory and crashes of the host together
    MaxFaults         \* bound: tmux commands that fail with the session alive

ASSUME SessionsAssumption == IsFiniteSet(Sessions) /\ FullTranscripts \subseteq Sessions
ASSUME LimitAssumption == MaxActive \in Nat \ {0} /\ Quota \in Nat
ASSUME BoundAssumption == {MaxEvents, MaxFaults} \subseteq Nat

VARIABLES
    host,          \* "up", or "failed" when a start cannot read a session.json
    at,            \* at[k][s]: where the handler of kind k for s is suspended
    val,           \* val[k][s]: the session it will write back
    snap,          \* snap[o]: what an open that awaits its probes has listed
    gate,          \* the handler that holds openAdmission, or "free"
    pendingOpens,  \* slots reserved by opens that have not finished
    row,           \* the sessions table
    dir,           \* the sessions whose directory exists
    json, part,    \* session.json and session.json.part
    tmux,          \* the sessions whose tmux session exists
    purged,        \* history: how far the last purge() of each session came
    overlapped,    \* history: sessions whose session.json two saves wrote at once
    crashes,       \* history: how often the host has crashed
    events, faults

handlers == <<at, val>>
gating   == <<snap, gate, pendingOpens>>
files    == <<dir, json, part>>
panes    == <<tmux, faults>>
history  == <<purged, overlapped, crashes>>
vars     == <<host, handlers, gating, row, files, panes, history, events>>

None   == [state |-> "NONE", capture |-> "NONE"]
Empty  == [state |-> "EMPTY", capture |-> "NONE"]   \* a truncated file
Torn   == [state |-> "TORN", capture |-> "NONE"]    \* one text over a longer one
Values == [state : {"OPEN", "CLOSED"}, capture : {"ACTIVE", "STOPPED", "DEGRADED"}]
Kinds  == {"open", "close", "update", "purge"}
Stages == {"idle", "listed", "reserved", "killed", "read", "row", "part", "moved", "written",
           "deleted", "done", "failed"}

\* The stages at which an open holds a slot.
Slotted == {"reserved", "read", "row", "part", "moved", "written"}

OpenRows   == {s \in Sessions : row[s].state = "OPEN"}
ClosedRows == {s \in Sessions : row[s].state = "CLOSED"}

NoList == [open |-> {}, closed |-> {}, live |-> {}]

Move(k, s, from, to) == at[k][s] = from /\ at' = [at EXCEPT ![k][s] = to]

-----------------------------------------------------------------------------
Init ==
    /\ host = "up"
    /\ at = [k \in Kinds |-> [s \in Sessions |-> "idle"]]
    /\ val = [k \in Kinds |-> [s \in Sessions |-> None]]
    /\ snap = [s \in Sessions |-> NoList]
    /\ gate = "free"
    /\ pendingOpens = 0
    /\ row = [s \in Sessions |-> None]
    /\ dir = {}
    /\ json = [s \in Sessions |-> None]
    /\ part = [s \in Sessions |-> None]
    /\ tmux = {}
    /\ purged = [s \in Sessions |-> "never"]
    /\ overlapped = {}
    /\ crashes = 0
    /\ events = 0 /\ faults = 0

-----------------------------------------------------------------------------
(***************************************************************************)
(* reserveOpenSlot and open.                                               *)
(***************************************************************************)

\* What listing the table records for an open: the OPEN and CLOSED rows and, of
\* the OPEN ones, those whose tmux session lives.
Listed == [open |-> OpenRows, closed |-> ClosedRows, live |-> OpenRows \cap tmux]

\* A tmux command fails although its session is alive.
Fault == faults < MaxFaults /\ faults' = faults + 1

\* What the isAlive probes of the listed rows may answer: a session that dies
\* meanwhile is counted or not, and a failing probe counts as a dead session.
Probed(listed, active) ==
    \/ (listed.live \cap tmux) \subseteq active /\ UNCHANGED faults
    \/ ~((listed.live \cap tmux) \subseteq active) /\ Fault

\* kill-session, whose failure is ignored.
Kill(s) ==
    \/ tmux' = tmux \ {s} /\ UNCHANGED faults
    \/ s \in tmux /\ Fault /\ UNCHANGED tmux

\* Mutant: opens in progress are not counted.
RoomIgnoringPending(active, listed) ==
    /\ Cardinality(active) < MaxActive
    /\ Cardinality(listed.open) + 1 + Cardinality(listed.closed \cap FullTranscripts) <= Quota

\* The session limit and the transcript quota: OPEN rows and opens in progress
\* are charged a full transcript, CLOSED rows what they hold.
Room(active, listed) ==
    /\ Cardinality(active) + pendingOpens < MaxActive
    /\ Cardinality(listed.open) + pendingOpens + 1
         + Cardinality(listed.closed \cap FullTranscripts) <= Quota

\* The tail of reserveOpenSlot, with the gate held: session_limit,
\* transcript_quota, or a slot; the gate is unlocked either way.
Decide(o, from, listed) ==
    /\ \E active \in SUBSET listed.live :
          /\ Probed(listed, active)
          /\ \/ /\ Room(active, listed)
                /\ Move("open", o, from, "reserved")
                /\ pendingOpens' = pendingOpens + 1
             \/ /\ ~Room(active, listed)
                /\ Move("open", o, from, "failed")
                /\ UNCHANGED pendingOpens
    /\ gate' = "free"

\* With the gate, the table is listed; the probes of the OPEN rows take time,
\* but with none of them the decision falls in the same turn.
OpenList(o) ==
    /\ host = "up"
    /\ gate = "free"
    /\ IF OpenRows = {}
         THEN Decide(o, "idle", Listed) /\ UNCHANGED snap
         ELSE /\ Move("open", o, "idle", "listed")
              /\ snap' = [snap EXCEPT ![o] = Listed]
              /\ gate' = "open"
              /\ UNCHANGED <<pendingOpens, faults>>
    /\ UNCHANGED <<host, val, row, files, tmux, history, events>>

\* The probes have answered: the count of the listed sessions is combined with
\* the pendingOpens of now.
OpenDecide(o) ==
    /\ at["open"][o] = "listed"
    /\ Decide(o, "listed", snap[o])
    /\ snap' = [snap EXCEPT ![o] = NoList]
    /\ UNCHANGED <<host, val, row, files, tmux, history, events>>

\* The directory, the transcript and the tmux session are created, and save()
\* is called with the fresh session.
OpenCreate(o) ==
    /\ Move("open", o, "reserved", "read")
    /\ val' = [val EXCEPT !["open"][o] = [state |-> "OPEN", capture |-> "ACTIVE"]]
    /\ dir' = dir \cup {o}
    /\ tmux' = tmux \cup {o}
    /\ UNCHANGED <<host, gating, row, json, part, faults, history, events>>

-----------------------------------------------------------------------------
(***************************************************************************)
(* The session directory.                                                  *)
(***************************************************************************)
Savers == {"open", "close", "update"}

\* The handlers of s after their files were removed: who had one of them open
\* writes into a file that has no name any more.
Loosened(s, removed) ==
    [k \in Kinds |-> IF at[k][s] \in removed THEN "written" ELSE at[k][s]]

Event == events < MaxEvents /\ events' = events + 1

\* fs.rm of the session directory: with what is in it, or, when it fails, with
\* some of it.  "part" and "moved" are the savers that hold a file open.
RemoveDir(s, removed) ==
    /\ \/ removed = {"part", "moved"} /\ dir' = dir \ {s} /\ UNCHANGED events
       \/ s \in dir /\ UNCHANGED dir /\ Event
    /\ part' = IF "part" \in removed THEN [part EXCEPT ![s] = None] ELSE part
    /\ json' = IF "moved" \in removed THEN [json EXCEPT ![s] = None] ELSE json

\* Mutant: the slot is returned only by an open that succeeds.
OpenFailKeepsSlot(o) ==
    /\ at["open"][o] \in Slotted
    /\ val' = [val EXCEPT !["open"][o] = None]
    /\ Kill(o)
    /\ \E removed \in SUBSET {"part", "moved"} :
          /\ RemoveDir(o, removed)
          /\ at' = [k \in Kinds |-> [at[k] EXCEPT ![o] =
                      IF k = "open" THEN "failed" ELSE Loosened(o, removed)[k]]]
    /\ UNCHANGED <<host, gating, row, history>>

\* Mutant: the tmux session of a failed open is left running.
OpenFailKeepsTmux(o) ==
    /\ at["open"][o] \in Slotted
    /\ val' = [val EXCEPT !["open"][o] = None]
    /\ \E removed \in SUBSET {"part", "moved"} :
          /\ RemoveDir(o, removed)
          /\ at' = [k \in Kinds |-> [at[k] EXCEPT ![o] =
                      IF k = "open" THEN "failed" ELSE Loosened(o, removed)[k]]]
    /\ pendingOpens' = pendingOpens - 1
    /\ UNCHANGED <<host, snap, gate, row, panes, history>>

\* Any step after the reservation may fail: the tmux session is killed and the
\* directory removed, whether that succeeds or not, but a row that save() has
\* committed stays.
OpenFail(o) ==
    /\ at["open"][o] \in Slotted
    /\ val' = [val EXCEPT !["open"][o] = None]
    /\ Kill(o)
    /\ \E removed \in SUBSET {"part", "moved"} :
          /\ RemoveDir(o, removed)
          /\ at' = [k \in Kinds |-> [at[k] EXCEPT ![o] =
                      IF k = "open" THEN "failed" ELSE Loosened(o, removed)[k]]]
    /\ pendingOpens' = pendingOpens - 1
    /\ UNCHANGED <<host, snap, gate, row, history>>

-----------------------------------------------------------------------------
(***************************************************************************)
(* close: kill, then closeSession's read of the row.                       *)
(***************************************************************************)
CloseKill(s) ==
    /\ host = "up"
    /\ Event
    /\ row[s] # None
    /\ Move("close", s, "idle", "killed")
    /\ Kill(s)
    /\ UNCHANGED <<host, val, gating, row, files, history>>

\* closeSession throws on a missing row; a DEGRADED capture stays DEGRADED.
CloseRead(s) ==
    /\ Move("close", s, "killed", IF row[s] = None THEN "idle" ELSE "read")
    /\ val' = [val EXCEPT !["close"][s] =
                 IF row[s] = None THEN None
                 ELSE [state |-> "CLOSED",
                       capture |-> IF row[s].capture = "DEGRADED" THEN "DEGRADED" ELSE "STOPPED"]]
    /\ UNCHANGED <<host, gating, row, files, panes, history, events>>

\* updateTranscript, called by readOutput when it finds capture stopped or the
\* transcript missing.
UpdateRead(s) ==
    /\ host = "up"
    /\ Event
    /\ row[s] # None /\ row[s].capture # "DEGRADED"
    /\ Move("update", s, "idle", "read")
    /\ val' = [val EXCEPT !["update"][s] = [state |-> row[s].state, capture |-> "DEGRADED"]]
    /\ UNCHANGED <<host, gating, row, files, panes, history>>

-----------------------------------------------------------------------------
(***************************************************************************)
(* StateStore.save, shared by open, close and updateTranscript.            *)
(***************************************************************************)

\* mkdir, then an INSERT ... ON CONFLICT of the session read before the await.
SaveRow(k, s) ==
    /\ Move(k, s, "read", "row")
    /\ row' = [row EXCEPT ![s] = val[k][s]]
    /\ dir' = dir \cup {s}
    /\ UNCHANGED <<host, val, gating, json, part, panes, history, events>>

\* Mutant: session.json itself is opened for writing.
SaveInPlace(k, s) ==
    /\ s \in dir
    /\ Move(k, s, "row", "moved")
    /\ json' = [json EXCEPT ![s] = Empty]
    /\ UNCHANGED <<host, val, gating, row, dir, part, panes, history, events>>

\* writeFile opens and truncates the .part file, which has one name for all
\* savers of a session.
SavePart(k, s) ==
    /\ s \in dir
    /\ Move(k, s, "row", "part")
    /\ part' = [part EXCEPT ![s] = Empty]
    /\ overlapped' = IF \E other \in Savers : at[other][s] \in {"part", "moved", "written"}
                       THEN overlapped \cup {s} ELSE overlapped
    /\ UNCHANGED <<host, val, gating, row, dir, json, panes, purged, crashes, events>>

\* What a file holds after a text is written from its first byte on.
Written(old, new) == IF old \in {Empty, new} THEN {new} ELSE {new, Torn}

\* writeFile writes into the file it has opened, also when another saver has
\* renamed that to session.json since.
SaveWrite(k, s) ==
    /\ \/ /\ Move(k, s, "part", "written")
          /\ \E text \in Written(part[s], val[k][s]) : part' = [part EXCEPT ![s] = text]
          /\ UNCHANGED json
       \/ /\ Move(k, s, "moved", "written")
          /\ \E text \in Written(json[s], val[k][s]) : json' = [json EXCEPT ![s] = text]
          /\ UNCHANGED part
    /\ UNCHANGED <<host, val, gating, row, dir, panes, history, events>>

\* Where a handler goes when its save ends: an open keeps its final stage.
Ended(k) == IF k = "open" THEN "done" ELSE "idle"

\* rename of the .part file, whoever has written it; the handler answers.  The
\* savers that have it open go on with session.json.
SaveRename(k, s) ==
    /\ part[s] # None
    /\ at[k][s] = "written"
    /\ at' = [x \in Kinds |-> [at[x] EXCEPT ![s] =
                CASE x = k -> Ended(k)
                  [] x # k /\ @ = "part" -> "moved"
                  [] x # k /\ @ = "moved" -> "written"
                  [] OTHER -> @]]
    /\ val' = [val EXCEPT ![k][s] = None]
    /\ json' = [json EXCEPT ![s] = part[s]]
    /\ part' = [part EXCEPT ![s] = None]
    /\ pendingOpens' = IF k = "open" THEN pendingOpens - 1 ELSE pendingOpens
    /\ UNCHANGED <<host, snap, gate, row, dir, panes, history, events>>

\* The directory or the .part file is gone, or the disk fails: a close or an
\* update reports an error although its row is committed (an open: OpenFail).
SaveFails(k, s) ==
    /\ k # "open"
    /\ \E from \in {"read", "row", "part", "moved", "written"} : Move(k, s, from, "idle")
    /\ val' = [val EXCEPT ![k][s] = None]
    /\ UNCHANGED <<host, gating, row, files, panes, history, events>>

Save(k, s) ==
    SaveRow(k, s) \/ SavePart(k, s) \/ SaveWrite(k, s) \/ SaveRename(k, s) \/ SaveFails(k, s)

-----------------------------------------------------------------------------
(***************************************************************************)
(* purge, through the same gate as open.                                   *)
(***************************************************************************)
PurgeDelete(s) ==
    /\ host = "up"
    /\ gate = "free"
    /\ row[s].state = "CLOSED"
    /\ Move("purge", s, "idle", "deleted")
    /\ gate' = "purge"
    /\ row' = [row EXCEPT ![s] = None]
    /\ purged' = [purged EXCEPT ![s] = "begun"]
    /\ UNCHANGED <<host, val, snap, pendingOpens, files, panes, overlapped, crashes, events>>

\* Mutant: only the transcript is removed.
PurgeKeepsMetadata(s) ==
    /\ Move("purge", s, "deleted", "idle")
    /\ gate' = "free"
    /\ purged' = [purged EXCEPT ![s] = "acknowledged"]
    /\ UNCHANGED <<host, val, snap, pendingOpens, row, files, panes, overlapped, crashes, events>>

\* The removal of the directory: purge() answers when all of it is gone, and
\* throws when fs.rm does, with the row already deleted.
PurgeRemove(s) ==
    /\ at["purge"][s] = "deleted"
    /\ gate' = "free"
    /\ \E removed \in SUBSET {"part", "moved"} :
          /\ RemoveDir(s, removed)
          /\ at' = [k \in Kinds |-> [at[k] EXCEPT ![s] =
                      IF k = "purge" THEN "idle" ELSE Loosened(s, removed)[k]]]
    /\ purged' = [purged EXCEPT ![s] = IF s \in dir' THEN "failed" ELSE "acknowledged"]
    /\ UNCHANGED <<host, val, snap, pendingOpens, row, panes, overlapped, crashes>>

-----------------------------------------------------------------------------
ShellExit(s) ==
    /\ s \in tmux
    /\ tmux' = tmux \ {s}
    /\ UNCHANGED <<host, handlers, gating, row, files, faults, history, events>>

\* A session.json as importLegacySessions inserts it.
Legacy(j) == [state |-> j.state, capture |-> IF j.state = "CLOSED" THEN "STOPPED" ELSE "ACTIVE"]

\* Mutant: the import replaces the rows it finds.
ImportReplacing(s) == IF json[s] # None THEN Legacy(json[s]) ELSE row[s]

\* INSERT OR IGNORE: a session.json without a row becomes a row again.
Import(s) == IF row[s] = None /\ json[s] # None THEN Legacy(json[s]) ELSE row[s]

\* importLegacySessions parses the session.json of every directory, also of
\* those that have a row, and gives up on the first that is not JSON.
Readable == \A s \in Sessions : json[s] \notin {Empty, Torn}

\* A crash loses every handler, the gate and the pending slots; init() imports
\* the session directories before the host listens again.  tmux survives.
CrashAndRestart ==
    /\ Event
    /\ crashes' = crashes + 1
    /\ at' = [k \in Kinds |-> [s \in Sessions |->
                IF k = "open" /\ at[k][s] \notin {"idle", "done"} THEN "failed"
                ELSE IF k = "open" THEN at[k][s] ELSE "idle"]]
    /\ val' = [k \in Kinds |-> [s \in Sessions |-> None]]
    /\ snap' = [s \in Sessions |-> NoList]
    /\ gate' = "free"
    /\ pendingOpens' = 0
    /\ purged' = [s \in Sessions |-> IF purged[s] = "begun" THEN "failed" ELSE purged[s]]
    /\ IF Readable
         THEN host' = "up" /\ row' = [s \in Sessions |-> Import(s)]
         ELSE host' = "failed" /\ row' = row
    /\ UNCHANGED <<files, panes, overlapped>>

Next ==
    \/ \E s \in Sessions :
          \/ OpenList(s) \/ OpenDecide(s) \/ OpenCreate(s) \/ OpenFail(s)
          \/ CloseKill(s) \/ CloseRead(s)
          \/ UpdateRead(s)
          \/ \E k \in Savers : Save(k, s)
          \/ PurgeDelete(s) \/ PurgeRemove(s)
          \/ ShellExit(s)
    \/ CrashAndRestart

Spec == Init /\ [][Next]_vars

-----------------------------------------------------------------------------
(***************************************************************************)
(* Properties.                                                             *)
(***************************************************************************)

\* Type invariant of the registry.
TypeOK ==
    /\ host \in {"up", "failed"}
    /\ at \in [Kinds -> [Sessions -> Stages]]
    /\ val \in [Kinds -> [Sessions -> Values \cup {None}]]
    /\ snap \in [Sessions -> [open : SUBSET Sessions, closed : SUBSET Sessions, live : SUBSET Sessions]]
    /\ gate \in {"free", "open", "purge"}
    /\ pendingOpens \in Nat
    /\ row \in [Sessions -> Values \cup {None}]
    /\ dir \subseteq Sessions
    /\ json \in [Sessions -> Values \cup {None, Empty, Torn}]
    /\ part \in [Sessions -> Values \cup {None, Empty, Torn}]
    /\ tmux \subseteq Sessions
    /\ purged \in [Sessions -> {"never", "begun", "failed", "acknowledged"}]
    /\ overlapped \subseteq Sessions
    /\ crashes \in Nat
    /\ events \in 0..MaxEvents
    /\ faults \in 0..MaxFaults

\* What admission hands out comes back.  No slot leaks and none is returned twice:
\* pendingOpens counts exactly the opens between reserveOpenSlot and the release in
\* open's finally.  The gate is never left locked behind: who holds it is an open
\* that awaits its probes or a purge that awaits the removal of a directory, and
\* only one of them.
SlotsAreReturned ==
    /\ pendingOpens = Cardinality({o \in Sessions : at["open"][o] \in Slotted})
    /\ Cardinality({s \in Sessions : at["open"][s] = "listed"})
         + Cardinality({s \in Sessions : at["purge"][s] = "deleted"})
       = IF gate = "free" THEN 0 ELSE 1

Live == OpenRows \cap tmux

\* The limit that does hold when tmux answers truthfully: each open may overlook
\* the opens that finished during its probes, and no more, so the sessions that
\* live or are being opened never exceed twice MaxActive.
ActiveWithinTwice ==
    faults = 0 => Cardinality(Live \cup {o \in Sessions : at["open"][o] \in Slotted})
                    <= 2 * MaxActive

\* A live tmux session is one the registry knows as OPEN or an open still
\* works on; only a crash in the middle of an open, or a tmux that fails,
\* strands one.
LiveTmuxIsKnown ==
    \A s \in Sessions :
        s \in tmux => \/ row[s].state = "OPEN"
                   \/ at["open"][s] \in Slotted
                   \/ crashes > 0 \/ faults > 0

\* A session.json outlives its row only while purge() removes the directory after
\* the DELETE, or when that removal failed or was cut off by a crash; so a restart
\* can bring back no session but one whose purge was not acknowledged.
MetadataHasRow ==
    \A s \in Sessions :
        json[s] # None /\ row[s] = None => purged[s] \in {"begun", "failed"}

\* A session.json is whole whenever the host stops: the .part file and its rename
\* keep a save that is cut off, or that fails, from leaving half a file, on which
\* every later start would fail.  The exception is a session that two saves wrote at
\* once, through the same .part file.
MetadataIsWhole ==
    \A s \in Sessions : json[s] \in {Empty, Torn} => s \in overlapped

\* A CLOSED session becomes OPEN again, and a session whose last purge was
\* acknowledged has a row again, only through a save of what was read before the
\* close or the purge: no restart's import and no handler that starts later brings
\* one back.  (A purge that failed leaves it to the import.)
ReturnNeedsStaleSave ==
    [][\A s \in Sessions :
          \/ row[s].state = "CLOSED" /\ row'[s].state = "OPEN"
          \/ purged[s] = "acknowledged" /\ row[s] = None /\ row'[s] # None
          => \E k \in Savers : at[k][s] = "read" /\ val[k][s] = row'[s]]_vars

==============================================================================
