------------------------ MODULE SessionRegistryProofs ------------------------
(***************************************************************************)
(* The safety of the session registry, for any number of sessions, every   *)
(* limit and any number of closes, updates, crashes and failures.          *)
(*                                                                         *)
(* The properties rest on when a session id means nothing yet (FreshIds),  *)
(* on a dead tmux session staying dead behind a close (DeadBehindClose),   *)
(* on what a save in progress may find (SavesFindRows, FilesAreHeld), on   *)
(* what it does to session.json as long as it is alone (AloneIsWhole), and *)
(* on what an open that awaits its probes can have overlooked              *)
(* (OverlookedIsBounded).                                                  *)
(***************************************************************************)
EXTENDS SessionRegistry, TLAPS, FiniteSetTheorems

\* The opens that hold a slot, those that wait for their probes, and the purges
\* that wait for the removal of a directory.
Opening == {o \in Sessions : at["open"][o] \in Slotted}
Probing == {s \in Sessions : at["open"][s] = "listed"}
Purging == {s \in Sessions : at["purge"][s] = "deleted"}

\* Nobody but its open knows a session id before the open has saved its row.
FreshIds ==
    \A s \in Sessions :
        /\ at["open"][s] \in {"idle", "listed", "reserved", "read"} =>
              /\ row[s] = None /\ json[s] = None
              /\ \A k \in Kinds \ {"open"} : at[k][s] = "idle"
        /\ at["open"][s] \in {"idle", "listed", "reserved"} => s \notin tmux

\* The stages of a save, and those at which it writes a file or has written it.
Saving == {"read", "row", "part", "moved", "written"}
Writing == {"part", "moved", "written"}

\* What a suspended save will write.
SavesHaveValues ==
    \A s \in Sessions :
        /\ \A k \in Savers : at[k][s] \in Saving => val[k][s] # None
        /\ at["open"][s] \in Saving => val["open"][s].state = "OPEN"
        /\ at["close"][s] \in Saving => val["close"][s].state = "CLOSED"

\* A crash in the middle of its open strands a tmux session: no row names it
\* and no handler ever will.
Stranded(s) ==
    /\ crashes > 0 /\ at["open"][s] = "failed"
    /\ row[s] = None /\ json[s] = None
    /\ \A k \in Kinds \ {"open"} : at[k][s] = "idle"

\* As long as tmux obeys: a live session has an OPEN row, or its open is about
\* to save it, or it is stranded; and a session that was killed stays dead for
\* the close that killed it and for what was read when it was CLOSED.
DeadBehindClose ==
    faults = 0 =>
        \A s \in tmux :
            /\ row[s].state = "OPEN" \/ at["open"][s] = "read" \/ Stranded(s)
            /\ at["close"][s] = "idle"
            /\ at["update"][s] = "read" => val["update"][s].state = "OPEN"

\* A save that still has its directory or its .part file has its row, or the
\* directory was left by a purge that has not answered or has failed.
SavesFindRows ==
    \A s \in Sessions, k \in Savers :
        \/ at[k][s] = "row" /\ s \in dir
        \/ at[k][s] \in Writing /\ (s \in dir \/ part[s] # None)
        => row[s] # None \/ purged[s] \in {"begun", "failed"}

\* The file that a save has open is there.
FilesAreHeld ==
    \A s \in Sessions, k \in Savers :
        /\ at[k][s] = "part" => part[s] # None
        /\ at[k][s] = "moved" => json[s] # None

\* As long as no two saves have written at once, a save finds the .part file as
\* it has left it, or not at all, and nobody writes into session.json.
AloneIsWhole ==
    \A s \in Sessions \ overlapped :
        /\ \A k, other \in Savers : at[k][s] \in Writing /\ at[other][s] \in Writing => k = other
        /\ \A k \in Savers :
              /\ at[k][s] # "moved"
              /\ at[k][s] = "part" => part[s] = Empty
              /\ at[k][s] = "written" => part[s] \in {None, val[k][s]}
        /\ json[s] \notin {Empty, Torn}

\* The sessions that live or are being opened.
Counting == Live \cup Opening

\* The slots are within the limit, and what an open that awaits its probes has
\* not listed was being opened when it listed: no more than the limit.
OverlookedIsBounded ==
    /\ pendingOpens <= MaxActive
    /\ faults = 0 => \A o \in Probing : Cardinality(Counting \ snap[o].live) <= MaxActive

\* The inductive invariant.
IInv ==
    /\ TypeOK
    /\ SlotsAreReturned
    /\ FreshIds
    /\ SavesHaveValues
    /\ DeadBehindClose
    /\ SavesFindRows
    /\ FilesAreHeld
    /\ AloneIsWhole
    /\ MetadataHasRow
    /\ OverlookedIsBounded
    /\ ActiveWithinTwice

USE SessionsAssumption, LimitAssumption, BoundAssumption

-----------------------------------------------------------------------------
\* What the choices inside an open come to.

\* reserveOpenSlot has given o a slot or refused it, and the gate is unlocked.
Decided(o) ==
    /\ \/ at' = [at EXCEPT !["open"][o] = "reserved"] /\ pendingOpens' = pendingOpens + 1
       \/ at' = [at EXCEPT !["open"][o] = "failed"] /\ pendingOpens' = pendingOpens
    /\ gate' = "free"

\* Or o has listed the table and waits for its probes.
Waits(o) ==
    /\ at' = [at EXCEPT !["open"][o] = "listed"] /\ pendingOpens' = pendingOpens
    /\ gate' = "open"

\* Nothing but the open's own position, the gate and the failures has changed.
Elsewhere ==
    /\ faults' \in 0..MaxFaults /\ faults <= faults'
    /\ UNCHANGED <<host, val, row, dir, json, part, tmux, purged, overlapped, crashes, events>>

\* The tail of reserveOpenSlot.
LEMMA DecideEffect ==
    ASSUME TypeOK, NEW o \in Sessions, NEW from, NEW listed, Decide(o, from, listed)
    PROVE  /\ at["open"][o] = from
           /\ Decided(o)
           /\ faults' \in 0..MaxFaults /\ faults <= faults'
    BY DEF Decide, Probed, Fault, Move, TypeOK, Decided

\* An open that lists has decided at once, or waits for its probes with the gate.
LEMMA ListEffect ==
    ASSUME TypeOK, NEW o \in Sessions, OpenList(o)
    PROVE  /\ at["open"][o] = "idle" /\ gate = "free"
           /\ \/ Decided(o) /\ snap' = snap
              \/ Waits(o) /\ snap' = [snap EXCEPT ![o] = Listed]
           /\ Elsewhere
<1>1. CASE OpenRows = {}
    BY <1>1, DecideEffect DEF OpenList, Elsewhere, files, history
<1>2. CASE OpenRows # {}
    BY <1>2 DEF OpenList, Move, TypeOK, Waits, Elsewhere, files, history
<1> QED
    BY <1>1, <1>2

\* The decision after the probes.
LEMMA ProbedEffect ==
    ASSUME TypeOK, NEW o \in Sessions, OpenDecide(o)
    PROVE  /\ at["open"][o] = "listed"
           /\ Decided(o) /\ snap' = [snap EXCEPT ![o] = NoList]
           /\ Elsewhere
    BY DecideEffect DEF OpenDecide, Elsewhere, files, history

-----------------------------------------------------------------------------
\* A file that is not there, a truncated one and a torn one are no sessions.
LEMMA Distinct ==
    /\ None \notin Values /\ Empty \notin Values /\ Torn \notin Values
    /\ Empty # None /\ Torn # None
    /\ None.state # "OPEN" /\ None.state # "CLOSED"
    BY DEF None, Empty, Torn, Values

-----------------------------------------------------------------------------
\* What a removal, a write and a crash come to, session by session.

\* The handler of s of the given kind has removed what is in the directory, or some
\* of it, and goes on to end; savers that had a removed file open do not notice.
Removal(kind, s, end) ==
    /\ at' \in [Kinds -> [Sessions -> Stages]]
    /\ at'[kind][s] = end
    /\ \A k \in Kinds, q \in Sessions :
          \/ k = kind /\ q = s
          \/ at'[k][q] = at[k][q]
          \/ q = s /\ at[k][q] \in {"part", "moved"} /\ at'[k][q] = "written"
    /\ \A k \in Kinds \ {kind} :
          /\ at'[k][s] = "part" => part'[s] = part[s]
          /\ at'[k][s] = "moved" => json'[s] = json[s]
          /\ at[k][s] = "part" /\ at'[k][s] = "written" => part'[s] = None
    /\ dir' \in {dir, dir \ {s}}
    /\ s \notin dir' => part'[s] = None /\ json'[s] = None
    /\ part' \in {part, [part EXCEPT ![s] = None]}
    /\ json' \in {json, [json EXCEPT ![s] = None]}
    /\ events' \in 0..MaxEvents

\* A failed open has also tried to kill its tmux session and has returned its slot.
Failed(o) ==
    /\ at["open"][o] \in Slotted
    /\ val' = [val EXCEPT !["open"][o] = None]
    /\ \/ tmux' = tmux \ {o} /\ faults' = faults
       \/ tmux' = tmux /\ faults' = faults + 1 /\ faults < MaxFaults
    /\ pendingOpens' = pendingOpens - 1
    /\ UNCHANGED <<host, snap, gate, row, purged, overlapped, crashes>>

\* A purge has answered or failed, and the gate is free.
Purged(s) ==
    /\ at["purge"][s] = "deleted"
    /\ gate' = "free"
    /\ purged' = [purged EXCEPT ![s] = IF s \in dir' THEN "failed" ELSE "acknowledged"]
    /\ UNCHANGED <<host, val, snap, pendingOpens, row, tmux, faults, overlapped, crashes>>

\* What a fs.rm leaves behind.
LEMMA RemoveEffect ==
    ASSUME TypeOK, NEW kind \in Kinds, NEW s \in Sessions, NEW end \in Stages,
           NEW removed \in SUBSET {"part", "moved"}, RemoveDir(s, removed),
           at' = [k \in Kinds |-> [at[k] EXCEPT ![s] =
                    IF k = kind THEN end ELSE Loosened(s, removed)[k]]]
    PROVE  Removal(kind, s, end)
<1>1. ASSUME NEW k \in Kinds
      PROVE  /\ at'[k] = [at[k] EXCEPT ![s] = IF k = kind THEN end ELSE Loosened(s, removed)[k]]
             /\ Loosened(s, removed)[k] = IF at[k][s] \in removed THEN "written" ELSE at[k][s]
    BY DEF Loosened
<1>2. ASSUME NEW k \in Kinds PROVE at'[k] \in [Sessions -> Stages]
  <2>1. at[k] \in [Sessions -> Stages] /\ "written" \in Stages
    BY DEF TypeOK, Stages
  <2> QED
    BY <1>1, <2>1
<1>3. at' \in [Kinds -> [Sessions -> Stages]]
    BY <1>2
<1>4. \A k \in Kinds, q \in Sessions :
          at'[k][q] = IF k = kind /\ q = s THEN end
                      ELSE IF q = s /\ at[k][q] \in removed THEN "written"
                      ELSE at[k][q]
    BY <1>1 DEF TypeOK
<1>5. /\ at'[kind][s] = end
      /\ \A k \in Kinds, q \in Sessions :
            \/ k = kind /\ q = s
            \/ at'[k][q] = at[k][q]
            \/ q = s /\ at[k][q] \in {"part", "moved"} /\ at'[k][q] = "written"
  <2>1. ASSUME NEW k \in Kinds, NEW q \in Sessions
        PROVE  \/ k = kind /\ q = s
               \/ at'[k][q] = at[k][q]
               \/ q = s /\ at[k][q] \in {"part", "moved"} /\ at'[k][q] = "written"
    <3>1. at[k][q] \in removed => at[k][q] \in {"part", "moved"}
      OBVIOUS
    <3> QED
      BY <1>4, <3>1
  <2> QED
    BY <1>4, <2>1
<1>6. /\ dir' \in {dir, dir \ {s}}
      /\ part' \in {part, [part EXCEPT ![s] = None]}
      /\ json' \in {json, [json EXCEPT ![s] = None]}
      /\ "part" \notin removed => part' = part
      /\ "part" \in removed => part'[s] = None
      /\ "moved" \notin removed => json' = json
      /\ "moved" \in removed => json'[s] = None
      /\ s \notin dir' => removed = {"part", "moved"}
      /\ events' \in 0..MaxEvents
    BY DEF RemoveDir, Event, TypeOK
<1>7. \A k \in Kinds \ {kind} :
          /\ at'[k][s] = "part" => part'[s] = part[s]
          /\ at'[k][s] = "moved" => json'[s] = json[s]
          /\ at[k][s] = "part" /\ at'[k][s] = "written" => part'[s] = None
    BY <1>4, <1>6
<1> QED
    BY <1>3, <1>5, <1>6, <1>7 DEF Removal

\* An open that fails.
LEMMA FailEffect ==
    ASSUME TypeOK, NEW o \in Sessions, OpenFail(o)
    PROVE  Failed(o) /\ Removal("open", o, "failed")
<1>1. PICK removed \in SUBSET {"part", "moved"} :
        /\ RemoveDir(o, removed)
        /\ at' = [k \in Kinds |-> [at[k] EXCEPT ![o] =
                    IF k = "open" THEN "failed" ELSE Loosened(o, removed)[k]]]
    BY DEF OpenFail
<1>2. Failed(o)
    BY DEF OpenFail, Failed, Kill, Fault, history
<1>3. "open" \in Kinds /\ "failed" \in Stages
    BY DEF Kinds, Stages
<1> QED
    BY <1>1, <1>2, <1>3, RemoveEffect

\* The end of a purge.
LEMMA PurgeEffect ==
    ASSUME TypeOK, NEW s \in Sessions, PurgeRemove(s)
    PROVE  Purged(s) /\ Removal("purge", s, "idle")
<1>1. PICK removed \in SUBSET {"part", "moved"} :
        /\ RemoveDir(s, removed)
        /\ at' = [k \in Kinds |-> [at[k] EXCEPT ![s] =
                    IF k = "purge" THEN "idle" ELSE Loosened(s, removed)[k]]]
    BY DEF PurgeRemove
<1>2. Purged(s)
    BY DEF PurgeRemove, Purged, panes
<1>3. "purge" \in Kinds /\ "idle" \in Stages
    BY DEF Kinds, Stages
<1> QED
    BY <1>1, <1>2, <1>3, RemoveEffect

\* The text of a save is in the file it holds, which it has torn only when there
\* was another text in it.
Wrote(k, s) ==
    /\ at' = [at EXCEPT ![k][s] = "written"]
    /\ \E text \in {val[k][s], Torn} :
          \/ /\ at[k][s] = "part" /\ part' = [part EXCEPT ![s] = text] /\ json' = json
             /\ part[s] = Empty => text = val[k][s]
          \/ /\ at[k][s] = "moved" /\ json' = [json EXCEPT ![s] = text] /\ part' = part
    /\ UNCHANGED <<host, val, snap, gate, pendingOpens, row, dir, tmux, faults,
                   purged, overlapped, crashes, events>>

\* writeFile.
LEMMA WriteEffect ==
    ASSUME NEW k \in Savers, NEW s \in Sessions, SaveWrite(k, s)
    PROVE  Wrote(k, s)
<1>1. CASE /\ Move(k, s, "part", "written")
           /\ \E text \in Written(part[s], val[k][s]) : part' = [part EXCEPT ![s] = text]
           /\ UNCHANGED json
    BY <1>1 DEF SaveWrite, Written, Move, Wrote, gating, panes, history
<1>2. CASE /\ Move(k, s, "moved", "written")
           /\ \E text \in Written(json[s], val[k][s]) : json' = [json EXCEPT ![s] = text]
           /\ UNCHANGED part
    BY <1>2 DEF SaveWrite, Written, Move, Wrote, gating, panes, history
<1> QED
    BY <1>1, <1>2 DEF SaveWrite

\* A crash, and the import when every session.json can be read.
Crashed ==
    /\ at' = [k \in Kinds |-> [s \in Sessions |->
                IF k = "open" /\ at[k][s] \notin {"idle", "done"} THEN "failed"
                ELSE IF k = "open" THEN at[k][s] ELSE "idle"]]
    /\ val' = [k \in Kinds |-> [s \in Sessions |-> None]]
    /\ snap' = [s \in Sessions |-> NoList]
    /\ gate' = "free" /\ pendingOpens' = 0 /\ crashes' > 0 /\ crashes' \in Nat
    /\ row' \in [Sessions -> Values \cup {None}]
    /\ \A s \in Sessions :
          \/ row'[s] = row[s]
          \/ /\ row[s] = None /\ json[s] \in Values
             /\ row'[s].state = json[s].state
    /\ purged' = [s \in Sessions |-> IF purged[s] = "begun" THEN "failed" ELSE purged[s]]
    /\ host' \in {"up", "failed"} /\ events' \in 0..MaxEvents
    /\ UNCHANGED <<dir, json, part, tmux, faults, overlapped>>

\* The restart.
LEMMA CrashEffect == ASSUME TypeOK, CrashAndRestart PROVE Crashed
<1>1. CASE Readable /\ row' = [s \in Sessions |-> Import(s)]
  <2>1. ASSUME NEW s \in Sessions
        PROVE  /\ row'[s] \in Values \cup {None}
               /\ \/ row'[s] = row[s]
                  \/ /\ row[s] = None /\ json[s] \in Values
                     /\ row'[s].state = json[s].state
    <3>1. row'[s] = Import(s) /\ row[s] \in Values \cup {None} /\ json[s] \in Values \cup {None}
      BY <1>1 DEF Readable, TypeOK
    <3>2. CASE row[s] = None /\ json[s] # None
      <4>1. row'[s] = Legacy(json[s]) /\ json[s] \in Values
        BY <3>1, <3>2 DEF Import
      <4> QED
        BY <3>2, <4>1 DEF Legacy, Values
    <3> QED
      BY <3>1, <3>2 DEF Import
  <2>2. row' \in [Sessions -> Values \cup {None}]
    BY <1>1, <2>1
  <2> QED
    BY <1>1, <2>1, <2>2 DEF CrashAndRestart, Crashed, Event, TypeOK, files, panes
<1>2. CASE host' = "failed" /\ row' = row
    BY <1>2 DEF CrashAndRestart, Crashed, Event, TypeOK, files, panes
<1> QED
    BY <1>1, <1>2 DEF CrashAndRestart

-----------------------------------------------------------------------------
\* Slots and gate.

\* Sets of sessions are finite, and grow and shrink by one.
LEMMA Counts ==
    ASSUME NEW S, S \subseteq Sessions
    PROVE  /\ IsFiniteSet(S) /\ Cardinality(S) \in Nat
           /\ \A x \in Sessions \ S : Cardinality(S \cup {x}) = Cardinality(S) + 1
           /\ \A x \in S : Cardinality(S \ {x}) = Cardinality(S) - 1
           /\ S = {} <=> Cardinality(S) = 0
<1>1. IsFiniteSet(S)
    BY FS_Subset
<1>2. Cardinality(S) \in Nat
    BY <1>1, FS_CardinalityType
<1>3. \A x \in Sessions \ S : Cardinality(S \cup {x}) = Cardinality(S) + 1
    BY <1>1, FS_AddElement
<1>4. \A x \in S : Cardinality(S \ {x}) = Cardinality(S) - 1
    BY <1>1, FS_RemoveElement
<1>5. S = {} <=> Cardinality(S) = 0
    BY <1>1, FS_EmptySet
<1> QED
    BY <1>1, <1>2, <1>3, <1>4, <1>5

\* SlotsAreReturned in terms of the three sets.
LEMMA SlotsAlt ==
    SlotsAreReturned <=>
        /\ pendingOpens = Cardinality(Opening)
        /\ Cardinality(Probing) + Cardinality(Purging) = IF gate = "free" THEN 0 ELSE 1
    BY DEF SlotsAreReturned, Opening, Probing, Purging

\* And after a step.
LEMMA SlotsAltNext ==
    SlotsAreReturned' <=>
        /\ pendingOpens' = Cardinality(Opening')
        /\ Cardinality(Probing') + Cardinality(Purging') = IF gate' = "free" THEN 0 ELSE 1
    BY DEF SlotsAreReturned, Opening, Probing, Purging

\* The three sets are sets of sessions, before and after a step.
LEMMA Subsets ==
    /\ Opening \subseteq Sessions /\ Probing \subseteq Sessions /\ Purging \subseteq Sessions
    /\ Opening' \subseteq Sessions /\ Probing' \subseteq Sessions /\ Purging' \subseteq Sessions
    BY DEF Opening, Probing, Purging

\* A step that moves no handler into or out of the three sets.
LEMMA SlotsStay ==
    ASSUME SlotsAreReturned, UNCHANGED <<pendingOpens, gate, Opening, Probing, Purging>>
    PROVE  SlotsAreReturned'
    BY SlotsAlt, SlotsAltNext

\* An open returns its slot.
LEMMA SlotLeaves ==
    ASSUME TypeOK, SlotsAreReturned, NEW o \in Opening, Opening' = Opening \ {o},
           pendingOpens' = pendingOpens - 1, UNCHANGED <<gate, Probing, Purging>>
    PROVE  SlotsAreReturned'
<1>1. Cardinality(Opening') = Cardinality(Opening) - 1
    BY Subsets, Counts
<1> QED
    BY <1>1, SlotsAlt, SlotsAltNext

\* A decision about an open that has no slot.
LEMMA DecidedSlots ==
    ASSUME TypeOK, SlotsAreReturned, NEW o \in Sessions \ Opening, Decided(o)
    PROVE  /\ pendingOpens' = Cardinality(Opening')
           /\ Purging' = Purging
           /\ o \notin Probing => Probing' = Probing
<1>1. CASE at' = [at EXCEPT !["open"][o] = "reserved"] /\ pendingOpens' = pendingOpens + 1
  <2>1. Opening' = Opening \cup {o}
    BY <1>1 DEF Opening, TypeOK, Kinds, Slotted
  <2>2. Cardinality(Opening') = Cardinality(Opening) + 1
    BY <2>1, Subsets, Counts
  <2> QED
    BY <1>1, <2>2, SlotsAlt DEF Probing, Purging, TypeOK, Kinds
<1>2. CASE at' = [at EXCEPT !["open"][o] = "failed"] /\ pendingOpens' = pendingOpens
  <2>1. Opening' = Opening
    BY <1>2 DEF Opening, TypeOK, Kinds, Slotted
  <2> QED
    BY <1>2, <2>1, SlotsAlt DEF Probing, Purging, TypeOK, Kinds
<1> QED
    BY <1>1, <1>2 DEF Decided

\* A failed open leaves the slots, and nothing else.
LEMMA FailSlots ==
    ASSUME TypeOK, NEW o \in Sessions, Removal("open", o, "failed"), Failed(o)
    PROVE  o \in Opening /\ Opening' = Opening \ {o} /\ Probing' = Probing /\ Purging' = Purging
<1>1. o \in Opening /\ at["open"][o] # "listed"
    BY DEF Failed, Opening, Slotted
<1>2. \A q \in Sessions \ {o} : at'["open"][q] = at["open"][q]
    BY DEF Removal, Kinds
<1>3. at'["open"][o] = "failed"
    BY DEF Removal, Kinds
<1>4. \A q \in Sessions : at'["purge"][q] = "deleted" <=> at["purge"][q] = "deleted"
    BY DEF Removal, Kinds
<1>5. Opening' = Opening \ {o}
    BY <1>2, <1>3 DEF Opening, Slotted
<1>6. Probing' = Probing
    BY <1>1, <1>2, <1>3 DEF Probing
<1>7. Purging' = Purging
    BY <1>4 DEF Purging
<1> QED
    BY <1>1, <1>5, <1>6, <1>7

\* And a purge that ends leaves the purges.
LEMMA PurgeSlots ==
    ASSUME TypeOK, NEW s \in Sessions, Removal("purge", s, "idle"), Purged(s)
    PROVE  s \in Purging /\ Purging' = Purging \ {s} /\ Opening' = Opening /\ Probing' = Probing
<1>1. s \in Purging
    BY DEF Purged, Purging
<1>2. \A q \in Sessions : /\ at'["open"][q] \in Slotted <=> at["open"][q] \in Slotted
                          /\ at'["open"][q] = "listed" <=> at["open"][q] = "listed"
    BY DEF Removal, Kinds, Slotted
<1>3. \A q \in Sessions : at'["purge"][q] = "deleted" <=> q # s /\ at["purge"][q] = "deleted"
    BY DEF Removal, Kinds
<1> QED
    BY <1>1, <1>2, <1>3 DEF Opening, Probing, Purging

\* Every step keeps the slots and the gate in agreement with the handlers.
LEMMA SlotsKept == ASSUME IInv, Next PROVE SlotsAreReturned'
<1> USE DEF IInv, TypeOK, Slotted, Kinds, Savers, Stages, handlers, gating,
        files, panes, history, Event, Move, Kill, Fault
<1>1. ASSUME NEW o \in Sessions, OpenList(o) PROVE SlotsAreReturned'
  <2>1. o \notin Opening /\ o \notin Probing /\ gate = "free"
    BY <1>1, ListEffect DEF Opening, Probing
  <2>2. CASE Decided(o)
    <3>1. UNCHANGED <<Probing, Purging>> /\ pendingOpens' = Cardinality(Opening')
      BY <2>1, <2>2, DecidedSlots
    <3> QED
      BY <2>1, <2>2, <3>1, SlotsAlt, SlotsAltNext DEF Decided
  <2>3. CASE Waits(o)
    <3>1. Probing' = Probing \cup {o} /\ UNCHANGED <<Opening, Purging>>
      BY <2>1, <2>3 DEF Waits, Opening, Probing, Purging
    <3>2. Cardinality(Probing') = Cardinality(Probing) + 1
      BY <2>1, <3>1, Subsets, Counts
    <3>3. Cardinality(Probing) \in Nat /\ Cardinality(Purging) \in Nat
      BY Subsets, Counts
    <3> QED
      BY <2>1, <2>3, <3>1, <3>2, <3>3, SlotsAlt, SlotsAltNext DEF Waits
  <2> QED
    BY <1>1, <2>2, <2>3, ListEffect
<1>2. ASSUME NEW o \in Sessions, OpenDecide(o) PROVE SlotsAreReturned'
  <2>1. o \in Probing /\ o \notin Opening /\ Decided(o)
    BY <1>2, ProbedEffect DEF Opening, Probing
  <2>2. Probing' = Probing \ {o} /\ Purging' = Purging
    BY <2>1 DEF Decided, Probing, Purging
  <2>3. Cardinality(Probing) \in Nat \ {0} /\ Cardinality(Purging) \in Nat
    BY <2>1, Subsets, Counts
  <2>4. Cardinality(Probing') = Cardinality(Probing) - 1
    BY <2>1, <2>2, Subsets, Counts
  <2>5. Cardinality(Probing') + Cardinality(Purging') = 0
    BY <2>2, <2>3, <2>4, SlotsAlt
  <2> QED
    BY <2>1, <2>5, DecidedSlots, SlotsAltNext DEF Decided
<1>3. ASSUME NEW o \in Sessions, OpenCreate(o) PROVE SlotsAreReturned'
  <2>1. UNCHANGED <<Opening, Probing, Purging>>
    BY <1>3 DEF OpenCreate, Opening, Probing, Purging
  <2> QED
    BY <1>3, <2>1, SlotsStay DEF OpenCreate
<1>4. ASSUME NEW o \in Sessions, OpenFail(o) PROVE SlotsAreReturned'
  <2>1. Removal("open", o, "failed") /\ Failed(o)
    BY <1>4, FailEffect
  <2>2. o \in Opening /\ Opening' = Opening \ {o} /\ UNCHANGED <<Probing, Purging>>
    BY <2>1, FailSlots
  <2> QED
    BY <2>1, <2>2, SlotLeaves DEF Failed
<1>5. ASSUME NEW s \in Sessions, CloseKill(s) PROVE SlotsAreReturned'
  <2>1. UNCHANGED <<Opening, Probing, Purging>>
    BY <1>5 DEF CloseKill, Opening, Probing, Purging
  <2> QED
    BY <1>5, <2>1, SlotsStay DEF CloseKill
<1>6. ASSUME NEW s \in Sessions, CloseRead(s) PROVE SlotsAreReturned'
  <2>1. UNCHANGED <<Opening, Probing, Purging>>
    BY <1>6 DEF CloseRead, Opening, Probing, Purging
  <2> QED
    BY <1>6, <2>1, SlotsStay DEF CloseRead
<1>7. ASSUME NEW s \in Sessions, UpdateRead(s) PROVE SlotsAreReturned'
  <2>1. UNCHANGED <<Opening, Probing, Purging>>
    BY <1>7 DEF UpdateRead, Opening, Probing, Purging
  <2> QED
    BY <1>7, <2>1, SlotsStay DEF UpdateRead
<1>8. ASSUME NEW s \in Sessions, NEW k \in Savers, SaveRow(k, s) PROVE SlotsAreReturned'
  <2>1. UNCHANGED <<Opening, Probing, Purging>>
    BY <1>8 DEF SaveRow, Opening, Probing, Purging
  <2> QED
    BY <1>8, <2>1, SlotsStay DEF SaveRow
<1>9. ASSUME NEW s \in Sessions, NEW k \in Savers, SavePart(k, s) PROVE SlotsAreReturned'
  <2>1. UNCHANGED <<Opening, Probing, Purging>>
    BY <1>9 DEF SavePart, Opening, Probing, Purging
  <2> QED
    BY <1>9, <2>1, SlotsStay DEF SavePart
<1>10. ASSUME NEW s \in Sessions, NEW k \in Savers, SaveRename(k, s) PROVE SlotsAreReturned'
  <2>1. CASE k = "open"
    <3>1. s \in Opening /\ Opening' = Opening \ {s} /\ UNCHANGED <<Probing, Purging>>
      BY <1>10, <2>1 DEF SaveRename, Ended, Opening, Probing, Purging
    <3> QED
      BY <1>10, <2>1, <3>1, SlotLeaves DEF SaveRename
  <2>2. CASE k # "open"
    <3>1. UNCHANGED <<Opening, Probing, Purging>>
      BY <1>10, <2>2 DEF SaveRename, Ended, Opening, Probing, Purging
    <3> QED
      BY <1>10, <2>2, <3>1, SlotsStay DEF SaveRename
  <2> QED
    BY <2>1, <2>2
<1>11. ASSUME NEW s \in Sessions, NEW k \in Savers, SaveFails(k, s) PROVE SlotsAreReturned'
  <2>1. UNCHANGED <<Opening, Probing, Purging>>
    BY <1>11 DEF SaveFails, Opening, Probing, Purging
  <2> QED
    BY <1>11, <2>1, SlotsStay DEF SaveFails
<1>12. ASSUME NEW s \in Sessions, PurgeDelete(s) PROVE SlotsAreReturned'
  <2>1. /\ s \notin Purging /\ Purging' = Purging \cup {s}
        /\ UNCHANGED <<Opening, Probing>>
    BY <1>12 DEF PurgeDelete, Opening, Probing, Purging
  <2>2. Cardinality(Purging') = Cardinality(Purging) + 1
    BY <2>1, Subsets, Counts
  <2>3. Cardinality(Probing) \in Nat /\ Cardinality(Purging) \in Nat
    BY Subsets, Counts
  <2> QED
    BY <1>12, <2>1, <2>2, <2>3, SlotsAlt, SlotsAltNext DEF PurgeDelete
<1>13. ASSUME NEW s \in Sessions, PurgeRemove(s) PROVE SlotsAreReturned'
  <2>1. s \in Purging /\ Purging' = Purging \ {s} /\ UNCHANGED <<Opening, Probing>>
    BY <1>13, PurgeEffect, PurgeSlots
  <2>2. Cardinality(Purging) \in Nat \ {0} /\ Cardinality(Probing) \in Nat
    BY <2>1, Subsets, Counts
  <2>3. Cardinality(Purging') = Cardinality(Purging) - 1
    BY <2>1, Subsets, Counts
  <2> QED
    BY <1>13, <2>1, <2>2, <2>3, SlotsAlt, SlotsAltNext DEF PurgeRemove, RemoveDir, Loosened
<1>14. ASSUME NEW s \in Sessions, ShellExit(s) PROVE SlotsAreReturned'
  <2>1. UNCHANGED <<Opening, Probing, Purging>>
    BY <1>14 DEF ShellExit, Opening, Probing, Purging
  <2> QED
    BY <1>14, <2>1, SlotsStay DEF ShellExit
<1>15. ASSUME CrashAndRestart PROVE SlotsAreReturned'
  <2>1. Opening' = {} /\ Probing' = {} /\ Purging' = {}
    <3>1. Crashed
      BY <1>15, CrashEffect
    <3> QED
      BY <3>1 DEF Crashed, Opening, Probing, Purging
  <2> QED
    BY <1>15, <2>1, FS_EmptySet, SlotsAltNext DEF CrashAndRestart
<1>16. ASSUME NEW s \in Sessions, NEW k \in Savers, SaveWrite(k, s) PROVE SlotsAreReturned'
  <2>1. UNCHANGED <<Opening, Probing, Purging>>
    BY <1>16, WriteEffect DEF Wrote, Opening, Probing, Purging
  <2> QED
    BY <1>16, <2>1, WriteEffect, SlotsStay DEF Wrote
<1> HIDE DEF IInv, TypeOK, Slotted, Kinds, Savers, Stages, handlers, gating,
        files, panes, history, Event, Move, Kill, Fault
<1> QED BY <1>1, <1>2, <1>3, <1>4, <1>5, <1>6, <1>7, <1>8, <1>9, <1>10, <1>11,
           <1>12, <1>13, <1>14, <1>15, <1>16
        DEF Next, Save

-----------------------------------------------------------------------------
\* The other parts.

\* Every step keeps the types; pendingOpens is a cardinality.
LEMMA TypeKept == ASSUME IInv, Next, pendingOpens' \in Nat PROVE TypeOK'
<1>4. ASSUME NEW o \in Sessions, OpenFail(o) PROVE TypeOK'
  <2>1. Removal("open", o, "failed") /\ Failed(o) /\ TypeOK
    BY <1>4, FailEffect DEF IInv
  <2>2. at' \in [Kinds -> [Sessions -> Stages]] /\ dir' \subseteq Sessions
    BY <2>1 DEF Removal, TypeOK
  <2>3. val' \in [Kinds -> [Sessions -> Values \cup {None}]]
    BY <2>1 DEF Failed, TypeOK, Kinds
  <2>4. /\ part' \in [Sessions -> Values \cup {None, Empty, Torn}]
        /\ json' \in [Sessions -> Values \cup {None, Empty, Torn}]
    BY <2>1 DEF Removal, TypeOK
  <2>5. faults' \in 0..MaxFaults /\ tmux' \subseteq Sessions /\ events' \in 0..MaxEvents
    BY <2>1 DEF Removal, Failed, TypeOK
  <2> QED
    BY <2>1, <2>2, <2>3, <2>4, <2>5 DEF Failed, TypeOK
<1>13. ASSUME NEW s \in Sessions, PurgeRemove(s) PROVE TypeOK'
  <2>1. Removal("purge", s, "idle") /\ Purged(s) /\ TypeOK
    BY <1>13, PurgeEffect DEF IInv
  <2>2. at' \in [Kinds -> [Sessions -> Stages]] /\ dir' \subseteq Sessions
    BY <2>1 DEF Removal, TypeOK
  <2>3. /\ part' \in [Sessions -> Values \cup {None, Empty, Torn}]
        /\ json' \in [Sessions -> Values \cup {None, Empty, Torn}]
        /\ events' \in 0..MaxEvents
    BY <2>1 DEF Removal, TypeOK
  <2> QED
    BY <2>1, <2>2, <2>3 DEF Purged, TypeOK
<1>15. ASSUME CrashAndRestart PROVE TypeOK'
  <2>1. NoList \in [open : SUBSET Sessions, closed : SUBSET Sessions, live : SUBSET Sessions]
    BY DEF NoList
  <2>2. Crashed /\ TypeOK
    BY <1>15, CrashEffect DEF IInv
  <2>3. at' \in [Kinds -> [Sessions -> Stages]]
    BY <2>2 DEF Crashed, TypeOK, Stages
  <2> QED
    BY <2>1, <2>2, <2>3 DEF Crashed, TypeOK
<1>16. ASSUME NEW s \in Sessions, NEW k \in Savers, SaveWrite(k, s) PROVE TypeOK'
  <2>1. Wrote(k, s) /\ TypeOK
    BY <1>16, WriteEffect DEF IInv
  <2>2. at' \in [Kinds -> [Sessions -> Stages]]
    BY <2>1 DEF Wrote, TypeOK, Stages, Kinds, Savers
  <2>3. val[k][s] \in Values \cup {None}
    BY <2>1 DEF TypeOK, Kinds, Savers
  <2>4. /\ part' \in [Sessions -> Values \cup {None, Empty, Torn}]
        /\ json' \in [Sessions -> Values \cup {None, Empty, Torn}]
    <3>1. PICK text \in {val[k][s], Torn} : /\ part' \in {part, [part EXCEPT ![s] = text]}
                                            /\ json' \in {json, [json EXCEPT ![s] = text]}
      BY <2>1 DEF Wrote
    <3>2. text \in Values \cup {None, Empty, Torn}
      BY <2>3, <3>1
    <3>3. /\ part \in [Sessions -> Values \cup {None, Empty, Torn}]
          /\ json \in [Sessions -> Values \cup {None, Empty, Torn}]
      BY <2>1 DEF TypeOK
    <3> QED
      BY <3>1, <3>2, <3>3
  <2> QED
    BY <2>1, <2>2, <2>4 DEF Wrote, TypeOK
<1> USE DEF IInv, TypeOK, Kinds, Savers, Values, None, Empty, Torn, Saving, Writing, Slotted,
   Stages,
        handlers, gating, files, panes, history, Event, Move, Kill, Fault
<1>1. ASSUME NEW o \in Sessions, OpenList(o) PROVE TypeOK'
  <2>1. Listed \in [open : SUBSET Sessions, closed : SUBSET Sessions, live : SUBSET Sessions]
    BY DEF Listed, OpenRows, ClosedRows
  <2>2. /\ (Decided(o) /\ snap' = snap) \/ (Waits(o) /\ snap' = [snap EXCEPT ![o] = Listed])
        /\ Elsewhere
    BY <1>1, ListEffect
  <2>3. PICK x \in {"reserved", "failed", "listed"} : at' = [at EXCEPT !["open"][o] = x]
    BY <2>2 DEF Decided, Waits
  <2>4. snap' \in [Sessions -> [open : SUBSET Sessions, closed : SUBSET Sessions, live : SUBSET Sessions]]
    BY <2>1, <2>2
  <2> QED
    BY <2>2, <2>3, <2>4 DEF Elsewhere, Decided, Waits
<1>2. ASSUME NEW o \in Sessions, OpenDecide(o) PROVE TypeOK'
  <2>1. NoList \in [open : SUBSET Sessions, closed : SUBSET Sessions, live : SUBSET Sessions]
    BY DEF NoList
  <2>2. Decided(o) /\ snap' = [snap EXCEPT ![o] = NoList] /\ Elsewhere
    BY <1>2, ProbedEffect
  <2>3. PICK x \in {"reserved", "failed"} : at' = [at EXCEPT !["open"][o] = x]
    BY <2>2 DEF Decided
  <2>4. snap' \in [Sessions -> [open : SUBSET Sessions, closed : SUBSET Sessions, live : SUBSET Sessions]]
    BY <2>1, <2>2
  <2> QED
    BY <2>2, <2>3, <2>4 DEF Elsewhere, Decided
<1>3. ASSUME NEW o \in Sessions, OpenCreate(o) PROVE TypeOK'
    BY <1>3 DEF OpenCreate
<1>5. ASSUME NEW s \in Sessions, CloseKill(s) PROVE TypeOK'
    BY <1>5 DEF CloseKill
<1>6. ASSUME NEW s \in Sessions, CloseRead(s) PROVE TypeOK'
    BY <1>6 DEF CloseRead
<1>7. ASSUME NEW s \in Sessions, UpdateRead(s) PROVE TypeOK'
    BY <1>7 DEF UpdateRead
<1>8. ASSUME NEW s \in Sessions, NEW k \in Savers, SaveRow(k, s) PROVE TypeOK'
    BY <1>8 DEF SaveRow
<1>9. ASSUME NEW s \in Sessions, NEW k \in Savers, SavePart(k, s) PROVE TypeOK'
    BY <1>9 DEF SavePart
<1>10. ASSUME NEW s \in Sessions, NEW k \in Savers, SaveRename(k, s) PROVE TypeOK'
    BY <1>10 DEF SaveRename, Ended
<1>11. ASSUME NEW s \in Sessions, NEW k \in Savers, SaveFails(k, s) PROVE TypeOK'
    BY <1>11 DEF SaveFails
<1>12. ASSUME NEW s \in Sessions, PurgeDelete(s) PROVE TypeOK'
    BY <1>12 DEF PurgeDelete
<1>14. ASSUME NEW s \in Sessions, ShellExit(s) PROVE TypeOK'
    BY <1>14 DEF ShellExit
<1> HIDE DEF IInv, TypeOK, Kinds, Savers, Values, None, Empty, Torn, Saving, Writing, Slotted,
   Stages,
        handlers, gating, files, panes, history, Event, Move, Kill, Fault
<1> QED BY <1>1, <1>2, <1>3, <1>4, <1>5, <1>6, <1>7, <1>8, <1>9, <1>10, <1>11,
           <1>12, <1>13, <1>14, <1>15, <1>16
        DEF Next, Save

\* A session id that only its open knows stays so until the open saves.
LEMMA FreshKept == ASSUME IInv, Next PROVE FreshIds'
<1>4. ASSUME NEW o \in Sessions, OpenFail(o) PROVE FreshIds'
  <2>1. Removal("open", o, "failed") /\ Failed(o)
    BY <1>4, FailEffect DEF IInv
  <2> QED
    BY <2>1, Distinct DEF IInv, FreshIds, TypeOK, Kinds, Removal, Failed
<1>13. ASSUME NEW s \in Sessions, PurgeRemove(s) PROVE FreshIds'
  <2>1. Removal("purge", s, "idle") /\ Purged(s)
    BY <1>13, PurgeEffect DEF IInv
  <2> QED
    BY <2>1, Distinct DEF IInv, FreshIds, TypeOK, Kinds, Removal, Purged
<1>15. ASSUME CrashAndRestart PROVE FreshIds'
  <2>1. Crashed
    BY <1>15, CrashEffect DEF IInv
  <2> QED
    BY <2>1, Distinct DEF IInv, FreshIds, TypeOK, Kinds, Crashed
<1>16. ASSUME NEW s \in Sessions, NEW k \in Savers, SaveWrite(k, s) PROVE FreshIds'
  <2>1. Wrote(k, s)
    BY <1>16, WriteEffect
  <2> QED
    BY <2>1, Distinct DEF IInv, FreshIds, TypeOK, Kinds, Savers, Wrote
<1> USE DEF IInv, TypeOK, Kinds, Savers, Values, None, Empty, Torn, Saving, Writing, FreshIds,
   Slotted,
        handlers, gating, files, panes, history, Event, Move, Kill, Fault
<1>1. ASSUME NEW o \in Sessions, OpenList(o) PROVE FreshIds'
  <2>1. at["open"][o] = "idle" /\ (Decided(o) \/ Waits(o)) /\ Elsewhere
    BY <1>1, ListEffect
  <2>2. PICK x \in {"reserved", "failed", "listed"} : at' = [at EXCEPT !["open"][o] = x]
    BY <2>1 DEF Decided, Waits
  <2> QED
    BY <2>1, <2>2 DEF Elsewhere
<1>2. ASSUME NEW o \in Sessions, OpenDecide(o) PROVE FreshIds'
  <2>1. at["open"][o] = "listed" /\ Decided(o) /\ Elsewhere
    BY <1>2, ProbedEffect
  <2>2. PICK x \in {"reserved", "failed"} : at' = [at EXCEPT !["open"][o] = x]
    BY <2>1 DEF Decided
  <2> QED
    BY <2>1, <2>2 DEF Elsewhere
<1>3. ASSUME NEW o \in Sessions, OpenCreate(o) PROVE FreshIds'
    BY <1>3 DEF OpenCreate
<1>5. ASSUME NEW s \in Sessions, CloseKill(s) PROVE FreshIds'
    BY <1>5 DEF CloseKill
<1>6. ASSUME NEW s \in Sessions, CloseRead(s) PROVE FreshIds'
    BY <1>6 DEF CloseRead
<1>7. ASSUME NEW s \in Sessions, UpdateRead(s) PROVE FreshIds'
    BY <1>7 DEF UpdateRead
<1>8. ASSUME NEW s \in Sessions, NEW k \in Savers, SaveRow(k, s) PROVE FreshIds'
    BY <1>8 DEF SaveRow
<1>9. ASSUME NEW s \in Sessions, NEW k \in Savers, SavePart(k, s) PROVE FreshIds'
    BY <1>9 DEF SavePart
<1>10. ASSUME NEW s \in Sessions, NEW k \in Savers, SaveRename(k, s) PROVE FreshIds'
    BY <1>10 DEF SaveRename, Ended
<1>11. ASSUME NEW s \in Sessions, NEW k \in Savers, SaveFails(k, s) PROVE FreshIds'
    BY <1>11 DEF SaveFails
<1>12. ASSUME NEW s \in Sessions, PurgeDelete(s) PROVE FreshIds'
    BY <1>12 DEF PurgeDelete
<1>14. ASSUME NEW s \in Sessions, ShellExit(s) PROVE FreshIds'
    BY <1>14 DEF ShellExit
<1> HIDE DEF IInv, TypeOK, Kinds, Savers, Values, None, Empty, Torn, Saving, Writing,
   FreshIds, Slotted,
        handlers, gating, files, panes, history, Event, Move, Kill, Fault
<1> QED BY <1>1, <1>2, <1>3, <1>4, <1>5, <1>6, <1>7, <1>8, <1>9, <1>10, <1>11,
           <1>12, <1>13, <1>14, <1>15, <1>16
        DEF Next, Save

\* A suspended save keeps what it has read.
LEMMA ValuesKept == ASSUME IInv, Next PROVE SavesHaveValues'
<1>4. ASSUME NEW o \in Sessions, OpenFail(o) PROVE SavesHaveValues'
  <2>1. Removal("open", o, "failed") /\ Failed(o)
    BY <1>4, FailEffect DEF IInv
  <2> QED
    BY <2>1, Distinct DEF IInv, SavesHaveValues, TypeOK, Kinds, Saving, Savers, Removal, Failed
<1>13. ASSUME NEW s \in Sessions, PurgeRemove(s) PROVE SavesHaveValues'
  <2>1. Removal("purge", s, "idle") /\ Purged(s)
    BY <1>13, PurgeEffect DEF IInv
  <2> QED
    BY <2>1, Distinct DEF IInv, SavesHaveValues, TypeOK, Kinds, Saving, Savers, Removal, Purged
<1>15. ASSUME CrashAndRestart PROVE SavesHaveValues'
  <2>1. Crashed
    BY <1>15, CrashEffect DEF IInv
  <2> QED
    BY <2>1, Distinct DEF IInv, SavesHaveValues, TypeOK, Kinds, Saving, Savers, Crashed
<1>16. ASSUME NEW s \in Sessions, NEW k \in Savers, SaveWrite(k, s) PROVE SavesHaveValues'
  <2>1. Wrote(k, s)
    BY <1>16, WriteEffect
  <2> QED
    BY <2>1, Distinct DEF IInv, SavesHaveValues, TypeOK, Kinds, Saving, Savers, Wrote
<1> USE DEF IInv, TypeOK, Kinds, Savers, Values, None, Empty, Torn, Saving, Writing,
   SavesHaveValues,
        Slotted, handlers, gating, files, panes, history, Event, Move, Kill, Fault
<1>1. ASSUME NEW o \in Sessions, OpenList(o) PROVE SavesHaveValues'
  <2>1. at["open"][o] = "idle" /\ (Decided(o) \/ Waits(o)) /\ Elsewhere
    BY <1>1, ListEffect
  <2>2. PICK x \in {"reserved", "failed", "listed"} : at' = [at EXCEPT !["open"][o] = x]
    BY <2>1 DEF Decided, Waits
  <2> QED
    BY <2>1, <2>2 DEF Elsewhere
<1>2. ASSUME NEW o \in Sessions, OpenDecide(o) PROVE SavesHaveValues'
  <2>1. at["open"][o] = "listed" /\ Decided(o) /\ Elsewhere
    BY <1>2, ProbedEffect
  <2>2. PICK x \in {"reserved", "failed"} : at' = [at EXCEPT !["open"][o] = x]
    BY <2>1 DEF Decided
  <2> QED
    BY <2>1, <2>2 DEF Elsewhere
<1>3. ASSUME NEW o \in Sessions, OpenCreate(o) PROVE SavesHaveValues'
    BY <1>3 DEF OpenCreate
<1>5. ASSUME NEW s \in Sessions, CloseKill(s) PROVE SavesHaveValues'
    BY <1>5 DEF CloseKill
<1>6. ASSUME NEW s \in Sessions, CloseRead(s) PROVE SavesHaveValues'
    BY <1>6 DEF CloseRead
<1>7. ASSUME NEW s \in Sessions, UpdateRead(s) PROVE SavesHaveValues'
    BY <1>7 DEF UpdateRead
<1>8. ASSUME NEW s \in Sessions, NEW k \in Savers, SaveRow(k, s) PROVE SavesHaveValues'
    BY <1>8 DEF SaveRow
<1>9. ASSUME NEW s \in Sessions, NEW k \in Savers, SavePart(k, s) PROVE SavesHaveValues'
    BY <1>9 DEF SavePart
<1>10. ASSUME NEW s \in Sessions, NEW k \in Savers, SaveRename(k, s) PROVE SavesHaveValues'
    BY <1>10 DEF SaveRename, Ended
<1>11. ASSUME NEW s \in Sessions, NEW k \in Savers, SaveFails(k, s) PROVE SavesHaveValues'
    BY <1>11 DEF SaveFails
<1>12. ASSUME NEW s \in Sessions, PurgeDelete(s) PROVE SavesHaveValues'
    BY <1>12 DEF PurgeDelete
<1>14. ASSUME NEW s \in Sessions, ShellExit(s) PROVE SavesHaveValues'
    BY <1>14 DEF ShellExit
<1> HIDE DEF IInv, TypeOK, Kinds, Savers, Values, None, Empty, Torn, Saving, Writing,
   SavesHaveValues,
        Slotted, handlers, gating, files, panes, history, Event, Move, Kill, Fault
<1> QED BY <1>1, <1>2, <1>3, <1>4, <1>5, <1>6, <1>7, <1>8, <1>9, <1>10, <1>11,
           <1>12, <1>13, <1>14, <1>15, <1>16
        DEF Next, Save

\* A crash strands the sessions that no row names yet, and revives none.
LEMMA CrashedDead ==
    ASSUME TypeOK, FreshIds, DeadBehindClose, MetadataHasRow, Crashed PROVE DeadBehindClose'
<1> DEFINE Lost(s) == /\ crashes' > 0 /\ at'["open"][s] = "failed"
                      /\ row'[s] = None /\ json'[s] = None
                      /\ \A k \in Kinds \ {"open"} : at'[k][s] = "idle"
<1>1. tmux' = tmux /\ faults' = faults
    BY DEF Crashed
<1>2. ASSUME faults = 0, NEW s \in tmux
      PROVE  /\ row'[s].state = "OPEN" \/ Lost(s)
             /\ at'["close"][s] = "idle" /\ at'["update"][s] = "idle"
  <2>1. s \in Sessions
    BY DEF TypeOK
  <2>2. at'["close"][s] = "idle" /\ at'["update"][s] = "idle"
    BY <2>1 DEF Crashed, Kinds
  <2>3. CASE row[s].state = "OPEN"
    BY <2>1, <2>2, <2>3, Distinct DEF Crashed
  <2>4. CASE at["open"][s] = "read" \/ Stranded(s)
    <3>1. row[s] = None /\ json[s] = None /\ \A k \in Kinds \ {"open"} : at'[k][s] = "idle"
      BY <2>1, <2>4 DEF FreshIds, Stranded, Crashed, Kinds
    <3>2. row'[s] = None /\ at'["open"][s] = "failed"
      BY <2>1, <2>4, <3>1, Distinct DEF Crashed, Stranded, Kinds
    <3> QED
      BY <2>2, <3>1, <3>2 DEF Crashed
  <2> QED
    BY <1>2, <2>2, <2>3, <2>4 DEF DeadBehindClose
<1> QED
    BY <1>1, <1>2 DEF DeadBehindClose, Stranded

\* Nothing brings a tmux session back, and nothing forgets a live one.
LEMMA DeadKept == ASSUME IInv, Next PROVE DeadBehindClose'
<1>4. ASSUME NEW o \in Sessions, OpenFail(o) PROVE DeadBehindClose'
  <2>1. Removal("open", o, "failed") /\ Failed(o)
    BY <1>4, FailEffect DEF IInv
  <2> QED
    BY <2>1, Distinct DEF IInv, DeadBehindClose, TypeOK, Kinds, Stranded, FreshIds,
       MetadataHasRow, SavesHaveValues, Savers, Saving, Slotted, Removal, Failed
<1>13. ASSUME NEW s \in Sessions, PurgeRemove(s) PROVE DeadBehindClose'
  <2>1. Removal("purge", s, "idle") /\ Purged(s)
    BY <1>13, PurgeEffect DEF IInv
  <2> QED
    BY <2>1, Distinct DEF IInv, DeadBehindClose, TypeOK, Kinds, Stranded, FreshIds,
       MetadataHasRow, SavesHaveValues, Savers, Saving, Slotted, Removal, Purged
<1>15. ASSUME CrashAndRestart PROVE DeadBehindClose'
  <2>1. Crashed
    BY <1>15, CrashEffect DEF IInv
  <2> QED
    BY <2>1, CrashedDead DEF IInv
<1>16. ASSUME NEW s \in Sessions, NEW k \in Savers, SaveWrite(k, s) PROVE DeadBehindClose'
  <2>1. Wrote(k, s)
    BY <1>16, WriteEffect
  <2> QED
    BY <2>1, Distinct DEF IInv, DeadBehindClose, TypeOK, Kinds, Stranded, FreshIds,
       MetadataHasRow, SavesHaveValues, Savers, Saving, Slotted, Wrote
<1> USE DEF IInv, TypeOK, Kinds, Savers, Values, None, Empty, Torn, Saving, Writing,
   DeadBehindClose,
        Stranded, FreshIds, SavesHaveValues, MetadataHasRow, Slotted,
        handlers, gating, files, panes, history, Event, Move, Kill, Fault
<1>1. ASSUME NEW o \in Sessions, OpenList(o) PROVE DeadBehindClose'
  <2>1. at["open"][o] = "idle" /\ (Decided(o) \/ Waits(o)) /\ Elsewhere
    BY <1>1, ListEffect
  <2>2. PICK x \in {"reserved", "failed", "listed"} : at' = [at EXCEPT !["open"][o] = x]
    BY <2>1 DEF Decided, Waits
  <2> QED
    BY <2>1, <2>2 DEF Elsewhere
<1>2. ASSUME NEW o \in Sessions, OpenDecide(o) PROVE DeadBehindClose'
  <2>1. at["open"][o] = "listed" /\ Decided(o) /\ Elsewhere
    BY <1>2, ProbedEffect
  <2>2. PICK x \in {"reserved", "failed"} : at' = [at EXCEPT !["open"][o] = x]
    BY <2>1 DEF Decided
  <2> QED
    BY <2>1, <2>2 DEF Elsewhere
<1>3. ASSUME NEW o \in Sessions, OpenCreate(o) PROVE DeadBehindClose'
    BY <1>3 DEF OpenCreate
<1>5. ASSUME NEW s \in Sessions, CloseKill(s) PROVE DeadBehindClose'
    BY <1>5 DEF CloseKill
<1>6. ASSUME NEW s \in Sessions, CloseRead(s) PROVE DeadBehindClose'
    BY <1>6 DEF CloseRead
<1>7. ASSUME NEW s \in Sessions, UpdateRead(s) PROVE DeadBehindClose'
    BY <1>7 DEF UpdateRead
<1>8. ASSUME NEW s \in Sessions, NEW k \in Savers, SaveRow(k, s) PROVE DeadBehindClose'
    BY <1>8 DEF SaveRow
<1>9. ASSUME NEW s \in Sessions, NEW k \in Savers, SavePart(k, s) PROVE DeadBehindClose'
    BY <1>9 DEF SavePart
<1>10. ASSUME NEW s \in Sessions, NEW k \in Savers, SaveRename(k, s) PROVE DeadBehindClose'
    BY <1>10 DEF SaveRename, Ended
<1>11. ASSUME NEW s \in Sessions, NEW k \in Savers, SaveFails(k, s) PROVE DeadBehindClose'
    BY <1>11 DEF SaveFails
<1>12. ASSUME NEW s \in Sessions, PurgeDelete(s) PROVE DeadBehindClose'
    BY <1>12 DEF PurgeDelete
<1>14. ASSUME NEW s \in Sessions, ShellExit(s) PROVE DeadBehindClose'
    BY <1>14 DEF ShellExit
<1> HIDE DEF IInv, TypeOK, Kinds, Savers, Values, None, Empty, Torn, Saving, Writing,
   DeadBehindClose,
        Stranded, FreshIds, SavesHaveValues, MetadataHasRow, Slotted,
        handlers, gating, files, panes, history, Event, Move, Kill, Fault
<1> QED BY <1>1, <1>2, <1>3, <1>4, <1>5, <1>6, <1>7, <1>8, <1>9, <1>10, <1>11,
           <1>12, <1>13, <1>14, <1>15, <1>16
        DEF Next, Save

\* A purge that takes a row away takes the directory and the .part file too.
LEMMA FindKept == ASSUME IInv, Next PROVE SavesFindRows'
<1>4. ASSUME NEW o \in Sessions, OpenFail(o) PROVE SavesFindRows'
  <2>1. Removal("open", o, "failed") /\ Failed(o) /\ TypeOK
    BY <1>4, FailEffect DEF IInv
  <2>2. ASSUME NEW s \in Sessions, NEW k \in Savers,
               \/ at'[k][s] = "row" /\ s \in dir'
               \/ at'[k][s] \in Writing /\ (s \in dir' \/ part'[s] # None)
        PROVE  row'[s] # None \/ purged'[s] \in {"begun", "failed"}
    <3>1. /\ at[k][s] = at'[k][s] \/ (at[k][s] \in Writing /\ at'[k][s] \in Writing)
          /\ dir' \subseteq dir /\ part'[s] \in {None, part[s]} /\ row' = row /\ purged' = purged
      BY <2>1, <2>2 DEF Removal, Failed, Writing, Savers, Kinds, TypeOK
    <3> QED
      BY <2>2, <3>1 DEF SavesFindRows, Writing, IInv
  <2> QED
    BY <2>2 DEF SavesFindRows
<1>13. ASSUME NEW s \in Sessions, PurgeRemove(s) PROVE SavesFindRows'
  <2>1. Removal("purge", s, "idle") /\ Purged(s)
    BY <1>13, PurgeEffect DEF IInv
  <2> QED
    BY <2>1, Distinct DEF IInv, SavesFindRows, TypeOK, Kinds, Savers, Writing, FilesAreHeld,
       Removal, Purged
<1>15. ASSUME CrashAndRestart PROVE SavesFindRows'
  <2>1. Crashed
    BY <1>15, CrashEffect DEF IInv
  <2> QED
    BY <2>1, Distinct DEF IInv, SavesFindRows, TypeOK, Kinds, Savers, Writing, FilesAreHeld,
       Crashed
<1>16. ASSUME NEW s \in Sessions, NEW k \in Savers, SaveWrite(k, s) PROVE SavesFindRows'
  <2>1. Wrote(k, s)
    BY <1>16, WriteEffect
  <2> QED
    BY <2>1, Distinct DEF IInv, SavesFindRows, TypeOK, Kinds, Savers, Writing, FilesAreHeld,
       Wrote
<1> USE DEF IInv, TypeOK, Kinds, Savers, Values, None, Empty, Torn, Saving, Writing,
   SavesFindRows,
        FreshIds, SavesHaveValues, Slotted, handlers, gating, files, panes,
        history, Event, Move, Kill, Fault
<1>1. ASSUME NEW o \in Sessions, OpenList(o) PROVE SavesFindRows'
  <2>1. at["open"][o] = "idle" /\ (Decided(o) \/ Waits(o)) /\ Elsewhere
    BY <1>1, ListEffect
  <2>2. PICK x \in {"reserved", "failed", "listed"} : at' = [at EXCEPT !["open"][o] = x]
    BY <2>1 DEF Decided, Waits
  <2> QED
    BY <2>1, <2>2 DEF Elsewhere
<1>2. ASSUME NEW o \in Sessions, OpenDecide(o) PROVE SavesFindRows'
  <2>1. at["open"][o] = "listed" /\ Decided(o) /\ Elsewhere
    BY <1>2, ProbedEffect
  <2>2. PICK x \in {"reserved", "failed"} : at' = [at EXCEPT !["open"][o] = x]
    BY <2>1 DEF Decided
  <2> QED
    BY <2>1, <2>2 DEF Elsewhere
<1>3. ASSUME NEW o \in Sessions, OpenCreate(o) PROVE SavesFindRows'
    BY <1>3 DEF OpenCreate
<1>5. ASSUME NEW s \in Sessions, CloseKill(s) PROVE SavesFindRows'
    BY <1>5 DEF CloseKill
<1>6. ASSUME NEW s \in Sessions, CloseRead(s) PROVE SavesFindRows'
    BY <1>6 DEF CloseRead
<1>7. ASSUME NEW s \in Sessions, UpdateRead(s) PROVE SavesFindRows'
    BY <1>7 DEF UpdateRead
<1>8. ASSUME NEW s \in Sessions, NEW k \in Savers, SaveRow(k, s) PROVE SavesFindRows'
    BY <1>8 DEF SaveRow
<1>9. ASSUME NEW s \in Sessions, NEW k \in Savers, SavePart(k, s) PROVE SavesFindRows'
    BY <1>9 DEF SavePart
<1>10. ASSUME NEW s \in Sessions, NEW k \in Savers, SaveRename(k, s) PROVE SavesFindRows'
    BY <1>10 DEF SaveRename, Ended
<1>11. ASSUME NEW s \in Sessions, NEW k \in Savers, SaveFails(k, s) PROVE SavesFindRows'
    BY <1>11 DEF SaveFails
<1>12. ASSUME NEW s \in Sessions, PurgeDelete(s) PROVE SavesFindRows'
    BY <1>12 DEF PurgeDelete
<1>14. ASSUME NEW s \in Sessions, ShellExit(s) PROVE SavesFindRows'
    BY <1>14 DEF ShellExit
<1> HIDE DEF IInv, TypeOK, Kinds, Savers, Values, None, Empty, Torn, Saving, Writing,
   SavesFindRows,
        FreshIds, SavesHaveValues, Slotted, handlers, gating, files, panes,
        history, Event, Move, Kill, Fault
<1> QED BY <1>1, <1>2, <1>3, <1>4, <1>5, <1>6, <1>7, <1>8, <1>9, <1>10, <1>11,
           <1>12, <1>13, <1>14, <1>15, <1>16
        DEF Next, Save

\* So no rename leaves a session.json without its row.
LEMMA MetadataKept == ASSUME IInv, Next PROVE MetadataHasRow'
<1>4. ASSUME NEW o \in Sessions, OpenFail(o) PROVE MetadataHasRow'
  <2>1. Removal("open", o, "failed") /\ Failed(o)
    BY <1>4, FailEffect DEF IInv
  <2> QED
    BY <2>1, Distinct DEF IInv, MetadataHasRow, TypeOK, Kinds, FilesAreHeld, Savers, Removal,
       Failed
<1>13. ASSUME NEW s \in Sessions, PurgeRemove(s) PROVE MetadataHasRow'
  <2>1. Removal("purge", s, "idle") /\ Purged(s)
    BY <1>13, PurgeEffect DEF IInv
  <2> QED
    BY <2>1, Distinct DEF IInv, MetadataHasRow, TypeOK, Kinds, FilesAreHeld, Savers, Removal,
       Purged
<1>15. ASSUME CrashAndRestart PROVE MetadataHasRow'
  <2>1. Crashed
    BY <1>15, CrashEffect DEF IInv
  <2> QED
    BY <2>1, Distinct DEF IInv, MetadataHasRow, TypeOK, Kinds, FilesAreHeld, Savers, Crashed
<1>16. ASSUME NEW s \in Sessions, NEW k \in Savers, SaveWrite(k, s) PROVE MetadataHasRow'
  <2>1. Wrote(k, s)
    BY <1>16, WriteEffect
  <2> QED
    BY <2>1, Distinct DEF IInv, MetadataHasRow, TypeOK, Kinds, FilesAreHeld, Savers, Wrote
<1> USE DEF IInv, TypeOK, Kinds, Savers, Values, None, Empty, Torn, Saving, Writing,
   MetadataHasRow,
        SavesFindRows, FreshIds, SavesHaveValues, Slotted, handlers, gating,
        files, panes, history, Event, Move, Kill, Fault
<1>1. ASSUME NEW o \in Sessions, OpenList(o) PROVE MetadataHasRow'
  <2>1. at["open"][o] = "idle" /\ (Decided(o) \/ Waits(o)) /\ Elsewhere
    BY <1>1, ListEffect
  <2>2. PICK x \in {"reserved", "failed", "listed"} : at' = [at EXCEPT !["open"][o] = x]
    BY <2>1 DEF Decided, Waits
  <2> QED
    BY <2>1, <2>2 DEF Elsewhere
<1>2. ASSUME NEW o \in Sessions, OpenDecide(o) PROVE MetadataHasRow'
  <2>1. at["open"][o] = "listed" /\ Decided(o) /\ Elsewhere
    BY <1>2, ProbedEffect
  <2>2. PICK x \in {"reserved", "failed"} : at' = [at EXCEPT !["open"][o] = x]
    BY <2>1 DEF Decided
  <2> QED
    BY <2>1, <2>2 DEF Elsewhere
<1>3. ASSUME NEW o \in Sessions, OpenCreate(o) PROVE MetadataHasRow'
    BY <1>3 DEF OpenCreate
<1>5. ASSUME NEW s \in Sessions, CloseKill(s) PROVE MetadataHasRow'
    BY <1>5 DEF CloseKill
<1>6. ASSUME NEW s \in Sessions, CloseRead(s) PROVE MetadataHasRow'
    BY <1>6 DEF CloseRead
<1>7. ASSUME NEW s \in Sessions, UpdateRead(s) PROVE MetadataHasRow'
    BY <1>7 DEF UpdateRead
<1>8. ASSUME NEW s \in Sessions, NEW k \in Savers, SaveRow(k, s) PROVE MetadataHasRow'
    BY <1>8 DEF SaveRow
<1>9. ASSUME NEW s \in Sessions, NEW k \in Savers, SavePart(k, s) PROVE MetadataHasRow'
    BY <1>9 DEF SavePart
<1>10. ASSUME NEW s \in Sessions, NEW k \in Savers, SaveRename(k, s) PROVE MetadataHasRow'
    BY <1>10 DEF SaveRename, Ended
<1>11. ASSUME NEW s \in Sessions, NEW k \in Savers, SaveFails(k, s) PROVE MetadataHasRow'
    BY <1>11 DEF SaveFails
<1>12. ASSUME NEW s \in Sessions, PurgeDelete(s) PROVE MetadataHasRow'
    BY <1>12 DEF PurgeDelete
<1>14. ASSUME NEW s \in Sessions, ShellExit(s) PROVE MetadataHasRow'
    BY <1>14 DEF ShellExit
<1> HIDE DEF IInv, TypeOK, Kinds, Savers, Values, None, Empty, Torn, Saving, Writing,
   MetadataHasRow,
        SavesFindRows, FreshIds, SavesHaveValues, Slotted, handlers, gating,
        files, panes, history, Event, Move, Kill, Fault
<1> QED BY <1>1, <1>2, <1>3, <1>4, <1>5, <1>6, <1>7, <1>8, <1>9, <1>10, <1>11,
           <1>12, <1>13, <1>14, <1>15, <1>16
        DEF Next, Save

\* A file is renamed or removed with the saves that have it open.
LEMMA HeldKept == ASSUME IInv, Next PROVE FilesAreHeld'
<1>4. ASSUME NEW o \in Sessions, OpenFail(o) PROVE FilesAreHeld'
  <2>1. Removal("open", o, "failed") /\ Failed(o)
    BY <1>4, FailEffect DEF IInv
  <2> QED
    BY <2>1, Distinct DEF IInv, FilesAreHeld, TypeOK, Kinds, Savers, Removal, Failed
<1>13. ASSUME NEW s \in Sessions, PurgeRemove(s) PROVE FilesAreHeld'
  <2>1. Removal("purge", s, "idle") /\ Purged(s)
    BY <1>13, PurgeEffect DEF IInv
  <2> QED
    BY <2>1, Distinct DEF IInv, FilesAreHeld, TypeOK, Kinds, Savers, Removal, Purged
<1>15. ASSUME CrashAndRestart PROVE FilesAreHeld'
  <2>1. Crashed
    BY <1>15, CrashEffect DEF IInv
  <2> QED
    BY <2>1, Distinct DEF IInv, FilesAreHeld, TypeOK, Kinds, Savers, Crashed
<1>16. ASSUME NEW s \in Sessions, NEW k \in Savers, SaveWrite(k, s) PROVE FilesAreHeld'
  <2>1. Wrote(k, s)
    BY <1>16, WriteEffect
  <2> QED
    BY <2>1, Distinct DEF IInv, FilesAreHeld, TypeOK, Kinds, Savers, SavesHaveValues, Saving,
       Wrote
<1> USE DEF IInv, TypeOK, Kinds, Savers, Values, None, Empty, Torn, Saving, Writing, FreshIds,
   FilesAreHeld, AloneIsWhole,
        SavesHaveValues, Slotted, handlers, gating,
        files, panes, history, Event, Move, Kill, Fault
<1>1. ASSUME NEW o \in Sessions, OpenList(o) PROVE FilesAreHeld'
  <2>1. at["open"][o] = "idle" /\ (Decided(o) \/ Waits(o)) /\ Elsewhere
    BY <1>1, ListEffect
  <2>2. PICK x \in {"reserved", "failed", "listed"} : at' = [at EXCEPT !["open"][o] = x]
    BY <2>1 DEF Decided, Waits
  <2> QED
    BY <2>1, <2>2 DEF Elsewhere
<1>2. ASSUME NEW o \in Sessions, OpenDecide(o) PROVE FilesAreHeld'
  <2>1. at["open"][o] = "listed" /\ Decided(o) /\ Elsewhere
    BY <1>2, ProbedEffect
  <2>2. PICK x \in {"reserved", "failed"} : at' = [at EXCEPT !["open"][o] = x]
    BY <2>1 DEF Decided
  <2> QED
    BY <2>1, <2>2 DEF Elsewhere
<1>3. ASSUME NEW o \in Sessions, OpenCreate(o) PROVE FilesAreHeld'
    BY <1>3 DEF OpenCreate
<1>5. ASSUME NEW s \in Sessions, CloseKill(s) PROVE FilesAreHeld'
    BY <1>5 DEF CloseKill
<1>6. ASSUME NEW s \in Sessions, CloseRead(s) PROVE FilesAreHeld'
    BY <1>6 DEF CloseRead
<1>7. ASSUME NEW s \in Sessions, UpdateRead(s) PROVE FilesAreHeld'
    BY <1>7 DEF UpdateRead
<1>8. ASSUME NEW s \in Sessions, NEW k \in Savers, SaveRow(k, s) PROVE FilesAreHeld'
    BY <1>8 DEF SaveRow
<1>9. ASSUME NEW s \in Sessions, NEW k \in Savers, SavePart(k, s) PROVE FilesAreHeld'
    BY <1>9 DEF SavePart
<1>10. ASSUME NEW s \in Sessions, NEW k \in Savers, SaveRename(k, s) PROVE FilesAreHeld'
    BY <1>10 DEF SaveRename, Ended
<1>11. ASSUME NEW s \in Sessions, NEW k \in Savers, SaveFails(k, s) PROVE FilesAreHeld'
    BY <1>11 DEF SaveFails
<1>12. ASSUME NEW s \in Sessions, PurgeDelete(s) PROVE FilesAreHeld'
    BY <1>12 DEF PurgeDelete
<1>14. ASSUME NEW s \in Sessions, ShellExit(s) PROVE FilesAreHeld'
    BY <1>14 DEF ShellExit
<1> HIDE DEF IInv, TypeOK, Kinds, Savers, Values, None, Empty, Torn, Saving, Writing,
   FreshIds, FilesAreHeld, AloneIsWhole,
        SavesHaveValues, Slotted, handlers, gating,
        files, panes, history, Event, Move, Kill, Fault
<1> QED BY <1>1, <1>2, <1>3, <1>4, <1>5, <1>6, <1>7, <1>8, <1>9, <1>10, <1>11,
           <1>12, <1>13, <1>14, <1>15, <1>16
        DEF Next, Save

\* A save alone renames what it has written.
LEMMA AloneKept == ASSUME IInv, Next PROVE AloneIsWhole'
<1>4. ASSUME NEW o \in Sessions, OpenFail(o) PROVE AloneIsWhole'
  <2>1. Removal("open", o, "failed") /\ Failed(o)
    BY <1>4, FailEffect DEF IInv
  <2> QED
    BY <2>1, Distinct DEF IInv, AloneIsWhole, TypeOK, Kinds, Savers, Writing, Saving,
       SavesHaveValues, Removal, Failed
<1>13. ASSUME NEW s \in Sessions, PurgeRemove(s) PROVE AloneIsWhole'
  <2>1. Removal("purge", s, "idle") /\ Purged(s)
    BY <1>13, PurgeEffect DEF IInv
  <2> QED
    BY <2>1, Distinct DEF IInv, AloneIsWhole, TypeOK, Kinds, Savers, Writing, Saving,
       SavesHaveValues, Removal, Purged
<1>15. ASSUME CrashAndRestart PROVE AloneIsWhole'
  <2>1. Crashed
    BY <1>15, CrashEffect DEF IInv
  <2> QED
    BY <2>1, Distinct DEF IInv, AloneIsWhole, TypeOK, Kinds, Savers, Writing, Saving,
       SavesHaveValues, Crashed
<1>16. ASSUME NEW s \in Sessions, NEW k \in Savers, SaveWrite(k, s) PROVE AloneIsWhole'
  <2>1. Wrote(k, s)
    BY <1>16, WriteEffect
  <2> QED
    BY <2>1, Distinct DEF IInv, AloneIsWhole, TypeOK, Kinds, Savers, Writing, Saving,
       SavesHaveValues, Wrote
<1> USE DEF IInv, TypeOK, Kinds, Savers, Values, None, Empty, Torn, Saving, Writing, FreshIds,
   FilesAreHeld, AloneIsWhole,
        SavesHaveValues, Slotted, handlers, gating,
        files, panes, history, Event, Move, Kill, Fault
<1>1. ASSUME NEW o \in Sessions, OpenList(o) PROVE AloneIsWhole'
  <2>1. at["open"][o] = "idle" /\ (Decided(o) \/ Waits(o)) /\ Elsewhere
    BY <1>1, ListEffect
  <2>2. PICK x \in {"reserved", "failed", "listed"} : at' = [at EXCEPT !["open"][o] = x]
    BY <2>1 DEF Decided, Waits
  <2> QED
    BY <2>1, <2>2 DEF Elsewhere
<1>2. ASSUME NEW o \in Sessions, OpenDecide(o) PROVE AloneIsWhole'
  <2>1. at["open"][o] = "listed" /\ Decided(o) /\ Elsewhere
    BY <1>2, ProbedEffect
  <2>2. PICK x \in {"reserved", "failed"} : at' = [at EXCEPT !["open"][o] = x]
    BY <2>1 DEF Decided
  <2> QED
    BY <2>1, <2>2 DEF Elsewhere
<1>3. ASSUME NEW o \in Sessions, OpenCreate(o) PROVE AloneIsWhole'
    BY <1>3 DEF OpenCreate
<1>5. ASSUME NEW s \in Sessions, CloseKill(s) PROVE AloneIsWhole'
    BY <1>5 DEF CloseKill
<1>6. ASSUME NEW s \in Sessions, CloseRead(s) PROVE AloneIsWhole'
    BY <1>6 DEF CloseRead
<1>7. ASSUME NEW s \in Sessions, UpdateRead(s) PROVE AloneIsWhole'
    BY <1>7 DEF UpdateRead
<1>8. ASSUME NEW s \in Sessions, NEW k \in Savers, SaveRow(k, s) PROVE AloneIsWhole'
    BY <1>8 DEF SaveRow
<1>9. ASSUME NEW s \in Sessions, NEW k \in Savers, SavePart(k, s) PROVE AloneIsWhole'
    BY <1>9 DEF SavePart
<1>10. ASSUME NEW s \in Sessions, NEW k \in Savers, SaveRename(k, s) PROVE AloneIsWhole'
    BY <1>10 DEF SaveRename, Ended
<1>11. ASSUME NEW s \in Sessions, NEW k \in Savers, SaveFails(k, s) PROVE AloneIsWhole'
    BY <1>11 DEF SaveFails
<1>12. ASSUME NEW s \in Sessions, PurgeDelete(s) PROVE AloneIsWhole'
    BY <1>12 DEF PurgeDelete
<1>14. ASSUME NEW s \in Sessions, ShellExit(s) PROVE AloneIsWhole'
    BY <1>14 DEF ShellExit
<1> HIDE DEF IInv, TypeOK, Kinds, Savers, Values, None, Empty, Torn, Saving, Writing,
   FreshIds, FilesAreHeld, AloneIsWhole,
        SavesHaveValues, Slotted, handlers, gating,
        files, panes, history, Event, Move, Kill, Fault
<1> QED BY <1>1, <1>2, <1>3, <1>4, <1>5, <1>6, <1>7, <1>8, <1>9, <1>10, <1>11,
           <1>12, <1>13, <1>14, <1>15, <1>16
        DEF Next, Save

-----------------------------------------------------------------------------
\* The limit.

\* Cardinalities of sets of sessions.
LEMMA Sizes ==
    ASSUME NEW S, NEW T, S \subseteq Sessions, T \subseteq Sessions
    PROVE  /\ Cardinality(S) \in Nat /\ Cardinality(T) \in Nat
           /\ Cardinality(S \cup T) \in Nat
           /\ Cardinality(S \cup T) <= Cardinality(S) + Cardinality(T)
           /\ S \subseteq T => Cardinality(S) <= Cardinality(T)
<1>1. IsFiniteSet(S) /\ IsFiniteSet(T) /\ IsFiniteSet(S \cup T) /\ IsFiniteSet(S \cap T)
    BY FS_Subset
<1>2. /\ Cardinality(S) \in Nat /\ Cardinality(T) \in Nat
      /\ Cardinality(S \cup T) \in Nat /\ Cardinality(S \cap T) \in Nat
    BY <1>1, FS_CardinalityType
<1>3. Cardinality(S \cup T) = Cardinality(S) + Cardinality(T) - Cardinality(S \cap T)
    BY <1>1, FS_Union
<1>4. S \subseteq T => Cardinality(S) <= Cardinality(T)
    BY <1>1, FS_Subset
<1> QED
    BY <1>2, <1>3, <1>4

\* A step after which no session counts that did not count before, and no open
\* has begun to wait for its probes.
LEMMA LimitStays ==
    ASSUME IInv, pendingOpens' <= MaxActive, faults' = 0 => faults = 0 /\ Counting' \subseteq Counting,
           Probing' \subseteq Probing, \A o \in Probing' : snap'[o] = snap[o]
    PROVE  OverlookedIsBounded' /\ ActiveWithinTwice'
<1>1. Counting \subseteq Sessions /\ Counting' \subseteq Sessions
    BY DEF Counting, Live, OpenRows, Opening
<1>2. ASSUME faults' = 0 PROVE Cardinality(Counting') <= 2 * MaxActive
  <2>1. Cardinality(Counting) <= 2 * MaxActive
    BY <1>2 DEF IInv, ActiveWithinTwice, Counting, Opening
  <2>2. Cardinality(Counting') <= Cardinality(Counting)
    BY <1>1, <1>2, Sizes
  <2>3. Cardinality(Counting) \in Nat /\ Cardinality(Counting') \in Nat
    BY <1>1, Sizes
  <2> QED
    BY <2>1, <2>2, <2>3
<1>3. ASSUME faults' = 0, NEW o \in Probing'
      PROVE  Cardinality(Counting' \ snap'[o].live) <= MaxActive
  <2>1. Cardinality(Counting \ snap[o].live) <= MaxActive
    BY <1>3 DEF IInv, OverlookedIsBounded
  <2>2. Cardinality(Counting' \ snap'[o].live) <= Cardinality(Counting \ snap[o].live)
    <3>1. Counting' \ snap'[o].live \subseteq Counting \ snap[o].live
      BY <1>3
    <3> QED
      BY <1>1, <3>1, Sizes
  <2>3. /\ Cardinality(Counting \ snap[o].live) \in Nat
        /\ Cardinality(Counting' \ snap'[o].live) \in Nat
    BY <1>1, Sizes
  <2> QED
    BY <2>1, <2>2, <2>3
<1>4. OverlookedIsBounded'
    BY <1>3 DEF OverlookedIsBounded
<1>5. ActiveWithinTwice'
    BY <1>2 DEF ActiveWithinTwice, Counting, Opening
<1> QED
    BY <1>4, <1>5

\* While the gate is free no open waits for its probes.
LEMMA GateFree == ASSUME SlotsAreReturned, gate = "free" PROVE Probing = {}
<1>1. Cardinality(Probing) \in Nat /\ Cardinality(Purging) \in Nat
    BY Subsets, Counts
<1> QED
    BY <1>1, Subsets, Counts, SlotsAlt

\* A decision: a slot within the limit, given while no other open waits.
LEMMA LimitDecides ==
    ASSUME IInv, SlotsAreReturned', NEW o \in Sessions, o \notin Opening, NEW listed,
           listed.live \subseteq Sessions,
           Decide(o, at["open"][o], listed),
           UNCHANGED <<row, tmux>>,
           faults = 0 => Cardinality(Counting \ listed.live) <= MaxActive
    PROVE  OverlookedIsBounded' /\ ActiveWithinTwice'
<1>1. PICK active \in SUBSET listed.live :
        /\ Probed(listed, active)
        /\ \/ /\ Room(active, listed)
              /\ at' = [at EXCEPT !["open"][o] = "reserved"] /\ pendingOpens' = pendingOpens + 1
           \/ /\ at' = [at EXCEPT !["open"][o] = "failed"] /\ pendingOpens' = pendingOpens
    BY DEF Decide, Move
<1>2. Probing' = {}
  <2>1. gate' = "free"
    BY DEF Decide
  <2>2. Cardinality(Probing') \in Nat /\ Cardinality(Purging') \in Nat
    BY Subsets, Counts
  <2>3. Cardinality(Probing') = 0
    BY <2>1, <2>2, SlotsAltNext
  <2> QED
    BY <2>3, Subsets, Counts
<1>3. faults' = 0 => faults = 0 /\ listed.live \cap tmux \subseteq active
    BY <1>1 DEF Probed, Fault, IInv, TypeOK
<1>4. pendingOpens \in Nat /\ pendingOpens <= MaxActive
    BY DEF IInv, TypeOK, OverlookedIsBounded
<1>5. Live' = Live
    BY DEF Live, OpenRows
<1>6. CASE at' = [at EXCEPT !["open"][o] = "failed"] /\ pendingOpens' = pendingOpens
  <2>1. Opening' = Opening
    BY <1>6 DEF Opening, IInv, TypeOK, Kinds, Slotted
  <2>2. Counting' = Counting
    BY <1>5, <2>1 DEF Counting
  <2> QED
    BY <1>2, <1>3, <1>4, <1>6, <2>2, LimitStays
<1>7. CASE /\ Room(active, listed)
           /\ at' = [at EXCEPT !["open"][o] = "reserved"] /\ pendingOpens' = pendingOpens + 1
  <2>1. /\ Cardinality(active) \in Nat
        /\ Cardinality(active) + pendingOpens < MaxActive
    BY <1>7, Counts DEF Room
  <2>2. pendingOpens' <= MaxActive
    BY <1>4, <1>7, <2>1
  <2>3. Opening' = Opening \cup {o}
    BY <1>7 DEF Opening, IInv, TypeOK, Kinds, Slotted
  <2>4. ASSUME faults' = 0 PROVE Cardinality(Counting') <= 2 * MaxActive
    <3> DEFINE Seen == Counting \cap listed.live
               Overlooked == Counting \ listed.live
    <3>1. /\ Counting \subseteq Sessions /\ Seen \subseteq Sessions /\ Overlooked \subseteq Sessions
          /\ active \cup Opening \subseteq Sessions /\ {o} \subseteq Sessions
      BY DEF Counting, Live, OpenRows, Opening
    <3>2. Seen \subseteq active \cup Opening
      BY <1>3, <2>4 DEF Counting, Live
    <3>3. Cardinality(active \cup Opening) <= Cardinality(active) + pendingOpens
      BY <3>1, Subsets, Sizes, SlotsAlt DEF IInv
    <3>4. Cardinality(Seen) <= Cardinality(active \cup Opening)
      BY <3>1, <3>2, Sizes
    <3>5. Cardinality(Overlooked) <= MaxActive
      BY <1>3, <2>4
    <3>6. Cardinality(Counting) <= Cardinality(Seen) + Cardinality(Overlooked)
      <4>1. Counting = Seen \cup Overlooked
        OBVIOUS
      <4> HIDE DEF Seen, Overlooked
      <4> QED
        BY <3>1, <4>1, Sizes
    <3>7. Cardinality(Counting') <= Cardinality(Counting) + 1
      <4>1. Counting' = Counting \cup {o}
        BY <1>5, <2>3 DEF Counting
      <4>2. CASE o \in Counting
        <5>1. Counting' = Counting
          BY <4>1, <4>2
        <5> QED
          BY <3>1, <5>1, Counts
      <4>3. CASE o \notin Counting
        BY <3>1, <4>1, <4>3, Counts
      <4> QED
        BY <4>2, <4>3
    <3>8. /\ Cardinality(Seen) \in Nat /\ Cardinality(Overlooked) \in Nat
          /\ Cardinality(Counting) \in Nat /\ Cardinality(active \cup Opening) \in Nat
      BY <3>1, Counts
    <3>9. Cardinality(Counting') \in Nat
      <4>1. Counting' \subseteq Sessions
        BY DEF Counting, Live, OpenRows, Opening
      <4> QED
        BY <4>1, Counts
    <3> HIDE DEF Seen, Overlooked
    <3> QED
      BY <1>4, <2>1, <3>3, <3>4, <3>5, <3>6, <3>7, <3>8, <3>9
  <2>5. ActiveWithinTwice'
    BY <2>4 DEF ActiveWithinTwice, Counting, Opening
  <2> QED
    BY <1>2, <2>2, <2>5 DEF OverlookedIsBounded
<1> QED
    BY <1>1, <1>6, <1>7

\* The steps that decide nothing about an open.
Moves ==
    \/ \E s \in Sessions :
          \/ OpenCreate(s) \/ OpenFail(s) \/ CloseKill(s) \/ CloseRead(s) \/ UpdateRead(s)
          \/ \E k \in Savers : Save(k, s)
          \/ PurgeDelete(s) \/ PurgeRemove(s) \/ ShellExit(s)
    \/ CrashAndRestart

\* What they leave alone: as long as tmux obeys, only a decision adds to the
\* sessions that live or are being opened, since a save makes a session live
\* only if its open held a slot.
Shrinks ==
    /\ faults' = 0 => faults = 0 /\ Counting' \subseteq Counting
    /\ pendingOpens' <= MaxActive
    /\ Probing' \subseteq Probing /\ \A o \in Probing' : snap'[o] = snap[o]

\* An open that fails does not count any more.
LEMMA FailShrinks ==
    ASSUME TypeOK, NEW s \in Sessions, Removal("open", s, "failed"), Failed(s), pendingOpens <= MaxActive
    PROVE  Shrinks
<1>1. /\ faults' = 0 => faults = 0
      /\ pendingOpens' <= MaxActive /\ row' = row /\ snap' = snap
      /\ tmux' \subseteq tmux
    BY DEF Failed, TypeOK
<1>2. \A q \in Sessions : /\ at'["open"][q] \in Slotted => at["open"][q] \in Slotted
                          /\ at'["open"][q] = "listed" => at["open"][q] = "listed"
    BY DEF Removal, Kinds, Slotted
<1>3. Counting' \subseteq Counting
    BY <1>1, <1>2 DEF Counting, Live, OpenRows, Opening
<1>4. Probing' \subseteq Probing /\ \A o \in Probing' : snap'[o] = snap[o]
    BY <1>1, <1>2 DEF Probing
<1> QED
    BY <1>1, <1>3, <1>4 DEF Shrinks

\* A crash ends all opens, and the import makes no live session OPEN.
LEMMA CrashShrinks ==
    ASSUME IInv, Crashed
    PROVE  Shrinks
<1>1. faults' = faults /\ pendingOpens' <= MaxActive /\ tmux' = tmux
    BY DEF Crashed
<1>2. \A q \in Sessions : at'["open"][q] \notin Slotted /\ at'["open"][q] # "listed"
    BY DEF Crashed, Kinds, Slotted
<1>3. ASSUME faults = 0, NEW q \in Sessions, q \in tmux, row'[q].state = "OPEN"
      PROVE  row[q].state = "OPEN"
  <2>1. row'[q] = row[q] \/ (row[q] = None /\ json[q] # None)
    BY Distinct DEF Crashed
  <2>2. CASE row[q] = None
     <3>1. json[q] = None
        BY <1>3, <2>2, Distinct DEF IInv, DeadBehindClose, Stranded, FreshIds
     <3> QED BY <1>3, <2>1, <2>2, <3>1, Distinct
  <2> QED
    BY <1>3, <2>1, <2>2
<1>4. faults = 0 => Counting' \subseteq Counting
    BY <1>1, <1>2, <1>3 DEF Counting, Live, OpenRows, Opening
<1>5. Probing' = {}
    BY <1>2 DEF Probing
<1> QED
    BY <1>1, <1>4, <1>5 DEF Shrinks

\* Every such step shrinks.
LEMMA MovesShrink == ASSUME IInv, Moves PROVE Shrinks
<1> USE DEF IInv, TypeOK, Kinds, Savers, Values, None, Empty, Torn, Saving, Writing, Slotted,
   handlers, gating, files,
        panes, history, Event, Move, Kill, Fault, Counting, Live, OpenRows, Opening, Probing,
        OverlookedIsBounded, Shrinks
<1>1. ASSUME NEW s \in Sessions, OpenCreate(s) PROVE Shrinks
    BY <1>1 DEF OpenCreate, FreshIds
<1>2. ASSUME NEW s \in Sessions, OpenFail(s) PROVE Shrinks
    BY <1>2, FailEffect, FailShrinks
<1>3. ASSUME NEW s \in Sessions, CloseKill(s) PROVE Shrinks
    BY <1>3 DEF CloseKill
<1>4. ASSUME NEW s \in Sessions, CloseRead(s) PROVE Shrinks
    BY <1>4 DEF CloseRead
<1>5. ASSUME NEW s \in Sessions, UpdateRead(s) PROVE Shrinks
    BY <1>5 DEF UpdateRead
<1>6. ASSUME NEW s \in Sessions, NEW k \in Savers, SaveRow(k, s) PROVE Shrinks
    BY <1>6 DEF SaveRow, DeadBehindClose, Stranded, SavesHaveValues, FreshIds
<1>7. ASSUME NEW s \in Sessions, NEW k \in Savers, SavePart(k, s) PROVE Shrinks
    BY <1>7 DEF SavePart
<1>8. ASSUME NEW s \in Sessions, NEW k \in Savers, SaveRename(k, s) PROVE Shrinks
    BY <1>8 DEF SaveRename, Ended, DeadBehindClose, Stranded, FreshIds
<1>9. ASSUME NEW s \in Sessions, NEW k \in Savers, SaveFails(k, s) PROVE Shrinks
    BY <1>9 DEF SaveFails
<1>10. ASSUME NEW s \in Sessions, PurgeDelete(s) PROVE Shrinks
    BY <1>10 DEF PurgeDelete
<1>11. ASSUME NEW s \in Sessions, PurgeRemove(s) PROVE Shrinks
  <2>1. Removal("purge", s, "idle")
    BY <1>11, PurgeEffect
  <2>2. Purged(s)
    BY <1>11, PurgeEffect
  <2> QED
    BY <2>1, <2>2 DEF Removal, Purged
<1>12. ASSUME NEW s \in Sessions, ShellExit(s) PROVE Shrinks
    BY <1>12 DEF ShellExit
<1>14. ASSUME NEW s \in Sessions, NEW k \in Savers, SaveWrite(k, s) PROVE Shrinks
  <2>1. Wrote(k, s)
    BY <1>14, WriteEffect
  <2> QED
    BY <2>1 DEF Wrote
<1>13. ASSUME CrashAndRestart PROVE Shrinks
    BY <1>13, CrashEffect, CrashShrinks
<1> HIDE DEF IInv, Shrinks, Savers, Slotted, Move, Kill, Fault
<1> QED
    BY <1>1, <1>2, <1>3, <1>4, <1>5, <1>6, <1>7, <1>8, <1>9, <1>10, <1>11,
       <1>12, <1>13, <1>14
    DEF Moves, Save

\* Decisions and the other steps keep the limits.
LEMMA LimitKept ==
    ASSUME IInv, Next, SlotsAreReturned' PROVE OverlookedIsBounded' /\ ActiveWithinTwice'
<1>1. ASSUME NEW o \in Sessions, OpenList(o) PROVE OverlookedIsBounded' /\ ActiveWithinTwice'
  <2>1. at["open"][o] = "idle" /\ gate = "free" /\ UNCHANGED <<row, tmux>> /\ faults <= faults'
    BY <1>1, ListEffect DEF IInv, Elsewhere
  <2>2. o \notin Opening
    BY <2>1 DEF Opening, Slotted
  <2>3. Listed.live \subseteq Sessions /\ Listed.live = Live
    BY DEF Listed, Live, OpenRows
  <2>4. Cardinality(Counting \ Listed.live) <= MaxActive
    <3>1. Counting \ Listed.live \subseteq Opening
      BY <2>3 DEF Counting
    <3>2. Cardinality(Counting \ Listed.live) <= Cardinality(Opening)
      BY <3>1, Subsets, Sizes
    <3>3. Cardinality(Counting \ Listed.live) \in Nat
      BY <3>1, Subsets, Counts
    <3> QED
      BY <3>2, <3>3, SlotsAlt DEF IInv, OverlookedIsBounded, TypeOK
  <2>5. CASE OpenRows = {}
    BY <1>1, <2>1, <2>2, <2>3, <2>4, <2>5, LimitDecides DEF OpenList
  <2>6. CASE OpenRows # {}
    <3>1. /\ at' = [at EXCEPT !["open"][o] = "listed"] /\ faults' = faults
          /\ pendingOpens' = pendingOpens /\ snap' = [snap EXCEPT ![o] = Listed]
      BY <1>1, <2>6 DEF OpenList, Move
    <3>2. Opening' = Opening /\ Live' = Live
      BY <2>1, <2>2, <3>1 DEF Opening, Live, OpenRows, IInv, TypeOK, Kinds, Slotted
    <3>3. Counting' = Counting
      BY <3>2 DEF Counting
    <3>4. Probing = {} /\ Probing' = {o}
      BY <2>1, <3>1, GateFree DEF IInv, Probing, TypeOK, Kinds
    <3>5. snap'[o].live = Listed.live
      BY <3>1 DEF IInv, TypeOK
    <3>6. OverlookedIsBounded'
      <4>1. pendingOpens' <= MaxActive
        BY <3>1 DEF IInv, OverlookedIsBounded
      <4>2. \A p \in Probing' : Cardinality(Counting' \ snap'[p].live) <= MaxActive
        BY <2>4, <3>3, <3>4, <3>5
      <4> QED
        BY <4>1, <4>2 DEF OverlookedIsBounded
    <3>7. ActiveWithinTwice'
      BY <3>1, <3>2 DEF IInv, ActiveWithinTwice, Opening
    <3> QED
      BY <3>6, <3>7
  <2> QED
    BY <2>5, <2>6
<1>2. ASSUME NEW o \in Sessions, OpenDecide(o) PROVE OverlookedIsBounded' /\ ActiveWithinTwice'
  <2>1. at["open"][o] = "listed" /\ UNCHANGED <<row, tmux>>
    BY <1>2, ProbedEffect DEF IInv, Elsewhere
  <2>2. o \notin Opening /\ o \in Probing
    BY <2>1 DEF Opening, Probing, Slotted
  <2>3. snap[o].live \subseteq Sessions
    BY DEF IInv, TypeOK
  <2>4. faults = 0 => Cardinality(Counting \ snap[o].live) <= MaxActive
    BY <2>2 DEF IInv, OverlookedIsBounded
  <2> QED
    BY <1>2, <2>1, <2>2, <2>3, <2>4, LimitDecides DEF OpenDecide
<1>3. CASE Moves
    BY <1>3, MovesShrink, LimitStays DEF Shrinks
<1> QED
    BY <1>1, <1>2, <1>3 DEF Next, Moves

-----------------------------------------------------------------------------
\* The theorems.

\* Nothing is open at first.
LEMMA InitIInv == Init => IInv
<1> SUFFICES ASSUME Init PROVE IInv
    OBVIOUS
<1>1. TypeOK
  <2>1. NoList \in [open : SUBSET Sessions, closed : SUBSET Sessions, live : SUBSET Sessions]
    BY DEF NoList
  <2> QED
    BY <2>1 DEF Init, TypeOK, Stages, Kinds
<1>2. Opening = {} /\ Probing = {} /\ Purging = {} /\ Live = {}
    BY DEF Init, Opening, Probing, Purging, Live, Slotted, Kinds
<1>3. SlotsAreReturned
    BY <1>2, FS_EmptySet, SlotsAlt DEF Init
<1>4. FreshIds /\ SavesHaveValues /\ DeadBehindClose /\ SavesFindRows /\ MetadataHasRow
     /\ FilesAreHeld /\ AloneIsWhole
    BY DEF Init, FreshIds, SavesHaveValues, DeadBehindClose, SavesFindRows, MetadataHasRow,
           FilesAreHeld, AloneIsWhole, Saving, Writing, None, Empty, Torn, Kinds, Savers
<1>5. OverlookedIsBounded
    BY <1>2 DEF Init, OverlookedIsBounded
<1>6. ActiveWithinTwice
  <2>1. Live \cup Opening = {} /\ Cardinality({}) = 0
    BY <1>2, FS_EmptySet
  <2>2. Live \cup {o \in Sessions : at["open"][o] \in Slotted} = {}
    BY <2>1 DEF Opening
  <2>3. 0 <= 2 * MaxActive
    OBVIOUS
  <2> QED
    BY <2>1, <2>2, <2>3 DEF ActiveWithinTwice
<1> QED
    BY <1>1, <1>3, <1>4, <1>5, <1>6 DEF IInv

\* Every step keeps the invariant.
LEMMA NextIInv == IInv /\ [Next]_vars => IInv'
<1> SUFFICES ASSUME IInv, [Next]_vars PROVE IInv'
    OBVIOUS
<1>1. CASE Next
  <2>1. SlotsAreReturned'
    BY <1>1, SlotsKept
  <2>2. pendingOpens' \in Nat
    BY <2>1, SlotsAltNext, Subsets, Counts
  <2> QED
    BY <1>1, <2>1, <2>2, TypeKept, FreshKept, ValuesKept, DeadKept, FindKept, HeldKept,
       AloneKept, MetadataKept,
       LimitKept DEF IInv
<1>2. CASE UNCHANGED vars
    BY <1>2 DEF vars, handlers, gating, files, panes, history, IInv, TypeOK, SlotsAreReturned,
       FreshIds, SavesHaveValues, DeadBehindClose, Stranded, SavesFindRows, MetadataHasRow,
       FilesAreHeld, AloneIsWhole, OverlookedIsBounded, Counting, Probing, Opening, ActiveWithinTwice, Live, OpenRows
<1> QED
    BY <1>1, <1>2

\* The invariant holds in every reachable state.
LEMMA Invariance == Spec => []IInv
    BY InitIInv, NextIInv, PTL DEF Spec

\* Handlers, rows, files, slots and the gate stay in their domains.
THEOREM TypeCorrect == Spec => []TypeOK
<1>1. IInv => TypeOK
    BY DEF IInv
<1> QED
    BY Invariance, <1>1, PTL

\* Slots and gate come back, however opens and purges interleave and fail
\* (openAdmission, pendingOpens and the finally clause of open).
THEOREM SlotsAreReturnedHolds == Spec => []SlotsAreReturned
<1>1. IInv => SlotsAreReturned
    BY DEF IInv
<1> QED
    BY Invariance, <1>1, PTL

\* Opens exceed DP_TERMINAL_MAX_ACTIVE at most to its double, for every limit and
\* every number of concurrent opens.
THEOREM ActiveWithinTwiceHolds == Spec => []ActiveWithinTwice
<1>1. IInv => ActiveWithinTwice
    BY DEF IInv
<1> QED
    BY Invariance, <1>1, PTL

\* Only a crash in the middle of an open, or a tmux that fails, strands a live
\* tmux session that no row names.
THEOREM LiveTmuxIsKnownHolds == Spec => []LiveTmuxIsKnown
<1>1. IInv => LiveTmuxIsKnown
    BY DEF IInv, TypeOK, DeadBehindClose, Stranded, LiveTmuxIsKnown, Slotted
<1> QED
    BY Invariance, <1>1, PTL

\* A session.json outlives its row only behind a purge() that has not answered, or
\* that has failed, whatever saves, opens and crashes fall in between.
THEOREM MetadataHasRowHolds == Spec => []MetadataHasRow
<1>1. IInv => MetadataHasRow
    BY DEF IInv
<1> QED
    BY Invariance, <1>1, PTL

\* A save that is cut off, fails or runs beside the removal of its directory never
\* leaves a session.json that the next start cannot read, unless two saves of the
\* session have written the shared .part file at once.
THEOREM MetadataIsWholeHolds == Spec => []MetadataIsWhole
<1>1. IInv => MetadataIsWhole
    BY DEF IInv, AloneIsWhole, MetadataIsWhole
<1> QED
    BY Invariance, <1>1, PTL

\* Only a save that was suspended since before the close or the purge brings a
\* session back; the import of a restart does not, since MetadataHasRow.
THEOREM ReturnNeedsStaleSaveHolds == Spec => ReturnNeedsStaleSave
<1> DEFINE Returns(s) ==
        \/ row[s].state = "CLOSED" /\ row'[s].state = "OPEN"
        \/ purged[s] = "acknowledged" /\ row[s] = None /\ row'[s] # None
           StaleSave(s) == \E k \in Savers : at[k][s] = "read" /\ val[k][s] = row'[s]
<1>1. ASSUME IInv, Next PROVE \A s \in Sessions : Returns(s) => StaleSave(s)
  <2>1. ASSUME NEW k \in Savers, NEW q \in Sessions, SaveRow(k, q)
        PROVE  \A s \in Sessions : Returns(s) => StaleSave(s)
    BY <1>1, <2>1 DEF SaveRow, Move, IInv, TypeOK
  <2>2. ASSUME NEW q \in Sessions, PurgeDelete(q)
        PROVE  \A s \in Sessions : Returns(s) => StaleSave(s)
    BY <1>1, <2>2 DEF PurgeDelete, IInv, TypeOK, None
  <2>3. CASE CrashAndRestart
    <3>1. Crashed
      BY <1>1, <2>3, CrashEffect DEF IInv
    <3> QED
      <4>1. ASSUME NEW s \in Sessions
            PROVE  row'[s] = row[s] \/ (row[s] = None /\ json[s] # None)
        BY <3>1, Distinct DEF Crashed
      <4> QED
        BY <1>1, <4>1, Distinct DEF IInv, MetadataHasRow
  <2>4. CASE row' = row
    BY <2>4
  <2> HIDE DEF Returns, StaleSave
  <2>5. \/ \E k \in Savers, q \in Sessions : SaveRow(k, q)
        \/ \E q \in Sessions : PurgeDelete(q)
        \/ CrashAndRestart
        \/ row' = row
    <3>1. ASSUME NEW o \in Sessions, OpenList(o) PROVE row' = row
      BY <3>1 DEF OpenList
    <3>2. ASSUME NEW o \in Sessions, OpenDecide(o) PROVE row' = row
      BY <3>2 DEF OpenDecide
    <3> QED
      BY <1>1, <3>1, <3>2 DEF Next, Save, OpenCreate, OpenFail, CloseKill, CloseRead,
         UpdateRead,
         SavePart, SaveWrite, SaveRename, SaveFails, PurgeRemove, ShellExit
  <2> QED
    BY <2>1, <2>2, <2>3, <2>4, <2>5
<1>2. ASSUME UNCHANGED vars PROVE \A s \in Sessions : Returns(s) => StaleSave(s)
    BY <1>2 DEF vars
<1>3. IInv /\ [Next]_vars =>
        [\A s \in Sessions : Returns(s) => StaleSave(s)]_vars
    BY <1>1
<1> QED
    BY Invariance, <1>3, PTL DEF Spec, ReturnNeedsStaleSave
==============================================================================
