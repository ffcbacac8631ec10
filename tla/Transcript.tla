----------------------------- MODULE Transcript -----------------------------
(***************************************************************************)
(* The transcript of one terminal: the capture process that tmux pipes the *)
(* terminal's output to (scripts/transcript-capture.mjs), the segment files*)
(* it fills (scripts/transcript-segments.mjs), the Session Host's          *)
(* readOutput, which reads them while they grow                            *)
(* (apps/agent/src/tmux.js), and the offline archive of a closed terminal  *)
(* (scripts/archive-terminal.mjs).                                         *)
(*                                                                         *)
(* A byte is known by its position in the terminal's output, so a file is  *)
(* the sequence of the positions it holds; stream[p] says which byte of a  *)
(* character of which width it is.  The stream id and the epoch of a       *)
(* cursor never change, so a cursor is an offset.  Purging the session is  *)
(* in SessionRegistry.                                                     *)
(***************************************************************************)
EXTENDS Naturals, Sequences, FiniteSetsExt

CONSTANTS Widths,        \* byte lengths of the characters printed, within 1..4
          MaxPrinted,    \* bound on the bytes printed
          Maximum,       \* sessionOutputMaxBytes
          SegmentBytes,  \* transcriptSegmentBytes, at most Maximum
          MaxRead,       \* maxBytes of a read
          FirstOffsets,  \* cursors a follower may begin with
          Others         \* reads that run beside the follower's

ASSUME LimitsAssumption ==
    /\ Widths \subseteq 1..4
    /\ MaxPrinted \in Nat
    /\ FirstOffsets \subseteq Nat
    /\ {Maximum, SegmentBytes, MaxRead} \subseteq Nat \ {0}
    /\ SegmentBytes <= Maximum

VARIABLES
    stream,    \* stream[p]: the p-th byte printed
    alive,     \* the tmux session runs
    pipeEnd,   \* bytes printed when the pipe was closed, or Open
    cap,       \* the capture process: run, marking, ending, stopped, failed
    taken,     \* bytes it has accepted from the pipe
    index,     \* number of the segment it writes
    buffer,    \* positions in the write stream, not yet in the file
    disk,      \* disk[i]: the positions in segment i
    marker,    \* the capture stop record exists
    row,       \* the session row: closed, state (transcriptCaptureState)
    closer,    \* close(): where it is, and the state it has read
    rd,        \* the reader: where it is, and what it has read so far
    insp,      \* the inventory it is taking
    base,      \* offset from which the follower's text is unbroken
    got,       \* positions of that text
    cursor,    \* the follower's cursor
    last,      \* the last response, until the next read
    arch,      \* the archiver: where it is, and what it has copied
    other,     \* other[o]: where another read is, and what it has read of the row
    forgotten  \* a read closed the pipe and did not write the row, nor has any other

captureVars == <<pipeEnd, cap, taken, index, buffer, disk, marker>>
readerVars == <<rd, base, got, cursor, last>>
otherVars == <<other, forgotten>>
vars == <<stream, alive, captureVars, row, closer, readerVars, insp, arch, otherVars>>

Open == MaxPrinted + 1

\* What the pipe can still deliver.
Piped == IF pipeEnd = Open THEN Len(stream) ELSE pipeEnd

\* Bytes that have been printed and will be in no segment.
Dropped == cap \in {"stopped", "failed"} /\ Len(stream) > taken

\* The Session Host can know of the loss: from the row, or because a capture that
\* failed has left a stop record or a full transcript, and no read has closed the
\* pipe and not written the row.
Recorded ==
    \/ row.state # "ACTIVE"
    \/ /\ cap = "failed" => marker \/ taken = Maximum
       /\ ~forgotten
       /\ \A o \in Others : other[o].pc # "stopped"

SegmentSize == Len(buffer) + IF index <= Len(disk) THEN Len(disk[index]) ELSE 0

-----------------------------------------------------------------------------
\* UTF-8.

Lead(b) == b[2] = 1
Final(b) == b[2] = b[1]

\* Mutant: the text is cut at the requested length.
PlainPrefixLength(bytes, preferred) == Min({preferred, Len(bytes)})

\* utf8SafePrefixLength: the longest prefix of whole characters within the
\* preferred length, or one whole character.
utf8SafePrefixLength(bytes, preferred) ==
    LET n == Min({preferred, Len(bytes)})
        lead == Max({i \in 1..n : Lead(bytes[i]) \/ i = 1})
        safe == IF lead - 1 + bytes[lead][1] > n THEN lead - 1 ELSE n
    IN  IF n = 0 THEN 0
        ELSE IF safe = 0 /\ bytes[1][1] <= Len(bytes) THEN bytes[1][1]
        ELSE safe

\* The bytes that start the buffer without a lead byte.
Skipped(bytes) == Max({k \in 0..Len(bytes) : \A i \in 1..k : ~Lead(bytes[i])})

-----------------------------------------------------------------------------
\* Segment files.

\* What inspectTranscriptSegments accepts: sizes of the files readdir listed.
ValidInventory(sizes) ==
    \A i \in 2..Len(sizes) :
        /\ sizes[1] > 0
        /\ sizes[i] <= sizes[1]
        /\ i < Len(sizes) => sizes[i] = sizes[1]

\* The file in which the inventory has the byte at an offset.
Entry(offset) ==
    CHOOSE i \in 1..Len(insp.sizes) :
        insp.starts[i] <= offset /\ offset < insp.starts[i] + insp.sizes[i]

\* readTranscriptBytes: from the files as the inventory saw them.
ReadTranscriptBytes(offset, length) ==
    [k \in 1..length |->
        LET i == Entry(offset + k - 1)
        IN  disk[i][offset + k - insp.starts[i]]]

Bytes(positions) == [i \in 1..Len(positions) |-> stream[positions[i]]]

-----------------------------------------------------------------------------
NoInspection == [n |-> 0, sizes |-> <<>>, starts |-> <<>>, size |-> 0]

Idle == [pc |-> "idle", off |-> 0, state |-> "ACTIVE", alive |-> FALSE,
         dropped |-> FALSE, closed |-> FALSE]

NoResponse == [alive |-> FALSE, dropped |-> FALSE, state |-> "ACTIVE", stuck |-> FALSE]

NoClose == [pc |-> "none", state |-> "ACTIVE"]

NoArchive == [pc |-> "none", sizes |-> <<>>, copy |-> <<>>, state |-> "ACTIVE"]

NoRead == [pc |-> "none", state |-> "ACTIVE", closed |-> FALSE]

Init ==
    /\ stream = <<>>
    /\ alive = TRUE
    /\ pipeEnd = Open
    /\ cap = "run"
    /\ taken = 0
    /\ index = 1
    /\ buffer = <<>>
    /\ disk = << <<>> >>
    /\ marker = FALSE
    /\ row = [closed |-> FALSE, state |-> "ACTIVE"]
    /\ closer = NoClose
    /\ rd = Idle
    /\ insp = NoInspection
    /\ base = 0
    /\ got = <<>>
    /\ cursor = 0
    /\ last = NoResponse
    /\ arch = NoArchive
    /\ other = [o \in Others |-> NoRead]
    /\ forgotten = FALSE

States == {"ACTIVE", "STOPPED", "DEGRADED"}

ReaderPlaces == {"idle", "observe", "saveObserved", "alive", "reserve", "saveReserve",
                 "readdir", "lstat", "saveCeiling", "invalid", "bytes"}

TypeOK ==
    /\ stream \in Seq(Widths \X (1..4))
    /\ Len(stream) <= MaxPrinted
    /\ alive \in BOOLEAN
    /\ pipeEnd \in 0..Open
    /\ cap \in {"run", "marking", "ending", "stopped", "failed"}
    /\ taken \in 0..Maximum
    /\ index \in {Len(disk), Len(disk) + 1}
    /\ buffer \in Seq(Nat) /\ Len(buffer) <= SegmentBytes
    /\ disk \in Seq(Seq(Nat)) /\ \A i \in 1..Len(disk) : Len(disk[i]) <= SegmentBytes
    /\ marker \in BOOLEAN
    /\ row \in [closed : BOOLEAN, state : States]
    /\ closer \in [pc : {"none", "killed", "read"}, state : States]
    /\ rd \in [pc : ReaderPlaces, off : Nat, state : States, alive : BOOLEAN,
               dropped : BOOLEAN, closed : BOOLEAN]
    /\ insp \in [n : Nat, sizes : Seq(Nat), starts : Seq(Nat), size : Nat]
    /\ base \in Nat /\ got \in Seq(Nat) /\ cursor \in 0..MaxPrinted
    /\ last \in [alive : BOOLEAN, dropped : BOOLEAN, state : States, stuck : BOOLEAN]
    /\ arch \in [pc : {"none", "copy", "accepted"}, sizes : Seq(Nat),
                 copy : Seq(Seq(Nat)), state : States]
    /\ other \in [Others -> [pc : {"none", "read", "observed", "stopped"}, state : States,
                             closed : BOOLEAN]]
    /\ forgotten \in BOOLEAN

-----------------------------------------------------------------------------
\* The terminal.

\* A character is printed; the pipe and a write may end in the middle of it.
Prints(w) ==
    /\ alive
    /\ Len(stream) + w <= MaxPrinted
    /\ stream' = stream \o [k \in 1..w |-> <<w, k>>]
    /\ UNCHANGED <<alive, captureVars, row, closer, readerVars, insp, arch, otherVars>>

\* The end of the pane, or pipe-pane without a command, ends the pipe.
ClosePipe == pipeEnd' = Min({pipeEnd, Len(stream)})

ShellExits ==
    /\ alive
    /\ alive' = FALSE
    /\ ClosePipe
    /\ UNCHANGED <<stream, cap, taken, index, buffer, disk, marker, row, closer,
                   readerVars, insp, arch, otherVars>>

-----------------------------------------------------------------------------
\* captureTranscript.

Portion == Min({Piped - taken, Maximum - taken, SegmentBytes - SegmentSize})

\* Mutant: the next segment is begun while the last bytes of this one are
\* still on their way to the file.
CaptureRotateEarly ==
    /\ cap = "run"
    /\ Piped > taken
    /\ SegmentSize = SegmentBytes
    /\ index' = index + 1
    /\ disk' = Append(disk, <<>>)
    /\ buffer' = <<>>
    /\ UNCHANGED <<stream, alive, pipeEnd, cap, taken, marker, row, closer,
                   readerVars, insp, arch, otherVars>>

\* The segment is full and in its file: the next number.
CaptureRotate ==
    /\ cap = "run"
    /\ Piped > taken
    /\ SegmentSize = SegmentBytes
    /\ buffer = <<>>
    /\ index' = index + 1
    /\ UNCHANGED <<stream, alive, pipeEnd, cap, taken, buffer, disk, marker, row,
                   closer, readerVars, insp, arch, otherVars>>

\* A portion of a chunk is written, in any length the pipe delivers it.
CaptureWrite(n) ==
    /\ cap = "run"
    /\ n <= Portion
    /\ buffer' = buffer \o [i \in 1..n |-> taken + i]
    /\ taken' = taken + n
    /\ cap' = IF taken + n = Maximum THEN "ending" ELSE "run"
    /\ UNCHANGED <<stream, alive, pipeEnd, index, disk, marker, row, closer,
                   readerVars, insp, arch, otherVars>>

\* The free space is short before a write: the stop is recorded first.
CaptureStops ==
    /\ cap = "run"
    /\ Piped > taken
    /\ SegmentSize < SegmentBytes
    /\ cap' = "marking"
    /\ UNCHANGED <<stream, alive, pipeEnd, taken, index, buffer, disk, marker, row,
                   closer, readerVars, insp, arch, otherVars>>

RecordStorageStop ==
    /\ cap = "marking"
    /\ marker' = TRUE
    /\ cap' = "ending"
    /\ UNCHANGED <<stream, alive, pipeEnd, taken, index, buffer, disk, row, closer,
                   readerVars, insp, arch, otherVars>>

\* The write stream creates the file of a new segment ...
CaptureOpens ==
    /\ buffer # <<>>
    /\ index > Len(disk)
    /\ disk' = Append(disk, <<>>)
    /\ UNCHANGED <<stream, alive, pipeEnd, cap, taken, index, buffer, marker, row,
                   closer, readerVars, insp, arch, otherVars>>

\* ... and appends to it.
CaptureFlushes(n) ==
    /\ index <= Len(disk)
    /\ n <= Len(buffer)
    /\ disk' = [disk EXCEPT ![index] = @ \o SubSeq(buffer, 1, n)]
    /\ buffer' = SubSeq(buffer, n + 1, Len(buffer))
    /\ UNCHANGED <<stream, alive, pipeEnd, cap, taken, index, marker, row, closer,
                   readerVars, insp, arch, otherVars>>

\* The pipe has ended, or the loop was left: finish the file and exit.
CaptureEnds ==
    /\ \/ cap = "run" /\ pipeEnd # Open /\ taken = pipeEnd
       \/ cap = "ending"
    /\ IF buffer = <<>> THEN cap' = "stopped" ELSE cap' = "ending"
    /\ UNCHANGED <<stream, alive, pipeEnd, taken, index, buffer, disk, marker, row,
                   closer, readerVars, insp, arch, otherVars>>

\* The process ends with an error, or is killed: the segment limit, a stop record
\* that cannot be written (or whose directory cannot be synced), a write that
\* fails.  What was still in the write stream reaches no file.
CaptureFails ==
    /\ cap \in {"run", "marking", "ending"}
    /\ cap' = "failed"
    /\ taken' = taken - Len(buffer)
    /\ buffer' = <<>>
    /\ UNCHANGED marker \/ (cap = "marking" /\ marker' = TRUE)
    /\ UNCHANGED <<stream, alive, pipeEnd, index, disk, row, closer, readerVars, insp,
                   arch, otherVars>>

Capture ==
    \/ \E n \in 1..SegmentBytes : CaptureWrite(n) \/ CaptureFlushes(n)
    \/ CaptureRotate \/ RecordStorageStop \/ CaptureOpens \/ CaptureEnds

-----------------------------------------------------------------------------
\* inspectTranscriptSegments: one file after the other, of those that readdir
\* listed.

Readdir == insp' = [NoInspection EXCEPT !.n = Len(disk)]

\* A file starts in the transcript where those before it end.
Lstat ==
    LET length == Len(disk[Len(insp.sizes) + 1])
    IN  /\ Len(insp.sizes) < insp.n
        /\ insp' = [insp EXCEPT !.sizes = Append(@, length),
                                !.starts = Append(@, insp.size),
                                !.size = @ + length]

Inspected == Len(insp.sizes) = insp.n

-----------------------------------------------------------------------------
\* readOutput.

Reader(from, to) == rd.pc = from /\ rd' = [rd EXCEPT !.pc = to]

ReadKeeps == UNCHANGED <<stream, alive, cap, taken, index, buffer, disk, marker,
                         closer, base, got, cursor, last, arch, other>>

\* A read ends; if the row still says ACTIVE, a pipe that it has closed is forgotten.
Forgets(closed) == IF closed /\ row.state = "ACTIVE" THEN forgotten' = TRUE
                   ELSE UNCHANGED forgotten

\* updateTranscript begins: the row is read, to be written back degraded.
ReaderDegrades(from, to) ==
    /\ rd.pc = from
    /\ rd' = [rd EXCEPT !.pc = to, !.closed = row.closed]

\* The follower reads from its cursor; the first time it may use another.
StartRead(offset) ==
    /\ rd.pc = "idle"
    /\ offset = cursor \/ (cursor = 0 /\ got = <<>>)
    /\ rd' = [Idle EXCEPT !.pc = "observe", !.off = offset, !.state = row.state,
                          !.dropped = Dropped /\ Recorded]
    /\ last' = NoResponse
    /\ UNCHANGED <<stream, alive, cap, taken, index, buffer, disk, marker, closer,
                   base, got, cursor, arch, other>>
    /\ UNCHANGED <<pipeEnd, row, insp, forgotten>>

\* observeCaptureStop.
ObserveCaptureStop ==
    /\ IF rd.state # "DEGRADED" /\ marker
       THEN ReaderDegrades("observe", "saveObserved")
       ELSE Reader("observe", "alive")
    /\ ReadKeeps
    /\ UNCHANGED <<pipeEnd, row, insp, forgotten>>

\* A probe that fails says that the terminal is dead.
IsAlive ==
    /\ rd.pc = "alive"
    /\ \/ rd' = [rd EXCEPT !.pc = "reserve", !.alive = alive]
       \/ rd' = [rd EXCEPT !.pc = "reserve", !.alive = FALSE]
    /\ ReadKeeps
    /\ UNCHANGED <<pipeEnd, row, insp, forgotten>>

\* enforceCaptureReserve with enough space, a dead session or a row that is
\* not ACTIVE.
ReserveSuffices ==
    /\ Reader("reserve", "readdir")
    /\ ReadKeeps
    /\ UNCHANGED <<pipeEnd, row, insp, forgotten>>

\* The Session Host closes the pipe; tmux refuses if the session has ended.
StopPipe(from, to) == alive /\ ReaderDegrades(from, to) /\ ClosePipe

ReserveShort ==
    /\ rd.alive
    /\ rd.state = "ACTIVE"
    /\ StopPipe("reserve", "saveReserve")
    /\ ReadKeeps
    /\ UNCHANGED <<row, insp, forgotten>>

ReaderReaddir ==
    /\ Reader("readdir", "lstat")
    /\ Readdir
    /\ ReadKeeps
    /\ UNCHANGED <<pipeEnd, row, forgotten>>

ReaderLstat ==
    /\ Reader("lstat", "lstat")
    /\ Lstat
    /\ ReadKeeps
    /\ UNCHANGED <<pipeEnd, row, forgotten>>

\* Mutant: only a transcript past the ceiling counts as at it.
CeilingPassed == insp.size > Maximum

CeilingReached == insp.size >= Maximum

\* outputRange has its inventory: enforceCaptureCeiling.
EnforceCaptureCeiling ==
    /\ Inspected
    /\ IF ~ValidInventory(insp.sizes)
       THEN Reader("lstat", "invalid") /\ UNCHANGED pipeEnd
       ELSE IF rd.alive /\ rd.state = "ACTIVE" /\ CeilingReached
       THEN StopPipe("lstat", "saveCeiling")
       ELSE Reader("lstat", "bytes") /\ UNCHANGED pipeEnd
    /\ ReadKeeps
    /\ UNCHANGED <<row, insp, forgotten>>

\* updateTranscript ends: the row as read, degraded.
ReaderSaves(from, to) ==
    /\ rd.pc = from
    /\ rd' = [rd EXCEPT !.pc = to, !.state = "DEGRADED", !.closed = FALSE]
    /\ row' = [closed |-> rd.closed, state |-> "DEGRADED"]
    /\ forgotten' = FALSE
    /\ ReadKeeps
    /\ UNCHANGED <<pipeEnd, insp>>

UpdateTranscript ==
    \/ ReaderSaves("saveObserved", "alive")
    \/ ReaderSaves("saveReserve", "readdir")
    \/ ReaderSaves("saveCeiling", "bytes")

\* Whatever a read calls may fail: tmux, a file, the save on a full disk.  If it
\* has closed the pipe for want of space, nothing else will say so.
ReaderFails ==
    /\ rd.pc # "idle"
    /\ rd' = Idle
    /\ insp' = NoInspection
    /\ Forgets(rd.pc = "saveReserve")
    /\ UNCHANGED <<stream, alive, captureVars, row, closer, base, got, cursor, last, arch,
                   other>>

\* Mutant: the cursor moves by what was asked for.
AdvanceByRequest(start, length) == start + Min({MaxRead, Max({length, 1})})

Advance(start, length) == start + length

\* The bytes are read and the response is built.
RespondOutput ==
    LET end   == insp.size
        from  == Min({rd.off, end})
        first == Bytes(ReadTranscriptBytes(from, Min({4, end - from})))
        skip  == Skipped(first)
        start == from + skip
        chunk == ReadTranscriptBytes(start, Min({end - start, MaxRead + 3}))
        safe  == utf8SafePrefixLength(Bytes(chunk), Min({MaxRead, Len(chunk)}))
        gap   == rd.off > end \/ skip > 0
    IN  /\ rd.pc = "bytes"
        /\ rd' = Idle
        /\ base' = IF gap \/ got = <<>> THEN start ELSE base
        /\ got' = (IF gap THEN <<>> ELSE got) \o SubSeq(chunk, 1, safe)
        /\ cursor' = Advance(start, safe)
        /\ last' = [alive |-> rd.alive, dropped |-> rd.dropped, state |-> rd.state,
                    stuck |-> safe = 0 /\ \E p \in start + 1..end : Final(stream[p])]
        /\ insp' = NoInspection
        /\ UNCHANGED <<stream, alive, captureVars, row, closer, arch, otherVars>>

ReadOutput ==
    \/ StartRead(cursor) \/ ObserveCaptureStop \/ IsAlive \/ ReserveSuffices
    \/ ReaderReaddir \/ ReaderLstat \/ EnforceCaptureCeiling \/ UpdateTranscript
    \/ RespondOutput

-----------------------------------------------------------------------------
\* readOutput, called beside the follower's read: of another read only what it
\* does to the pipe and to the row is followed, and no answer.

OtherKeeps == UNCHANGED <<stream, alive, cap, taken, index, buffer, disk, marker, closer,
                          readerVars, insp, arch>>

\* From one place to another, with what it has read of the row.
OtherMoves(o, from, to) ==
    /\ other[o].pc = from
    /\ other' = [other EXCEPT ![o] = to]

\* A read that finds the row degraded changes nothing.
OtherReads(o) ==
    /\ row.state # "DEGRADED"
    /\ OtherMoves(o, "none", [pc |-> "read", state |-> row.state, closed |-> FALSE])
    /\ OtherKeeps
    /\ UNCHANGED <<pipeEnd, row, forgotten>>

OtherObserves(o) ==
    /\ OtherMoves(o, "read", [pc |-> "observed", state |-> "ACTIVE", closed |-> row.closed])
    /\ marker
    /\ OtherKeeps
    /\ UNCHANGED <<pipeEnd, row, forgotten>>

\* Short of space, or at the ceiling.
OtherStopsPipe(o) ==
    /\ OtherMoves(o, "read", [pc |-> "stopped", state |-> "ACTIVE", closed |-> row.closed])
    /\ other[o].state = "ACTIVE"
    /\ alive
    /\ ClosePipe
    /\ OtherKeeps
    /\ UNCHANGED <<row, forgotten>>

OtherSaves(o) ==
    /\ \/ OtherMoves(o, "observed", NoRead)
       \/ OtherMoves(o, "stopped", NoRead)
    /\ row' = [closed |-> other[o].closed, state |-> "DEGRADED"]
    /\ forgotten' = FALSE
    /\ OtherKeeps
    /\ UNCHANGED pipeEnd

\* It answers, or fails.
OtherEnds(o) ==
    /\ other[o].pc # "none"
    /\ other' = [other EXCEPT ![o] = NoRead]
    /\ Forgets(other[o].pc = "stopped")
    /\ OtherKeeps
    /\ UNCHANGED <<pipeEnd, row>>

OtherRead(o) ==
    \/ OtherReads(o) \/ OtherObserves(o) \/ OtherStopsPipe(o) \/ OtherSaves(o)
    \/ OtherEnds(o)

-----------------------------------------------------------------------------
\* close.

CloserKeeps == UNCHANGED <<stream, cap, taken, index, buffer, disk, marker,
                           readerVars, insp, arch, other>>

\* The terminal is killed, unless the probe fails: then it lives on.
CloseKill ==
    /\ closer.pc = "none"
    /\ \/ alive' = FALSE /\ ClosePipe
       \/ UNCHANGED <<alive, pipeEnd>>
    /\ closer' = [closer EXCEPT !.pc = "killed"]
    /\ CloserKeeps
    /\ UNCHANGED <<row, forgotten>>

\* closeSession reads the row, makes the directory, and writes the row.
CloseRead ==
    /\ closer.pc = "killed"
    /\ closer' = [pc |-> "read", state |-> row.state]
    /\ CloserKeeps
    /\ UNCHANGED <<alive, pipeEnd, row, forgotten>>

CloseSave ==
    /\ closer.pc = "read"
    /\ closer' = NoClose
    /\ row' = [closed |-> TRUE,
               state |-> IF closer.state = "DEGRADED" THEN "DEGRADED" ELSE "STOPPED"]
    /\ forgotten' = FALSE
    /\ CloserKeeps
    /\ UNCHANGED <<alive, pipeEnd>>

CloseFails ==
    /\ closer.pc # "none"
    /\ closer' = NoClose
    /\ CloserKeeps
    /\ UNCHANGED <<alive, pipeEnd, row, forgotten>>

\* The Session Host dies and is restarted; terminal and capture go on.
HostDies ==
    /\ rd' = Idle
    /\ closer' = NoClose
    /\ insp' = NoInspection
    /\ other' = [o \in Others |-> NoRead]
    /\ Forgets(rd.pc = "saveReserve" \/ \E o \in Others : other[o].pc = "stopped")
    /\ UNCHANGED <<stream, alive, captureVars, row, base, got, cursor, last, arch>>

-----------------------------------------------------------------------------
\* archiveTerminal.  Its inventories are taken in one step: how an inventory
\* races the capture process is the reader's part of the model.  One that fails
\* removes what it has copied, and may be run again.

ArchiveKeeps == UNCHANGED <<stream, alive, captureVars, row, closer, readerVars, insp,
                            otherVars>>

Sizes == [i \in 1..Len(disk) |-> Len(disk[i])]

\* readClosedSession, then the first inventory.
ArchiveStart ==
    /\ arch.pc = "none"
    /\ row.closed
    /\ ValidInventory(Sizes)
    /\ arch' = [pc |-> "copy", sizes |-> Sizes, copy |-> <<>>, state |-> row.state]
    /\ ArchiveKeeps

\* copyChecked: the next file, if it still has the size of the inventory.
ArchiveCopy ==
    LET i == Len(arch.copy) + 1
    IN  /\ arch.pc = "copy"
        /\ i <= Len(arch.sizes)
        /\ arch' = IF Len(disk[i]) = arch.sizes[i]
                   THEN [arch EXCEPT !.copy = Append(@, disk[i])]
                   ELSE NoArchive
        /\ ArchiveKeeps

\* Mutant: the copies are accepted without a second inventory.
RowUnchanged == row = [closed |-> TRUE, state |-> arch.state]

\* The row and the inventory are as they were at the start.
NothingChanged == /\ row = [closed |-> TRUE, state |-> arch.state]
                  /\ Sizes = arch.sizes

\* All files are copied: the manifest is written, or the directory removed.
ArchiveAccept ==
    /\ arch.pc = "copy"
    /\ Len(arch.copy) = Len(arch.sizes)
    /\ arch' = IF NothingChanged
               THEN [arch EXCEPT !.pc = "accepted", !.sizes = Sizes]
               ELSE NoArchive
    /\ ArchiveKeeps

Archive == ArchiveStart \/ ArchiveCopy \/ ArchiveAccept

-----------------------------------------------------------------------------
Next ==
    \/ \E w \in Widths : Prints(w)
    \/ ShellExits
    \/ Capture \/ CaptureStops \/ CaptureFails
    \/ ReadOutput \/ ReserveShort \/ ReaderFails
    \/ \E offset \in FirstOffsets : StartRead(offset)
    \/ \E o \in Others : OtherRead(o)
    \/ CloseKill \/ CloseRead \/ CloseSave \/ CloseFails
    \/ HostDies
    \/ Archive

Spec == Init /\ [][Next]_vars

-----------------------------------------------------------------------------
\* A follower that returns each cursor it is given has an unbroken text: the
\* bytes of the terminal from base to its cursor, each once and in order,
\* though the files grew, were rotated and were inventoried one by one while
\* it read; what breaks it is reported as a gap, and its text then starts
\* again behind the gap.
TextIsUnbroken ==
    /\ got = [i \in 1..Len(got) |-> base + i]
    /\ got # <<>> => cursor = base + Len(got)

\* The text ends at the end of a character, also where a segment, a write or
\* the requested length ends within one.
TextIsWhole ==
    got # <<>> => /\ Lead(stream[base + 1])
                  /\ Final(stream[cursor])

\* A capture that runs, rotates or ends never makes an inventory look damaged,
\* and a read returns text whenever a whole character had been captured behind
\* its cursor, however short the read: a follower never sits in front of a
\* character that does not fit.
ReadsSucceed == rd.pc # "invalid" /\ ~last.stuck

\* A response for a running terminal does not say that the capture is ACTIVE if
\* output had been lost when the read began, whichever part noticed the loss and
\* whatever other reads, a close, failures and restarts did meanwhile.  This is
\* what the Session Host can know: a capture process that fails without a stop
\* record, and a read that has closed the pipe and not (yet, or ever) written the
\* row, lose output that no answer reports.
LossIsReported ==
    (last.alive /\ last.dropped) => last.state # "ACTIVE"

\* When an archive is accepted, it holds every byte that is then in the files,
\* and holds them in order, although the capture process may have gone on
\* writing while the files were copied one by one.  (arch.sizes is then the
\* inventory at acceptance.)
ArchiveIsASnapshot ==
    arch.pc = "accepted" =>
        /\ Len(arch.copy) = Len(arch.sizes)
        /\ \A i \in 1..Len(arch.copy) :
              LET before == IF i = 1 THEN 0 ELSE arch.copy[i - 1][arch.sizes[i - 1]]
              IN  arch.copy[i] = [k \in 1..arch.sizes[i] |-> before + k]

=============================================================================
