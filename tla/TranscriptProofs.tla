--------------------------- MODULE TranscriptProofs ---------------------------
(***************************************************************************)
(* Proofs about Transcript, for characters of any of the four widths, any  *)
(* limits of a transcript, its segments and its reads, and any set of      *)
(* reads that run beside the follower's.                                   *)
(***************************************************************************)
EXTENDS Transcript, TLAPS

-----------------------------------------------------------------------------
(***************************************************************************)
(* The inductive invariant.                                                *)
(***************************************************************************)

\* The offset at which the i-th file of a transcript starts.
Before(i) == (i - 1) * SegmentBytes

\* Only whole characters are printed.
WholeCharacters ==
    \A p \in 1..Len(stream) :
        /\ stream[p][2] <= stream[p][1]
        /\ stream[p][2] > 1 => p > 1 /\ stream[p - 1] = <<stream[p][1], stream[p][2] - 1>>
        /\ stream[p][2] < stream[p][1]
              => p < Len(stream) /\ stream[p + 1] = <<stream[p][1], stream[p][2] + 1>>

\* Every file but the last is full, and a file and the buffer behind it hold the
\* positions that belong there.
FilesInOrder ==
    /\ Len(disk) > 0
    /\ \A i \in 1..Len(disk) : i < Len(disk) \/ index > Len(disk) => Len(disk[i]) = SegmentBytes
    /\ \A i \in 1..Len(disk) : \A k \in 1..Len(disk[i]) : disk[i][k] = Before(i) + k
    /\ \A k \in 1..Len(buffer) : buffer[k] = taken - Len(buffer) + k
    /\ taken = Before(index) + SegmentSize
    /\ SegmentSize <= SegmentBytes

\* What was accepted was printed before the pipe was closed; a capture that ends
\* has a reason, and its buffer is empty when it has ended.
CaptureHasReason ==
    /\ taken <= Piped /\ (pipeEnd # Open => pipeEnd <= Len(stream))
    /\ cap \in {"ending", "stopped"} => marker \/ taken = Maximum \/ pipeEnd # Open
    /\ cap \in {"stopped", "failed"} => buffer = <<>>

\* An inventory, whenever its files were inspected, describes the beginning of
\* the transcript.
InventoryInOrder ==
    /\ Len(insp.sizes) <= insp.n /\ Len(insp.starts) = Len(insp.sizes) /\ insp.n <= Len(disk)
    /\ \A i \in 1..Len(insp.sizes) :
          /\ insp.starts[i] = Before(i) /\ insp.sizes[i] <= Len(disk[i])
          /\ i < insp.n => insp.sizes[i] = SegmentBytes
    /\ insp.size = IF insp.sizes = <<>> THEN 0
                   ELSE Before(Len(insp.sizes)) + insp.sizes[Len(insp.sizes)]
    /\ \A p \in 0..insp.size - 1 : \E i \in 1..Len(insp.sizes) :
          insp.starts[i] <= p /\ p < insp.starts[i] + insp.sizes[i]
    /\ rd.pc = "lstat" => insp.n > 0

\* The follower's text, and the cursor that the current read was given.
FollowerInOrder ==
    /\ TextIsUnbroken /\ TextIsWhole
    /\ cursor <= Len(stream)
    /\ rd.pc # "idle" /\ got # <<>> => rd.off = cursor

\* A read that began with a loss is one of a capture that has ended.
LossIsAnEnd == rd.dropped => cap \in {"stopped", "failed"}

\* The transcript is full, and in its files.
Full == taken = Maximum /\ buffer = <<>>

\* A read that has closed the pipe at the ceiling has seen a full transcript.
CeilingIsFull == rd.pc = "saveCeiling" => Full

\* A pipe that the Session Host closed is reported by the row, or is about to be; or
\* the transcript is full, and every read will see that; or it is forgotten.
PipeIsReported ==
    alive /\ pipeEnd # Open
        => \/ row.state # "ACTIVE" \/ rd.pc = "saveReserve" \/ Full \/ forgotten
           \/ \E o \in Others : other[o].pc = "stopped"

\* The capture has ended, and the transcript is full.
AtCeiling == cap \in {"stopped", "failed"} /\ taken = Maximum

\* How the loss gets into the response: as the row's state, by the stop record, or
\* by an inventory that reaches the ceiling.
LossIsCarried ==
    rd.dropped =>
        /\ rd.pc = "observe"
              => AtCeiling \/ rd.state # "ACTIVE" \/ ~alive \/ marker
        /\ rd.pc = "alive" => AtCeiling \/ rd.state # "ACTIVE" \/ ~alive
        /\ rd.pc \in {"reserve", "readdir", "lstat"}
              => AtCeiling \/ rd.state # "ACTIVE" \/ ~rd.alive
        /\ rd.pc = "bytes" => rd.state # "ACTIVE" \/ ~rd.alive

\* The inventory of a capture that has ended is complete.
LossIsInspected ==
    rd.dropped /\ rd.pc = "lstat"
        => /\ insp.n = Len(disk)
           /\ \A i \in 1..Len(insp.sizes) : insp.sizes[i] = Len(disk[i])

\* All that LossIsReported rests on.
LossIsTracked ==
    /\ LossIsAnEnd /\ CeilingIsFull /\ PipeIsReported /\ LossIsCarried /\ LossIsInspected
    /\ LossIsReported

\* What has been copied is the beginning of the transcript.
ArchiveInOrder ==
    arch.pc \in {"copy", "accepted"} =>
        /\ Len(arch.copy) <= Len(arch.sizes) /\ Len(arch.sizes) <= Len(disk)
        /\ \A i \in 1..Len(arch.sizes) : i < Len(arch.sizes) => arch.sizes[i] = SegmentBytes
        /\ \A i \in 1..Len(arch.copy) :
              arch.copy[i] = [k \in 1..arch.sizes[i] |-> Before(i) + k]
        /\ arch.pc = "accepted" => Len(arch.copy) = Len(arch.sizes)

\* The invariant: with TypeOK, every step keeps it.
IInv == /\ WholeCharacters /\ FilesInOrder /\ CaptureHasReason /\ InventoryInOrder
        /\ FollowerInOrder /\ ReadsSucceed /\ LossIsTracked /\ ArchiveInOrder

-----------------------------------------------------------------------------
(***************************************************************************)
(* Lemmas about the operators.                                             *)
(***************************************************************************)

\* The constants are what their comments say.
LEMMA Constants == /\ MaxPrinted \in Nat /\ FirstOffsets \subseteq Nat
                   /\ Maximum \in Nat \ {0} /\ SegmentBytes \in Nat \ {0} /\ MaxRead \in Nat \ {0}
                   /\ SegmentBytes <= Maximum /\ Widths \subseteq 1..4
                   /\ Open \in Nat /\ Open = MaxPrinted + 1
BY LimitsAssumption DEF Open

\* The minimum of two numbers.
LEMMA MinOfTwo == \A a, b \in Int : Min({a, b}) = IF a <= b THEN a ELSE b
<1> TAKE a, b \in Int
<1> DEFINE m == IF a <= b THEN a ELSE b
<1>1. m \in {a, b} /\ \A y \in {a, b} : m <= y OBVIOUS
<1>2. \A x \in {a, b} : (\A y \in {a, b} : x <= y) => x = m OBVIOUS
<1> QED BY <1>1, <1>2 DEF Min

\* The minimum of three numbers is one of them, and none is smaller.
LEMMA MinOfThree ==
    \A a, b, c \in Int : /\ Min({a, b, c}) \in {a, b, c}
                         /\ Min({a, b, c}) <= a /\ Min({a, b, c}) <= b /\ Min({a, b, c}) <= c
<1> TAKE a, b, c \in Int
<1>1. \E x \in {a, b, c} : \A y \in {a, b, c} : x <= y OBVIOUS
<1> QED BY <1>1 DEF Min

\* The maximum of a set that has one.
LEMMA MaxIsGreatest ==
    ASSUME NEW S, S \subseteq Int, NEW m \in S, \A y \in S : y <= m
    PROVE  Max(S) = m
<1>1. \A y \in S : m >= y OBVIOUS
<1>2. \A x \in S : (\A y \in S : x >= y) => x = m BY <1>1
<1> QED BY <1>1, <1>2 DEF Max

\* Files start one after the other.
LEMMA BeforeFacts ==
    /\ Before(1) = 0
    /\ \A i \in Nat \ {0} : Before(i) \in Nat /\ Before(i + 1) = Before(i) + SegmentBytes
    /\ \A i, j \in Nat \ {0} : i < j => Before(i) + SegmentBytes <= Before(j)
<1> DEFINE S == SegmentBytes
<1>0. S \in Nat \ {0} BY Constants
<1>1. Before(1) = 0 BY <1>0 DEF Before
<1>2. ASSUME NEW i \in Nat \ {0} PROVE Before(i) \in Nat /\ Before(i + 1) = Before(i) + S
  <2>1. \A a, b \in Nat : a * b \in Nat /\ (a + 1) * b = a * b + b OBVIOUS
  <2>2. i - 1 \in Nat /\ (i + 1) - 1 = (i - 1) + 1 OBVIOUS
  <2> QED BY <1>0, <2>1, <2>2 DEF Before
<1>3. ASSUME NEW i \in Nat \ {0}, NEW j \in Nat \ {0}, i < j PROVE Before(i) + S <= Before(j)
  <2>1. \A a, b, c \in Nat : (a + 1 + c) * b = a * b + b + c * b /\ c * b >= 0 /\ a * b \in Nat
                             /\ c * b \in Nat
    OBVIOUS
  <2>2. i - 1 \in Nat /\ j - 1 - i \in Nat /\ j - 1 = (i - 1) + 1 + (j - 1 - i) BY <1>3
  <2>3. (j - 1) * S = (i - 1) * S + S + (j - 1 - i) * S /\ (j - 1 - i) * S \in Nat
        /\ (i - 1) * S \in Nat
    BY <1>0, <2>1, <2>2
  <2> QED BY <1>0, <2>3 DEF Before
<1> QED BY <1>1, <1>2, <1>3

-----------------------------------------------------------------------------
(***************************************************************************)
(* Who changes what.                                                       *)
(***************************************************************************)

\* The steps of the capture process, of the reader, of the other reads and of close().
CaptureSteps == Capture \/ CaptureStops \/ CaptureFails
ReaderSteps  == ReadOutput \/ ReserveShort \/ ReaderFails
                \/ \E offset \in FirstOffsets : StartRead(offset)
OtherSteps   == \E o \in Others : OtherRead(o)
CloserSteps  == CloseKill \/ CloseRead \/ CloseSave \/ CloseFails

\* A step is one of the terminal, the capture process, the Session Host or the archiver.
LEMMA StepsByActor ==
    ASSUME [Next]_vars
    PROVE  \/ UNCHANGED vars \/ (\E w \in Widths : Prints(w)) \/ ShellExits
           \/ CaptureSteps \/ ReaderSteps \/ OtherSteps \/ CloserSteps \/ HostDies \/ Archive
BY DEF Next, CaptureSteps, ReaderSteps, OtherSteps, CloserSteps

\* The capture process changes its own state and nothing else.
LEMMA CaptureEffect ==
    ASSUME CaptureSteps
    PROVE  UNCHANGED <<stream, alive, pipeEnd, row, closer, readerVars, insp, arch, otherVars>>
BY DEF CaptureSteps, Capture, CaptureStops, CaptureFails, CaptureWrite, CaptureFlushes,
   CaptureRotate, RecordStorageStop, CaptureOpens, CaptureEnds

\* Of the pipe the reader changes the end alone, and it leaves the terminal, the capture
\* process, the closer, the archiver and the other reads as they are.
LEMMA ReaderEffect ==
    ASSUME ReaderSteps
    PROVE  /\ UNCHANGED <<stream, alive, cap, taken, index, buffer, disk, marker, closer, arch,
                          other>>
           /\ pipeEnd' = pipeEnd \/ ClosePipe
BY DEF ReaderSteps, ReadOutput, StartRead, ObserveCaptureStop, IsAlive, ReserveSuffices,
   ReserveShort, ReaderReaddir, ReaderLstat, EnforceCaptureCeiling, UpdateTranscript,
   ReaderSaves, ReaderFails, RespondOutput, ReadKeeps, StopPipe, captureVars, otherVars

\* So do the other reads, which also leave the follower alone.
LEMMA OtherEffect ==
    ASSUME OtherSteps
    PROVE  /\ UNCHANGED <<stream, alive, cap, taken, index, buffer, disk, marker, closer, arch,
                          rd, insp, base, got, cursor, last>>
           /\ pipeEnd' = pipeEnd \/ ClosePipe
<1>1. PICK o \in Others : OtherRead(o) BY DEF OtherSteps
<1>2. OtherKeeps /\ (pipeEnd' = pipeEnd \/ ClosePipe)
  BY <1>1 DEF OtherRead, OtherReads, OtherObserves, OtherStopsPipe, OtherSaves, OtherEnds
<1> QED BY <1>2 DEF OtherKeeps, readerVars

\* close() changes the terminal, the pipe and the row.
LEMMA CloserEffect ==
    ASSUME CloserSteps
    PROVE  /\ UNCHANGED <<stream, cap, taken, index, buffer, disk, marker, rd, base, got,
                          cursor, last, insp, arch, other>>
           /\ \/ UNCHANGED <<alive, pipeEnd>>
              \/ alive' = FALSE /\ ClosePipe
BY DEF CloserSteps, CloseKill, CloseRead, CloseSave, CloseFails, CloserKeeps, readerVars

\* The state of the capture process changes in its own steps alone.
LEMMA OthersKeepCapture ==
    ASSUME [Next]_vars, ~CaptureSteps
    PROVE  UNCHANGED <<cap, taken, index, buffer, disk, marker>>
<1> USE DEF captureVars, vars
<1>1. CASE UNCHANGED vars BY <1>1
<1>2. CASE \E w \in Widths : Prints(w) BY <1>2 DEF Prints
<1>3. CASE ShellExits BY <1>3 DEF ShellExits
<1>4. CASE ReaderSteps BY <1>4, ReaderEffect
<1>5. CASE CloserSteps BY <1>5, CloserEffect
<1>6. CASE HostDies BY <1>6 DEF HostDies
<1>7. CASE Archive
  BY <1>7 DEF Archive, ArchiveStart, ArchiveCopy, ArchiveAccept, ArchiveKeeps
<1>8. CASE OtherSteps BY <1>8, OtherEffect
<1> QED BY <1>1, <1>2, <1>3, <1>4, <1>5, <1>6, <1>7, <1>8, StepsByActor

\* The terminal's output changes by what is printed alone.
LEMMA OnlyPrintsPrints ==
    ASSUME [Next]_vars, stream' # stream
    PROVE  \E w \in Widths : Prints(w)
<1> USE DEF captureVars, vars
<1>3. ~ShellExits BY DEF ShellExits
<1>4. ~ReaderSteps BY ReaderEffect
<1>5. ~CloserSteps BY CloserEffect
<1>9. ~OtherSteps BY OtherEffect
<1>6. ~HostDies BY DEF HostDies
<1>7. ~Archive BY DEF Archive, ArchiveStart, ArchiveCopy, ArchiveAccept, ArchiveKeeps
<1>8. ~CaptureSteps BY CaptureEffect
<1> QED BY <1>3, <1>4, <1>5, <1>6, <1>7, <1>8, <1>9, StepsByActor

\* What one printed character appends.
LEMMA PrintedCharacter ==
    ASSUME TypeOK, NEW w \in Widths, Prints(w)
    PROVE  /\ stream' \in Seq(Widths \X (1..4)) /\ Len(stream') = Len(stream) + w
           /\ w \in 1..4
           /\ \A p \in 1..Len(stream) : stream'[p] = stream[p]
           /\ \A k \in 1..w : stream'[Len(stream) + k] = <<w, k>>
<1> DEFINE character == [k \in 1..w |-> <<w, k>>]
<1>1. w \in 1..4 BY Constants
<1>2. \A k \in 1..w : <<w, k>> \in Widths \X (1..4) BY <1>1
<1>3. character \in Seq(Widths \X (1..4)) /\ Len(character) = w BY <1>1, <1>2
<1>4. stream' = stream \o character BY DEF Prints
<1>5. stream \in Seq(Widths \X (1..4)) BY DEF TypeOK
<1>6. \A k \in 1..w : character[k] = <<w, k>> OBVIOUS
<1> HIDE DEF character
<1> QED BY <1>1, <1>3, <1>4, <1>5, <1>6

\* A character is printed whole, behind what is there.
LEMMA WholeCharactersStep ==
    ASSUME TypeOK, WholeCharacters, [Next]_vars
    PROVE  WholeCharacters'
<1>1. CASE stream' = stream BY <1>1 DEF WholeCharacters
<1>2. CASE stream' # stream
  <2>1. PICK w \in Widths : Prints(w) BY <1>2, OnlyPrintsPrints
  <2> DEFINE n == Len(stream)
  <2>2. n \in Nat /\ w \in 1..4 BY <2>1, PrintedCharacter DEF TypeOK
  <2>3. Len(stream') = n + w BY <2>1, PrintedCharacter
  <2>4. \A p \in 1..n : stream'[p] = stream[p] BY <2>1, PrintedCharacter
  <2>5. \A k \in 1..w : stream'[n + k] = <<w, k>> BY <2>1, PrintedCharacter
  <2> SUFFICES ASSUME NEW p \in 1..(n + w)
               PROVE  /\ stream'[p][2] <= stream'[p][1]
                      /\ stream'[p][2] > 1
                            => /\ p > 1
                               /\ stream'[p - 1] = <<stream'[p][1], stream'[p][2] - 1>>
                      /\ stream'[p][2] < stream'[p][1]
                            => /\ p < n + w
                               /\ stream'[p + 1] = <<stream'[p][1], stream'[p][2] + 1>>
    BY <2>3 DEF WholeCharacters
  <2> HIDE DEF n
  <2>6. CASE p \in 1..n
    <3>1. stream'[p] = stream[p] BY <2>4, <2>6
    <3>2. stream[p][2] > 1 => p - 1 \in 1..n BY <2>2, <2>6 DEF WholeCharacters, n
    <3>3. stream[p][2] < stream[p][1] => p + 1 \in 1..n BY <2>2, <2>6 DEF WholeCharacters, n
    <3>4. stream[p][2] > 1 => stream'[p - 1] = stream[p - 1] BY <2>4, <3>2
    <3>5. stream[p][2] < stream[p][1] => stream'[p + 1] = stream[p + 1] BY <2>4, <3>3
    <3>6. /\ stream[p][2] <= stream[p][1]
          /\ stream[p][2] > 1 => p > 1 /\ stream[p - 1] = <<stream[p][1], stream[p][2] - 1>>
          /\ stream[p][2] < stream[p][1]
                => p < n /\ stream[p + 1] = <<stream[p][1], stream[p][2] + 1>>
      BY <2>6 DEF WholeCharacters, n
    <3>7. p < n => p < n + w BY <2>2
    <3> QED BY <3>1, <3>4, <3>5, <3>6, <3>7
  <2>7. CASE p \notin 1..n
    <3>1. p - n \in 1..w /\ p = n + (p - n) BY <2>2, <2>7
    <3>2. stream'[p] = <<w, p - n>> BY <2>5, <3>1
    <3>3. p - n > 1 => stream'[p - 1] = <<w, p - n - 1>>
      <4>1. p - n > 1 => p - n - 1 \in 1..w /\ p - 1 = n + (p - n - 1) BY <2>2, <3>1
      <4> QED BY <2>5, <4>1
    <3>4. p - n < w => stream'[p + 1] = <<w, p - n + 1>>
      <4>1. p - n < w => p - n + 1 \in 1..w /\ p + 1 = n + (p - n + 1) BY <2>2, <3>1
      <4> QED BY <2>5, <4>1
    <3> QED BY <2>2, <3>1, <3>2, <3>3, <3>4
  <2> QED BY <2>6, <2>7
<1> QED BY <1>1, <1>2

-----------------------------------------------------------------------------
(***************************************************************************)
(* The files that the capture process fills.                               *)
(***************************************************************************)

\* The members of a sequence of sequences.
LEMMA FilesAreSequences ==
    ASSUME NEW s \in Seq(Seq(Nat))
    PROVE  Len(s) \in Nat /\ \A i \in 1..Len(s) : s[i] \in Seq(Nat) /\ Len(s[i]) \in Nat
<1>1. Len(s) \in Nat /\ \A i \in 1..Len(s) : s[i] \in Seq(Nat) OBVIOUS
<1>2. \A t \in Seq(Nat) : Len(t) \in Nat OBVIOUS
<1> QED BY <1>1, <1>2, Zenon

\* A file of a sequence of files is replaced.
LEMMA FileReplaced ==
    ASSUME NEW s \in Seq(Seq(Nat)), NEW i \in 1..Len(s), NEW t \in Seq(Nat)
    PROVE  LET r == [s EXCEPT ![i] = t]
           IN  /\ r \in Seq(Seq(Nat)) /\ Len(r) = Len(s) /\ r[i] = t
               /\ \A j \in 1..Len(s) : j # i => r[j] = s[j]
OBVIOUS

\* A file is added to a sequence of files.
LEMMA FileAdded ==
    ASSUME NEW s \in Seq(Seq(Nat)), NEW t \in Seq(Nat)
    PROVE  /\ Append(s, t) \in Seq(Seq(Nat)) /\ Len(Append(s, t)) = Len(s) + 1
           /\ Append(s, t)[Len(s) + 1] = t
           /\ \A j \in 1..Len(s) : Append(s, t)[j] = s[j]
OBVIOUS

\* Two sequences of positions, one behind the other.
LEMMA Joined ==
    ASSUME NEW s \in Seq(Nat), NEW t \in Seq(Nat)
    PROVE  /\ s \o t \in Seq(Nat) /\ Len(s \o t) = Len(s) + Len(t)
           /\ Len(s) \in Nat /\ Len(t) \in Nat
           /\ \A k \in 1..Len(s) : (s \o t)[k] = s[k]
           /\ \A k \in 1..Len(t) : (s \o t)[Len(s) + k] = t[k]
           /\ \A k \in 1..Len(s \o t) :
                 k \notin 1..Len(s) => k - Len(s) \in 1..Len(t) /\ (s \o t)[k] = t[k - Len(s)]
OBVIOUS

\* A sequence of positions is cut behind its n-th.
LEMMA CutInTwo ==
    ASSUME NEW s \in Seq(Nat), NEW n \in 0..Len(s)
    PROVE  /\ SubSeq(s, 1, n) \in Seq(Nat) /\ Len(SubSeq(s, 1, n)) = n
           /\ \A k \in 1..n : SubSeq(s, 1, n)[k] = s[k]
           /\ SubSeq(s, n + 1, Len(s)) \in Seq(Nat)
           /\ Len(SubSeq(s, n + 1, Len(s))) = Len(s) - n
           /\ \A k \in 1..(Len(s) - n) : SubSeq(s, n + 1, Len(s))[k] = s[n + k]
<1>1. Len(s) \in Nat /\ n \in Nat /\ n <= Len(s) OBVIOUS
<1>2. /\ SubSeq(s, 1, n) \in Seq(Nat) /\ Len(SubSeq(s, 1, n)) = n
      /\ \A k \in 1..n : SubSeq(s, 1, n)[k] = s[k]
  BY <1>1
<1>3. SubSeq(s, n + 1, Len(s)) = [k \in 1..(Len(s) - n) |-> s[n + k]]
  <2>1. Len(s) - (n + 1) + 1 = Len(s) - n BY <1>1
  <2>2. \A k \in 1..(Len(s) - n) : (n + 1) + k - 1 = n + k BY <1>1
  <2> QED BY <1>1, <2>1, <2>2
<1>4. \A k \in 1..(Len(s) - n) : s[n + k] \in Nat
  <2>1. \A k \in 1..(Len(s) - n) : n + k \in 1..Len(s) BY <1>1
  <2> QED BY <2>1
<1>5. Len(s) - n \in Nat BY <1>1
<1>6. \A m \in Nat : \A f \in [1..m -> Nat] : f \in Seq(Nat) /\ Len(f) = m OBVIOUS
<1>7. [k \in 1..(Len(s) - n) |-> s[n + k]] \in [1..(Len(s) - n) -> Nat] BY <1>4
<1> QED BY <1>2, <1>3, <1>5, <1>6, <1>7

\* Consecutive positions.
LEMMA Consecutive ==
    ASSUME NEW a \in Nat, NEW n \in Nat
    PROVE  LET s == [i \in 1..n |-> a + i]
           IN  s \in Seq(Nat) /\ Len(s) = n /\ \A i \in 1..n : s[i] = a + i
OBVIOUS

\* The types of the files and the buffer.
LEMMA FileTypes ==
    ASSUME TypeOK
    PROVE  /\ buffer \in Seq(Nat) /\ Len(buffer) <= SegmentBytes /\ Len(buffer) \in Nat
           /\ disk \in Seq(Seq(Nat)) /\ Len(disk) \in Nat
           /\ \A i \in 1..Len(disk) : Len(disk[i]) <= SegmentBytes
           /\ \A i \in 1..Len(disk) : disk[i] \in Seq(Nat) /\ Len(disk[i]) \in Nat
           /\ index \in {Len(disk), Len(disk) + 1}
           /\ taken \in 0..Maximum
           /\ SegmentBytes \in Nat \ {0} /\ Maximum \in Nat
<1>1. /\ buffer \in Seq(Nat) /\ Len(buffer) <= SegmentBytes
      /\ disk \in Seq(Seq(Nat)) /\ \A i \in 1..Len(disk) : Len(disk[i]) <= SegmentBytes
      /\ index \in {Len(disk), Len(disk) + 1} /\ taken \in 0..Maximum
  BY Zenon DEF TypeOK
<1>2. Len(buffer) \in Nat BY <1>1
<1>3. Len(disk) \in Nat /\ \A i \in 1..Len(disk) : disk[i] \in Seq(Nat) /\ Len(disk[i]) \in Nat
  BY <1>1, FilesAreSequences, Zenon
<1>4. SegmentBytes \in Nat \ {0} /\ Maximum \in Nat BY Constants
<1> QED BY <1>1, <1>2, <1>3, <1>4, Zenon

\* What TypeOK says of the files.
FilesTyped ==
    /\ index \in {Len(disk), Len(disk) + 1}
    /\ buffer \in Seq(Nat) /\ Len(buffer) <= SegmentBytes
    /\ disk \in Seq(Seq(Nat)) /\ \A i \in 1..Len(disk) : Len(disk[i]) <= SegmentBytes
    /\ taken \in 0..Maximum

\* Files grow, and none goes away.
FilesGrow ==
    /\ Len(disk) <= Len(disk')
    /\ \A i \in 1..Len(disk) : Len(disk[i]) <= Len(disk'[i])

\* A portion is accepted behind the buffer.
LEMMA WriteKeepsFiles ==
    ASSUME TypeOK, FilesInOrder, NEW n \in 1..SegmentBytes, CaptureWrite(n)
    PROVE  FilesTyped' /\ FilesInOrder' /\ UNCHANGED disk
<1> DEFINE more == [i \in 1..n |-> taken + i]
<1>t. /\ buffer \in Seq(Nat) /\ Len(buffer) \in Nat /\ taken \in 0..Maximum
      /\ index \in {Len(disk), Len(disk) + 1} /\ Len(disk) \in Nat
      /\ SegmentBytes \in Nat \ {0} /\ Maximum \in Nat
      /\ \A i \in 1..Len(disk) : Len(disk[i]) \in Nat
  BY FileTypes, Zenon
<1>d. disk \in Seq(Seq(Nat)) /\ \A i \in 1..Len(disk) : Len(disk[i]) <= SegmentBytes
  BY FileTypes, Zenon
<1>f. /\ Len(disk) > 0
      /\ \A k \in 1..Len(buffer) : buffer[k] = taken - Len(buffer) + k
      /\ taken = Before(index) + SegmentSize /\ SegmentSize <= SegmentBytes
  BY Zenon DEF FilesInOrder
<1>1. buffer' = buffer \o more /\ taken' = taken + n /\ n <= Portion BY Zenon DEF CaptureWrite
<1>u. UNCHANGED <<index, disk>> BY DEF CaptureWrite
<1>2. more \in Seq(Nat) /\ Len(more) = n /\ \A i \in 1..n : more[i] = taken + i
  BY <1>t, Consecutive
<1> HIDE DEF more
<1>3. /\ buffer' \in Seq(Nat) /\ Len(buffer') = Len(buffer) + n
      /\ \A k \in 1..Len(buffer) : buffer'[k] = buffer[k]
      /\ \A k \in 1..Len(buffer') :
            k \notin 1..Len(buffer) => /\ k - Len(buffer) \in 1..n
                                       /\ buffer'[k] = more[k - Len(buffer)]
  BY <1>t, <1>1, <1>2, Joined
<1>s. SegmentSize \in Nat /\ SegmentSize >= Len(buffer) BY <1>t, <1>f DEF SegmentSize
<1>p. Piped \in Int
  <2>1. Len(stream) \in Nat /\ pipeEnd \in Int
    <3>1. stream \in Seq(Widths \X (1..4)) /\ pipeEnd \in 0..Open BY Zenon DEF TypeOK
    <3> QED BY <3>1
  <2> QED BY <2>1 DEF Piped
<1>4. n <= Maximum - taken /\ n <= SegmentBytes - SegmentSize
  <2>1. Piped - taken \in Int /\ Maximum - taken \in Int /\ SegmentBytes - SegmentSize \in Int
    BY <1>s, <1>p, <1>t
  <2>2. Portion <= Maximum - taken /\ Portion <= SegmentBytes - SegmentSize
    BY <2>1, MinOfThree, Zenon DEF Portion
  <2>3. Portion \in Int
    <3>1. Portion \in {Piped - taken, Maximum - taken, SegmentBytes - SegmentSize}
      BY <2>1, MinOfThree, Zenon DEF Portion
    <3> QED BY <2>1, <3>1
  <2> QED BY <1>1, <2>1, <2>2, <2>3
<1>5. SegmentSize' = SegmentSize + n
  <2> DEFINE written == IF index <= Len(disk) THEN Len(disk[index]) ELSE 0
  <2>1. written \in Nat BY <1>t, <1>f
  <2>2. SegmentSize = Len(buffer) + written BY DEF SegmentSize
  <2>3. SegmentSize' = Len(buffer') + written BY <1>u DEF SegmentSize
  <2>4. Len(buffer') = Len(buffer) + n /\ Len(buffer) \in Nat /\ n \in Nat BY <1>t, <1>3
  <2> HIDE DEF written
  <2> QED BY <2>1, <2>2, <2>3, <2>4
<1>6. ASSUME NEW k \in 1..Len(buffer') PROVE buffer'[k] = taken' - Len(buffer') + k
  <2>1. CASE k \in 1..Len(buffer) BY <1>t, <1>f, <1>1, <1>3, <2>1
  <2>2. CASE k \notin 1..Len(buffer)
    <3>1. k - Len(buffer) \in 1..n /\ buffer'[k] = more[k - Len(buffer)] BY <1>3, <2>2
    <3>2. buffer'[k] = taken + (k - Len(buffer)) BY <1>2, <3>1
    <3> QED BY <1>t, <1>1, <1>3, <3>2
  <2> QED BY <2>1, <2>2
<1>b. Before(index) \in Nat
  <2>1. index \in Nat \ {0} BY <1>t, <1>f
  <2> QED BY <2>1, BeforeFacts, Zenon
<1>7. taken' = Before(index') + SegmentSize' /\ SegmentSize' <= SegmentBytes
  BY <1>b, <1>t, <1>f, <1>1, <1>u, <1>s, <1>4, <1>5
<1>8. Len(buffer') <= SegmentBytes /\ taken' \in 0..Maximum
  BY <1>t, <1>1, <1>s, <1>3, <1>4
<1>9. FilesTyped' BY <1>t, <1>d, <1>u, <1>3, <1>8, Zenon DEF FilesTyped
<1>10. FilesInOrder' BY <1>u, <1>6, <1>7, Zenon DEF FilesInOrder
<1> QED BY <1>u, <1>9, <1>10

\* Bytes go from the buffer to the last file.
LEMMA FlushKeepsFiles ==
    ASSUME TypeOK, FilesInOrder, NEW n \in 1..SegmentBytes, CaptureFlushes(n)
    PROVE  FilesTyped' /\ FilesInOrder' /\ FilesGrow
<1> DEFINE d     == Len(disk)
           moved == SubSeq(buffer, 1, n)
           rest  == SubSeq(buffer, n + 1, Len(buffer))
           f     == disk[d]
<1>t. /\ buffer \in Seq(Nat) /\ Len(buffer) \in Nat /\ taken \in 0..Maximum
      /\ index \in {d, d + 1} /\ d \in Nat /\ SegmentBytes \in Nat \ {0} /\ Maximum \in Nat
      /\ \A i \in 1..d : disk[i] \in Seq(Nat) /\ Len(disk[i]) \in Nat
  BY FileTypes, Zenon
<1>d. disk \in Seq(Seq(Nat)) /\ \A i \in 1..d : Len(disk[i]) <= SegmentBytes
  BY FileTypes, Zenon
<1>f. /\ d > 0
      /\ \A i \in 1..d : i < d \/ index > d => Len(disk[i]) = SegmentBytes
      /\ \A i \in 1..d : \A k \in 1..Len(disk[i]) : disk[i][k] = Before(i) + k
      /\ \A k \in 1..Len(buffer) : buffer[k] = taken - Len(buffer) + k
      /\ taken = Before(index) + SegmentSize /\ SegmentSize <= SegmentBytes
  BY Zenon DEF FilesInOrder
<1>0. /\ index <= d /\ n <= Len(buffer) /\ UNCHANGED <<index, taken>>
      /\ disk' = [disk EXCEPT ![index] = @ \o moved] /\ buffer' = rest
  BY DEF CaptureFlushes
<1>1. index = d /\ d \in 1..d BY <1>0, <1>t, <1>f
<1>2. /\ moved \in Seq(Nat) /\ Len(moved) = n /\ \A k \in 1..n : moved[k] = buffer[k]
      /\ rest \in Seq(Nat) /\ Len(rest) = Len(buffer) - n
      /\ \A k \in 1..(Len(buffer) - n) : rest[k] = buffer[n + k]
  <2>1. n \in 0..Len(buffer) BY <1>t, <1>0
  <2> QED BY <1>t, <2>1, CutInTwo
<1>4. f \in Seq(Nat) /\ Len(f) \in Nat BY <1>t, <1>1
<1> HIDE DEF moved, rest
<1>5. /\ (f \o moved) \in Seq(Nat) /\ Len(f \o moved) = Len(f) + n
      /\ \A k \in 1..Len(f) : (f \o moved)[k] = f[k]
      /\ \A k \in 1..Len(f \o moved) :
            k \notin 1..Len(f) => /\ k - Len(f) \in 1..n
                                  /\ (f \o moved)[k] = moved[k - Len(f)]
  BY <1>2, <1>4, Joined
<1>6. /\ disk' \in Seq(Seq(Nat)) /\ Len(disk') = d /\ disk'[d] = f \o moved
      /\ \A i \in 1..d : i # d => disk'[i] = disk[i]
  <2>1. disk' = [disk EXCEPT ![d] = f \o moved] BY <1>0, <1>1
  <2> QED BY <2>1, <1>d, <1>1, <1>5, FileReplaced
<1>7. SegmentSize = Len(buffer) + Len(f) BY <1>1, <1>t DEF SegmentSize
<1>8. SegmentSize' = SegmentSize
  <2>1. index' <= Len(disk') /\ Len(disk'[index']) = Len(f) + n
    BY <1>0, <1>1, <1>5, <1>6, <1>t
  <2>2. Len(buffer') = Len(buffer) - n BY <1>0, <1>2
  <2>3. SegmentSize' = Len(buffer') + Len(disk'[index']) BY <2>1 DEF SegmentSize
  <2>4. n \in Nat OBVIOUS
  <2> QED BY <1>t, <1>4, <1>7, <2>1, <2>2, <2>3, <2>4
<1>b. Before(d) \in Nat BY <1>t, <1>1, BeforeFacts
<1>9. taken = Before(d) + Len(buffer) + Len(f) /\ Len(buffer) + Len(f) <= SegmentBytes
  BY <1>b, <1>t, <1>1, <1>4, <1>7, <1>f
<1>10. \A i \in 1..d : Len(disk[i]) <= Len(disk'[i]) /\ Len(disk'[i]) <= SegmentBytes
  <2> TAKE i \in 1..d
  <2>1. CASE i = d
    <3>1. Len(disk'[i]) = Len(f) + n /\ disk[i] = f BY <2>1, <1>5, <1>6
    <3>2. n <= Len(buffer) /\ n \in Nat BY <1>0
    <3> QED BY <3>1, <3>2, <1>t, <1>4, <1>9
  <2>2. CASE i # d BY <2>2, <1>d, <1>t, <1>6
  <2> QED BY <2>1, <2>2
<1>11. \A i \in 1..d : i < d => Len(disk'[i]) = SegmentBytes
  <2>1. \A i \in 1..d : i < d => i # d BY <1>t
  <2>2. \A i \in 1..d : i < d => Len(disk[i]) = SegmentBytes BY <1>f
  <2> HIDE DEF d
  <2> QED BY <1>6, <2>1, <2>2
<1>12. ASSUME NEW i \in 1..d, NEW k \in 1..Len(disk'[i]) PROVE disk'[i][k] = Before(i) + k
  <2>1. CASE i # d BY <1>6, <1>f, <2>1
  <2>2. CASE i = d
    <3>1. disk'[i] = f \o moved BY <1>6, <2>2
    <3>2. k \in 1..Len(f \o moved) BY <3>1
    <3>3. CASE k \in 1..Len(f) BY <3>1, <3>3, <1>5, <1>f, <2>2
    <3>4. CASE k \notin 1..Len(f)
      <4>1. k - Len(f) \in 1..n /\ disk'[i][k] = moved[k - Len(f)] BY <1>5, <3>1, <3>2, <3>4
      <4>2. moved[k - Len(f)] = buffer[k - Len(f)] BY <1>2, <4>1
      <4>3. k - Len(f) \in 1..Len(buffer) BY <1>t, <1>0, <4>1
      <4>4. buffer[k - Len(f)] = taken - Len(buffer) + (k - Len(f)) BY <4>3, <1>f
      <4>5. k \in Int /\ disk'[i][k] = taken - Len(buffer) + (k - Len(f))
        BY <4>1, <4>2, <4>4
      <4>6. taken - Len(buffer) + (k - Len(f)) = Before(d) + k
        <5>1. Len(buffer) \in Nat /\ Len(f) \in Nat /\ Before(d) \in Nat /\ k \in Int
          BY <1>t, <1>b, <1>4, <4>5
        <5>2. taken = Before(d) + Len(buffer) + Len(f) BY <1>9
        <5> QED BY <5>1, <5>2
      <4> QED BY <2>2, <4>5, <4>6
    <3> QED BY <3>3, <3>4
  <2> QED BY <2>1, <2>2
<1>13. ASSUME NEW k \in 1..Len(buffer') PROVE buffer'[k] = taken' - Len(buffer') + k
  <2>1. Len(buffer') = Len(buffer) - n /\ buffer' = rest BY <1>0, <1>2
  <2>2. k \in 1..(Len(buffer) - n) /\ n + k \in 1..Len(buffer) BY <1>t, <1>0, <2>1
  <2>3. buffer'[k] = buffer[n + k] BY <1>2, <2>1, <2>2
  <2>4. buffer[n + k] = taken - Len(buffer) + (n + k) BY <2>2, <1>f
  <2> QED BY <1>t, <1>0, <2>1, <2>3, <2>4
<1>14. FilesInOrder'
  <2>1. Len(disk') > 0 BY <1>6, <1>f
  <2>2. \A i \in 1..Len(disk') :
           i < Len(disk') \/ index' > Len(disk') => Len(disk'[i]) = SegmentBytes
    BY <1>0, <1>1, <1>6, <1>11, <1>t
  <2>3. \A i \in 1..Len(disk') : \A k \in 1..Len(disk'[i]) : disk'[i][k] = Before(i) + k
    BY <1>6, <1>12, Zenon
  <2>4. \A k \in 1..Len(buffer') : buffer'[k] = taken' - Len(buffer') + k BY <1>13, Zenon
  <2>5. taken' = Before(index') + SegmentSize' /\ SegmentSize' <= SegmentBytes
    BY <1>0, <1>8, <1>f
  <2> QED BY <2>1, <2>2, <2>3, <2>4, <2>5, Zenon DEF FilesInOrder
<1>15. FilesTyped'
  <2>1. index' \in {Len(disk'), Len(disk') + 1} /\ taken' \in 0..Maximum
    BY <1>0, <1>1, <1>6, <1>t
  <2>2. buffer' \in Seq(Nat) /\ Len(buffer') <= SegmentBytes
    <3>1. buffer' \in Seq(Nat) /\ Len(buffer') = Len(buffer) - n BY <1>0, <1>2
    <3>2. n \in Nat /\ Len(buffer) <= SegmentBytes BY <1>t, <1>4, <1>9
    <3> QED BY <3>1, <3>2, <1>t
  <2>3. disk' \in Seq(Seq(Nat)) /\ \A i \in 1..Len(disk') : Len(disk'[i]) <= SegmentBytes
    BY <1>6, <1>10, Zenon
  <2> QED BY <2>1, <2>2, <2>3, Zenon DEF FilesTyped
<1>16. FilesGrow
  <2>1. Len(disk) <= Len(disk') BY <1>6, <1>t
  <2> QED BY <2>1, <1>10, Zenon DEF FilesGrow
<1> QED BY <1>14, <1>15, <1>16

\* The next segment is begun behind a full one, and its file is created.
LEMMA RotateKeepsFiles ==
    ASSUME TypeOK, FilesInOrder, CaptureRotate
    PROVE  FilesTyped' /\ FilesInOrder' /\ UNCHANGED disk
<1> DEFINE d == Len(disk)
<1>t. /\ index \in {d, d + 1} /\ d \in Nat /\ SegmentBytes \in Nat \ {0} /\ taken \in 0..Maximum
      /\ \A i \in 1..d : Len(disk[i]) \in Nat
  BY FileTypes, Zenon
<1>d. /\ disk \in Seq(Seq(Nat)) /\ \A i \in 1..d : Len(disk[i]) <= SegmentBytes
      /\ buffer \in Seq(Nat) /\ Len(buffer) <= SegmentBytes /\ taken \in 0..Maximum
  BY FileTypes, Zenon
<1>f. /\ d > 0
      /\ \A i \in 1..d : i < d \/ index > d => Len(disk[i]) = SegmentBytes
      /\ \A i \in 1..d : \A k \in 1..Len(disk[i]) : disk[i][k] = Before(i) + k
      /\ \A k \in 1..Len(buffer) : buffer[k] = taken - Len(buffer) + k
      /\ taken = Before(index) + SegmentSize /\ SegmentSize <= SegmentBytes
  BY Zenon DEF FilesInOrder
<1>1. /\ index' = index + 1 /\ UNCHANGED <<taken, buffer, disk>>
      /\ SegmentSize = SegmentBytes /\ buffer = <<>>
  BY DEF CaptureRotate
<1>2. index = d /\ Len(disk[d]) = SegmentBytes BY <1>t, <1>f, <1>1 DEF SegmentSize
<1>3. SegmentSize' = 0 BY <1>t, <1>1, <1>2 DEF SegmentSize
<1>4. Before(index') = Before(index) + SegmentBytes /\ Before(index) \in Nat
  <2>1. index \in Nat \ {0} /\ index' = index + 1 BY <1>t, <1>f, <1>1
  <2> QED BY <2>1, BeforeFacts
<1>5. taken' = Before(index') + SegmentSize' /\ SegmentSize' <= SegmentBytes
  BY <1>t, <1>1, <1>3, <1>4, <1>f
<1>6. \A i \in 1..d : Len(disk[i]) = SegmentBytes BY <1>t, <1>f, <1>2
<1>7. FilesInOrder'
  <2>1. /\ Len(disk') > 0
        /\ \A i \in 1..Len(disk') : Len(disk'[i]) = SegmentBytes
        /\ \A i \in 1..Len(disk') : \A k \in 1..Len(disk'[i]) : disk'[i][k] = Before(i) + k
        /\ \A k \in 1..Len(buffer') : buffer'[k] = taken' - Len(buffer') + k
    BY <1>f, <1>1, <1>6, Zenon
  <2> QED BY <1>5, <2>1, Zenon DEF FilesInOrder
<1>8. index' \in {Len(disk'), Len(disk') + 1} BY <1>1, <1>2
<1>9. FilesTyped' BY <1>d, <1>1, <1>8, Zenon DEF FilesTyped
<1> QED BY <1>1, <1>7, <1>9

\* A capture that fails leaves the files as they are, and nothing behind them.
LEMMA FailureKeepsFiles ==
    ASSUME TypeOK, FilesInOrder, CaptureFails
    PROVE  FilesTyped' /\ FilesInOrder' /\ UNCHANGED disk
<1>t. /\ buffer \in Seq(Nat) /\ Len(buffer) \in Nat /\ taken \in 0..Maximum
      /\ index \in {Len(disk), Len(disk) + 1} /\ Len(disk) \in Nat
      /\ SegmentBytes \in Nat \ {0} /\ Maximum \in Nat
      /\ \A i \in 1..Len(disk) : Len(disk[i]) \in Nat
  BY FileTypes, Zenon
<1>d. disk \in Seq(Seq(Nat)) /\ \A i \in 1..Len(disk) : Len(disk[i]) <= SegmentBytes
  BY FileTypes, Zenon
<1>f. /\ Len(disk) > 0 /\ taken = Before(index) + SegmentSize /\ SegmentSize <= SegmentBytes
      /\ \A i \in 1..Len(disk) : i < Len(disk) \/ index > Len(disk)
                                    => Len(disk[i]) = SegmentBytes
      /\ \A i \in 1..Len(disk) : \A k \in 1..Len(disk[i]) : disk[i][k] = Before(i) + k
  BY Zenon DEF FilesInOrder
<1>1. /\ taken' = taken - Len(buffer) /\ buffer' = <<>> /\ Len(<<>>) = 0
      /\ UNCHANGED <<index, disk>>
  BY DEF CaptureFails
<1>b. Before(index) \in Nat
  <2>1. index \in Nat \ {0} BY <1>t, <1>f
  <2> QED BY <2>1, BeforeFacts, Zenon
<1>2. SegmentSize' = SegmentSize - Len(buffer) /\ SegmentSize' \in Nat /\ SegmentSize \in Nat
  <2> DEFINE written == IF index <= Len(disk) THEN Len(disk[index]) ELSE 0
  <2>1. written \in Nat BY <1>t, <1>f
  <2>2. SegmentSize = Len(buffer) + written BY DEF SegmentSize
  <2>3. SegmentSize' = Len(buffer') + written BY <1>1 DEF SegmentSize
  <2> HIDE DEF written
  <2> QED BY <1>t, <1>1, <2>1, <2>2, <2>3
<1>3. taken' = Before(index') + SegmentSize' /\ SegmentSize' <= SegmentBytes
  BY <1>b, <1>t, <1>f, <1>1, <1>2
<1>4. taken' \in 0..Maximum BY <1>b, <1>t, <1>f, <1>1, <1>2
<1>5. \A k \in 1..Len(buffer') : buffer'[k] = taken' - Len(buffer') + k
  <2>1. \A k \in 1..0 : FALSE OBVIOUS
  <2> QED BY <1>1, <2>1
<1>6. FilesInOrder'
  <2>1. /\ Len(disk') > 0
        /\ \A i \in 1..Len(disk') : i < Len(disk') \/ index' > Len(disk')
                                       => Len(disk'[i]) = SegmentBytes
        /\ \A i \in 1..Len(disk') : \A k \in 1..Len(disk'[i]) : disk'[i][k] = Before(i) + k
    BY <1>f, <1>1
  <2> QED BY <1>3, <1>5, <2>1, Zenon DEF FilesInOrder, Before
<1>7. buffer' \in Seq(Nat) /\ Len(buffer') <= SegmentBytes BY <1>t, <1>1
<1>8. FilesTyped' BY <1>t, <1>d, <1>1, <1>4, <1>7, Zenon DEF FilesTyped
<1> QED BY <1>1, <1>6, <1>8

\* The file of the next segment is created, empty.
LEMMA OpenKeepsFiles ==
    ASSUME TypeOK, FilesInOrder, CaptureOpens
    PROVE  FilesTyped' /\ FilesInOrder' /\ FilesGrow
<1> DEFINE d == Len(disk)
<1>t. /\ index \in {d, d + 1} /\ d \in Nat /\ SegmentBytes \in Nat \ {0} /\ taken \in 0..Maximum
      /\ \A i \in 1..d : Len(disk[i]) \in Nat
  BY FileTypes, Zenon
<1>d. /\ disk \in Seq(Seq(Nat)) /\ \A i \in 1..d : Len(disk[i]) <= SegmentBytes
      /\ buffer \in Seq(Nat) /\ Len(buffer) <= SegmentBytes /\ taken \in 0..Maximum
  BY FileTypes, Zenon
<1>f. /\ d > 0
      /\ \A i \in 1..d : i < d \/ index > d => Len(disk[i]) = SegmentBytes
      /\ \A i \in 1..d : \A k \in 1..Len(disk[i]) : disk[i][k] = Before(i) + k
      /\ \A k \in 1..Len(buffer) : buffer[k] = taken - Len(buffer) + k
      /\ taken = Before(index) + SegmentSize /\ SegmentSize <= SegmentBytes
  BY Zenon DEF FilesInOrder
<1>0. index > d /\ disk' = Append(disk, <<>>) /\ UNCHANGED <<taken, index, buffer>>
  BY DEF CaptureOpens
<1>1. index = d + 1 BY <1>0, <1>t
<1>2. <<>> \in Seq(Nat) /\ Len(<<>>) = 0 OBVIOUS
<1>3. /\ disk' \in Seq(Seq(Nat)) /\ Len(disk') = d + 1 /\ disk'[d + 1] = <<>>
      /\ \A i \in 1..d : disk'[i] = disk[i]
  BY <1>0, <1>d, <1>2, FileAdded
<1>4. \A i \in 1..d : Len(disk[i]) = SegmentBytes BY <1>t, <1>1, <1>f
<1>5. SegmentSize' = SegmentSize
  <2>1. SegmentSize = Len(buffer) + 0 BY <1>1, <1>t DEF SegmentSize
  <2>2. SegmentSize' = Len(buffer) + 0 BY <1>0, <1>1, <1>2, <1>3, <1>t DEF SegmentSize
  <2> QED BY <2>1, <2>2
<1>6. \A i \in 1..(d + 1) : i \in 1..d \/ i = d + 1 BY <1>t
<1>7. \A i \in 1..Len(disk') : Len(disk'[i]) <= SegmentBytes
  <2>1. \A i \in 1..d : Len(disk'[i]) <= SegmentBytes BY <1>d, <1>3, Zenon
  <2>2. Len(disk'[d + 1]) <= SegmentBytes BY <1>t, <1>2, <1>3
  <2> QED BY <1>3, <1>6, <2>1, <2>2
<1>8. \A i \in 1..Len(disk') : i < Len(disk') \/ index' > Len(disk')
                                  => Len(disk'[i]) = SegmentBytes
  BY <1>t, <1>0, <1>1, <1>3, <1>4
<1>9. \A i \in 1..Len(disk') : \A k \in 1..Len(disk'[i]) : disk'[i][k] = Before(i) + k
  <2> SUFFICES ASSUME NEW i \in 1..(d + 1), NEW k \in 1..Len(disk'[i])
               PROVE  disk'[i][k] = Before(i) + k
    BY <1>3
  <2>1. CASE i \in 1..d
    <3>1. disk'[i] = disk[i] BY <2>1, <1>3
    <3>2. k \in 1..Len(disk[i]) BY <3>1
    <3>3. disk[i][k] = Before(i) + k BY <1>f, <2>1, <3>2, Zenon
    <3> QED BY <3>1, <3>3
  <2>2. CASE i = d + 1
    <3>1. k \in 1..0 BY <2>2, <1>2, <1>3
    <3> QED BY <3>1
  <2> QED BY <1>6, <2>1, <2>2
<1>10. FilesInOrder'
  <2>1. Len(disk') > 0 BY <1>3, <1>t
  <2>2. /\ \A k \in 1..Len(buffer') : buffer'[k] = taken' - Len(buffer') + k
        /\ taken' = Before(index') + SegmentSize' /\ SegmentSize' <= SegmentBytes
    BY <1>0, <1>f, <1>5
  <2> QED BY <1>8, <1>9, <2>1, <2>2, Zenon DEF FilesInOrder
<1>11. FilesTyped'
  <2>1. index' \in {Len(disk'), Len(disk') + 1} BY <1>0, <1>1, <1>3
  <2> QED BY <1>0, <1>d, <1>3, <1>7, <2>1, Zenon DEF FilesTyped
<1>12. FilesGrow
  <2>1. Len(disk) <= Len(disk') BY <1>3, <1>t
  <2>2. \A i \in 1..Len(disk) : Len(disk[i]) <= Len(disk'[i]) BY <1>3, <1>t
  <2> QED BY <2>1, <2>2 DEF FilesGrow
<1> QED BY <1>10, <1>11, <1>12

\* Every step keeps the files in order, and only makes them longer.
LEMMA FilesStep ==
    ASSUME TypeOK, FilesInOrder, [Next]_vars
    PROVE  FilesTyped' /\ FilesInOrder' /\ FilesGrow
<1>0. CASE UNCHANGED <<taken, index, buffer, disk>>
  <2>1. FilesTyped BY FileTypes, Zenon DEF FilesTyped
  <2>2. FilesTyped' /\ FilesInOrder' BY <1>0, <2>1 DEF FilesTyped, FilesInOrder, SegmentSize
  <2>3. FilesGrow
    <3>1. Len(disk) \in Nat /\ \A i \in 1..Len(disk) : Len(disk[i]) \in Nat
      BY FileTypes, Zenon
    <3> QED BY <1>0, <3>1 DEF FilesGrow
  <2> QED BY <2>2, <2>3
<1>g. ASSUME UNCHANGED disk PROVE FilesGrow
  <2>1. Len(disk) \in Nat /\ \A i \in 1..Len(disk) : Len(disk[i]) \in Nat BY FileTypes, Zenon
  <2> QED BY <1>g, <2>1 DEF FilesGrow
<1>1. ASSUME NEW n \in 1..SegmentBytes, CaptureWrite(n)
      PROVE  FilesTyped' /\ FilesInOrder' /\ FilesGrow
  BY <1>1, <1>g, WriteKeepsFiles
<1>2. ASSUME NEW n \in 1..SegmentBytes, CaptureFlushes(n)
      PROVE  FilesTyped' /\ FilesInOrder' /\ FilesGrow
  BY <1>2, FlushKeepsFiles
<1>3. CASE CaptureRotate BY <1>3, <1>g, RotateKeepsFiles
<1>4. CASE CaptureOpens BY <1>4, OpenKeepsFiles
<1>8. CASE CaptureFails BY <1>8, <1>g, FailureKeepsFiles
<1>5. CASE CaptureStops \/ RecordStorageStop \/ CaptureEnds
  BY <1>5, <1>0 DEF CaptureStops, RecordStorageStop, CaptureEnds
<1>6. CASE CaptureSteps BY <1>6, <1>1, <1>2, <1>3, <1>4, <1>5, <1>8 DEF CaptureSteps, Capture
<1>7. CASE ~CaptureSteps BY <1>7, <1>0, OthersKeepCapture
<1> QED BY <1>6, <1>7

-----------------------------------------------------------------------------
(***************************************************************************)
(* The terminal, the pipe and the end of the capture.                      *)
(***************************************************************************)

\* What TypeOK says of the terminal and of the capture process.
PipeTyped ==
    /\ stream \in Seq(Widths \X (1..4)) /\ Len(stream) <= MaxPrinted
    /\ alive \in BOOLEAN /\ pipeEnd \in 0..Open
    /\ cap \in {"run", "marking", "ending", "stopped", "failed"} /\ marker \in BOOLEAN

\* The terminal's output is only added to, and a terminal that has ended stays so.
TerminalGrows ==
    /\ Len(stream) <= Len(stream') /\ \A p \in 1..Len(stream) : stream'[p] = stream[p]
    /\ alive' => alive

\* The terminal's output is finite.
LEMMA StreamLength == ASSUME TypeOK PROVE Len(stream) \in 0..MaxPrinted /\ MaxPrinted \in Nat
<1>1. stream \in Seq(Widths \X (1..4)) /\ Len(stream) <= MaxPrinted BY Zenon DEF TypeOK
<1>2. Len(stream) \in Nat BY <1>1
<1>3. MaxPrinted \in Nat BY Constants
<1> QED BY <1>1, <1>2, <1>3

\* The terminal's output grows, and a dead terminal stays dead.
LEMMA TerminalStep ==
    ASSUME TypeOK, [Next]_vars
    PROVE  /\ TerminalGrows /\ alive' \in BOOLEAN
           /\ stream' \in Seq(Widths \X (1..4)) /\ Len(stream') <= MaxPrinted
<1> USE DEF captureVars, vars
<1>t. /\ stream \in Seq(Widths \X (1..4)) /\ Len(stream) <= MaxPrinted /\ alive \in BOOLEAN
  BY Zenon DEF TypeOK
<1>1. alive' \in BOOLEAN /\ (alive' => alive)
  <2>1. alive' = alive \/ alive' = FALSE
    <3>1. CASE CaptureSteps BY <3>1, CaptureEffect
    <3>2. CASE ReaderSteps BY <3>2, ReaderEffect
    <3>3. CASE CloserSteps BY <3>3, CloserEffect
    <3>6. CASE OtherSteps BY <3>6, OtherEffect
    <3>4. CASE Archive BY <3>4 DEF Archive, ArchiveStart, ArchiveCopy, ArchiveAccept, ArchiveKeeps
    <3>5. CASE UNCHANGED vars \/ (\E w \in Widths : Prints(w)) \/ ShellExits \/ HostDies
      BY <3>5 DEF Prints, ShellExits, HostDies
    <3> QED BY <3>1, <3>2, <3>3, <3>4, <3>5, <3>6, StepsByActor
  <2>2. alive \in BOOLEAN BY Zenon DEF TypeOK
  <2>3. CASE alive' = alive
    <3>1. alive' \in BOOLEAN BY <2>2, <2>3
    <3>2. alive' => alive BY <2>3
    <3> QED BY <3>1, <3>2
  <2>4. CASE alive' = FALSE
    <3>1. alive' \in BOOLEAN BY <2>4
    <3>2. ~alive' BY <2>4
    <3> QED BY <3>1, <3>2
  <2> QED BY <2>1, <2>3, <2>4
<1>2. CASE stream' = stream
  BY <1>1, <1>2, <1>t, StreamLength DEF TerminalGrows
<1>3. CASE stream' # stream
  <2>1. PICK w \in Widths : Prints(w) BY <1>3, OnlyPrintsPrints
  <2>2. /\ stream' \in Seq(Widths \X (1..4)) /\ Len(stream') = Len(stream) + w
        /\ w \in 1..4 /\ \A p \in 1..Len(stream) : stream'[p] = stream[p]
    BY <2>1, PrintedCharacter
  <2>3. Len(stream') <= MaxPrinted BY <2>1, <2>2 DEF Prints
  <2>4. Len(stream) <= Len(stream') BY <2>2, StreamLength
  <2> QED BY <1>1, <2>2, <2>3, <2>4, Zenon DEF TerminalGrows
<1> QED BY <1>2, <1>3

\* Closing the pipe ends it at what has been printed; a closed pipe stays as it is.
LEMMA ClosePipeEffect ==
    ASSUME TypeOK, CaptureHasReason, ClosePipe
    PROVE  /\ pipeEnd' \in 0..Open /\ pipeEnd' # Open /\ pipeEnd' <= Len(stream)
           /\ taken <= pipeEnd'
           /\ pipeEnd # Open => pipeEnd' = pipeEnd
<1>1. Len(stream) \in 0..MaxPrinted /\ MaxPrinted \in Nat BY StreamLength
<1>2. pipeEnd \in 0..Open BY Zenon DEF TypeOK
<1>3. Open = MaxPrinted + 1 BY DEF Open
<1>4. pipeEnd' = IF pipeEnd <= Len(stream) THEN pipeEnd ELSE Len(stream)
  <2>1. pipeEnd \in Int /\ Len(stream) \in Int BY <1>1, <1>2, <1>3
  <2> QED BY <2>1, MinOfTwo, Zenon DEF ClosePipe
<1>5. taken <= (IF pipeEnd = Open THEN Len(stream) ELSE pipeEnd)
      /\ (pipeEnd # Open => pipeEnd <= Len(stream))
  BY Zenon DEF CaptureHasReason, Piped
<1> QED BY <1>1, <1>2, <1>3, <1>4, <1>5

\* Outside the capture process the pipe is kept or closed.
LEMMA OthersKeepPipe ==
    ASSUME [Next]_vars, ~CaptureSteps
    PROVE  pipeEnd' = pipeEnd \/ (ClosePipe /\ stream' = stream)
<1> USE DEF captureVars, vars
<1>1. CASE ReaderSteps BY <1>1, ReaderEffect
<1>2. CASE CloserSteps BY <1>2, CloserEffect
<1>3. CASE Archive BY <1>3 DEF Archive, ArchiveStart, ArchiveCopy, ArchiveAccept, ArchiveKeeps
<1>4. CASE UNCHANGED vars \/ (\E w \in Widths : Prints(w)) \/ ShellExits \/ HostDies
  BY <1>4 DEF Prints, ShellExits, HostDies
<1>5. CASE OtherSteps BY <1>5, OtherEffect
<1> QED BY <1>1, <1>2, <1>3, <1>4, <1>5, StepsByActor

\* A capture ends for a reason, whatever the step.
LEMMA ReasonStep ==
    ASSUME TypeOK, FilesInOrder, CaptureHasReason, [Next]_vars
    PROVE  CaptureHasReason' /\ PipeTyped'
<1>t. /\ pipeEnd \in 0..Open /\ marker \in BOOLEAN
      /\ cap \in {"run", "marking", "ending", "stopped", "failed"}
  BY Zenon DEF TypeOK
<1>s. /\ TerminalGrows /\ alive' \in BOOLEAN
      /\ stream' \in Seq(Widths \X (1..4)) /\ Len(stream') <= MaxPrinted
  BY TerminalStep
<1>l. Len(stream) \in Nat /\ Len(stream') \in Nat /\ Len(stream) <= Len(stream')
  <2>1. \A s \in Seq(Widths \X (1..4)) : Len(s) \in Nat OBVIOUS
  <2>2. stream \in Seq(Widths \X (1..4)) BY Zenon DEF TypeOK
  <2>3. Len(stream) <= Len(stream') BY <1>s, Zenon DEF TerminalGrows
  <2> QED BY <1>s, <2>1, <2>2, <2>3
<1>f. /\ taken \in Nat /\ taken' \in Nat /\ buffer \in Seq(Nat)
  <2>1. taken \in 0..Maximum /\ buffer \in Seq(Nat) /\ Maximum \in Nat BY FileTypes, Zenon
  <2>2. taken' \in 0..Maximum BY FilesStep, Zenon DEF FilesTyped
  <2> QED BY <2>1, <2>2
<1>r. /\ taken <= Piped /\ (pipeEnd # Open => pipeEnd <= Len(stream))
      /\ cap \in {"ending", "stopped"} => marker \/ taken = Maximum \/ pipeEnd # Open
      /\ cap \in {"stopped", "failed"} => buffer = <<>>
  BY Zenon DEF CaptureHasReason
<1>1. CASE ~CaptureSteps
  <2>1. UNCHANGED <<cap, taken, index, buffer, disk, marker>> BY <1>1, OthersKeepCapture
  <2>2. CASE pipeEnd' = pipeEnd
    <3>1. taken' <= Piped' /\ (pipeEnd' # Open => pipeEnd' <= Len(stream'))
      BY <1>t, <1>l, <1>f, <1>r, <2>1, <2>2, Constants DEF Piped
    <3> QED BY <1>t, <1>s, <1>r, <2>1, <2>2, <3>1 DEF CaptureHasReason, PipeTyped
  <2>3. CASE ClosePipe /\ stream' = stream
    <3>1. /\ pipeEnd' \in 0..Open /\ pipeEnd' # Open /\ pipeEnd' <= Len(stream)
          /\ taken <= pipeEnd'
      BY <2>3, ClosePipeEffect
    <3>2. taken' <= Piped' BY <2>1, <3>1 DEF Piped
    <3> QED BY <1>t, <1>s, <1>r, <2>1, <2>3, <3>1, <3>2 DEF CaptureHasReason, PipeTyped
  <2> QED BY <1>1, <2>2, <2>3, OthersKeepPipe
<1>2. CASE CaptureSteps
  <2>1. UNCHANGED <<stream, alive, pipeEnd>> BY <1>2, CaptureEffect
  <2>p. Piped' = Piped BY <2>1 DEF Piped
  <2>2. ASSUME NEW n \in 1..SegmentBytes, CaptureWrite(n)
        PROVE  CaptureHasReason' /\ PipeTyped'
    <3>1. /\ cap = "run" /\ n <= Portion /\ taken' = taken + n /\ UNCHANGED marker
          /\ cap' = IF taken + n = Maximum THEN "ending" ELSE "run"
      BY <2>2 DEF CaptureWrite
    <3>2. Piped \in Int /\ SegmentSize \in Int /\ Maximum \in Int /\ SegmentBytes \in Int
      <4>1. SegmentSize \in Int
        <5>1. /\ Len(buffer) \in Nat
              /\ IF index <= Len(disk) THEN Len(disk[index]) \in Nat ELSE TRUE
          <6>1. /\ Len(buffer) \in Nat /\ index \in {Len(disk), Len(disk) + 1}
                /\ Len(disk) \in Nat /\ \A i \in 1..Len(disk) : Len(disk[i]) \in Nat
            BY FileTypes, Zenon
          <6>2. Len(disk) > 0 BY Zenon DEF FilesInOrder
          <6> QED BY <6>1, <6>2
        <5> QED BY <5>1 DEF SegmentSize
      <4> QED BY <1>t, <1>l, <4>1, Constants DEF Piped
    <3>3. Portion <= Piped - taken /\ Portion \in Int
      <4>1. Piped - taken \in Int /\ Maximum - taken \in Int /\ SegmentBytes - SegmentSize \in Int
        BY <1>f, <3>2
      <4>2. /\ Portion <= Piped - taken
            /\ Portion \in {Piped - taken, Maximum - taken, SegmentBytes - SegmentSize}
        BY <4>1, MinOfThree, Zenon DEF Portion
      <4> QED BY <4>1, <4>2
    <3>4. taken' <= Piped' BY <1>f, <2>p, <3>1, <3>2, <3>3
    <3> QED BY <1>t, <1>s, <1>r, <2>1, <3>1, <3>4 DEF CaptureHasReason, PipeTyped
  <2>3. ASSUME NEW n \in 1..SegmentBytes, CaptureFlushes(n)
        PROVE  CaptureHasReason' /\ PipeTyped'
    <3>1. /\ n <= Len(buffer) /\ UNCHANGED <<cap, taken, marker>> BY <2>3 DEF CaptureFlushes
    <3>2. buffer # <<>> BY <3>1
    <3> QED BY <1>t, <1>s, <1>r, <2>1, <2>p, <3>1, <3>2 DEF CaptureHasReason, PipeTyped
  <2>4. CASE CaptureRotate \/ CaptureOpens
    <3>1. UNCHANGED <<cap, taken, marker, buffer>> BY <2>4 DEF CaptureRotate, CaptureOpens
    <3> QED BY <1>t, <1>s, <1>r, <2>1, <2>p, <3>1 DEF CaptureHasReason, PipeTyped
  <2>5. CASE CaptureStops
    <3>1. cap' = "marking" /\ UNCHANGED <<taken, marker, buffer>> BY <2>5 DEF CaptureStops
    <3> QED BY <1>t, <1>s, <1>r, <2>1, <2>p, <3>1 DEF CaptureHasReason, PipeTyped
  <2>6. CASE RecordStorageStop
    <3>1. cap' = "ending" /\ marker' = TRUE /\ UNCHANGED <<taken, buffer>>
      BY <2>6 DEF RecordStorageStop
    <3> QED BY <1>t, <1>s, <1>r, <2>1, <2>p, <3>1 DEF CaptureHasReason, PipeTyped
  <2>7. CASE CaptureEnds
    <3>1. /\ (cap = "run" /\ pipeEnd # Open) \/ cap = "ending"
          /\ UNCHANGED <<taken, marker, buffer>>
          /\ IF buffer = <<>> THEN cap' = "stopped" ELSE cap' = "ending"
      BY <2>7 DEF CaptureEnds
    <3> QED BY <1>t, <1>s, <1>r, <2>1, <2>p, <3>1 DEF CaptureHasReason, PipeTyped
  <2>8. CASE CaptureFails
    <3>1. /\ cap' = "failed" /\ buffer' = <<>> /\ taken' = taken - Len(buffer)
          /\ marker' = marker \/ marker' = TRUE
      BY <2>8 DEF CaptureFails
    <3>2. Len(buffer) \in Nat BY <1>f
    <3>3. marker' \in BOOLEAN BY <1>t, <3>1
    <3>4. Piped \in Int BY <1>t, <1>l, Constants DEF Piped
    <3>5. taken' <= Piped' BY <1>f, <1>r, <2>p, <3>1, <3>2, <3>4
    <3> QED BY <1>t, <1>s, <1>r, <2>1, <3>1, <3>3, <3>5 DEF CaptureHasReason, PipeTyped
  <2> QED BY <1>2, <2>2, <2>3, <2>4, <2>5, <2>6, <2>7, <2>8 DEF CaptureSteps, Capture
<1> QED BY <1>1, <1>2

-----------------------------------------------------------------------------
(***************************************************************************)
(* Inventories.                                                            *)
(***************************************************************************)

\* What TypeOK says of the Session Host's reader.
ReaderTyped ==
    /\ rd \in [pc : ReaderPlaces, off : Nat, state : States, alive : BOOLEAN,
               dropped : BOOLEAN, closed : BOOLEAN]
    /\ insp \in [n : Nat, sizes : Seq(Nat), starts : Seq(Nat), size : Nat]

\* The inventory changes when the reader lists the files, inspects one, or is done.
LEMMA InspectionSteps ==
    ASSUME TypeOK, [Next]_vars
    PROVE  \/ insp' = insp /\ (rd'.pc = "lstat" => rd.pc = "lstat")
           \/ insp' = NoInspection /\ rd' = Idle
           \/ ReaderReaddir
           \/ ReaderLstat
<1> USE DEF captureVars, readerVars, vars
<1>t. rd \in [pc : ReaderPlaces, off : Nat, state : States, alive : BOOLEAN,
              dropped : BOOLEAN, closed : BOOLEAN]
  BY Zenon DEF TypeOK
<1>i. Idle.pc = "idle" BY DEF Idle
<1>1. CASE CaptureSteps BY <1>1, CaptureEffect
<1>2. CASE CloserSteps BY <1>2, CloserEffect
<1>7. CASE OtherSteps BY <1>7, OtherEffect
<1>3. CASE Archive BY <1>3 DEF Archive, ArchiveStart, ArchiveCopy, ArchiveAccept, ArchiveKeeps
<1>4. CASE UNCHANGED vars \/ (\E w \in Widths : Prints(w)) \/ ShellExits
  BY <1>4 DEF Prints, ShellExits
<1>5. CASE HostDies BY <1>5 DEF HostDies
<1>6. CASE ReaderSteps
  <2>1. CASE (\E offset \in FirstOffsets : StartRead(offset)) \/ StartRead(cursor)
    <3>1. PICK offset : StartRead(offset) BY <2>1
    <3>2. rd' = [pc |-> "observe", off |-> offset, state |-> row.state, alive |-> FALSE,
                 dropped |-> Dropped /\ Recorded, closed |-> FALSE]
      BY <3>1 DEF StartRead, Idle
    <3>3. rd'.pc = "observe" BY <3>2
    <3>4. insp' = insp BY <3>1 DEF StartRead
    <3> QED BY <3>3, <3>4
  <2>2. CASE ObserveCaptureStop
    BY <2>2, <1>t DEF ObserveCaptureStop, ReaderDegrades, Reader
  <2>3. CASE IsAlive \/ ReserveSuffices BY <2>3, <1>t DEF IsAlive, ReserveSuffices, Reader
  <2>4. CASE ReserveShort
    BY <2>4, <1>t, <1>i DEF ReserveShort, StopPipe, ReaderDegrades
  <2>5. CASE EnforceCaptureCeiling
    BY <2>5, <1>t, <1>i DEF EnforceCaptureCeiling, StopPipe, ReaderDegrades, Reader
  <2>6. CASE UpdateTranscript BY <2>6, <1>t DEF UpdateTranscript, ReaderSaves
  <2>7. CASE RespondOutput \/ ReaderFails BY <2>7 DEF RespondOutput, ReaderFails
  <2> QED BY <1>6, <2>1, <2>2, <2>3, <2>4, <2>5, <2>6, <2>7 DEF ReaderSteps, ReadOutput
<1> QED BY <1>1, <1>2, <1>3, <1>4, <1>5, <1>6, <1>7, StepsByActor

\* A file ends where the next one starts, and none ends behind what was accepted and
\* has left the buffer.
LEMMA FilesWithinTaken ==
    ASSUME TypeOK, FilesInOrder
    PROVE  \A i \in 1..Len(disk) : Before(i) + Len(disk[i]) + Len(buffer) <= taken
<1>t. /\ index \in {Len(disk), Len(disk) + 1} /\ Len(disk) \in Nat /\ taken \in 0..Maximum
      /\ \A i \in 1..Len(disk) : Len(disk[i]) \in Nat
      /\ SegmentBytes \in Nat /\ Len(buffer) \in Nat
  BY FileTypes, Zenon
<1>d. \A i \in 1..Len(disk) : Len(disk[i]) <= SegmentBytes BY FileTypes, Zenon
<1>f. taken = Before(index) + SegmentSize /\ Len(disk) > 0 BY Zenon DEF FilesInOrder
<1> TAKE i \in 1..Len(disk)
<1>1. i \in Nat \ {0} /\ index \in Nat \ {0} BY <1>t, <1>f
<1>2. Before(i) \in Nat /\ Before(index) \in Nat BY <1>1, BeforeFacts
<1>3. SegmentSize \in Nat /\ SegmentSize >= Len(buffer) BY <1>t, <1>f DEF SegmentSize
<1>4. CASE i < index
  <2>1. Before(i) + SegmentBytes <= Before(index) BY <1>1, <1>4, BeforeFacts
  <2>2. Len(disk[i]) <= SegmentBytes /\ Len(disk[i]) \in Nat BY <1>d, <1>t
  <2> QED BY <1>2, <1>3, <1>f, <1>t, <2>1, <2>2
<1>5. CASE ~(i < index)
  <2>1. i = index /\ index = Len(disk) BY <1>5, <1>t
  <2>2. SegmentSize = Len(buffer) + Len(disk[i]) BY <2>1, <1>t DEF SegmentSize
  <2>3. Len(disk[i]) \in Nat BY <1>t
  <2> QED BY <1>2, <1>f, <1>t, <2>1, <2>2, <2>3
<1> QED BY <1>4, <1>5

\* An inventory ends within the files, and so within what was printed.
LEMMA InventoryWithinStream ==
    ASSUME TypeOK, FilesInOrder, CaptureHasReason, InventoryInOrder
    PROVE  /\ insp.size \in Nat /\ insp.size <= taken /\ insp.size <= Len(stream)
           /\ insp.size = taken => buffer = <<>>
<1>t. insp \in [n : Nat, sizes : Seq(Nat), starts : Seq(Nat), size : Nat] BY Zenon DEF TypeOK
<1>1. insp.size \in Nat /\ insp.sizes \in Seq(Nat) /\ insp.n \in Nat BY <1>t
<1>2. Len(insp.sizes) \in Nat BY <1>1
<1>3. /\ Len(insp.sizes) <= insp.n /\ insp.n <= Len(disk)
      /\ \A i \in 1..Len(insp.sizes) : insp.sizes[i] <= Len(disk[i])
      /\ insp.size = IF insp.sizes = <<>> THEN 0
                     ELSE Before(Len(insp.sizes)) + insp.sizes[Len(insp.sizes)]
  BY Zenon DEF InventoryInOrder
<1>4. taken \in Nat /\ Len(disk) \in Nat /\ \A i \in 1..Len(disk) : Len(disk[i]) \in Nat
  <2>1. /\ taken \in 0..Maximum /\ Len(disk) \in Nat
        /\ \A i \in 1..Len(disk) : Len(disk[i]) \in Nat
    BY FileTypes, Zenon
  <2> QED BY <2>1
<1>b. Len(buffer) \in Nat BY FileTypes, Zenon
<1>5. insp.size + Len(buffer) <= taken
  <2>1. CASE insp.sizes = <<>>
    <3>1. Len(buffer) <= taken
      <4>0. Len(disk) > 0 BY Zenon DEF FilesInOrder
      <4>1. 1 \in 1..Len(disk) BY <1>4, <4>0
      <4>2. Before(1) + Len(disk[1]) + Len(buffer) <= taken BY <4>1, FilesWithinTaken
      <4>3. Before(1) \in Nat /\ Len(disk[1]) \in Nat BY <1>4, <4>1, BeforeFacts
      <4> QED BY <1>b, <1>4, <4>2, <4>3
    <3>2. insp.size = 0 BY <1>3, <2>1
    <3> QED BY <1>b, <1>4, <3>1, <3>2
  <2>2. CASE insp.sizes # <<>>
    <3> DEFINE m == Len(insp.sizes)
    <3>1. m \in 1..m /\ m \in 1..Len(disk) /\ m \in Nat \ {0}
      BY <1>1, <1>2, <1>3, <1>4, <2>2
    <3>2. insp.sizes[m] <= Len(disk[m]) /\ insp.sizes[m] \in Nat BY <1>1, <1>3, <3>1
    <3>3. Before(m) + Len(disk[m]) + Len(buffer) <= taken BY <3>1, FilesWithinTaken
    <3>4. Before(m) \in Nat BY <3>1, BeforeFacts
    <3>5. insp.size = Before(m) + insp.sizes[m] BY <1>3, <2>2
    <3>6. Len(disk[m]) \in Nat BY <1>4, <3>1
    <3> HIDE DEF m
    <3> QED BY <1>b, <1>4, <3>2, <3>3, <3>4, <3>5, <3>6
  <2> QED BY <2>1, <2>2
<1>6. taken <= Len(stream)
  <2>1. taken <= (IF pipeEnd = Open THEN Len(stream) ELSE pipeEnd)
        /\ (pipeEnd # Open => pipeEnd <= Len(stream))
    BY Zenon DEF CaptureHasReason, Piped
  <2>2. pipeEnd \in 0..Open BY Zenon DEF TypeOK
  <2> QED BY <1>4, <2>1, <2>2, StreamLength, Constants
<1>7. insp.size = taken => buffer = <<>>
  <2>1. buffer \in Seq(Nat) BY FileTypes, Zenon
  <2>2. Len(buffer) = 0 => buffer = <<>> BY <2>1
  <2> QED BY <1>b, <1>1, <1>4, <1>5, <2>2
<1>8. insp.size <= taken BY <1>b, <1>1, <1>4, <1>5
<1> QED BY <1>1, <1>4, <1>6, <1>7, <1>8, StreamLength

\* One more file is inspected.
LEMMA LstatKeepsInventory ==
    ASSUME TypeOK, FilesInOrder, InventoryInOrder, ReaderLstat
    PROVE  /\ InventoryInOrder'
           /\ insp' \in [n : Nat, sizes : Seq(Nat), starts : Seq(Nat), size : Nat]
<1> DEFINE m == Len(insp.sizes)
           length == Len(disk[m + 1])
<1>t. insp \in [n : Nat, sizes : Seq(Nat), starts : Seq(Nat), size : Nat] BY Zenon DEF TypeOK
<1>1. /\ insp.size \in Nat /\ insp.sizes \in Seq(Nat) /\ insp.starts \in Seq(Nat)
      /\ insp.n \in Nat /\ m \in Nat
  BY <1>t
<1>2. /\ m <= insp.n /\ Len(insp.starts) = m /\ insp.n <= Len(disk)
      /\ \A i \in 1..m : /\ insp.starts[i] = Before(i) /\ insp.sizes[i] <= Len(disk[i])
                         /\ i < insp.n => insp.sizes[i] = SegmentBytes
      /\ insp.size = IF insp.sizes = <<>> THEN 0 ELSE Before(m) + insp.sizes[m]
      /\ \A p \in 0..insp.size - 1 : \E i \in 1..m :
            insp.starts[i] <= p /\ p < insp.starts[i] + insp.sizes[i]
  BY Zenon DEF InventoryInOrder
<1>3. /\ m < insp.n /\ rd.pc = "lstat" /\ rd' = [rd EXCEPT !.pc = "lstat"]
      /\ insp' = [insp EXCEPT !.sizes = Append(@, length), !.starts = Append(@, insp.size),
                              !.size = @ + length]
      /\ UNCHANGED <<disk, index>>
  BY DEF ReaderLstat, Lstat, Reader, ReadKeeps
<1>4. /\ Len(disk) \in Nat /\ \A i \in 1..Len(disk) : Len(disk[i]) \in Nat
      /\ SegmentBytes \in Nat
  BY FileTypes, Zenon
<1>5. m + 1 \in 1..Len(disk) /\ length \in Nat /\ m + 1 \in Nat \ {0}
  <2>1. m \in Nat /\ insp.n \in Nat /\ m < insp.n /\ insp.n <= Len(disk) BY <1>1, <1>2, <1>3
  <2> HIDE DEF m
  <2>2. m + 1 \in 1..Len(disk) /\ m + 1 \in Nat \ {0} BY <1>4, <2>1
  <2>3. length \in Nat BY <1>4, <2>2, Zenon
  <2> QED BY <2>2, <2>3
<1>6. m + 1 < insp.n => length = SegmentBytes
  <2>1. \A i \in 1..Len(disk) : i < Len(disk) => Len(disk[i]) = SegmentBytes
    BY Zenon DEF FilesInOrder
  <2> QED BY <1>1, <1>2, <1>4, <1>5, <2>1
<1>7. insp.size = Before(m + 1)
  <2>1. CASE insp.sizes = <<>>
    <3>1. m = 0 BY <2>1
    <3> QED BY <1>2, <2>1, <3>1, BeforeFacts
  <2>2. CASE insp.sizes # <<>>
    <3>1. m \in Nat \ {0} /\ m \in 1..m BY <1>1, <2>2
    <3>2. insp.sizes[m] = SegmentBytes BY <1>2, <1>3, <3>1
    <3>3. Before(m + 1) = Before(m) + SegmentBytes BY <3>1, BeforeFacts
    <3> QED BY <1>2, <2>2, <3>2, <3>3
  <2> QED BY <2>1, <2>2
<1> DEFINE sizes == Append(insp.sizes, length)
           starts == Append(insp.starts, insp.size)
<1>8. /\ sizes \in Seq(Nat) /\ Len(sizes) = m + 1 /\ sizes[m + 1] = length
      /\ \A i \in 1..m : sizes[i] = insp.sizes[i]
  BY <1>1, <1>5
<1>9. /\ starts \in Seq(Nat) /\ Len(starts) = m + 1 /\ starts[m + 1] = insp.size
      /\ \A i \in 1..m : starts[i] = insp.starts[i]
  BY <1>1, <1>2
<1>10. insp' = [n |-> insp.n, sizes |-> sizes, starts |-> starts, size |-> insp.size + length]
  BY <1>t, <1>3
<1> HIDE DEF sizes, starts, length, m
<1>11. /\ insp'.n = insp.n /\ insp'.sizes = sizes /\ insp'.starts = starts
       /\ insp'.size = insp.size + length
  BY <1>10
<1>12. insp' \in [n : Nat, sizes : Seq(Nat), starts : Seq(Nat), size : Nat]
  BY <1>1, <1>5, <1>8, <1>9, <1>10
<1>13. \A i \in 1..(m + 1) : i \in 1..m \/ i = m + 1 BY <1>1
<1>14. \A i \in 1..(m + 1) : /\ starts[i] = Before(i) /\ sizes[i] <= Len(disk[i])
                             /\ i < insp.n => sizes[i] = SegmentBytes
  <2> TAKE i \in 1..(m + 1)
  <2>1. CASE i \in 1..m BY <2>1, <1>2, <1>8, <1>9 DEF m
  <2>2. CASE i = m + 1
    <3>1. Len(disk[i]) = length BY <2>2 DEF length
    <3> QED BY <2>2, <3>1, <1>5, <1>6, <1>7, <1>8, <1>9
  <2> QED BY <1>13, <2>1, <2>2
<1>15. ASSUME NEW p \in 0..(insp.size + length) - 1
       PROVE  \E i \in 1..(m + 1) : starts[i] <= p /\ p < starts[i] + sizes[i]
  <2>1. CASE p < insp.size
    <3>1. p \in 0..insp.size - 1 BY <1>1, <2>1
    <3>2. PICK i \in 1..m : insp.starts[i] <= p /\ p < insp.starts[i] + insp.sizes[i]
      BY <1>2, <3>1 DEF m
    <3>3. i \in 1..(m + 1) /\ starts[i] = insp.starts[i] /\ sizes[i] = insp.sizes[i]
      BY <1>1, <1>8, <1>9
    <3> QED BY <3>2, <3>3
  <2>2. CASE ~(p < insp.size)
    <3>1. m + 1 \in 1..(m + 1) BY <1>1
    <3>2. insp.size <= p /\ p < insp.size + length BY <1>1, <1>5, <2>2
    <3>3. starts[m + 1] = insp.size /\ sizes[m + 1] = length BY <1>8, <1>9
    <3> QED BY <3>1, <3>2, <3>3
  <2> QED BY <2>1, <2>2
<1>16. InventoryInOrder'
  <2>1. Len(insp'.sizes) = m + 1 /\ Len(insp'.starts) = m + 1 /\ insp'.sizes # <<>>
    BY <1>1, <1>8, <1>9, <1>11
  <2>2. /\ Len(insp'.sizes) <= insp'.n /\ Len(insp'.starts) = Len(insp'.sizes)
        /\ insp'.n <= Len(disk')
    BY <1>1, <1>2, <1>3, <1>11, <2>1 DEF m
  <2>3. \A i \in 1..Len(insp'.sizes) :
           /\ insp'.starts[i] = Before(i) /\ insp'.sizes[i] <= Len(disk'[i])
           /\ i < insp'.n => insp'.sizes[i] = SegmentBytes
    BY <1>3, <1>11, <1>14, <2>1
  <2>4. insp'.size = IF insp'.sizes = <<>> THEN 0
                     ELSE Before(Len(insp'.sizes)) + insp'.sizes[Len(insp'.sizes)]
    BY <1>7, <1>8, <1>11, <2>1
  <2>5. \A p \in 0..insp'.size - 1 : \E i \in 1..Len(insp'.sizes) :
           insp'.starts[i] <= p /\ p < insp'.starts[i] + insp'.sizes[i]
    BY <1>11, <1>15, <2>1
  <2>6. insp'.n > 0 BY <1>1, <1>3, <1>11 DEF m
  <2> QED BY <2>2, <2>3, <2>4, <2>5, <2>6, Zenon DEF InventoryInOrder
<1> QED BY <1>12, <1>16

\* An inventory of nothing.
LEMMA EmptyInventory ==
    ASSUME NEW n \in Nat, n <= Len(disk'), insp' = [NoInspection EXCEPT !.n = n],
           rd'.pc = "lstat" => n > 0
    PROVE  /\ InventoryInOrder'
           /\ insp' \in [n : Nat, sizes : Seq(Nat), starts : Seq(Nat), size : Nat]
<1>1. insp' = [n |-> n, sizes |-> <<>>, starts |-> <<>>, size |-> 0] BY DEF NoInspection
<1>2. <<>> \in Seq(Nat) /\ Len(<<>>) = 0 OBVIOUS
<1>3. insp'.n = n /\ insp'.sizes = <<>> /\ insp'.starts = <<>> /\ insp'.size = 0 BY <1>1
<1>4. insp' \in [n : Nat, sizes : Seq(Nat), starts : Seq(Nat), size : Nat]
  <2>1. \A s \in Seq(Nat) : [n |-> n, sizes |-> s, starts |-> s, size |-> 0]
                                \in [n : Nat, sizes : Seq(Nat), starts : Seq(Nat), size : Nat]
    OBVIOUS
  <2> QED BY <1>1, <1>2, <2>1, Zenon
<1>5. /\ Len(insp'.sizes) <= insp'.n /\ Len(insp'.starts) = Len(insp'.sizes)
      /\ insp'.n <= Len(disk')
  BY <1>2, <1>3
<1>6. \A i \in 1..0 : FALSE OBVIOUS
<1>7. \A p \in 0..0 - 1 : FALSE OBVIOUS
<1> QED BY <1>2, <1>3, <1>4, <1>5, <1>6, <1>7 DEF InventoryInOrder

\* While the files grow and are rotated, the inventory goes on describing them.
LEMMA InventoryStep ==
    ASSUME TypeOK, FilesInOrder, InventoryInOrder, [Next]_vars
    PROVE  /\ InventoryInOrder'
           /\ insp' \in [n : Nat, sizes : Seq(Nat), starts : Seq(Nat), size : Nat]
<1>t. insp \in [n : Nat, sizes : Seq(Nat), starts : Seq(Nat), size : Nat] BY Zenon DEF TypeOK
<1>d. Len(disk) \in Nat /\ Len(disk) > 0 /\ \A i \in 1..Len(disk) : Len(disk[i]) \in Nat
  <2>1. Len(disk) > 0 BY Zenon DEF FilesInOrder
  <2> QED BY <2>1, FileTypes, Zenon
<1>g. /\ Len(disk) <= Len(disk')
      /\ \A i \in 1..Len(disk) : Len(disk[i]) <= Len(disk'[i])
  BY FilesStep, Zenon DEF FilesGrow
<1>n. Len(disk') \in Nat /\ \A i \in 1..Len(disk') : Len(disk'[i]) \in Nat
  <2>1. disk' \in Seq(Seq(Nat)) BY FilesStep, Zenon DEF FilesTyped
  <2> QED BY <2>1, FilesAreSequences
<1>1. CASE insp' = insp /\ (rd'.pc = "lstat" => rd.pc = "lstat")
  <2>1. /\ insp.sizes \in Seq(Nat) /\ insp.n \in Nat /\ Len(insp.sizes) \in Nat
    BY <1>t
  <2>2. /\ Len(insp.sizes) <= insp.n /\ Len(insp.starts) = Len(insp.sizes)
        /\ insp.n <= Len(disk)
        /\ \A i \in 1..Len(insp.sizes) :
              /\ insp.starts[i] = Before(i) /\ insp.sizes[i] <= Len(disk[i])
              /\ i < insp.n => insp.sizes[i] = SegmentBytes
        /\ rd.pc = "lstat" => insp.n > 0
    BY Zenon DEF InventoryInOrder
  <2>3. insp.n <= Len(disk') BY <1>d, <1>g, <1>n, <2>1, <2>2
  <2>4. \A i \in 1..Len(insp.sizes) : insp.sizes[i] <= Len(disk'[i])
    <3> TAKE i \in 1..Len(insp.sizes)
    <3>1. i \in 1..Len(disk) /\ insp.sizes[i] \in Nat BY <1>d, <2>1, <2>2
    <3>2. i \in 1..Len(disk') BY <1>d, <1>g, <1>n, <3>1
    <3>3. insp.sizes[i] <= Len(disk[i]) /\ Len(disk[i]) <= Len(disk'[i]) BY <1>g, <2>2, <3>1
    <3> QED BY <1>d, <1>n, <3>1, <3>2, <3>3
  <2>5. insp.size = (IF insp.sizes = <<>> THEN 0
                     ELSE Before(Len(insp.sizes)) + insp.sizes[Len(insp.sizes)])
        /\ \A p \in 0..insp.size - 1 : \E i \in 1..Len(insp.sizes) :
              insp.starts[i] <= p /\ p < insp.starts[i] + insp.sizes[i]
    BY Zenon DEF InventoryInOrder
  <2> QED BY <1>1, <1>t, <2>2, <2>3, <2>4, <2>5, Zenon DEF InventoryInOrder
<1>2. CASE insp' = NoInspection /\ rd' = Idle
  <2>1. insp' = [NoInspection EXCEPT !.n = 0] /\ rd'.pc # "lstat"
    BY <1>2 DEF NoInspection, Idle
  <2> QED BY <1>n, <2>1, EmptyInventory
<1>3. CASE ReaderReaddir
  <2>1. insp' = [NoInspection EXCEPT !.n = Len(disk)] /\ disk' = disk
    BY <1>3 DEF ReaderReaddir, Readdir, ReadKeeps
  <2>2. Len(disk) <= Len(disk') /\ (rd'.pc = "lstat" => Len(disk) > 0) BY <1>d, <1>g
  <2> QED BY <1>d, <2>1, <2>2, EmptyInventory
<1>4. CASE ReaderLstat BY <1>4, LstatKeepsInventory
<1> QED BY <1>1, <1>2, <1>3, <1>4, InspectionSteps

-----------------------------------------------------------------------------
(***************************************************************************)
(* The bytes of a read.                                                    *)
(***************************************************************************)

\* Bytes that were printed one after the other.
Consistent(bytes) ==
    \A k \in 1..Len(bytes) :
        /\ bytes[k][1] \in 1..4 /\ bytes[k][2] \in 1..4 /\ bytes[k][2] <= bytes[k][1]
        /\ k > 1 /\ bytes[k][2] > 1
              => bytes[k - 1][1] = bytes[k][1] /\ bytes[k - 1][2] = bytes[k][2] - 1
        /\ k < Len(bytes) /\ bytes[k][2] < bytes[k][1]
              => bytes[k + 1][1] = bytes[k][1] /\ bytes[k + 1][2] = bytes[k][2] + 1

\* The last lead byte of a text that begins with one: before it a character ends,
\* and if its character fits, the text ends with that.
LEMMA LastLead ==
    ASSUME NEW bytes, Len(bytes) \in Nat, Consistent(bytes), Lead(bytes[1]),
           NEW n \in 1..Len(bytes)
    PROVE  LET lead == Max({i \in 1..n : Lead(bytes[i]) \/ i = 1})
           IN  /\ lead \in 1..n
               /\ lead > 1 => Final(bytes[lead - 1])
               /\ lead - 1 + bytes[lead][1] <= n => Final(bytes[n])
               /\ bytes[lead][1] \in 1..4
<1> USE DEF Lead, Final
<1> DEFINE w == bytes[n][1]
           k == bytes[n][2]
           m == n - k + 1
           S == {i \in 1..n : Lead(bytes[i]) \/ i = 1}
<1>c. \A j \in 1..n :
         /\ bytes[j][1] \in 1..4 /\ bytes[j][2] \in 1..4 /\ bytes[j][2] <= bytes[j][1]
         /\ j > 1 /\ bytes[j][2] > 1
               => bytes[j - 1][1] = bytes[j][1] /\ bytes[j - 1][2] = bytes[j][2] - 1
         /\ j < n /\ bytes[j][2] < bytes[j][1]
               => bytes[j + 1][1] = bytes[j][1] /\ bytes[j + 1][2] = bytes[j][2] + 1
  <2>1. \A j \in 1..n : j \in 1..Len(bytes) /\ (j < n => j < Len(bytes)) OBVIOUS
  <2> QED BY <2>1 DEF Consistent
<1>1. w \in 1..4 /\ k \in 1..4 /\ k <= w /\ n \in Nat /\ n >= 1 /\ n \in 1..n BY <1>c
<1>2. k > 1 => n - 1 \in 1..n /\ bytes[n - 1][1] = w /\ bytes[n - 1][2] = k - 1
  BY <1>c, <1>1
<1>3. k > 2 => n - 2 \in 1..n /\ bytes[n - 2][1] = w /\ bytes[n - 2][2] = k - 2
  <2> SUFFICES ASSUME k > 2
               PROVE  n - 2 \in 1..n /\ bytes[n - 2][1] = w /\ bytes[n - 2][2] = k - 2
    OBVIOUS
  <2>1. n - 1 \in 1..n /\ bytes[n - 1][1] = w /\ bytes[n - 1][2] = k - 1 /\ k - 1 > 1
    BY <1>1, <1>2
  <2>2. n - 1 > 1 BY <1>1, <2>1
  <2>3. (n - 1) - 1 = n - 2 /\ n - 2 \in 1..n BY <1>1, <2>2
  <2>4. bytes[(n - 1) - 1][1] = w /\ bytes[(n - 1) - 1][2] = (k - 1) - 1
    BY <1>c, <2>1, <2>2
  <2> QED BY <1>1, <2>3, <2>4
<1>4. k > 3 => n - 3 \in 1..n /\ bytes[n - 3][1] = w /\ bytes[n - 3][2] = k - 3
  <2> SUFFICES ASSUME k > 3
               PROVE  n - 3 \in 1..n /\ bytes[n - 3][1] = w /\ bytes[n - 3][2] = k - 3
    OBVIOUS
  <2>1. n - 2 \in 1..n /\ bytes[n - 2][1] = w /\ bytes[n - 2][2] = k - 2 /\ k - 2 > 1
    BY <1>1, <1>3
  <2>2. n - 2 > 1 BY <1>1, <2>1
  <2>3. (n - 2) - 1 = n - 3 /\ n - 3 \in 1..n BY <1>1, <2>2
  <2>4. bytes[(n - 2) - 1][1] = w /\ bytes[(n - 2) - 1][2] = (k - 2) - 1
    BY <1>c, <2>1, <2>2
  <2> QED BY <1>1, <2>3, <2>4
<1>5. m \in 1..n /\ bytes[m][1] = w /\ bytes[m][2] = 1
  <2>1. CASE k = 1 BY <1>1, <2>1
  <2>2. CASE k = 2 BY <1>1, <1>2, <2>2
  <2>3. CASE k = 3 BY <1>1, <1>3, <2>3
  <2>4. CASE k = 4 BY <1>1, <1>4, <2>4
  <2> QED BY <1>1, <2>1, <2>2, <2>3, <2>4
<1>6. \A i \in 1..n : i > m => bytes[i][2] # 1 /\ i # 1
  <2> TAKE i \in 1..n
  <2>1. CASE k = 1 BY <1>1, <2>1
  <2>2. CASE k = 2 BY <1>1, <1>2, <2>2
  <2>3. CASE k = 3
    <3>1. i > m => i \in {n, n - 1} BY <1>1, <2>3
    <3> QED BY <1>1, <1>2, <1>5, <2>3, <3>1
  <2>4. CASE k = 4
    <3>1. i > m => i \in {n, n - 1, n - 2} BY <1>1, <2>4
    <3> QED BY <1>1, <1>2, <1>3, <1>5, <2>4, <3>1
  <2> QED BY <1>1, <2>1, <2>2, <2>3, <2>4
<1>7. m \in S /\ S \subseteq Int /\ \A y \in S : y <= m BY <1>1, <1>5, <1>6
<1>8. Max(S) = m
  <2> HIDE DEF S, m
  <2> QED BY <1>7, MaxIsGreatest
<1>9. m > 1 => Final(bytes[m - 1])
  <2> SUFFICES ASSUME m > 1 PROVE bytes[m - 1][2] = bytes[m - 1][1] OBVIOUS
  <2>1. m - 1 \in 1..n /\ m - 1 < n /\ (m - 1) + 1 = m BY <1>1, <1>5
  <2>2. bytes[m - 1][2] < bytes[m - 1][1] => bytes[(m - 1) + 1][2] = bytes[m - 1][2] + 1
    BY <1>c, <2>1
  <2>3. bytes[m - 1][1] \in 1..4 /\ bytes[m - 1][2] \in 1..4
        /\ bytes[m - 1][2] <= bytes[m - 1][1]
    BY <1>c, <2>1
  <2> HIDE DEF m
  <2> QED BY <1>5, <2>1, <2>2, <2>3
<1>10. m - 1 + bytes[m][1] <= n => Final(bytes[n])
  <2>1. \A a \in Nat : \A b, c \in 1..4 : (a - b + 1) - 1 + c <= a => c <= b OBVIOUS
  <2>2. m - 1 + w <= n => w <= k BY <1>1, <2>1
  <2>3. bytes[m][1] = w BY <1>5
  <2> HIDE DEF m
  <2> QED BY <1>1, <2>2, <2>3
<1> QED BY <1>1, <1>5, <1>8, <1>9, <1>10

\* utf8SafePrefixLength cuts behind a whole character, and returns nothing only if
\* the first character is not all there.
LEMMA SafePrefix ==
    ASSUME NEW bytes, Len(bytes) \in Nat, Consistent(bytes),
           Len(bytes) > 0 => Lead(bytes[1]), NEW preferred \in 0..Len(bytes)
    PROVE  LET safe == utf8SafePrefixLength(bytes, preferred)
           IN  /\ safe \in 0..Len(bytes)
               /\ safe > 0 => Final(bytes[safe])
               /\ preferred > 0 /\ safe = 0 => bytes[1][1] > Len(bytes)
<1> DEFINE safe == utf8SafePrefixLength(bytes, preferred)
           lead == Max({i \in 1..preferred : Lead(bytes[i]) \/ i = 1})
           cut  == IF lead - 1 + bytes[lead][1] > preferred THEN lead - 1 ELSE preferred
<1>1. Min({preferred, Len(bytes)}) = preferred BY MinOfTwo
<1>2. CASE preferred = 0
  <2>1. safe = 0 BY <1>1, <1>2 DEF utf8SafePrefixLength
  <2> QED BY <1>2, <2>1
<1>3. CASE preferred # 0
  <2>1. safe = IF cut = 0 /\ bytes[1][1] <= Len(bytes) THEN bytes[1][1] ELSE cut
    BY <1>1, <1>3 DEF utf8SafePrefixLength
  <2>2. preferred \in 1..Len(bytes) /\ Len(bytes) > 0 BY <1>3
  <2>3. /\ lead \in 1..preferred /\ bytes[lead][1] \in 1..4
        /\ lead > 1 => Final(bytes[lead - 1])
        /\ lead - 1 + bytes[lead][1] <= preferred => Final(bytes[preferred])
    BY <2>2, LastLead
  <2> HIDE DEF lead, safe
  <2>4. cut \in 0..Len(bytes) /\ (cut > 0 => Final(bytes[cut])) BY <2>2, <2>3
  <2> HIDE DEF cut
  <2>5. bytes[1][1] \in 1..4 /\ bytes[1][2] = 1 BY <2>2 DEF Consistent, Lead
  <2>6. bytes[1][1] <= Len(bytes) => Final(bytes[bytes[1][1]])
    <3> DEFINE w == bytes[1][1]
    <3> SUFFICES ASSUME w <= Len(bytes) PROVE bytes[w][2] = bytes[w][1] BY DEF Final
    <3>1. \A j \in 1..Len(bytes) : j < Len(bytes) /\ bytes[j][2] < bytes[j][1]
             => bytes[j + 1][1] = bytes[j][1] /\ bytes[j + 1][2] = bytes[j][2] + 1
      BY DEF Consistent
    <3>2. w > 1 => bytes[2][1] = w /\ bytes[2][2] = 2
      <4>1. w > 1 => 1 \in 1..Len(bytes) /\ 1 < Len(bytes) BY <2>5
      <4> QED BY <2>5, <3>1, <4>1
    <3>3. w > 2 => bytes[3][1] = w /\ bytes[3][2] = 3
      <4>1. w > 2 => 2 \in 1..Len(bytes) /\ 2 < Len(bytes) BY <2>5
      <4> QED BY <2>5, <3>1, <3>2, <4>1
    <3>4. w > 3 => bytes[4][1] = w /\ bytes[4][2] = 4
      <4>1. w > 3 => 3 \in 1..Len(bytes) /\ 3 < Len(bytes) BY <2>5
      <4> QED BY <2>5, <3>1, <3>3, <4>1
    <3> QED BY <2>5, <3>2, <3>3, <3>4
  <2>7. /\ safe \in 0..Len(bytes) /\ (safe > 0 => Final(bytes[safe]))
        /\ safe = 0 => bytes[1][1] > Len(bytes)
    <3>1. CASE cut = 0 /\ bytes[1][1] <= Len(bytes)
      BY <2>1, <2>5, <2>6, <3>1
    <3>2. CASE cut = 0 /\ ~(bytes[1][1] <= Len(bytes))
      BY <2>1, <2>4, <2>5, <3>2
    <3>3. CASE cut # 0
      BY <2>1, <2>4, <3>3
    <3> QED BY <3>1, <3>2, <3>3
  <2> QED BY <2>7 DEF safe
<1> QED BY <1>2, <1>3

\* What is skipped of the first four bytes ends before a lead byte, or is all there is;
\* of four bytes one is a lead byte.
LEMMA SkippedBytes ==
    ASSUME NEW bytes, Len(bytes) \in 0..4, Consistent(bytes)
    PROVE  /\ Skipped(bytes) \in 0..Len(bytes) /\ Skipped(bytes) < 4
           /\ Skipped(bytes) < Len(bytes) => Lead(bytes[Skipped(bytes) + 1])
<1> USE DEF Lead
<1> DEFINE K == {k \in 0..Len(bytes) : \A i \in 1..k : ~Lead(bytes[i])}
           N(i) == i <= Len(bytes) /\ ~Lead(bytes[i])
           m == IF ~N(1) THEN 0 ELSE IF ~N(2) THEN 1 ELSE IF ~N(3) THEN 2
                ELSE IF ~N(4) THEN 3 ELSE 4
<1>1. m \in 0..4 /\ m \in 0..Len(bytes) /\ (m < Len(bytes) => Lead(bytes[m + 1]))
  OBVIOUS
<1>2. \A i \in 1..m : i \in {1, 2, 3, 4} /\ ~Lead(bytes[i])
  OBVIOUS
<1>3. ASSUME NEW y \in K, y > m PROVE FALSE
  <2>1. y \in 0..Len(bytes) /\ \A i \in 1..y : ~Lead(bytes[i]) OBVIOUS
  <2>2. m + 1 \in 1..y BY <1>1, <1>3, <2>1
  <2>3. m < Len(bytes) BY <1>1, <1>3, <2>1
  <2> HIDE DEF m, K
  <2> QED BY <1>1, <2>1, <2>2, <2>3
<1>4. m # 4
  <2> SUFFICES ASSUME N(1), N(2), N(3), N(4) PROVE FALSE OBVIOUS
  <2>1. Len(bytes) = 4 /\ \A i \in 1..4 : bytes[i][2] \in 1..4 /\ bytes[i][2] # 1
    BY DEF Consistent
  <2>2. \A i \in 2..4 : bytes[i - 1][2] = bytes[i][2] - 1
    <3> TAKE i \in 2..4
    <3>1. i \in 1..Len(bytes) /\ i > 1 /\ bytes[i][2] > 1 BY <2>1
    <3> QED BY <3>1 DEF Consistent
  <2>3. bytes[1][2] = bytes[2][2] - 1 /\ bytes[2][2] = bytes[3][2] - 1
        /\ bytes[3][2] = bytes[4][2] - 1
    <3>1. 2 \in 2..4 /\ 3 \in 2..4 /\ 4 \in 2..4 OBVIOUS
    <3>2. 2 - 1 = 1 /\ 3 - 1 = 2 /\ 4 - 1 = 3 OBVIOUS
    <3> QED BY <2>2, <3>1, <3>2
  <2>4. bytes[1][2] \in 2..4 /\ bytes[2][2] \in 2..4 /\ bytes[3][2] \in 2..4
        /\ bytes[4][2] \in 2..4
    BY <2>1
  <2> QED BY <2>3, <2>4
<1>5. m \in K /\ K \subseteq Int /\ \A y \in K : y <= m
  <2>1. m \in K BY <1>1, <1>2
  <2>2. K \subseteq Int OBVIOUS
  <2> HIDE DEF K, m
  <2> QED BY <1>1, <1>3, <2>1, <2>2
<1>6. Skipped(bytes) = m
  <2>1. Skipped(bytes) = Max(K) BY DEF Skipped
  <2> HIDE DEF K, m
  <2> QED BY <1>5, <2>1, MaxIsGreatest
<1> QED BY <1>1, <1>4, <1>6

\* Bytes of the output, from an offset on.
Slice(bytes, offset, length) ==
    /\ bytes = [k \in 1..length |-> stream[offset + k]]
    /\ offset \in Nat /\ length \in Nat /\ offset + length <= Len(stream)

\* Printed bytes are consistent.
LEMMA SliceIsConsistent ==
    ASSUME TypeOK, WholeCharacters, NEW bytes, NEW offset, NEW length,
           Slice(bytes, offset, length)
    PROVE  /\ Len(bytes) = length /\ Consistent(bytes)
           /\ \A k \in 1..length : bytes[k] = stream[offset + k]
<1>1. /\ bytes = [k \in 1..length |-> stream[offset + k]]
      /\ offset \in Nat /\ length \in Nat /\ offset + length <= Len(stream)
  BY DEF Slice
<1>2. Len(bytes) = length /\ \A k \in 1..length : bytes[k] = stream[offset + k] BY <1>1
<1>3. Len(stream) \in Nat BY StreamLength
<1>4. \A p \in 1..Len(stream) : stream[p][1] \in 1..4 /\ stream[p][2] \in 1..4
  <2>1. stream \in Seq(Widths \X (1..4)) BY Zenon DEF TypeOK
  <2>2. \A p \in 1..Len(stream) : stream[p] \in Widths \X (1..4) BY <2>1
  <2>3. \A e \in Widths \X (1..4) : e[1] \in 1..4 /\ e[2] \in 1..4 BY Constants
  <2> QED BY <2>2, <2>3
<1>5. Consistent(bytes)
  <2> SUFFICES ASSUME NEW k \in 1..length
               PROVE  /\ /\ bytes[k][1] \in 1..4 /\ bytes[k][2] \in 1..4
                         /\ bytes[k][2] <= bytes[k][1]
                      /\ k > 1 /\ bytes[k][2] > 1
                            => /\ bytes[k - 1][1] = bytes[k][1]
                               /\ bytes[k - 1][2] = bytes[k][2] - 1
                      /\ k < length /\ bytes[k][2] < bytes[k][1]
                            => /\ bytes[k + 1][1] = bytes[k][1]
                               /\ bytes[k + 1][2] = bytes[k][2] + 1
    BY <1>2 DEF Consistent
  <2> DEFINE p == offset + k
  <2>1. p \in 1..Len(stream) /\ bytes[k] = stream[p] BY <1>1, <1>2, <1>3
  <2>2. /\ stream[p][2] <= stream[p][1]
        /\ stream[p][2] > 1 => stream[p - 1] = <<stream[p][1], stream[p][2] - 1>>
        /\ stream[p][2] < stream[p][1] => stream[p + 1] = <<stream[p][1], stream[p][2] + 1>>
    BY <2>1 DEF WholeCharacters
  <2>3. k > 1 => bytes[k - 1] = stream[p - 1]
    <3>1. k > 1 => k - 1 \in 1..length /\ offset + (k - 1) = p - 1 BY <1>1
    <3> QED BY <1>2, <3>1
  <2>4. k < length => bytes[k + 1] = stream[p + 1]
    <3>1. k < length => k + 1 \in 1..length /\ offset + (k + 1) = p + 1 BY <1>1
    <3> QED BY <1>2, <3>1
  <2>5. stream[p][1] \in 1..4 /\ stream[p][2] \in 1..4 BY <1>4, <2>1
  <2> HIDE DEF p
  <2> QED BY <2>1, <2>2, <2>3, <2>4, <2>5
<1> QED BY <1>2, <1>5

\* readTranscriptBytes returns the positions of its range, from whichever files they
\* are in, though the files have grown since the inventory.
LEMMA ReadReturnsRange ==
    ASSUME TypeOK, FilesInOrder, CaptureHasReason, InventoryInOrder,
           NEW offset \in Nat, NEW length \in Nat, offset + length <= insp.size
    PROVE  /\ ReadTranscriptBytes(offset, length) = [k \in 1..length |-> offset + k]
           /\ Slice(Bytes(ReadTranscriptBytes(offset, length)), offset, length)
<1>s. insp.size \in Nat /\ insp.size <= Len(stream) BY InventoryWithinStream
<1>1. ASSUME NEW k \in 1..length
      PROVE  LET i == Entry(offset + k - 1)
             IN  disk[i][offset + k - insp.starts[i]] = offset + k
  <2> DEFINE p == offset + k - 1
             i == Entry(p)
  <2>1. p \in 0..insp.size - 1 BY <1>s
  <2>2. \E j \in 1..Len(insp.sizes) :
           insp.starts[j] <= p /\ p < insp.starts[j] + insp.sizes[j]
    BY <2>1, Zenon DEF InventoryInOrder
  <2>3. /\ i \in 1..Len(insp.sizes)
        /\ insp.starts[i] <= p /\ p < insp.starts[i] + insp.sizes[i]
    BY <2>2, Zenon DEF Entry
  <2> HIDE DEF i
  <2>4. insp.starts[i] = Before(i) /\ insp.sizes[i] <= Len(disk[i])
    BY <2>3, Zenon DEF InventoryInOrder
  <2>5. i \in 1..Len(disk)
    <3>1. /\ Len(insp.sizes) <= insp.n /\ insp.n <= Len(disk) BY Zenon DEF InventoryInOrder
    <3>2. insp \in [n : Nat, sizes : Seq(Nat), starts : Seq(Nat), size : Nat]
      BY Zenon DEF TypeOK
    <3>3. Len(insp.sizes) \in Nat /\ insp.n \in Nat BY <3>2
    <3>4. Len(disk) \in Nat BY FileTypes, Zenon
    <3> QED BY <2>3, <3>1, <3>3, <3>4
  <2>6. insp.sizes[i] \in Nat /\ Len(disk[i]) \in Nat
    <3>1. insp \in [n : Nat, sizes : Seq(Nat), starts : Seq(Nat), size : Nat]
      BY Zenon DEF TypeOK
    <3>2. insp.sizes[i] \in Nat BY <2>3, <3>1
    <3>3. Len(disk[i]) \in Nat BY <2>5, FileTypes, Zenon
    <3> QED BY <3>2, <3>3
  <2>7. Before(i) \in Nat
    <3>1. i \in Nat \ {0} BY <2>5
    <3> QED BY <3>1, BeforeFacts, Zenon
  <2>8. offset + k - Before(i) \in 1..Len(disk[i])
    <3>1. /\ Before(i) <= p /\ p < Before(i) + insp.sizes[i] /\ insp.sizes[i] <= Len(disk[i])
          /\ p \in Int /\ p + 1 = offset + k
      BY <2>1, <2>3, <2>4
    <3>2. \A a, b, l, m \in Int : a <= b /\ b < a + m /\ m <= l => b + 1 - a \in 1..l
      OBVIOUS
    <3> HIDE DEF p
    <3>3. p + 1 - Before(i) \in 1..Len(disk[i]) BY <2>6, <2>7, <3>1, <3>2
    <3> QED BY <2>7, <3>1, <3>3
  <2>9. disk[i][offset + k - Before(i)] = Before(i) + (offset + k - Before(i))
    BY <2>5, <2>8, Zenon DEF FilesInOrder
  <2>10. disk[i][offset + k - insp.starts[i]] = offset + k BY <2>4, <2>7, <2>9
  <2> QED BY <2>10 DEF i
<1>2. ReadTranscriptBytes(offset, length) = [k \in 1..length |-> offset + k]
  BY <1>1, Zenon DEF ReadTranscriptBytes
<1>3. Len([k \in 1..length |-> offset + k]) = length OBVIOUS
<1>4. Bytes(ReadTranscriptBytes(offset, length)) = [k \in 1..length |-> stream[offset + k]]
  BY <1>2, <1>3 DEF Bytes
<1>5. offset + length <= Len(stream) BY <1>s, StreamLength
<1> QED BY <1>2, <1>4, <1>5 DEF Slice

\* What a response reads: from start on, the safe bytes of an inventory that ends at end.
Response(start, safe, end, gap) ==
    /\ rd.pc = "bytes" /\ start \in Nat /\ safe \in Nat /\ end \in Nat /\ gap \in BOOLEAN
    /\ start + safe <= end /\ end <= Len(stream)
    /\ ~gap => start = rd.off
    /\ safe > 0 => Lead(stream[start + 1]) /\ Final(stream[start + safe])
    /\ rd' = Idle /\ insp' = NoInspection
    /\ base' = IF gap \/ got = <<>> THEN start ELSE base
    /\ got' = (IF gap THEN <<>> ELSE got) \o [i \in 1..safe |-> start + i]
    /\ cursor' = start + safe
    /\ last' = [alive |-> rd.alive, dropped |-> rd.dropped, state |-> rd.state, stuck |-> FALSE]

\* An answer without text has no character that ends in the inventory behind it: the
\* first one does not fit into what was read, and so not into the inventory.
LEMMA NothingWithheld ==
    ASSUME TypeOK, WholeCharacters, NEW start, NEW c, NEW end \in Nat, NEW bytes,
           Slice(bytes, start, c), c > 0, start + c = end, Lead(bytes[1]), bytes[1][1] > c
    PROVE  \A p \in start + 1..end : ~Final(stream[p])
<1>1. /\ Len(bytes) = c /\ Consistent(bytes)
      /\ \A k \in 1..c : bytes[k] = stream[start + k]
  BY SliceIsConsistent, Zenon
<1>2. start \in Nat /\ c \in Nat BY DEF Slice
<1>3. bytes[1][1] \in 1..4 /\ bytes[1][2] = 1
  <2>1. 1 \in 1..c BY <1>2
  <2> QED BY <1>1, <2>1 DEF Consistent, Lead
<1>4. c \in 1..3 BY <1>2, <1>3
<1>5. \A k \in 1..c : k > 1 => \/ bytes[k - 1][2] >= bytes[k - 1][1]
                               \/ bytes[k][1] = bytes[k - 1][1] /\ bytes[k][2] = bytes[k - 1][2] + 1
  <2> TAKE k \in 1..c
  <2> HAVE k > 1
  <2>1. k - 1 \in 1..c /\ k - 1 < c /\ (k - 1) + 1 = k BY <1>2
  <2>2. bytes[k - 1][1] \in 1..4 /\ bytes[k - 1][2] \in 1..4 BY <1>1, <2>1 DEF Consistent
  <2>3. bytes[k - 1][2] < bytes[k - 1][1]
           => /\ bytes[(k - 1) + 1][1] = bytes[k - 1][1]
              /\ bytes[(k - 1) + 1][2] = bytes[k - 1][2] + 1
    BY <1>1, <2>1 DEF Consistent
  <2> QED BY <2>1, <2>2, <2>3
<1> DEFINE w == bytes[1][1]
<1>6. c >= 2 => bytes[2][1] = w /\ bytes[2][2] = 2
  <2>1. c >= 2 => 2 \in 1..c /\ 2 - 1 = 1 BY <1>4
  <2> QED BY <1>3, <1>4, <1>5, <2>1
<1>7. c >= 3 => bytes[3][1] = w /\ bytes[3][2] = 3
  <2>1. c >= 3 => 3 \in 1..c /\ 3 - 1 = 2 BY <1>4
  <2> QED BY <1>3, <1>4, <1>5, <1>6, <2>1
<1>8. \A k \in 1..c : bytes[k][2] # bytes[k][1] BY <1>3, <1>4, <1>6, <1>7
<1> TAKE p \in start + 1..end
<1>9. p - start \in 1..c /\ start + (p - start) = p BY <1>2
<1>10. bytes[p - start] = stream[p] BY <1>1, <1>9
<1> QED BY <1>8, <1>9, <1>10 DEF Final

\* What a response does.
LEMMA RespondEffect ==
    ASSUME TypeOK, WholeCharacters, FilesInOrder, CaptureHasReason, InventoryInOrder,
           RespondOutput
    PROVE  \E start, safe, end, gap : Response(start, safe, end, gap)
<1> DEFINE end   == insp.size
           from  == Min({rd.off, end})
           f     == Min({4, end - from})
           first == Bytes(ReadTranscriptBytes(from, f))
           skip  == Skipped(first)
           start == from + skip
           c     == Min({end - start, MaxRead + 3})
           chunk == ReadTranscriptBytes(start, c)
           pref  == Min({MaxRead, Len(chunk)})
           safe  == utf8SafePrefixLength(Bytes(chunk), pref)
           gap   == rd.off > end \/ skip > 0
           stuck == safe = 0 /\ \E p \in start + 1..end : Final(stream[p])
<1>0. /\ rd.pc = "bytes" /\ rd' = Idle /\ insp' = NoInspection
      /\ base' = IF gap \/ got = <<>> THEN start ELSE base
      /\ got' = (IF gap THEN <<>> ELSE got) \o SubSeq(chunk, 1, safe)
      /\ cursor' = start + safe
      /\ last' = [alive |-> rd.alive, dropped |-> rd.dropped, state |-> rd.state,
                  stuck |-> stuck]
  BY Zenon DEF RespondOutput, Advance
<1>1. end \in Nat /\ end <= Len(stream) /\ rd.off \in Nat
  <2>1. rd \in [pc : ReaderPlaces, off : Nat, state : States, alive : BOOLEAN,
                dropped : BOOLEAN, closed : BOOLEAN]
    BY Zenon DEF TypeOK
  <2>2. rd.off \in Nat BY <2>1
  <2> QED BY <2>2, InventoryWithinStream, Zenon
<1>2. from \in Nat /\ from <= end /\ (rd.off <= end => from = rd.off)
  <2>1. from = IF rd.off <= end THEN rd.off ELSE end
    <3>1. rd.off \in Int /\ end \in Int BY <1>1
    <3> QED BY <3>1, MinOfTwo, Zenon
  <2> HIDE DEF from
  <2> QED BY <1>1, <2>1
<1> HIDE DEF from
<1>3. f \in 0..4 /\ from + f <= end /\ (f < 4 => from + f = end)
  <2>1. f = IF 4 <= end - from THEN 4 ELSE end - from
    <3>1. 4 \in Int /\ end - from \in Int BY <1>1, <1>2
    <3> QED BY <3>1, MinOfTwo, Zenon
  <2> HIDE DEF f
  <2> QED BY <1>1, <1>2, <2>1
<1> HIDE DEF f
<1>4. Slice(first, from, f)
  <2>1. f \in Nat BY <1>3
  <2> QED BY <1>2, <1>3, <2>1, ReadReturnsRange, Zenon
<1> HIDE DEF first
<1>5. /\ Len(first) = f /\ Consistent(first)
      /\ \A k \in 1..f : first[k] = stream[from + k]
  BY <1>4, SliceIsConsistent, Zenon
<1>6. /\ skip \in 0..f /\ skip < 4
      /\ skip < f => Lead(stream[from + skip + 1])
  <2>1. Len(first) \in 0..4 BY <1>3, <1>5
  <2>2. /\ skip \in 0..Len(first) /\ skip < 4
        /\ skip < Len(first) => Lead(first[skip + 1])
    BY <1>5, <2>1, SkippedBytes, Zenon
  <2> HIDE DEF skip
  <2>3. skip < f => skip + 1 \in 1..f /\ from + (skip + 1) = from + skip + 1
    BY <1>2, <1>3, <1>5, <2>2
  <2> QED BY <1>5, <2>2, <2>3 DEF Lead
<1> HIDE DEF skip
<1>7. /\ start \in Nat /\ start <= end /\ (start < end => Lead(stream[start + 1]))
  <2>1. start < end => skip < f BY <1>1, <1>2, <1>3, <1>6
  <2> QED BY <1>1, <1>2, <1>3, <1>6, <2>1
<1>8. ~gap => start = rd.off BY <1>1, <1>2, <1>6
<1> HIDE DEF start
<1>9. /\ c \in Nat /\ start + c <= end /\ (c = 0 => start = end)
      /\ c < 4 => start + c = end
  <2>1. MaxRead \in Nat \ {0} BY Constants
  <2>2. c = IF end - start <= MaxRead + 3 THEN end - start ELSE MaxRead + 3
    <3>1. end - start \in Int /\ MaxRead + 3 \in Int BY <1>1, <1>7, <2>1
    <3> QED BY <3>1, MinOfTwo, Zenon
  <2> HIDE DEF c, end
  <2>3. MaxRead + 3 >= 4 /\ MaxRead + 3 \in Nat BY <2>1
  <2>4. CASE c = end - start BY <1>1, <1>7, <2>4
  <2>5. CASE c = MaxRead + 3 /\ ~(end - start <= MaxRead + 3)
    <3>1. c \in Nat /\ c >= 4 BY <2>3, <2>5
    <3>2. start + c <= end BY <1>1, <1>7, <2>3, <2>5
    <3> QED BY <3>1, <3>2
  <2> QED BY <2>2, <2>4, <2>5
<1> HIDE DEF c
<1>10. chunk = [k \in 1..c |-> start + k] /\ Slice(Bytes(chunk), start, c)
  BY <1>7, <1>9, ReadReturnsRange, Zenon
<1> HIDE DEF chunk
<1>11. /\ Len(Bytes(chunk)) = c /\ Consistent(Bytes(chunk))
       /\ \A k \in 1..c : Bytes(chunk)[k] = stream[start + k]
  BY <1>10, SliceIsConsistent, Zenon
<1>12. Len(chunk) = c BY <1>9, <1>10
<1>13. pref \in 0..c /\ (c > 0 => pref > 0)
  <2>1. MaxRead \in Nat \ {0} BY Constants
  <2>2. pref = IF MaxRead <= c THEN MaxRead ELSE c
    <3>1. MaxRead \in Int /\ c \in Int BY <1>9, <2>1
    <3> QED BY <1>12, <3>1, MinOfTwo, Zenon
  <2> HIDE DEF pref
  <2> QED BY <1>9, <2>1, <2>2
<1> HIDE DEF pref
<1>14. c > 0 => Lead(Bytes(chunk)[1])
  <2>1. c > 0 => 1 \in 1..c /\ start < end BY <1>1, <1>7, <1>9
  <2> QED BY <1>7, <1>11, <2>1 DEF Lead
<1>15. /\ safe \in 0..c
       /\ safe > 0 => Final(Bytes(chunk)[safe])
       /\ pref > 0 /\ safe = 0 => Bytes(chunk)[1][1] > c
  <2>1. /\ Len(Bytes(chunk)) \in Nat /\ pref \in 0..Len(Bytes(chunk))
        /\ Len(Bytes(chunk)) > 0 => Lead(Bytes(chunk)[1])
    BY <1>9, <1>11, <1>13, <1>14
  <2>2. /\ safe \in 0..Len(Bytes(chunk))
        /\ safe > 0 => Final(Bytes(chunk)[safe])
        /\ pref > 0 /\ safe = 0 => Bytes(chunk)[1][1] > Len(Bytes(chunk))
    BY <1>11, <2>1, SafePrefix, Zenon
  <2> QED BY <1>11, <2>2
<1> HIDE DEF safe
<1>16. safe > 0 => Lead(stream[start + 1]) /\ Final(stream[start + safe])
  <2>1. safe > 0 => safe \in 1..c /\ start < end BY <1>1, <1>7, <1>9, <1>15
  <2> QED BY <1>7, <1>11, <1>15, <2>1 DEF Final
<1>17. stuck = FALSE
  <2> SUFFICES ASSUME safe = 0, NEW p \in start + 1..end, Final(stream[p]) PROVE FALSE
    OBVIOUS
  <2>1. c > 0 BY <1>1, <1>7, <1>9
  <2>2. pref > 0 BY <1>13, <2>1
  <2>3. Bytes(chunk)[1][1] > c BY <1>15, <2>2
  <2>4. Bytes(chunk)[1][1] \in 1..4
    <3>1. 1 \in 1..Len(Bytes(chunk)) BY <1>9, <1>11, <2>1
    <3> QED BY <1>11, <3>1 DEF Consistent
  <2>5. start + c = end BY <1>9, <2>3, <2>4
  <2>6. \A q \in start + 1..end : ~Final(stream[q])
    BY <1>1, <1>10, <1>14, <2>1, <2>3, <2>5, NothingWithheld, Zenon
  <2> QED BY <2>6
<1>18. SubSeq(chunk, 1, safe) = [i \in 1..safe |-> start + i]
  <2>1. safe \in Nat /\ safe <= c BY <1>9, <1>15
  <2>2. SubSeq(chunk, 1, safe) = [i \in 1..safe |-> chunk[i]]
    <3>1. chunk \in Seq(Nat) BY <1>7, <1>9, <1>10
    <3> QED BY <1>9, <1>12, <2>1, <3>1
  <2>3. \A i \in 1..safe : chunk[i] = start + i BY <1>9, <1>10, <2>1
  <2> QED BY <2>2, <2>3
<1>19. Response(start, safe, end, gap)
  <2>1. safe \in Nat /\ start + safe <= end BY <1>1, <1>7, <1>9, <1>15
  <2>2. gap \in BOOLEAN OBVIOUS
  <2>3. last' = [alive |-> rd.alive, dropped |-> rd.dropped, state |-> rd.state,
                 stuck |-> FALSE]
    BY <1>0, <1>17
  <2>4. got' = (IF gap THEN <<>> ELSE got) \o [i \in 1..safe |-> start + i]
    BY <1>0, <1>18
  <2> HIDE DEF gap, end, stuck
  <2> QED BY <1>0, <1>1, <1>7, <1>8, <1>16, <2>1, <2>2, <2>3, <2>4, Zenon DEF Response, end
<1> QED BY <1>19

-----------------------------------------------------------------------------
(***************************************************************************)
(* The follower.                                                           *)
(***************************************************************************)

\* What TypeOK says of the follower.
FollowerTyped ==
    /\ base \in Nat /\ got \in Seq(Nat) /\ cursor \in 0..MaxPrinted
    /\ last \in [alive : BOOLEAN, dropped : BOOLEAN, state : States, stuck : BOOLEAN]

\* The parts of TypeOK that are records.
LEMMA RecordTypes ==
    ASSUME TypeOK
    PROVE  /\ rd \in [pc : ReaderPlaces, off : Nat, state : States, alive : BOOLEAN,
                      dropped : BOOLEAN, closed : BOOLEAN]
           /\ row \in [closed : BOOLEAN, state : States]
           /\ closer \in [pc : {"none", "killed", "read"}, state : States]
           /\ last \in [alive : BOOLEAN, dropped : BOOLEAN, state : States, stuck : BOOLEAN]
           /\ arch \in [pc : {"none", "copy", "accepted"}, sizes : Seq(Nat),
                        copy : Seq(Seq(Nat)), state : States]
           /\ base \in Nat /\ got \in Seq(Nat) /\ cursor \in 0..MaxPrinted /\ alive \in BOOLEAN
BY Zenon DEF TypeOK

\* A read that begins.
StartsRead(offset) ==
    /\ StartRead(offset) /\ offset \in Nat
    /\ rd.pc = "idle"
    /\ offset = cursor \/ got = <<>>
    /\ rd' = [pc |-> "observe", off |-> offset, state |-> row.state, alive |-> FALSE,
              dropped |-> Dropped /\ Recorded, closed |-> FALSE]
    /\ last' = NoResponse
    /\ UNCHANGED <<base, got, cursor, row, insp, pipeEnd, forgotten>>

\* A read moves on within its places, or fails.
MovesOn ==
    \/ ObserveCaptureStop \/ IsAlive \/ ReserveSuffices \/ ReserveShort \/ ReaderReaddir
    \/ ReaderLstat \/ EnforceCaptureCeiling \/ UpdateTranscript \/ ReaderFails

\* The steps of the reader.
LEMMA ReadBegins ==
    ASSUME TypeOK, NEW offset \in Nat, StartRead(offset)
    PROVE  StartsRead(offset)
<1>1. rd' = [pc |-> "observe", off |-> offset, state |-> row.state, alive |-> FALSE,
             dropped |-> Dropped /\ Recorded, closed |-> FALSE]
  BY DEF StartRead, Idle
<1> QED BY <1>1 DEF StartRead, StartsRead

\* The reader begins a read, moves on, or responds.
LEMMA ReaderCases ==
    ASSUME TypeOK, ReaderSteps
    PROVE  (\E offset : StartsRead(offset)) \/ MovesOn \/ RespondOutput
<1>1. cursor \in Nat
  <2>1. cursor \in 0..MaxPrinted BY RecordTypes, Zenon
  <2> QED BY <2>1
<1>2. CASE StartRead(cursor) BY <1>1, <1>2, ReadBegins
<1>3. CASE \E offset \in FirstOffsets : StartRead(offset)
  <2>1. FirstOffsets \subseteq Nat BY Constants
  <2> QED BY <1>3, <2>1, ReadBegins
<1> QED BY <1>2, <1>3 DEF ReaderSteps, ReadOutput, MovesOn

\* The reader gets to another place.
Moved(to, state, live, closed) ==
    /\ rd' \in [pc : ReaderPlaces, off : Nat, state : States, alive : BOOLEAN,
                dropped : BOOLEAN, closed : BOOLEAN]
    /\ rd'.pc = to /\ rd'.off = rd.off /\ rd'.state = state /\ rd'.alive = live
    /\ rd'.dropped = rd.dropped /\ rd'.closed = closed

\* It goes there with what it has read, or with the closing time of the row as it is.
Goes(from, to) == rd.pc = from /\ Moved(to, rd.state, rd.alive, rd.closed)
Degrades(from, to) == rd.pc = from /\ Moved(to, rd.state, rd.alive, row.closed)

\* It writes the row back as it read it, degraded.
Saves(from, to) == /\ rd.pc = from /\ Moved(to, "DEGRADED", rd.alive, FALSE)
                   /\ row' = [closed |-> rd.closed, state |-> "DEGRADED"]

\* Every way in which a read moves on.
WaysOn ==
    \/ rd' = Idle /\ ReaderFails /\ UNCHANGED row
    \/ /\ Degrades("observe", "saveObserved") /\ rd.state # "DEGRADED" /\ marker
       /\ UNCHANGED <<row, insp, pipeEnd, forgotten>>
    \/ /\ Goes("observe", "alive") /\ (rd.state = "DEGRADED" \/ ~marker)
       /\ UNCHANGED <<row, insp, pipeEnd, forgotten>>
    \/ /\ rd.pc = "alive"
       /\ \/ Moved("reserve", rd.state, alive, rd.closed)
          \/ Moved("reserve", rd.state, FALSE, rd.closed)
       /\ UNCHANGED <<row, insp, pipeEnd, forgotten>>
    \/ Goes("reserve", "readdir") /\ UNCHANGED <<row, insp, pipeEnd, forgotten>>
    \/ Degrades("reserve", "saveReserve") /\ UNCHANGED <<row, insp>>
    \/ Goes("readdir", "lstat") /\ Readdir /\ UNCHANGED <<row, pipeEnd, forgotten>>
    \/ Goes("lstat", "lstat") /\ Lstat /\ UNCHANGED <<row, pipeEnd, forgotten>>
    \/ /\ Goes("lstat", "invalid") /\ Inspected /\ ~ValidInventory(insp.sizes)
       /\ UNCHANGED <<row, insp, pipeEnd, forgotten>>
    \/ Degrades("lstat", "saveCeiling") /\ CeilingReached /\ UNCHANGED <<row, insp>>
    \/ /\ Goes("lstat", "bytes") /\ Inspected
       /\ ~(rd.alive /\ rd.state = "ACTIVE" /\ CeilingReached)
       /\ UNCHANGED <<row, insp, pipeEnd, forgotten>>
    \/ /\ Saves("saveObserved", "alive") \/ Saves("saveReserve", "readdir")
          \/ Saves("saveCeiling", "bytes")
       /\ UNCHANGED <<insp, pipeEnd>>

\* The reader's record, changed in one place or two.
LEMMA ChangedReader ==
    ASSUME TypeOK, NEW to \in ReaderPlaces
    PROVE  /\ rd' = [rd EXCEPT !.pc = to] => Moved(to, rd.state, rd.alive, rd.closed)
           /\ \A x \in BOOLEAN : rd' = [rd EXCEPT !.pc = to, !.closed = x]
                                     => Moved(to, rd.state, rd.alive, x)
           /\ \A x \in BOOLEAN : rd' = [rd EXCEPT !.pc = to, !.alive = x]
                                     => Moved(to, rd.state, x, rd.closed)
           /\ \A x \in States : rd' = [rd EXCEPT !.pc = to, !.state = x, !.closed = FALSE]
                                     => Moved(to, x, rd.alive, FALSE)
<1>1. rd \in [pc : ReaderPlaces, off : Nat, state : States, alive : BOOLEAN,
              dropped : BOOLEAN, closed : BOOLEAN]
  BY RecordTypes, Zenon
<1>2. ASSUME rd' = [rd EXCEPT !.pc = to] PROVE Moved(to, rd.state, rd.alive, rd.closed)
  BY <1>1, <1>2 DEF Moved
<1>3. ASSUME NEW x \in BOOLEAN, rd' = [rd EXCEPT !.pc = to, !.closed = x]
      PROVE  Moved(to, rd.state, rd.alive, x)
  BY <1>1, <1>3 DEF Moved
<1>4. ASSUME NEW x \in BOOLEAN, rd' = [rd EXCEPT !.pc = to, !.alive = x]
      PROVE  Moved(to, rd.state, x, rd.closed)
  BY <1>1, <1>4 DEF Moved
<1>5. ASSUME NEW x \in States, rd' = [rd EXCEPT !.pc = to, !.state = x, !.closed = FALSE]
      PROVE  Moved(to, x, rd.alive, FALSE)
  BY <1>1, <1>5 DEF Moved
<1> QED BY <1>2, <1>3, <1>4, <1>5

\* There is no other way.
LEMMA MovesOnCases == ASSUME TypeOK, MovesOn PROVE WaysOn
<1>b. row.closed \in BOOLEAN /\ alive \in BOOLEAN /\ "DEGRADED" \in States
  BY RecordTypes DEF States
<1>c. {"saveObserved", "alive", "reserve", "saveReserve", "readdir", "lstat", "saveCeiling",
       "invalid", "bytes"} \subseteq ReaderPlaces
  BY DEF ReaderPlaces
<1>g. ASSUME NEW from, NEW to \in ReaderPlaces, Reader(from, to) PROVE Goes(from, to)
  BY <1>g, ChangedReader, Zenon DEF Reader, Goes
<1>d. ASSUME NEW from, NEW to \in ReaderPlaces, ReaderDegrades(from, to)
      PROVE  Degrades(from, to)
  BY <1>b, <1>d, ChangedReader, Zenon DEF ReaderDegrades, Degrades
<1>s. ASSUME NEW from, NEW to \in ReaderPlaces, ReaderSaves(from, to)
      PROVE  Saves(from, to) /\ UNCHANGED <<insp, pipeEnd>>
  <2>1. Saves(from, to) BY <1>b, <1>s, ChangedReader, Zenon DEF ReaderSaves, Saves
  <2> QED BY <1>s, <2>1 DEF ReaderSaves
<1>p. ASSUME NEW from, NEW to \in ReaderPlaces, StopPipe(from, to)
      PROVE  Degrades(from, to)
  BY <1>p, <1>d DEF StopPipe
<1>1. CASE ObserveCaptureStop BY <1>1, <1>c, <1>g, <1>d DEF ObserveCaptureStop, WaysOn
<1>2. CASE IsAlive
  <2>1. /\ rd.pc = "alive"
        /\ \/ Moved("reserve", rd.state, alive, rd.closed)
           \/ Moved("reserve", rd.state, FALSE, rd.closed)
    <3>1. "reserve" \in ReaderPlaces /\ FALSE \in BOOLEAN BY <1>c
    <3> QED BY <1>2, <1>b, <3>1, ChangedReader, Zenon DEF IsAlive
  <2> QED BY <1>2, <2>1 DEF IsAlive, WaysOn
<1>3. CASE ReserveSuffices BY <1>3, <1>c, <1>g DEF ReserveSuffices, WaysOn
<1>4. CASE ReserveShort BY <1>4, <1>c, <1>p DEF ReserveShort, WaysOn
<1>5. CASE ReaderReaddir BY <1>5, <1>c, <1>g DEF ReaderReaddir, WaysOn
<1>6. CASE ReaderLstat BY <1>6, <1>c, <1>g DEF ReaderLstat, WaysOn
<1>7. CASE EnforceCaptureCeiling BY <1>7, <1>c, <1>g, <1>p DEF EnforceCaptureCeiling, WaysOn
<1>8. CASE UpdateTranscript BY <1>8, <1>c, <1>s DEF UpdateTranscript, WaysOn
<1>9. CASE ReaderFails BY <1>9 DEF ReaderFails, WaysOn
<1> QED BY <1>1, <1>2, <1>3, <1>4, <1>5, <1>6, <1>7, <1>8, <1>9 DEF MovesOn

\* A read that moves on keeps its cursor, and the follower its text.
LEMMA MovesOnEffect ==
    ASSUME TypeOK, MovesOn
    PROVE  /\ UNCHANGED <<base, got, cursor, last>>
           /\ \/ rd' = Idle
              \/ /\ rd.pc # "idle" /\ rd'.off = rd.off /\ rd'.dropped = rd.dropped
<1>1. UNCHANGED <<base, got, cursor, last>>
  BY DEF MovesOn, ObserveCaptureStop, IsAlive, ReserveSuffices, ReserveShort, ReaderReaddir,
     ReaderLstat, EnforceCaptureCeiling, UpdateTranscript, ReaderSaves, ReaderFails, ReadKeeps
<1>2. \/ rd' = Idle
      \/ rd.pc # "idle" /\ \E to, state, live, closed : Moved(to, state, live, closed)
  BY MovesOnCases, Zenon DEF WaysOn, Goes, Degrades, Saves
<1> QED BY <1>1, <1>2, Zenon DEF Moved

\* Nobody else touches the follower; a restart of the Session Host ends its read.
LEMMA OthersKeepFollower ==
    ASSUME [Next]_vars, ~ReaderSteps
    PROVE  /\ UNCHANGED <<base, got, cursor, last>>
           /\ rd' = rd \/ rd' = Idle
           /\ rd' = rd \/ HostDies
<1> USE DEF captureVars, readerVars, vars
<1>1. CASE CaptureSteps BY <1>1, CaptureEffect
<1>2. CASE CloserSteps BY <1>2, CloserEffect
<1>3. CASE Archive BY <1>3 DEF Archive, ArchiveStart, ArchiveCopy, ArchiveAccept, ArchiveKeeps
<1>4. CASE UNCHANGED vars \/ (\E w \in Widths : Prints(w)) \/ ShellExits \/ HostDies
  BY <1>4 DEF Prints, ShellExits, HostDies
<1>5. CASE OtherSteps BY <1>5, OtherEffect
<1> QED BY <1>1, <1>2, <1>3, <1>4, <1>5, StepsByActor

\* What a response appends to an unbroken text.
LEMMA TextExtended ==
    ASSUME NEW text \in Seq(Nat), NEW b \in Nat, text = [i \in 1..Len(text) |-> b + i],
           NEW n \in Nat, NEW result,
           result = text \o [i \in 1..n |-> b + Len(text) + i]
    PROVE  /\ result = [i \in 1..Len(result) |-> b + i] /\ Len(result) = Len(text) + n
           /\ result \in Seq(Nat)
<1> DEFINE more == [i \in 1..n |-> b + Len(text) + i]
<1>1. Len(text) \in Nat OBVIOUS
<1>2. more \in Seq(Nat) /\ Len(more) = n /\ \A i \in 1..n : more[i] = b + Len(text) + i
  BY <1>1
<1> HIDE DEF more
<1>3. /\ Len(result) = Len(text) + n /\ result \in Seq(Nat)
      /\ \A i \in 1..Len(text) : result[i] = text[i]
      /\ \A i \in 1..n : result[Len(text) + i] = more[i]
  BY <1>1, <1>2 DEF more
<1>4. \A i \in 1..Len(result) : result[i] = b + i
  <2> TAKE i \in 1..Len(result)
  <2>1. CASE i \in 1..Len(text)
    <3>1. text[i] = b + i BY <2>1
    <3> QED BY <2>1, <1>3, <3>1
  <2>2. CASE ~(i \in 1..Len(text))
    <3>1. i - Len(text) \in 1..n /\ Len(text) + (i - Len(text)) = i BY <1>1, <1>3, <2>2
    <3> QED BY <1>1, <1>2, <1>3, <3>1
  <2> QED BY <2>1, <2>2
<1>5. result = [i \in 1..Len(result) |-> result[i]] BY <1>3
<1> QED BY <1>3, <1>4, <1>5

\* A response keeps the follower's text unbroken and whole.
LEMMA ResponseKeepsFollower ==
    ASSUME TypeOK, FollowerInOrder, UNCHANGED stream,
           NEW start, NEW safe, NEW end, NEW gap, Response(start, safe, end, gap)
    PROVE  FollowerInOrder' /\ FollowerTyped' /\ ~last'.stuck
<1>t. /\ base \in Nat /\ got \in Seq(Nat) /\ cursor \in 0..MaxPrinted
      /\ rd \in [pc : ReaderPlaces, off : Nat, state : States, alive : BOOLEAN,
                 dropped : BOOLEAN, closed : BOOLEAN]
  BY RecordTypes, Zenon
<1>f. /\ got = [i \in 1..Len(got) |-> base + i] /\ (got # <<>> => cursor = base + Len(got))
      /\ got # <<>> => Lead(stream[base + 1]) /\ Final(stream[cursor])
      /\ cursor <= Len(stream)
      /\ rd.pc # "idle" /\ got # <<>> => rd.off = cursor
  BY Zenon DEF FollowerInOrder, TextIsUnbroken, TextIsWhole
<1>r. /\ start \in Nat /\ safe \in Nat /\ end \in Nat /\ gap \in BOOLEAN
      /\ start + safe <= end /\ end <= Len(stream)
      /\ ~gap => start = rd.off
      /\ safe > 0 => Lead(stream[start + 1]) /\ Final(stream[start + safe])
      /\ rd' = Idle /\ insp' = NoInspection
      /\ base' = IF gap \/ got = <<>> THEN start ELSE base
      /\ got' = (IF gap THEN <<>> ELSE got) \o [i \in 1..safe |-> start + i]
      /\ cursor' = start + safe
      /\ last' = [alive |-> rd.alive, dropped |-> rd.dropped, state |-> rd.state,
                  stuck |-> FALSE]
  BY DEF Response
<1>s. Len(stream) \in Nat /\ Len(stream) <= MaxPrinted /\ MaxPrinted \in Nat BY StreamLength
<1>p. rd.pc = "bytes" BY DEF Response
<1>1. base' \in Nat /\ got' = [i \in 1..Len(got') |-> base' + i] /\ got' \in Seq(Nat)
      /\ (got' # <<>> => cursor' = base' + Len(got'))
      /\ (got' # <<>> => Lead(stream[base' + 1]) /\ Final(stream[cursor']))
  <2>1. CASE gap \/ got = <<>>
    <3>1. base' = start /\ got' = <<>> \o [i \in 1..safe |-> start + i] BY <1>r, <2>1
    <3>2. /\ <<>> \in Seq(Nat) /\ Len(<<>>) = 0
          /\ <<>> = [i \in 1..Len(<<>>) |-> start + i]
      OBVIOUS
    <3>3. got' = <<>> \o [i \in 1..safe |-> start + Len(<<>>) + i]
      <4>1. \A i \in 1..safe : start + Len(<<>>) + i = start + i BY <1>r, <3>2
      <4> QED BY <3>1, <4>1
    <3>4. got' = [i \in 1..Len(got') |-> start + i] /\ Len(got') = Len(<<>>) + safe
          /\ got' \in Seq(Nat)
      <4>1. start \in Nat /\ safe \in Nat BY <1>r
      <4> QED BY <3>2, <3>3, <4>1, TextExtended
    <3>5. Len(got') = safe /\ (got' # <<>> => safe > 0) BY <1>r, <3>2, <3>4
    <3> QED BY <1>r, <3>1, <3>4, <3>5
  <2>2. CASE ~(gap \/ got = <<>>)
    <3>1. base' = base /\ got' = got \o [i \in 1..safe |-> start + i] BY <1>r, <2>2
    <3>2. start = cursor /\ cursor = base + Len(got) BY <1>f, <1>p, <1>r, <2>2
    <3>3. got' = got \o [i \in 1..safe |-> base + Len(got) + i] BY <3>1, <3>2
    <3>4. got' = [i \in 1..Len(got') |-> base + i] /\ Len(got') = Len(got) + safe
          /\ got' \in Seq(Nat)
      <4>1. got \in Seq(Nat) /\ base \in Nat /\ safe \in Nat BY <1>t, <1>r
      <4>2. got = [i \in 1..Len(got) |-> base + i] BY <1>f
      <4> QED BY <3>3, <4>1, <4>2, TextExtended
    <3>5. cursor' = base + Len(got')
      <4>1. base \in Nat /\ Len(got) \in Nat /\ safe \in Nat BY <1>t, <1>r
      <4>2. cursor' = base + Len(got) + safe BY <1>r, <3>2
      <4> QED BY <3>4, <4>1, <4>2
    <3>6. Lead(stream[base + 1]) /\ Final(stream[cursor]) BY <1>f, <2>2
    <3>7. Final(stream[cursor'])
      <4>1. CASE safe = 0
        <5>1. cursor' = cursor BY <1>t, <1>r, <3>2, <4>1
        <5> QED BY <3>6, <5>1
      <4>2. CASE safe > 0 BY <1>r, <4>2
      <4> QED BY <1>r, <4>1, <4>2
    <3> QED BY <1>t, <3>1, <3>4, <3>5, <3>6, <3>7
  <2> QED BY <2>1, <2>2
<1>2. cursor' \in 0..MaxPrinted /\ cursor' <= Len(stream) BY <1>r, <1>s
<1>3. last' \in [alive : BOOLEAN, dropped : BOOLEAN, state : States, stuck : BOOLEAN]
      /\ ~last'.stuck
  BY <1>t, <1>r
<1>4. rd'.pc = "idle" BY <1>r DEF Idle
<1>5. TextIsUnbroken' BY <1>1 DEF TextIsUnbroken
<1>6. TextIsWhole' BY <1>1 DEF TextIsWhole, Lead, Final
<1>7. FollowerInOrder' BY <1>2, <1>4, <1>5, <1>6 DEF FollowerInOrder
<1>8. FollowerTyped' BY <1>1, <1>2, <1>3 DEF FollowerTyped
<1> QED BY <1>3, <1>7, <1>8

\* A response changes nothing outside the reader.
LEMMA RespondKeeps ==
    ASSUME RespondOutput
    PROVE  UNCHANGED <<stream, alive, pipeEnd, cap, taken, index, buffer, disk, marker, row,
                       closer, arch, otherVars>>
BY DEF RespondOutput, captureVars

\* The follower's text stays unbroken and whole, whatever happens while it reads.
LEMMA FollowerStep ==
    ASSUME TypeOK, WholeCharacters, FilesInOrder, CaptureHasReason, InventoryInOrder,
           FollowerInOrder, ~last.stuck, [Next]_vars
    PROVE  FollowerInOrder' /\ FollowerTyped' /\ ~last'.stuck
<1>t. /\ base \in Nat /\ got \in Seq(Nat) /\ cursor \in 0..MaxPrinted
      /\ last \in [alive : BOOLEAN, dropped : BOOLEAN, state : States, stuck : BOOLEAN]
  BY RecordTypes, Zenon
<1>f. /\ got = [i \in 1..Len(got) |-> base + i] /\ (got # <<>> => cursor = base + Len(got))
      /\ got # <<>> => Lead(stream[base + 1]) /\ Final(stream[cursor])
      /\ cursor <= Len(stream)
      /\ rd.pc # "idle" /\ got # <<>> => rd.off = cursor
  BY Zenon DEF FollowerInOrder, TextIsUnbroken, TextIsWhole
<1>g. /\ Len(stream) <= Len(stream')
      /\ \A p \in 1..Len(stream) : stream'[p] = stream[p]
      /\ Len(stream) \in Nat /\ Len(stream') \in Nat
  <2>1. \A s \in Seq(Widths \X (1..4)) : Len(s) \in Nat OBVIOUS
  <2>2. stream' \in Seq(Widths \X (1..4)) BY TerminalStep, Zenon
  <2>3. TerminalGrows /\ Len(stream) \in Nat BY TerminalStep, StreamLength
  <2> QED BY <2>1, <2>2, <2>3 DEF TerminalGrows
<1>k. ASSUME UNCHANGED <<base, got, cursor>>, last' = last \/ last' = NoResponse,
             rd'.pc # "idle" /\ got # <<>> => rd'.off = cursor
      PROVE  FollowerInOrder' /\ FollowerTyped' /\ ~last'.stuck
  <2>1. /\ last' \in [alive : BOOLEAN, dropped : BOOLEAN, state : States, stuck : BOOLEAN]
        /\ ~last'.stuck
    <3>1. CASE last' = last BY <1>t, <3>1
    <3>2. CASE last' = NoResponse
      <4>1. last' = [alive |-> FALSE, dropped |-> FALSE, state |-> "ACTIVE", stuck |-> FALSE]
        BY <3>2 DEF NoResponse
      <4> QED BY <4>1 DEF States
    <3> QED BY <1>k, <3>1, <3>2
  <2>2. FollowerTyped' BY <1>t, <1>k, <2>1 DEF FollowerTyped
  <2>3. TextIsUnbroken' BY <1>f, <1>k DEF TextIsUnbroken
  <2>4. TextIsWhole'
    <3> SUFFICES ASSUME got # <<>>
                 PROVE  Lead(stream'[base + 1]) /\ Final(stream'[cursor])
      BY <1>k DEF TextIsWhole, Lead, Final
    <3>1. Len(got) \in Nat \ {0} BY <1>t
    <3>2. base + 1 \in 1..Len(stream) /\ cursor \in 1..Len(stream)
      BY <1>t, <1>f, <1>g, <3>1
    <3>3. stream'[base + 1] = stream[base + 1] /\ stream'[cursor] = stream[cursor]
      BY <1>g, <3>2
    <3> QED BY <1>f, <3>3
  <2>5. cursor' <= Len(stream')
    <3>1. cursor \in Nat
      <4>1. cursor \in 0..MaxPrinted BY <1>t
      <4> QED BY <4>1
    <3> QED BY <1>f, <1>g, <1>k, <3>1
  <2>6. rd'.pc # "idle" /\ got' # <<>> => rd'.off = cursor' BY <1>k
  <2>7. FollowerInOrder' BY <2>3, <2>4, <2>5, <2>6, Zenon DEF FollowerInOrder
  <2> QED BY <2>1, <2>2, <2>7
<1>i. Idle.pc = "idle" BY DEF Idle
<1>1. CASE ReaderSteps
  <2>1. CASE \E offset : StartsRead(offset)
    <3>1. PICK offset : StartsRead(offset) BY <2>1
    <3>2. /\ UNCHANGED <<base, got, cursor>> /\ last' = NoResponse
          /\ rd'.off = offset /\ (offset = cursor \/ got = <<>>)
      BY <3>1 DEF StartsRead
    <3> QED BY <1>k, <3>2
  <2>2. CASE MovesOn
    <3>1. UNCHANGED <<base, got, cursor, last>> BY <2>2, MovesOnEffect
    <3>2. rd'.pc # "idle" => rd.pc # "idle" /\ rd'.off = rd.off
      BY <1>i, <2>2, MovesOnEffect
    <3> QED BY <1>f, <1>k, <3>1, <3>2
  <2>3. CASE RespondOutput
    <3>1. PICK start, safe, end, gap : Response(start, safe, end, gap)
      BY <2>3, RespondEffect
    <3>2. UNCHANGED stream BY <2>3, RespondKeeps
    <3> QED BY <3>1, <3>2, ResponseKeepsFollower
  <2> QED BY <1>1, <2>1, <2>2, <2>3, ReaderCases
<1>2. CASE ~ReaderSteps
  <2>1. /\ UNCHANGED <<base, got, cursor, last>> /\ (rd' = rd \/ rd' = Idle)
    BY <1>2, OthersKeepFollower
  <2> QED BY <1>f, <1>i, <1>k, <2>1
<1> QED BY <1>1, <1>2

\* The inventory of a capture that goes on looks like one.
LEMMA InventoryIsValid ==
    ASSUME TypeOK, FilesInOrder, InventoryInOrder, rd.pc = "lstat", Inspected
    PROVE  ValidInventory(insp.sizes)
<1>t. insp \in [n : Nat, sizes : Seq(Nat), starts : Seq(Nat), size : Nat] BY Zenon DEF TypeOK
<1>1. insp.sizes \in Seq(Nat) /\ insp.n \in Nat /\ Len(insp.sizes) = insp.n
  BY <1>t DEF Inspected
<1>2. /\ insp.n <= Len(disk)
      /\ \A i \in 1..Len(insp.sizes) :
            insp.sizes[i] <= Len(disk[i]) /\ (i < insp.n => insp.sizes[i] = SegmentBytes)
  BY Zenon DEF InventoryInOrder
<1>3. Len(disk) \in Nat /\ SegmentBytes \in Nat \ {0} BY FileTypes, Zenon
<1>4. \A i \in 1..Len(disk) : Len(disk[i]) <= SegmentBytes /\ Len(disk[i]) \in Nat
  BY FileTypes, Zenon
<1>5. ASSUME NEW i \in 2..Len(insp.sizes)
      PROVE  /\ insp.sizes[1] > 0 /\ insp.sizes[i] <= insp.sizes[1]
             /\ i < Len(insp.sizes) => insp.sizes[i] = insp.sizes[1]
  <2>1. i \in 1..Len(insp.sizes) /\ 1 \in 1..Len(insp.sizes) /\ 1 < insp.n BY <1>1
  <2>2. insp.sizes[1] = SegmentBytes BY <1>2, <2>1
  <2>3. i \in 1..Len(disk) BY <1>1, <1>2, <1>3, <2>1
  <2>4. insp.sizes[i] <= Len(disk[i]) /\ insp.sizes[i] \in Nat BY <1>1, <1>2, <2>1
  <2>5. insp.sizes[i] <= SegmentBytes BY <1>3, <1>4, <2>3, <2>4
  <2> QED BY <1>1, <1>2, <1>3, <2>1, <2>2, <2>5
<1> QED BY <1>5 DEF ValidInventory

\* A read never takes a running capture for a damaged one.
LEMMA ReadsStep ==
    ASSUME TypeOK, WholeCharacters, FilesInOrder, CaptureHasReason, InventoryInOrder,
           FollowerInOrder, ReadsSucceed, [Next]_vars
    PROVE  ReadsSucceed'
<1>1. ~last'.stuck BY FollowerStep DEF ReadsSucceed
<1>2. rd'.pc # "invalid"
  <2>i. Idle.pc = "idle" BY DEF Idle
  <2>1. CASE \E offset : StartsRead(offset) BY <2>1 DEF StartsRead
  <2>2. CASE MovesOn
    <3>1. CASE rd' = Idle BY <2>i, <3>1
    <3>2. CASE Goes("lstat", "invalid") /\ Inspected /\ ~ValidInventory(insp.sizes)
      BY <3>2, InventoryIsValid DEF Goes
    <3> QED BY <2>2, <3>1, <3>2, MovesOnCases, Zenon
        DEF WaysOn, Goes, Degrades, Saves, Moved
  <2>3. CASE RespondOutput BY <2>i, <2>3 DEF RespondOutput
  <2>4. CASE ~ReaderSteps BY <2>i, <2>4, OthersKeepFollower DEF ReadsSucceed
  <2> QED BY <2>1, <2>2, <2>3, <2>4, ReaderCases
<1> QED BY <1>1, <1>2 DEF ReadsSucceed

-----------------------------------------------------------------------------
(***************************************************************************)
(* The row, close(), the other reads and the losses.                       *)
(***************************************************************************)

\* What another read has read of the row, and where it is.
OtherStates == [pc : {"none", "read", "observed", "stopped"}, state : States, closed : BOOLEAN]

\* What TypeOK says of the row, of close() and of the other reads.
RowTyped ==
    /\ row \in [closed : BOOLEAN, state : States]
    /\ closer \in [pc : {"none", "killed", "read"}, state : States]
    /\ other \in [Others -> OtherStates]
    /\ forgotten \in BOOLEAN

\* The other reads, and whether one is forgotten.
LEMMA OtherTypes == ASSUME TypeOK PROVE other \in [Others -> OtherStates] /\ forgotten \in BOOLEAN
BY Zenon DEF TypeOK, OtherStates

\* A record of the row, and one of another read.
LEMMA RowRecord ==
    ASSUME NEW r, NEW c \in BOOLEAN, NEW s \in States, r = [closed |-> c, state |-> s]
    PROVE  r \in [closed : BOOLEAN, state : States] /\ r.closed = c /\ r.state = s
OBVIOUS

LEMMA OtherRecord ==
    ASSUME NEW r, NEW p \in {"none", "read", "observed", "stopped"}, NEW s \in States,
           NEW c \in BOOLEAN, r = [pc |-> p, state |-> s, closed |-> c]
    PROVE  r \in OtherStates /\ r.pc = p
BY DEF OtherStates

\* Another read that is not there.
LEMMA NoReadType == NoRead \in OtherStates /\ NoRead.pc = "none"
<1>1. "ACTIVE" \in States BY DEF States
<1> QED BY <1>1, OtherRecord DEF NoRead

\* Outside of the reads and of close() the row is left alone, and so is all else that
\* is about it, but for a restart of the Session Host.
LEMMA OthersKeepRow ==
    ASSUME [Next]_vars, ~ReaderSteps, ~OtherSteps, ~CloserSteps
    PROVE  /\ row' = row
           /\ UNCHANGED <<closer, other, forgotten>> \/ HostDies
<1> USE DEF captureVars, readerVars, otherVars, vars
<1>1. CASE CaptureSteps BY <1>1, CaptureEffect
<1>2. CASE Archive BY <1>2 DEF Archive, ArchiveStart, ArchiveCopy, ArchiveAccept, ArchiveKeeps
<1>3. CASE UNCHANGED vars \/ (\E w \in Widths : Prints(w)) \/ ShellExits \/ HostDies
  BY <1>3 DEF Prints, ShellExits, HostDies
<1> QED BY <1>1, <1>2, <1>3, StepsByActor

\* What a read can do to the row: save it degraded, or keep it.
LEMMA ReaderAndRow ==
    ASSUME TypeOK, ReaderSteps
    PROVE  row' = row \/ row' = [closed |-> rd.closed, state |-> "DEGRADED"]
<1>1. CASE \E offset : StartsRead(offset) BY <1>1 DEF StartsRead
<1>2. CASE MovesOn BY <1>2, MovesOnCases, Zenon DEF WaysOn, Saves
<1>3. CASE RespondOutput BY <1>3, RespondKeeps
<1> QED BY <1>1, <1>2, <1>3, ReaderCases

\* What another read does, in terms of its own record, the row and the pipe.
OtherDoes(o) ==
    \/ /\ other[o].pc \in {"none", "read"}
       /\ \E v \in OtherStates : v.pc \in {"read", "observed"}
                                 /\ other' = [other EXCEPT ![o] = v]
       /\ UNCHANGED <<row, pipeEnd, forgotten>>
    \/ /\ \E v \in OtherStates : v.pc = "stopped" /\ other' = [other EXCEPT ![o] = v]
       /\ UNCHANGED <<row, forgotten>>
    \/ /\ other' = [other EXCEPT ![o] = NoRead]
       /\ row' = [closed |-> other[o].closed, state |-> "DEGRADED"]
       /\ forgotten' = FALSE
    \/ OtherEnds(o)

LEMMA OtherCases ==
    ASSUME TypeOK, NEW o \in Others, OtherRead(o)
    PROVE  OtherDoes(o)
<1>t. row.state \in States /\ row.closed \in BOOLEAN /\ "ACTIVE" \in States
  BY RecordTypes DEF States
<1>1. CASE OtherReads(o)
  <2> DEFINE v == [pc |-> "read", state |-> row.state, closed |-> FALSE]
  <2>1. v \in OtherStates /\ v.pc = "read" BY <1>t, OtherRecord
  <2>2. other[o].pc = "none" /\ other' = [other EXCEPT ![o] = v]
        /\ UNCHANGED <<row, pipeEnd, forgotten>>
    BY <1>1 DEF OtherReads, OtherMoves
  <2> HIDE DEF v
  <2> QED BY <2>1, <2>2 DEF OtherDoes
<1>2. CASE OtherObserves(o)
  <2> DEFINE v == [pc |-> "observed", state |-> "ACTIVE", closed |-> row.closed]
  <2>1. v \in OtherStates /\ v.pc = "observed" BY <1>t, OtherRecord
  <2>2. other[o].pc = "read" /\ other' = [other EXCEPT ![o] = v]
        /\ UNCHANGED <<row, pipeEnd, forgotten>>
    BY <1>2 DEF OtherObserves, OtherMoves
  <2> HIDE DEF v
  <2> QED BY <2>1, <2>2 DEF OtherDoes
<1>3. CASE OtherStopsPipe(o)
  <2> DEFINE v == [pc |-> "stopped", state |-> "ACTIVE", closed |-> row.closed]
  <2>1. v \in OtherStates /\ v.pc = "stopped" BY <1>t, OtherRecord
  <2>2. other' = [other EXCEPT ![o] = v] /\ UNCHANGED <<row, forgotten>>
    BY <1>3 DEF OtherStopsPipe, OtherMoves
  <2> HIDE DEF v
  <2> QED BY <2>1, <2>2 DEF OtherDoes
<1>4. CASE OtherSaves(o) BY <1>4, Zenon DEF OtherSaves, OtherMoves, OtherDoes
<1>5. CASE OtherEnds(o) BY <1>5 DEF OtherDoes
<1> QED BY <1>1, <1>2, <1>3, <1>4, <1>5 DEF OtherRead

\* Types of the row, of close() and of the other reads.
LEMMA RowStep ==
    ASSUME TypeOK, [Next]_vars
    PROVE  RowTyped'
<1> DEFINE C == [pc : {"none", "killed", "read"}, state : States]
           R == [closed : BOOLEAN, state : States]
<1>t. row \in R /\ closer \in C /\ rd.closed \in BOOLEAN
  BY RecordTypes
<1>o. other \in [Others -> OtherStates] /\ forgotten \in BOOLEAN BY OtherTypes
<1>s. /\ "ACTIVE" \in States /\ "DEGRADED" \in States /\ "STOPPED" \in States
      /\ TRUE \in BOOLEAN /\ FALSE \in BOOLEAN
  BY DEF States
<1>n. NoClose \in C BY <1>s DEF NoClose
<1>b. ASSUME forgotten' = forgotten \/ forgotten' = TRUE \/ forgotten' = FALSE
      PROVE  forgotten' \in BOOLEAN
  BY <1>o, <1>b, Zenon
<1>f. ASSUME NEW closed, Forgets(closed) PROVE forgotten' \in BOOLEAN
  <2>1. forgotten' = TRUE \/ forgotten' = forgotten BY <1>f, Zenon DEF Forgets
  <2> QED BY <1>b, <2>1, Zenon
<1>q. ASSUME row' \in R, closer' \in C, other' \in [Others -> OtherStates],
             forgotten' \in BOOLEAN
      PROVE  RowTyped'
  BY <1>q DEF RowTyped
<1> HIDE DEF C
<1>1. CASE ReaderSteps
  <2>1. closer' = closer /\ other' = other BY <1>1, ReaderEffect
  <2>2. row' \in R
    <3>1. CASE row' = row BY <1>t, <3>1
    <3>2. CASE row' = [closed |-> rd.closed, state |-> "DEGRADED"]
      BY <1>t, <1>s, <3>2, RowRecord, Zenon
    <3> QED BY <1>1, <3>1, <3>2, ReaderAndRow
  <2>3. forgotten' \in BOOLEAN
    <3>1. CASE \E offset : StartsRead(offset) BY <1>b, <3>1 DEF StartsRead
    <3>2. CASE RespondOutput BY <1>b, <3>2 DEF RespondOutput, otherVars
    <3>3. CASE ReaderFails
      <4>1. Forgets(rd.pc = "saveReserve") BY <3>3 DEF ReaderFails
      <4> QED BY <1>f, <4>1
    <3>4. CASE MovesOn /\ ~ReaderFails
      <4>1. UNCHANGED forgotten \/ forgotten' = FALSE
        BY <3>4, Zenon DEF MovesOn, ObserveCaptureStop, IsAlive, ReserveSuffices,
           ReserveShort, ReaderReaddir, ReaderLstat, EnforceCaptureCeiling, UpdateTranscript,
           ReaderSaves
      <4> QED BY <1>b, <4>1
    <3> QED BY <1>1, <3>1, <3>2, <3>3, <3>4, ReaderCases
  <2> QED BY <1>t, <1>o, <1>q, <2>1, <2>2, <2>3
<1>2. CASE OtherSteps
  <2>1. closer' = closer BY <1>2, OtherEffect
  <2>2. PICK o \in Others : OtherRead(o) BY <1>2 DEF OtherSteps
  <2>3. OtherDoes(o) BY <2>2, OtherCases
  <2>4. other' \in [Others -> OtherStates]
    <3>1. \E v \in OtherStates : other' = [other EXCEPT ![o] = v]
      BY <2>3, NoReadType, Zenon DEF OtherDoes, OtherEnds
    <3> QED BY <1>o, <3>1
  <2>5. row' \in R
    <3>1. row' = row \/ row' = [closed |-> other[o].closed, state |-> "DEGRADED"]
      BY <2>3 DEF OtherDoes, OtherEnds
    <3>2. other[o].closed \in BOOLEAN BY <1>o DEF OtherStates
    <3>3. CASE row' = row BY <1>t, <3>3
    <3>4. CASE row' = [closed |-> other[o].closed, state |-> "DEGRADED"]
      BY <1>s, <3>2, <3>4, RowRecord, Zenon
    <3> QED BY <3>1, <3>3, <3>4
  <2>6. forgotten' \in BOOLEAN
    <3>1. CASE OtherEnds(o)
      <4>1. Forgets(other[o].pc = "stopped") BY <3>1 DEF OtherEnds
      <4> QED BY <1>f, <4>1
    <3>2. CASE ~OtherEnds(o)
      <4>1. UNCHANGED forgotten \/ forgotten' = FALSE BY <2>3, <3>2, Zenon DEF OtherDoes
      <4> QED BY <1>b, <4>1
    <3> QED BY <3>1, <3>2
  <2> QED BY <1>t, <1>q, <2>1, <2>4, <2>5, <2>6
<1>3. CASE CloseKill \/ CloseRead \/ CloseFails
  <2>1. row' = row /\ other' = other /\ forgotten' = forgotten
    BY <1>3 DEF CloseKill, CloseRead, CloseFails, CloserKeeps
  <2>2. closer' \in C
    <3>1. CASE CloseKill BY <1>t, <3>1 DEF CloseKill, C
    <3>2. CASE CloseRead BY <1>t, <3>2 DEF CloseRead, C
    <3>3. CASE CloseFails BY <1>n, <3>3 DEF CloseFails
    <3> QED BY <1>3, <3>1, <3>2, <3>3
  <2> QED BY <1>t, <1>o, <1>q, <2>1, <2>2
<1>4. CASE CloseSave
  <2>1. closer' \in C BY <1>4, <1>n DEF CloseSave
  <2>2. row' \in R
    <3>1. \/ row' = [closed |-> TRUE, state |-> "DEGRADED"]
          \/ row' = [closed |-> TRUE, state |-> "STOPPED"]
      BY <1>4 DEF CloseSave
    <3>2. CASE row' = [closed |-> TRUE, state |-> "DEGRADED"]
      BY <1>s, <3>2, RowRecord, Zenon
    <3>3. CASE row' = [closed |-> TRUE, state |-> "STOPPED"]
      BY <1>s, <3>3, RowRecord, Zenon
    <3> QED BY <3>1, <3>2, <3>3
  <2>3. other' = other /\ forgotten' = FALSE BY <1>4 DEF CloseSave, CloserKeeps
  <2>4. forgotten' \in BOOLEAN BY <1>b, <2>3
  <2> QED BY <1>o, <1>q, <2>1, <2>2, <2>3, <2>4
<1>5. CASE HostDies
  <2>1. row' = row /\ closer' = NoClose /\ other' = [o \in Others |-> NoRead]
    BY <1>5 DEF HostDies
  <2>2. other' \in [Others -> OtherStates] BY <2>1, NoReadType
  <2>3. Forgets(rd.pc = "saveReserve" \/ \E o \in Others : other[o].pc = "stopped")
    BY <1>5 DEF HostDies
  <2>4. forgotten' \in BOOLEAN BY <1>f, <2>3
  <2> QED BY <1>t, <1>n, <1>q, <2>1, <2>2, <2>4
<1>6. CASE ~ReaderSteps /\ ~OtherSteps /\ ~CloserSteps /\ ~HostDies
  <2>1. row' = row /\ UNCHANGED <<closer, other, forgotten>> BY <1>6, OthersKeepRow
  <2> QED BY <1>t, <1>o, <1>q, <2>1
<1> QED BY <1>1, <1>2, <1>3, <1>4, <1>5, <1>6 DEF CloserSteps

\* Types of the reader.
LEMMA ReaderStep ==
    ASSUME TypeOK, FilesInOrder, InventoryInOrder, [Next]_vars
    PROVE  ReaderTyped'
<1> DEFINE R == [pc : ReaderPlaces, off : Nat, state : States, alive : BOOLEAN,
                 dropped : BOOLEAN, closed : BOOLEAN]
<1>t. rd \in R /\ row.state \in States BY RecordTypes
<1>i. Idle \in R BY DEF Idle, ReaderPlaces, States
<1>1. insp' \in [n : Nat, sizes : Seq(Nat), starts : Seq(Nat), size : Nat] BY InventoryStep
<1>2. rd' \in R
  <2>1. CASE \E offset : StartsRead(offset)
    <3>1. PICK offset : StartsRead(offset) BY <2>1
    <3>2. rd' = [pc |-> "observe", off |-> offset, state |-> row.state, alive |-> FALSE,
                 dropped |-> Dropped /\ Recorded, closed |-> FALSE]
          /\ offset \in Nat
      BY <3>1, Zenon DEF StartsRead
    <3>3. (Dropped /\ Recorded) \in BOOLEAN BY DEF Dropped, Recorded
    <3>4. "observe" \in ReaderPlaces BY DEF ReaderPlaces
    <3> HIDE DEF Dropped, Recorded
    <3> QED BY <1>t, <3>2, <3>3, <3>4
  <2>2. CASE MovesOn
    BY <1>i, <2>2, MovesOnCases, Zenon DEF WaysOn, Goes, Degrades, Saves, Moved
  <2>3. CASE RespondOutput BY <1>i, <2>3, Zenon DEF RespondOutput
  <2>4. CASE ~ReaderSteps
    <3>1. rd' = rd \/ rd' = Idle BY <2>4, OthersKeepFollower
    <3> QED BY <1>t, <1>i, <3>1, Zenon
  <2> QED BY <2>1, <2>2, <2>3, <2>4, ReaderCases
<1> QED BY <1>1, <1>2 DEF ReaderTyped

\* A capture process that has ended writes nothing more.
LEMMA StoppedCapture ==
    ASSUME TypeOK, CaptureHasReason, cap \in {"stopped", "failed"}, [Next]_vars
    PROVE  UNCHANGED <<cap, taken, index, buffer, disk, marker>>
<1>1. buffer = <<>> /\ Len(buffer) = 0
  <2>1. buffer = <<>> BY Zenon DEF CaptureHasReason
  <2> QED BY <2>1
<1>2. ~CaptureSteps
  BY <1>1 DEF CaptureSteps, Capture, CaptureStops, CaptureFails, CaptureWrite, CaptureFlushes,
     CaptureRotate, RecordStorageStop, CaptureOpens, CaptureEnds
<1> QED BY <1>2, OthersKeepCapture

\* A transcript that is full, and in its files, stays so.
LEMMA FullStays ==
    ASSUME TypeOK, FilesInOrder, CaptureHasReason, Full, [Next]_vars
    PROVE  Full'
<1>1. taken = Maximum /\ buffer = <<>> /\ Len(buffer) = 0 /\ Maximum \in Nat
  BY Constants DEF Full
<1>2. CASE ~CaptureSteps BY <1>1, <1>2, OthersKeepCapture DEF Full
<1>3. ASSUME NEW n \in 1..SegmentBytes PROVE ~CaptureFlushes(n)
  BY <1>1 DEF CaptureFlushes
<1>4. ASSUME NEW n \in 1..SegmentBytes PROVE ~CaptureWrite(n)
  <2> SUFFICES ASSUME CaptureWrite(n) PROVE FALSE OBVIOUS
  <2>1. taken' = taken + n BY DEF CaptureWrite
  <2>2. taken' \in 0..Maximum BY FilesStep, Zenon DEF FilesTyped
  <2> QED BY <1>1, <2>1, <2>2
<1>5. CASE CaptureFails
  <2>1. taken' = taken - Len(buffer) /\ buffer' = <<>> BY <1>5 DEF CaptureFails
  <2> QED BY <1>1, <2>1 DEF Full
<1>6. CASE CaptureStops \/ CaptureRotate \/ RecordStorageStop \/ CaptureOpens \/ CaptureEnds
  <2>1. taken' = taken /\ buffer' = buffer
    BY <1>6 DEF CaptureStops, CaptureRotate, RecordStorageStop, CaptureOpens, CaptureEnds
  <2> QED BY <1>1, <2>1 DEF Full
<1> QED BY <1>2, <1>3, <1>4, <1>5, <1>6 DEF CaptureSteps, Capture

\* An inventory that reaches the ceiling has seen a transcript that is full.
LEMMA FullAtCeiling ==
    ASSUME TypeOK, FilesInOrder, CaptureHasReason, InventoryInOrder, CeilingReached
    PROVE  Full
<1>1. insp.size \in Nat /\ insp.size <= taken /\ (insp.size = taken => buffer = <<>>)
  BY InventoryWithinStream
<1>2. taken \in 0..Maximum /\ Maximum \in Nat BY FileTypes, Zenon
<1>3. insp.size >= Maximum BY DEF CeilingReached
<1> QED BY <1>1, <1>2, <1>3 DEF Full

\* A full transcript, inspected after the end of its capture, is seen to be full.
LEMMA FullIsSeen ==
    ASSUME TypeOK, FilesInOrder, CaptureHasReason, InventoryInOrder, LossIsInspected,
           rd.dropped, rd.pc = "lstat", AtCeiling, Inspected
    PROVE  CeilingReached
<1>t. insp \in [n : Nat, sizes : Seq(Nat), starts : Seq(Nat), size : Nat] BY Zenon DEF TypeOK
<1> DEFINE n == Len(insp.sizes)
<1>1. /\ n = Len(disk) /\ insp.sizes # <<>> /\ n \in Nat \ {0}
      /\ insp.sizes[n] = Len(disk[n])
  <2>1. /\ insp.n = Len(disk) /\ \A i \in 1..Len(insp.sizes) : insp.sizes[i] = Len(disk[i])
    BY Zenon DEF LossIsInspected
  <2>2. n = insp.n BY DEF Inspected
  <2>3. Len(disk) > 0 BY Zenon DEF FilesInOrder
  <2>4. n \in Nat BY <1>t
  <2>5. n \in 1..Len(insp.sizes) BY <2>1, <2>2, <2>3, <2>4
  <2>6. insp.sizes # <<>> BY <2>1, <2>2, <2>3
  <2> QED BY <2>1, <2>2, <2>3, <2>4, <2>5, <2>6
<1>2. insp.size = Before(n) + insp.sizes[n]
  BY <1>1, Zenon DEF InventoryInOrder
<1>3. /\ index \in {Len(disk), Len(disk) + 1} /\ SegmentBytes \in Nat
      /\ \A i \in 1..Len(disk) : Len(disk[i]) \in Nat
  BY FileTypes, Zenon
<1>4. Len(buffer) = 0
  <2>1. buffer = <<>> BY Zenon DEF CaptureHasReason, AtCeiling
  <2> QED BY <2>1
<1>5. taken = Before(index) + SegmentSize BY Zenon DEF FilesInOrder
<1>6. Before(n) \in Nat /\ Before(n + 1) = Before(n) + SegmentBytes
  BY <1>1, BeforeFacts, Zenon
<1>7. Len(disk[n]) \in Nat
  <2>1. n \in 1..Len(disk) BY <1>1
  <2> QED BY <1>3, <2>1, Zenon
<1> HIDE DEF n
<1>8. insp.size = taken
  <2>1. CASE index = n
    <3>1. SegmentSize = Len(disk[n]) BY <1>1, <1>4, <1>7, <2>1 DEF SegmentSize
    <3> QED BY <1>1, <1>2, <1>5, <2>1, <3>1
  <2>2. CASE index = n + 1
    <3>1. SegmentSize = 0 BY <1>1, <1>4, <2>2 DEF SegmentSize
    <3>2. Len(disk[n]) = SegmentBytes
      <4>1. n \in 1..Len(disk) /\ index > Len(disk) BY <1>1, <2>2
      <4> QED BY <4>1, Zenon DEF FilesInOrder
    <3> QED BY <1>1, <1>2, <1>5, <1>6, <1>3, <2>2, <3>1, <3>2
  <2> QED BY <1>1, <1>3, <2>1, <2>2
<1>9. taken = Maximum /\ Maximum \in Nat BY Constants DEF AtCeiling
<1> QED BY <1>8, <1>9 DEF CeilingReached

\* What a read that begins with a loss has found.
LEMMA BeganWithLoss ==
    ASSUME \E offset : StartsRead(offset)
    PROVE  rd'.dropped => Dropped /\ Recorded
<1>1. rd'.dropped = (Dropped /\ Recorded) BY DEF StartsRead
<1> QED BY <1>1, Zenon

\* A read of what was lost is one of a capture that has ended.
LEMMA LossIsAnEndStep ==
    ASSUME TypeOK, CaptureHasReason, LossIsAnEnd, [Next]_vars
    PROVE  LossIsAnEnd'
<1>i. ~Idle.dropped BY DEF Idle
<1>k. ASSUME cap \in {"stopped", "failed"} PROVE cap' \in {"stopped", "failed"}
  BY <1>k, StoppedCapture
<1>1. CASE \E offset : StartsRead(offset)
  <2>1. rd'.dropped => Dropped BY <1>1, BeganWithLoss
  <2> QED BY <1>k, <2>1 DEF Dropped, LossIsAnEnd
<1>2. CASE MovesOn
  <2>1. CASE rd' = Idle BY <1>i, <2>1 DEF LossIsAnEnd
  <2>2. CASE rd' # Idle
    <3>1. rd'.dropped = rd.dropped BY <1>2, <2>2, MovesOnEffect
    <3>2. rd'.dropped => rd.dropped BY <3>1, Zenon
    <3> QED BY <1>k, <3>2 DEF LossIsAnEnd
  <2> QED BY <2>1, <2>2
<1>3. CASE RespondOutput BY <1>i, <1>3 DEF RespondOutput, LossIsAnEnd
<1>4. CASE ~ReaderSteps
  <2>1. CASE rd' = rd BY <1>k, <2>1 DEF LossIsAnEnd
  <2>2. CASE rd' = Idle BY <1>i, <2>2 DEF LossIsAnEnd
  <2> QED BY <1>4, <2>1, <2>2, OthersKeepFollower
<1> QED BY <1>1, <1>2, <1>3, <1>4, ReaderCases

\* Where a read that is under way comes from.
LEMMA CameFrom ==
    ASSUME TypeOK, MovesOn, rd'.pc = "saveCeiling"
    PROVE  rd.pc = "lstat" /\ CeilingReached
<1>1. Idle.pc = "idle" BY DEF Idle
<1>2. rd' # Idle BY <1>1
<1> QED BY <1>2, MovesOnCases, Zenon DEF WaysOn, Goes, Degrades, Saves, Moved

\* A read that closes the pipe at the ceiling has seen a full transcript.
LEMMA CeilingIsFullStep ==
    ASSUME TypeOK, FilesInOrder, CaptureHasReason, InventoryInOrder, CeilingIsFull, [Next]_vars
    PROVE  CeilingIsFull'
<1> SUFFICES ASSUME rd'.pc = "saveCeiling" PROVE Full' BY DEF CeilingIsFull
<1>i. Idle.pc = "idle" BY DEF Idle
<1>1. CASE \E offset : StartsRead(offset) BY <1>1 DEF StartsRead
<1>2. CASE MovesOn BY <1>2, CameFrom, FullAtCeiling, FullStays
<1>3. CASE RespondOutput BY <1>i, <1>3 DEF RespondOutput
<1>4. CASE ~ReaderSteps
  <2>1. rd' = rd BY <1>i, <1>4, OthersKeepFollower
  <2> QED BY <2>1, FullStays DEF CeilingIsFull
<1> QED BY <1>1, <1>2, <1>3, <1>4, ReaderCases

\* A pipe that the Session Host closed is reported by the row, or is about to be, or is
\* one of a full transcript, or is forgotten.
LEMMA PipeIsReportedStep ==
    ASSUME TypeOK, FilesInOrder, CaptureHasReason, InventoryInOrder, PipeIsReported,
           [Next]_vars
    PROVE  PipeIsReported'
<1> DEFINE Closed == \E o \in Others : other[o].pc = "stopped"
<1> SUFFICES ASSUME alive', pipeEnd' # Open
             PROVE  \/ row'.state # "ACTIVE" \/ rd'.pc = "saveReserve" \/ Full' \/ forgotten'
                    \/ Closed'
  BY DEF PipeIsReported, Open
<1>o. other \in [Others -> OtherStates] BY OtherTypes
<1>a. alive
  <2>1. TerminalGrows BY TerminalStep
  <2> QED BY <2>1 DEF TerminalGrows
<1>h. pipeEnd # Open => \/ row.state # "ACTIVE" \/ rd.pc = "saveReserve" \/ Full \/ forgotten
                        \/ Closed
  BY <1>a DEF PipeIsReported
<1>f. Full => Full' BY FullStays
<1>d. [closed |-> rd.closed, state |-> "DEGRADED"].state = "DEGRADED" OBVIOUS
<1>k. ASSUME pipeEnd' = pipeEnd, row' = row, forgotten' = forgotten, other' = other,
             rd'.pc = rd.pc \/ rd.pc # "saveReserve"
      PROVE  \/ row'.state # "ACTIVE" \/ rd'.pc = "saveReserve" \/ Full' \/ forgotten'
             \/ Closed'
  <2>1. CASE forgotten BY <1>k, <2>1, Zenon
  <2>2. CASE ~forgotten BY <1>k, <1>h, <1>f, <2>2
  <2> QED BY <2>1, <2>2
<1>s. ~ShellExits BY DEF ShellExits
<1>1. CASE \E offset : StartsRead(offset)
  <2>1. /\ row' = row /\ pipeEnd' = pipeEnd /\ forgotten' = forgotten /\ rd.pc = "idle"
        /\ other' = other
    BY <1>1 DEF StartsRead, StartRead
  <2> QED BY <1>k, <2>1
<1>2. CASE RespondOutput
  <2>1. /\ row' = row /\ pipeEnd' = pipeEnd /\ forgotten' = forgotten /\ rd.pc = "bytes"
        /\ other' = other
    BY <1>2 DEF RespondOutput, captureVars, otherVars
  <2> QED BY <1>k, <2>1
<1>3. CASE ReaderFails
  <2>1. /\ row' = row /\ pipeEnd' = pipeEnd /\ other' = other
        /\ Forgets(rd.pc = "saveReserve")
    BY <1>3 DEF ReaderFails, captureVars
  <2>2. CASE rd.pc = "saveReserve" /\ row.state = "ACTIVE"
    <3>1. forgotten' = TRUE BY <2>1, <2>2 DEF Forgets
    <3> QED BY <3>1
  <2>3. CASE row.state # "ACTIVE" BY <2>1, <2>3
  <2>4. CASE rd.pc # "saveReserve"
    <3>1. forgotten' = forgotten BY <2>1, <2>4 DEF Forgets
    <3> QED BY <1>k, <2>1, <2>4, <3>1
  <2> QED BY <2>2, <2>3, <2>4
<1>4. CASE MovesOn /\ ~ReaderFails
  <2>o. other' = other BY <1>4 DEF MovesOn, ObserveCaptureStop, IsAlive, ReserveSuffices,
     ReserveShort, ReaderReaddir, ReaderLstat, EnforceCaptureCeiling, UpdateTranscript,
     ReaderSaves, ReadKeeps
  <2>1. \/ row' = row /\ pipeEnd' = pipeEnd /\ forgotten' = forgotten
           /\ (rd.pc = "observe" \/ rd.pc = "alive" \/ rd.pc = "reserve" \/ rd.pc = "readdir"
               \/ rd.pc = "lstat")
        \/ row' = [closed |-> rd.closed, state |-> "DEGRADED"]
        \/ rd'.pc = "saveReserve" \/ CeilingReached
    BY <1>4, MovesOnCases, Zenon DEF WaysOn, Goes, Degrades, Saves, Moved
  <2>2. CASE /\ row' = row /\ pipeEnd' = pipeEnd /\ forgotten' = forgotten
             /\ rd.pc # "saveReserve"
    BY <1>k, <2>o, <2>2
  <2>3. CASE row' = [closed |-> rd.closed, state |-> "DEGRADED"] BY <1>d, <2>3
  <2>4. CASE CeilingReached BY <1>f, <2>4, FullAtCeiling
  <2> QED BY <2>1, <2>2, <2>3, <2>4
<1>5. CASE OtherSteps
  <2>1. PICK o \in Others : OtherRead(o) BY <1>5 DEF OtherSteps
  <2>2. OtherDoes(o) BY <2>1, OtherCases
  <2>3. rd' = rd BY <1>5, OtherEffect
  <2>4. ASSUME NEW v \in OtherStates, other' = [other EXCEPT ![o] = v]
        PROVE  other'[o] = v /\ \A p \in Others : p # o => other'[p] = other[p]
    BY <1>o, <2>4
  <2>5. CASE /\ other[o].pc \in {"none", "read"}
             /\ \E v \in OtherStates : v.pc \in {"read", "observed"}
                                       /\ other' = [other EXCEPT ![o] = v]
             /\ UNCHANGED <<row, pipeEnd, forgotten>>
    <3>1. Closed => Closed'
      <4> SUFFICES ASSUME NEW p \in Others, other[p].pc = "stopped" PROVE Closed' OBVIOUS
      <4>1. p # o BY <2>5
      <4>2. other'[p] = other[p] BY <2>4, <2>5, <4>1
      <4> QED BY <4>2
    <3>2. CASE forgotten BY <2>5, <3>2, Zenon
    <3>3. CASE ~forgotten BY <1>h, <1>f, <2>3, <2>5, <3>1, <3>3
    <3> QED BY <3>2, <3>3
  <2>6. CASE \E v \in OtherStates : v.pc = "stopped" /\ other' = [other EXCEPT ![o] = v]
    <3>1. other'[o].pc = "stopped" BY <2>4, <2>6
    <3> QED BY <3>1
  <2>7. CASE row' = [closed |-> other[o].closed, state |-> "DEGRADED"]
    <3>1. row'.state = "DEGRADED" BY <2>7
    <3> QED BY <3>1
  <2>8. CASE OtherEnds(o)
    <3>1. /\ other' = [other EXCEPT ![o] = NoRead] /\ Forgets(other[o].pc = "stopped")
          /\ row' = row /\ pipeEnd' = pipeEnd
      BY <2>8 DEF OtherEnds
    <3>2. CASE other[o].pc = "stopped" /\ row.state = "ACTIVE"
      <4>1. forgotten' = TRUE BY <3>1, <3>2 DEF Forgets
      <4> QED BY <4>1
    <3>3. CASE row.state # "ACTIVE" BY <3>1, <3>3
    <3>4. CASE other[o].pc # "stopped"
      <4>1. forgotten' = forgotten BY <3>1, <3>4 DEF Forgets
      <4>2. Closed => Closed'
        <5> SUFFICES ASSUME NEW p \in Others, other[p].pc = "stopped" PROVE Closed' OBVIOUS
        <5>1. p # o BY <3>4
        <5>2. other'[p] = other[p] BY <2>4, <3>1, <5>1, NoReadType
        <5> QED BY <5>2
      <4>3. CASE forgotten BY <4>1, <4>3, Zenon
      <4>4. CASE ~forgotten BY <1>h, <1>f, <2>3, <3>1, <4>2, <4>4
      <4> QED BY <4>3, <4>4
    <3> QED BY <3>2, <3>3, <3>4
  <2> QED BY <2>2, <2>5, <2>6, <2>7, <2>8 DEF OtherDoes
<1>6. CASE CloserSteps
  <2>1. rd' = rd /\ other' = other /\ (alive' = FALSE \/ pipeEnd' = pipeEnd)
    BY <1>6, CloserEffect
  <2>2. CASE CloseSave
    <3>1. row'.state = "DEGRADED" \/ row'.state = "STOPPED" BY <2>2 DEF CloseSave
    <3> QED BY <3>1
  <2>3. CASE CloseKill \/ CloseRead \/ CloseFails
    <3>1. row' = row /\ forgotten' = forgotten BY <2>3 DEF CloseKill, CloseRead, CloseFails
    <3> QED BY <1>k, <2>1, <3>1
  <2> QED BY <1>6, <2>2, <2>3 DEF CloserSteps
<1>7. CASE HostDies
  <2>1. /\ row' = row /\ pipeEnd' = pipeEnd
        /\ Forgets(rd.pc = "saveReserve" \/ \E o \in Others : other[o].pc = "stopped")
    BY <1>7 DEF HostDies, captureVars
  <2>2. CASE (rd.pc = "saveReserve" \/ Closed) /\ row.state = "ACTIVE"
    <3>1. forgotten' = TRUE BY <2>1, <2>2 DEF Forgets
    <3> QED BY <3>1
  <2>3. CASE row.state # "ACTIVE" BY <2>1, <2>3
  <2>4. CASE rd.pc # "saveReserve" /\ ~Closed
    <3>1. forgotten' = forgotten BY <2>1, <2>4 DEF Forgets
    <3>2. CASE forgotten BY <3>1, <3>2, Zenon
    <3>3. CASE ~forgotten BY <1>h, <1>f, <2>1, <2>4, <3>3
    <3> QED BY <3>2, <3>3
  <2> QED BY <2>2, <2>3, <2>4
<1>8. CASE ~ReaderSteps /\ ~OtherSteps /\ ~CloserSteps /\ ~HostDies
  <2>1. row' = row /\ UNCHANGED <<closer, other, forgotten>> BY <1>8, OthersKeepRow
  <2>2. rd' = rd BY <1>8, OthersKeepFollower
  <2>3. pipeEnd' = pipeEnd
    <3>1. CASE CaptureSteps BY <3>1, CaptureEffect
    <3>2. CASE Archive
      BY <3>2 DEF Archive, ArchiveStart, ArchiveCopy, ArchiveAccept, ArchiveKeeps, captureVars
    <3>3. CASE UNCHANGED vars \/ \E w \in Widths : Prints(w)
      BY <3>3 DEF Prints, vars, captureVars
    <3> QED BY <1>s, <1>8, <3>1, <3>2, <3>3, StepsByActor
  <2> QED BY <1>k, <2>1, <2>2, <2>3
<1> QED BY <1>1, <1>2, <1>3, <1>4, <1>5, <1>6, <1>7, <1>8, ReaderCases

\* While the read goes on, the loss stays where it is, or moves on with the read.
LEMMA LossIsCarriedStep ==
    ASSUME TypeOK, FilesInOrder, CaptureHasReason, InventoryInOrder, LossIsTracked,
           [Next]_vars
    PROVE  LossIsCarried'
<1>t. /\ rd \in [pc : ReaderPlaces, off : Nat, state : States, alive : BOOLEAN,
                 dropped : BOOLEAN, closed : BOOLEAN]
  BY RecordTypes, Zenon
<1>h. LossIsAnEnd /\ PipeIsReported /\ LossIsCarried /\ LossIsInspected
  BY Zenon DEF LossIsTracked
<1> SUFFICES ASSUME rd'.dropped
             PROVE  /\ rd'.pc = "observe"
                          => AtCeiling' \/ rd'.state # "ACTIVE" \/ ~alive' \/ marker'
                    /\ rd'.pc = "alive" => AtCeiling' \/ rd'.state # "ACTIVE" \/ ~alive'
                    /\ rd'.pc \in {"reserve", "readdir", "lstat"}
                          => AtCeiling' \/ rd'.state # "ACTIVE" \/ ~rd'.alive
                    /\ rd'.pc = "bytes" => rd'.state # "ACTIVE" \/ ~rd'.alive
  BY Zenon DEF LossIsCarried
<1>a. ~alive => ~alive'
  <2>1. TerminalGrows BY TerminalStep
  <2> QED BY <2>1 DEF TerminalGrows
<1>i. ~Idle.dropped BY DEF Idle
<1>n. rd' # Idle BY <1>i
<1>s. ASSUME cap \in {"stopped", "failed"}
      PROVE  (AtCeiling => AtCeiling') /\ (marker => marker')
  <2>1. UNCHANGED <<cap, taken, marker>> BY <1>s, StoppedCapture
  <2> QED BY <2>1 DEF AtCeiling
<1>1. CASE \E offset : StartsRead(offset)
  <2>1. rd'.pc = "observe" /\ rd'.state = row.state /\ rd.pc = "idle"
    BY <1>1 DEF StartsRead
  <2>2. Dropped /\ Recorded BY <1>1, BeganWithLoss
  <2>3. cap \in {"stopped", "failed"} BY <2>2 DEF Dropped
  <2>4. cap = "stopped" => marker \/ taken = Maximum \/ pipeEnd # Open
    BY Zenon DEF CaptureHasReason
  <2>5. AtCeiling \/ row.state # "ACTIVE" \/ ~alive \/ marker
    <3> SUFFICES ASSUME row.state = "ACTIVE", alive PROVE AtCeiling \/ marker OBVIOUS
    <3>1. /\ cap = "failed" => marker \/ taken = Maximum
          /\ ~forgotten /\ \A o \in Others : other[o].pc # "stopped"
      BY <2>2 DEF Recorded
    <3>2. pipeEnd # Open => Full BY <1>h, <2>1, <3>1 DEF PipeIsReported
    <3>3. pipeEnd # Open => taken = Maximum BY <3>2 DEF Full
    <3> QED BY <2>3, <2>4, <3>1, <3>3 DEF AtCeiling
  <2> QED BY <1>a, <1>s, <2>1, <2>3, <2>5
<1>2. CASE MovesOn
  <2>1. rd'.dropped = rd.dropped BY <1>2, <1>n, MovesOnEffect
  <2>2. rd.dropped BY <2>1, Zenon
  <2>3. cap \in {"stopped", "failed"} BY <1>h, <2>2 DEF LossIsAnEnd
  <2>4. (AtCeiling => AtCeiling') /\ (marker => marker') BY <1>s, <2>3
  <2>5. /\ rd.pc = "observe" => AtCeiling \/ rd.state # "ACTIVE" \/ ~alive \/ marker
        /\ rd.pc = "alive" => AtCeiling \/ rd.state # "ACTIVE" \/ ~alive
        /\ rd.pc = "reserve" \/ rd.pc = "readdir" \/ rd.pc = "lstat"
              => AtCeiling \/ rd.state # "ACTIVE" \/ ~rd.alive
    <3>1. rd.pc = "reserve" \/ rd.pc = "readdir" \/ rd.pc = "lstat"
              => rd.pc \in {"reserve", "readdir", "lstat"}
      OBVIOUS
    <3> QED BY <1>h, <2>2, <3>1, Zenon DEF LossIsCarried
  <2>6. ASSUME NEW to, rd.pc \in {"reserve", "readdir", "lstat"},
               to \in {"readdir", "lstat"}, Moved(to, rd.state, rd.alive, rd.closed)
        PROVE  AtCeiling' \/ rd'.state # "ACTIVE" \/ ~rd'.alive
    <3>1. rd'.state = rd.state /\ (rd'.alive => rd.alive) BY <2>6, Zenon DEF Moved
    <3> QED BY <2>4, <2>5, <2>6, <3>1
  <2>7. CASE rd'.pc \in {"saveObserved", "saveReserve", "saveCeiling", "invalid"} BY <2>7
  <2>8. CASE Goes("observe", "alive") /\ (rd.state = "DEGRADED" \/ ~marker)
    <3>1. rd'.pc = "alive" /\ rd'.state = rd.state /\ rd.pc = "observe"
      BY <2>8, Zenon DEF Goes, Moved
    <3> QED BY <1>a, <2>4, <2>5, <2>8, <3>1
  <2>9. CASE /\ rd.pc = "alive"
             /\ \/ Moved("reserve", rd.state, alive, rd.closed)
                \/ Moved("reserve", rd.state, FALSE, rd.closed)
    <3>1. rd'.pc = "reserve" /\ rd'.state = rd.state /\ rd.pc = "alive"
      BY <2>9, Zenon DEF Moved
    <3>2. rd'.alive => alive BY <2>9, Zenon DEF Moved
    <3> QED BY <2>4, <2>5, <3>1, <3>2
  <2>10. CASE Goes("reserve", "readdir") \/ Goes("readdir", "lstat") \/ Goes("lstat", "lstat")
    <3>1. AtCeiling' \/ rd'.state # "ACTIVE" \/ ~rd'.alive BY <2>6, <2>10 DEF Goes
    <3>2. rd'.pc = "readdir" \/ rd'.pc = "lstat" BY <2>10, Zenon DEF Goes, Moved
    <3> QED BY <3>1, <3>2
  <2>11. CASE /\ Goes("lstat", "bytes") /\ Inspected
              /\ ~(rd.alive /\ rd.state = "ACTIVE" /\ CeilingReached)
    <3>1. rd.pc = "lstat" /\ rd'.pc = "bytes" /\ rd'.state = rd.state
      BY <2>11, Zenon DEF Goes, Moved
    <3>2. rd'.alive => rd.alive BY <2>11, Zenon DEF Goes, Moved
    <3>3. AtCeiling => CeilingReached BY <1>h, <2>2, <2>11, <3>1, FullIsSeen
    <3> QED BY <2>5, <2>11, <3>1, <3>2, <3>3
  <2>12. CASE rd'.state = "DEGRADED" BY <2>12
  <2>13. \/ rd'.pc = "saveObserved" \/ rd'.pc = "saveReserve" \/ rd'.pc = "saveCeiling"
         \/ rd'.pc = "invalid"
         \/ Goes("observe", "alive") /\ (rd.state = "DEGRADED" \/ ~marker)
         \/ /\ rd.pc = "alive"
            /\ \/ Moved("reserve", rd.state, alive, rd.closed)
               \/ Moved("reserve", rd.state, FALSE, rd.closed)
         \/ Goes("reserve", "readdir") \/ Goes("readdir", "lstat") \/ Goes("lstat", "lstat")
         \/ /\ Goes("lstat", "bytes") /\ Inspected
            /\ ~(rd.alive /\ rd.state = "ACTIVE" /\ CeilingReached)
         \/ rd'.state = "DEGRADED"
    <3>1. ASSUME NEW from, NEW to, Degrades(from, to) PROVE rd'.pc = to
      BY <3>1, Zenon DEF Degrades, Moved
    <3>2. ASSUME NEW from, NEW to, Saves(from, to) PROVE rd'.state = "DEGRADED"
      BY <3>2, Zenon DEF Saves, Moved
    <3>3. ASSUME Goes("lstat", "invalid") PROVE rd'.pc = "invalid"
      BY <3>3, Zenon DEF Goes, Moved
    <3> QED BY <1>2, <1>n, <3>1, <3>2, <3>3, MovesOnCases, Zenon DEF WaysOn
  <2> QED BY <2>7, <2>8, <2>9, <2>10, <2>11, <2>12, <2>13
<1>3. CASE RespondOutput BY <1>n, <1>3 DEF RespondOutput
<1>4. CASE ~ReaderSteps
  <2>1. rd' = rd BY <1>n, <1>4, OthersKeepFollower
  <2>2. rd.dropped BY <2>1
  <2>3. cap \in {"stopped", "failed"} BY <1>h, <2>2 DEF LossIsAnEnd
  <2>4. (AtCeiling => AtCeiling') /\ (marker => marker') BY <1>s, <2>3
  <2> QED BY <1>a, <1>h, <2>1, <2>2, <2>4 DEF LossIsCarried
<1> QED BY <1>1, <1>2, <1>3, <1>4, ReaderCases

\* The inventory of a capture that has ended stays complete.
LEMMA LossIsInspectedStep ==
    ASSUME TypeOK, FilesInOrder, CaptureHasReason, InventoryInOrder, LossIsTracked,
           [Next]_vars
    PROVE  LossIsInspected'
<1>t. insp \in [n : Nat, sizes : Seq(Nat), starts : Seq(Nat), size : Nat] BY Zenon DEF TypeOK
<1>h. LossIsAnEnd /\ LossIsInspected BY Zenon DEF LossIsTracked
<1>i. ~Idle.dropped BY DEF Idle
<1> SUFFICES ASSUME rd'.dropped, rd'.pc = "lstat"
             PROVE  /\ insp'.n = Len(disk')
                    /\ \A i \in 1..Len(insp'.sizes) : insp'.sizes[i] = Len(disk'[i])
  BY Zenon DEF LossIsInspected
<1>1. rd.dropped
  <2>1. CASE \E offset : StartsRead(offset) BY <2>1 DEF StartsRead
  <2>2. CASE MovesOn
    <3>1. rd'.dropped = rd.dropped BY <1>i, <2>2, MovesOnEffect
    <3> QED BY <3>1, Zenon
  <2>3. CASE RespondOutput BY <1>i, <2>3 DEF RespondOutput
  <2>4. CASE ~ReaderSteps BY <1>i, <2>4, OthersKeepFollower
  <2> QED BY <2>1, <2>2, <2>3, <2>4, ReaderCases
<1>2. disk' = disk
  <2>1. cap \in {"stopped", "failed"} BY <1>1, <1>h DEF LossIsAnEnd
  <2> QED BY <2>1, StoppedCapture
<1>3. CASE insp' = insp /\ rd.pc = "lstat" BY <1>1, <1>2, <1>3, <1>h DEF LossIsInspected
<1>4. CASE ReaderReaddir
  <2>1. insp' = [n |-> Len(disk), sizes |-> <<>>, starts |-> <<>>, size |-> 0]
    BY <1>4 DEF ReaderReaddir, Readdir, NoInspection
  <2>2. Len(<<>>) = 0 OBVIOUS
  <2>3. insp'.n = Len(disk) /\ Len(insp'.sizes) = 0 BY <2>1, <2>2
  <2> QED BY <1>2, <2>3
<1>5. CASE ReaderLstat
  <2> DEFINE m == Len(insp.sizes)
             length == Len(disk[m + 1])
  <2>1. /\ rd.pc = "lstat" /\ m < insp.n
        /\ insp' = [insp EXCEPT !.sizes = Append(@, length), !.starts = Append(@, insp.size),
                                !.size = @ + length]
    BY <1>5 DEF ReaderLstat, Lstat, Reader
  <2>2. /\ insp.n = Len(disk) /\ \A i \in 1..m : insp.sizes[i] = Len(disk[i])
    BY <1>1, <1>h, <2>1, Zenon DEF LossIsInspected
  <2>3. insp.sizes \in Seq(Nat) /\ m \in Nat /\ insp.n \in Nat BY <1>t
  <2>4. length \in Nat
    <3>1. m + 1 \in 1..Len(disk) BY <2>1, <2>2, <2>3
    <3> QED BY <3>1, FileTypes, Zenon
  <2>5. insp'.n = insp.n /\ insp'.sizes = Append(insp.sizes, length) BY <1>t, <2>1
  <2> HIDE DEF length
  <2>6. /\ Len(insp'.sizes) = m + 1 /\ insp'.sizes[m + 1] = length
        /\ \A i \in 1..m : insp'.sizes[i] = insp.sizes[i]
    BY <2>3, <2>4, <2>5
  <2>7. \A i \in 1..m + 1 : i \in 1..m \/ i = m + 1 BY <2>3
  <2>8. \A i \in 1..m + 1 : insp'.sizes[i] = Len(disk[i])
    BY <2>2, <2>6, <2>7 DEF length
  <2> QED BY <1>2, <2>2, <2>5, <2>6, <2>8
<1> QED
  <2>1. ~(insp' = NoInspection /\ rd' = Idle) BY <1>i
  <2> QED BY <1>3, <1>4, <1>5, <2>1, InspectionSteps

\* A response reports the loss that its read began with.
LEMMA LossIsReportedStep ==
    ASSUME TypeOK, LossIsTracked, [Next]_vars
    PROVE  LossIsReported'
<1>h. LossIsCarried /\ LossIsReported BY Zenon DEF LossIsTracked
<1> SUFFICES ASSUME last'.alive, last'.dropped PROVE last'.state # "ACTIVE"
  BY DEF LossIsReported
<1>1. CASE \E offset : StartsRead(offset) BY <1>1 DEF StartsRead, NoResponse
<1>2. CASE MovesOn BY <1>2, <1>h, MovesOnEffect DEF LossIsReported
<1>3. CASE RespondOutput
  <2>1. \E stuck : last' = [alive |-> rd.alive, dropped |-> rd.dropped, state |-> rd.state,
                            stuck |-> stuck]
    BY <1>3, Zenon DEF RespondOutput
  <2>2. PICK stuck : last' = [alive |-> rd.alive, dropped |-> rd.dropped,
                              state |-> rd.state, stuck |-> stuck]
    BY <2>1
  <2>3. rd.alive /\ rd.dropped
    <3>1. last'.alive = rd.alive BY <2>2
    <3>2. last'.dropped = rd.dropped BY <2>2
    <3> QED BY <3>1, <3>2, Zenon
  <2>4. rd.pc = "bytes" BY <1>3 DEF RespondOutput
  <2>5. last'.state = rd.state BY <2>2
  <2> QED BY <1>h, <2>3, <2>4, <2>5 DEF LossIsCarried
<1>4. CASE ~ReaderSteps BY <1>4, <1>h, OthersKeepFollower DEF LossIsReported
<1> QED BY <1>1, <1>2, <1>3, <1>4, ReaderCases

\* All of it together.
LEMMA LossStep ==
    ASSUME TypeOK, FilesInOrder, CaptureHasReason, InventoryInOrder, LossIsTracked,
           [Next]_vars
    PROVE  LossIsTracked'
<1>1. LossIsAnEnd /\ PipeIsReported /\ CeilingIsFull BY Zenon DEF LossIsTracked
<1>2. LossIsAnEnd' BY <1>1, LossIsAnEndStep
<1>3. PipeIsReported' BY <1>1, PipeIsReportedStep
<1>4. LossIsCarried' BY LossIsCarriedStep
<1>5. LossIsInspected' BY LossIsInspectedStep
<1>6. LossIsReported' BY LossIsReportedStep
<1>7. CeilingIsFull' BY <1>1, CeilingIsFullStep
<1> QED BY <1>2, <1>3, <1>4, <1>5, <1>6, <1>7, Zenon DEF LossIsTracked

-----------------------------------------------------------------------------
(***************************************************************************)
(* The archive.                                                            *)
(***************************************************************************)

\* What TypeOK says of the archiver.
ArchiveTyped ==
    arch \in [pc : {"none", "copy", "accepted"}, sizes : Seq(Nat),
              copy : Seq(Seq(Nat)), state : States]

\* A record of the archiver.
LEMMA ArchiveRecord ==
    ASSUME NEW a, NEW pc \in {"none", "copy", "accepted"}, NEW sizes \in Seq(Nat),
           NEW copy \in Seq(Seq(Nat)), NEW state \in States,
           a = [pc |-> pc, sizes |-> sizes, copy |-> copy, state |-> state]
    PROVE  /\ a \in [pc : {"none", "copy", "accepted"}, sizes : Seq(Nat),
                     copy : Seq(Seq(Nat)), state : States]
           /\ a.pc = pc /\ a.sizes = sizes /\ a.copy = copy /\ a.state = state
OBVIOUS

\* The inventory of the archiver: every file but the last is full.
LEMMA SizesOfFiles ==
    ASSUME TypeOK, FilesInOrder
    PROVE  /\ Sizes \in Seq(Nat) /\ Len(Sizes) = Len(disk)
           /\ \A i \in 1..Len(disk) : Sizes[i] = Len(disk[i])
           /\ \A i \in 1..Len(Sizes) : i < Len(Sizes) => Sizes[i] = SegmentBytes
<1>1. Len(disk) \in Nat /\ \A i \in 1..Len(disk) : Len(disk[i]) \in Nat BY FileTypes, Zenon
<1>2. /\ Sizes \in Seq(Nat) /\ Len(Sizes) = Len(disk)
      /\ \A i \in 1..Len(disk) : Sizes[i] = Len(disk[i])
  BY <1>1 DEF Sizes
<1>3. \A i \in 1..Len(disk) : i < Len(disk) => Len(disk[i]) = SegmentBytes
  BY Zenon DEF FilesInOrder
<1> QED BY <1>2, <1>3

\* The archiver is left alone by the others.
LEMMA OthersKeepArchive == ASSUME [Next]_vars, ~Archive PROVE arch' = arch
<1> USE DEF captureVars, vars
<1>1. CASE CaptureSteps BY <1>1, CaptureEffect
<1>2. CASE ReaderSteps BY <1>2, ReaderEffect
<1>3. CASE CloserSteps BY <1>3, CloserEffect
<1>5. CASE OtherSteps BY <1>5, OtherEffect
<1>4. CASE UNCHANGED vars \/ (\E w \in Widths : Prints(w)) \/ ShellExits \/ HostDies
  BY <1>4 DEF Prints, ShellExits, HostDies
<1> QED BY <1>1, <1>2, <1>3, <1>4, <1>5, StepsByActor

\* The copies stay the beginning of the transcript.
LEMMA ArchiveStep ==
    ASSUME TypeOK, FilesInOrder, ArchiveInOrder, [Next]_vars
    PROVE  ArchiveInOrder' /\ ArchiveTyped'
<1>t. arch \in [pc : {"none", "copy", "accepted"}, sizes : Seq(Nat),
                copy : Seq(Seq(Nat)), state : States]
  BY RecordTypes, Zenon
<1>e. /\ arch.sizes \in Seq(Nat) /\ arch.copy \in Seq(Seq(Nat)) /\ arch.state \in States
      /\ Len(arch.sizes) \in Nat /\ Len(arch.copy) \in Nat
      /\ row.state \in States
  BY <1>t, RecordTypes
<1>r. arch = [pc |-> arch.pc, sizes |-> arch.sizes, copy |-> arch.copy, state |-> arch.state]
  BY <1>t
<1>s. /\ Sizes \in Seq(Nat) /\ Len(Sizes) = Len(disk)
      /\ \A i \in 1..Len(disk) : Sizes[i] = Len(disk[i])
      /\ \A i \in 1..Len(Sizes) : i < Len(Sizes) => Sizes[i] = SegmentBytes
  BY SizesOfFiles
<1>m. <<>> \in Seq(Nat) /\ <<>> \in Seq(Seq(Nat)) /\ Len(<<>>) = 0 OBVIOUS
<1>d. Len(disk) \in Nat /\ Len(disk') \in Nat /\ Len(disk) <= Len(disk')
  <2>1. disk' \in Seq(Seq(Nat)) /\ FilesGrow BY FilesStep, Zenon DEF FilesTyped
  <2>2. Len(disk) \in Nat BY FileTypes, Zenon
  <2> QED BY <2>1, <2>2 DEF FilesGrow
<1>0. CASE arch' = arch
  <2>1. ArchiveTyped' BY <1>t, <1>0 DEF ArchiveTyped
  <2>2. ASSUME arch.pc \in {"copy", "accepted"} PROVE Len(arch.sizes) <= Len(disk')
    BY <1>d, <1>e, <2>2 DEF ArchiveInOrder
  <2>3. ArchiveInOrder' BY <1>0, <2>2 DEF ArchiveInOrder
  <2> QED BY <2>1, <2>3
<1>f. CASE arch' = NoArchive
  <2>1. arch' = [pc |-> "none", sizes |-> <<>>, copy |-> <<>>, state |-> "ACTIVE"]
    BY <1>f DEF NoArchive
  <2>2. ArchiveTyped' /\ arch'.pc = "none"
    BY <1>m, <2>1, ArchiveRecord DEF ArchiveTyped, States
  <2> QED BY <2>2 DEF ArchiveInOrder
<1>1. CASE ArchiveStart
  <2>1. arch' = [pc |-> "copy", sizes |-> Sizes, copy |-> <<>>, state |-> row.state]
    BY <1>1 DEF ArchiveStart
  <2>2. /\ ArchiveTyped' /\ arch'.pc = "copy" /\ arch'.sizes = Sizes /\ arch'.copy = <<>>
    BY <1>e, <1>m, <1>s, <2>1, ArchiveRecord DEF ArchiveTyped
  <2>3. Len(Sizes) \in Nat /\ Len(Sizes) <= Len(disk') BY <1>s, <1>d
  <2>4. /\ Len(arch'.copy) = 0 /\ Len(arch'.copy) <= Len(arch'.sizes)
        /\ Len(arch'.sizes) <= Len(disk')
    BY <1>m, <2>2, <2>3
  <2>5. \A j \in 1..0 : FALSE OBVIOUS
  <2> QED BY <1>s, <2>2, <2>4, <2>5 DEF ArchiveInOrder
<1>2. CASE ArchiveCopy /\ arch' # NoArchive
  <2> DEFINE i == Len(arch.copy) + 1
             copy == Append(arch.copy, disk[i])
  <2>1. /\ arch.pc = "copy" /\ i <= Len(arch.sizes) /\ Len(disk[i]) = arch.sizes[i]
        /\ arch' = [arch EXCEPT !.copy = Append(@, disk[i])]
    BY <1>2 DEF ArchiveCopy
  <2>3. /\ Len(arch.copy) <= Len(arch.sizes) /\ Len(arch.sizes) <= Len(disk)
        /\ \A j \in 1..Len(arch.sizes) : j < Len(arch.sizes) => arch.sizes[j] = SegmentBytes
        /\ \A j \in 1..Len(arch.copy) :
              arch.copy[j] = [k \in 1..arch.sizes[j] |-> Before(j) + k]
    <3>1. arch.pc \in {"copy", "accepted"} BY <2>1
    <3> QED BY <3>1, Zenon DEF ArchiveInOrder
  <2>4. i \in 1..Len(disk) BY <1>d, <1>e, <2>1, <2>3
  <2>5. disk[i] \in Seq(Nat) BY <2>4, FileTypes, Zenon
  <2>6. disk[i] = [k \in 1..arch.sizes[i] |-> Before(i) + k]
    <3>1. \A k \in 1..Len(disk[i]) : disk[i][k] = Before(i) + k
      BY <2>4, Zenon DEF FilesInOrder
    <3>2. \A q \in Seq(Nat) : q = [k \in 1..Len(q) |-> q[k]] OBVIOUS
    <3> HIDE DEF i
    <3>3. disk[i] = [k \in 1..Len(disk[i]) |-> disk[i][k]] BY <2>5, <3>2, Zenon
    <3> QED BY <2>1, <3>1, <3>3
  <2>7. copy \in Seq(Seq(Nat)) /\ Len(copy) = i /\ copy[i] = disk[i]
        /\ \A j \in 1..Len(arch.copy) : copy[j] = arch.copy[j]
    BY <1>e, <2>5
  <2>8. arch' = [pc |-> "copy", sizes |-> arch.sizes, copy |-> copy, state |-> arch.state]
    BY <1>t, <2>1
  <2> HIDE DEF copy
  <2>9. /\ ArchiveTyped' /\ arch'.pc = "copy" /\ arch'.sizes = arch.sizes
        /\ arch'.copy = copy
    <3>1. "copy" \in {"none", "copy", "accepted"} OBVIOUS
    <3> QED BY <1>e, <2>7, <2>8, <3>1, ArchiveRecord, Zenon DEF ArchiveTyped
  <2>10. \A j \in 1..i : copy[j] = [k \in 1..arch.sizes[j] |-> Before(j) + k]
    <3> TAKE j \in 1..i
    <3>1. CASE j \in 1..Len(arch.copy) BY <2>3, <2>7, <3>1
    <3>2. CASE j = i BY <2>6, <2>7, <3>2
    <3>3. j \in 1..Len(arch.copy) \/ j = i BY <1>e
    <3> QED BY <3>1, <3>2, <3>3
  <2>11. Len(arch.sizes) <= Len(disk') BY <1>d, <1>e, <2>3
  <2>12. /\ Len(arch'.copy) <= Len(arch'.sizes) /\ Len(arch'.sizes) <= Len(disk')
         /\ Len(arch'.copy) = i /\ arch'.pc # "accepted"
    BY <2>1, <2>7, <2>9, <2>11
  <2> HIDE DEF i
  <2>13. \A j \in 1..Len(arch'.sizes) :
            j < Len(arch'.sizes) => arch'.sizes[j] = SegmentBytes
    BY <2>3, <2>9
  <2>14. \A j \in 1..Len(arch'.copy) :
            arch'.copy[j] = [k \in 1..arch'.sizes[j] |-> Before(j) + k]
    BY <2>9, <2>10, <2>12
  <2>15. ArchiveInOrder' BY <2>12, <2>13, <2>14, Zenon DEF ArchiveInOrder
  <2> QED BY <2>9, <2>15
<1>3. CASE ArchiveAccept /\ arch' # NoArchive
  <2>1. /\ arch.pc = "copy" /\ Len(arch.copy) = Len(arch.sizes) /\ Sizes = arch.sizes
        /\ arch' = [arch EXCEPT !.pc = "accepted", !.sizes = Sizes]
    BY <1>3 DEF ArchiveAccept, NothingChanged
  <2>2. arch' = [pc |-> "accepted", sizes |-> arch.sizes, copy |-> arch.copy,
                 state |-> arch.state]
    BY <1>t, <2>1
  <2>3. /\ ArchiveTyped' /\ arch'.pc = "accepted" /\ arch'.sizes = arch.sizes
        /\ arch'.copy = arch.copy
    BY <1>e, <2>2, ArchiveRecord DEF ArchiveTyped
  <2>4. arch.pc \in {"copy", "accepted"} BY <2>1
  <2>5. Len(arch.sizes) <= Len(disk') BY <1>d, <1>e, <2>4 DEF ArchiveInOrder
  <2> QED BY <2>1, <2>3, <2>4, <2>5 DEF ArchiveInOrder
<1> QED BY <1>0, <1>f, <1>1, <1>2, <1>3, OthersKeepArchive DEF Archive

-----------------------------------------------------------------------------
(***************************************************************************)
(* The invariants.                                                         *)
(***************************************************************************)

\* TypeOK, part by part.
LEMMA TypesByPart ==
    TypeOK <=> /\ PipeTyped /\ FilesTyped /\ RowTyped /\ ReaderTyped
               /\ FollowerTyped /\ ArchiveTyped
BY Zenon DEF TypeOK, PipeTyped, FilesTyped, RowTyped, ReaderTyped, FollowerTyped, ArchiveTyped,
   OtherStates

\* The initial states.
LEMMA InitiallyTrue == Init => TypeOK /\ IInv
<1> SUFFICES ASSUME Init PROVE TypeOK /\ IInv OBVIOUS
<1>c. /\ MaxPrinted \in Nat /\ Maximum \in Nat \ {0}
      /\ SegmentBytes \in Nat \ {0} /\ Open = MaxPrinted + 1
  BY Constants
<1>i. /\ stream = <<>> /\ alive = TRUE /\ pipeEnd = Open /\ cap = "run" /\ taken = 0
      /\ index = 1 /\ buffer = <<>> /\ disk = << <<>> >> /\ marker = FALSE
      /\ row = [closed |-> FALSE, state |-> "ACTIVE"]
      /\ closer = [pc |-> "none", state |-> "ACTIVE"]
      /\ rd = Idle /\ insp = NoInspection /\ base = 0 /\ got = <<>> /\ cursor = 0
      /\ last = NoResponse
      /\ arch = [pc |-> "none", sizes |-> <<>>, copy |-> <<>>, state |-> "ACTIVE"]
      /\ other = [o \in Others |-> NoRead] /\ forgotten = FALSE
  BY DEF Init, NoClose, NoArchive
<1>e. /\ Len(<<>>) = 0 /\ <<>> \in Seq(Nat) /\ <<>> \in Seq(Seq(Nat))
      /\ <<>> \in Seq(Widths \X (1..4))
  OBVIOUS
<1>d. disk \in Seq(Seq(Nat)) /\ Len(disk) = 1 /\ disk[1] = <<>> BY <1>i, <1>e
<1>1. PipeTyped
  <2>1. stream \in Seq(Widths \X (1..4)) /\ Len(stream) <= MaxPrinted BY <1>c, <1>i, <1>e
  <2>2. pipeEnd \in 0..Open BY <1>c, <1>i
  <2>3. alive \in BOOLEAN /\ marker \in BOOLEAN BY <1>i
  <2>4. cap \in {"run", "marking", "ending", "stopped", "failed"} BY <1>i
  <2> QED BY <2>1, <2>2, <2>3, <2>4 DEF PipeTyped
<1>2. FilesTyped BY <1>c, <1>i, <1>e, <1>d DEF FilesTyped
<1>3. RowTyped
  <2>1. NoRead \in OtherStates BY DEF NoRead, OtherStates, States
  <2>2. other \in [Others -> OtherStates] BY <1>i, <2>1
  <2>3. /\ row \in [closed : BOOLEAN, state : States] /\ forgotten \in BOOLEAN
        /\ closer \in [pc : {"none", "killed", "read"}, state : States]
    BY <1>i DEF States
  <2> QED BY <2>2, <2>3 DEF RowTyped
<1>n. /\ insp = [n |-> 0, sizes |-> <<>>, starts |-> <<>>, size |-> 0]
      /\ insp.n = 0 /\ insp.sizes = <<>> /\ insp.starts = <<>> /\ insp.size = 0
  BY <1>i DEF NoInspection
<1>4. ReaderTyped
  <2>1. insp \in [n : Nat, sizes : Seq(Nat), starts : Seq(Nat), size : Nat] BY <1>n, <1>e
  <2>2. rd \in [pc : ReaderPlaces, off : Nat, state : States, alive : BOOLEAN,
                dropped : BOOLEAN, closed : BOOLEAN]
    BY <1>i DEF Idle, ReaderPlaces, States
  <2> QED BY <2>1, <2>2 DEF ReaderTyped
<1>5. FollowerTyped
  <2>1. last \in [alive : BOOLEAN, dropped : BOOLEAN, state : States, stuck : BOOLEAN]
    BY <1>i DEF NoResponse, States
  <2> QED BY <1>c, <1>i, <1>e, <2>1 DEF FollowerTyped
<1>6. ArchiveTyped
  <2>1. "none" \in {"none", "copy", "accepted"} /\ "ACTIVE" \in States BY DEF States
  <2> QED BY <1>i, <1>e, <2>1, ArchiveRecord, Zenon DEF ArchiveTyped
<1>7. WholeCharacters
  <2>1. \A p \in 1..0 : FALSE OBVIOUS
  <2> QED BY <1>i, <1>e, <2>1 DEF WholeCharacters
<1>8. FilesInOrder
  <2>1. SegmentSize = 0 BY <1>i, <1>e, <1>d DEF SegmentSize
  <2>2. Before(1) = 0 BY BeforeFacts
  <2>3. \A k \in 1..0 : FALSE OBVIOUS
  <2>4. \A i \in 1..1 : i = 1 OBVIOUS
  <2>5. \A i \in 1..Len(disk) : i < Len(disk) \/ index > Len(disk) => Len(disk[i]) = SegmentBytes
    BY <1>i, <1>d, <2>4
  <2>6. \A i \in 1..Len(disk) : \A k \in 1..Len(disk[i]) : disk[i][k] = Before(i) + k
    <3>1. \A i \in 1..Len(disk) : Len(disk[i]) = 0 BY <1>d, <1>e, <2>4
    <3> QED BY <2>3, <3>1
  <2>7. \A k \in 1..Len(buffer) : buffer[k] = taken - Len(buffer) + k BY <1>i, <1>e, <2>3
  <2>8. taken = Before(index) + SegmentSize /\ SegmentSize <= SegmentBytes /\ Len(disk) > 0
    BY <1>c, <1>i, <1>d, <2>1, <2>2
  <2> QED BY <2>5, <2>6, <2>7, <2>8 DEF FilesInOrder
<1>9. CaptureHasReason BY <1>c, <1>i, <1>e DEF CaptureHasReason, Piped
<1>r. rd.pc = "idle" /\ ~rd.closed /\ rd.state = "ACTIVE" /\ ~rd.alive /\ ~rd.dropped
  BY <1>i DEF Idle
<1>10. InventoryInOrder
  <2>1. /\ \A i \in 1..0 : FALSE
        /\ \A p \in 0..0 - 1 : FALSE
    OBVIOUS
  <2>2. Len(insp.sizes) = 0 /\ Len(insp.starts) = 0 BY <1>n, <1>e
  <2> QED BY <1>n, <1>d, <1>r, <2>1, <2>2 DEF InventoryInOrder
<1>11. FollowerInOrder
  <2>1. got = [i \in 1..Len(got) |-> base + i] BY <1>i, <1>e
  <2> QED BY <1>i, <1>e, <1>r, <2>1 DEF FollowerInOrder, TextIsUnbroken, TextIsWhole
<1>l. ~last.stuck /\ ~last.alive BY <1>i DEF NoResponse
<1>12. ReadsSucceed BY <1>r, <1>l DEF ReadsSucceed
<1>14. LossIsTracked
  BY <1>i, <1>r, <1>l DEF LossIsTracked, LossIsAnEnd, CeilingIsFull, PipeIsReported,
     LossIsCarried, LossIsInspected, LossIsReported
<1>15. ArchiveInOrder BY <1>i DEF ArchiveInOrder
<1> QED BY <1>1, <1>2, <1>3, <1>4, <1>5, <1>6, <1>7, <1>8, <1>9, <1>10, <1>11, <1>12,
           <1>14, <1>15, TypesByPart, Zenon DEF IInv

\* Every step keeps the invariant.
LEMMA StepKeepsAll ==
    ASSUME TypeOK, IInv, [Next]_vars
    PROVE  TypeOK' /\ IInv'
<1>i. /\ WholeCharacters /\ FilesInOrder /\ CaptureHasReason /\ InventoryInOrder
      /\ FollowerInOrder /\ ReadsSucceed /\ LossIsTracked /\ ArchiveInOrder
  BY Zenon DEF IInv
<1>1. WholeCharacters' BY <1>i, WholeCharactersStep
<1>2. FilesTyped' /\ FilesInOrder' BY <1>i, FilesStep
<1>3. CaptureHasReason' /\ PipeTyped' BY <1>i, ReasonStep
<1>4. InventoryInOrder' BY <1>i, InventoryStep
<1>5. FollowerInOrder' /\ FollowerTyped'
  <2>1. ~last.stuck BY <1>i DEF ReadsSucceed
  <2> QED BY <1>i, <2>1, FollowerStep, Zenon
<1>6. ReadsSucceed' BY <1>i, ReadsStep, Zenon
<1>8. LossIsTracked' BY <1>i, LossStep, Zenon
<1>9. ArchiveInOrder' /\ ArchiveTyped' BY <1>i, ArchiveStep
<1>10. RowTyped' BY RowStep
<1>11. ReaderTyped' BY <1>i, ReaderStep
<1>12. TypeOK'
  <2>1. (TypeOK <=> /\ PipeTyped /\ FilesTyped /\ RowTyped /\ ReaderTyped
                    /\ FollowerTyped /\ ArchiveTyped)'
    BY TypesByPart, PTL
  <2> QED BY <1>2, <1>3, <1>5, <1>9, <1>10, <1>11, <2>1
<1>13. IInv' BY <1>1, <1>2, <1>3, <1>4, <1>5, <1>6, <1>8, <1>9, Zenon DEF IInv
<1> QED BY <1>12, <1>13

\* The invariant holds in every reachable state.
LEMMA Inductive == Spec => [](TypeOK /\ IInv)
<1>1. Init => TypeOK /\ IInv BY InitiallyTrue
<1>2. TypeOK /\ IInv /\ [Next]_vars => (TypeOK /\ IInv)' BY StepKeepsAll
<1> QED BY <1>1, <1>2, PTL DEF Spec

\* The variables of the terminal, its capture, its readers and its archive have the
\* types that the code gives them: a transcript within its maximum, segments within
\* theirs, the state of the capture one of the three that a row may have.
THEOREM TypeCorrect == Spec => []TypeOK
<1> QED BY Inductive, PTL

\* A follower that comes back with the cursor it was given gets every byte once and
\* in order, though the capture process writes, flushes and begins segments between
\* the steps of the read, and the files are inspected one by one: what an inventory
\* counted is the beginning of the transcript, and the bytes of its range are where
\* it says, whatever has been added since (readOutput, outputRange,
\* readTranscriptBytes).
THEOREM TextIsUnbrokenHolds == Spec => []TextIsUnbroken
<1>1. IInv => TextIsUnbroken BY DEF IInv, FollowerInOrder
<1> QED BY <1>1, Inductive, PTL

\* The text a follower has starts with the first byte of a character and ends with
\* the last byte of one, wherever segments, writes, inventories and reads ended:
\* utf8SafePrefixLength cuts only behind whole characters, and the bytes skipped at an
\* offset within one are reported as a gap.
THEOREM TextIsWholeHolds == Spec => []TextIsWhole
<1>1. IInv => TextIsWhole BY DEF IInv, FollowerInOrder
<1> QED BY <1>1, Inductive, PTL

\* The inventory of a transcript that is being written is never refused as damaged,
\* and a read that is given room for one byte returns a whole character if there is
\* one: the three bytes that readOutput adds to the request always suffice
\* (inspectTranscriptSegments, utf8SafePrefixLength).
THEOREM ReadsSucceedHolds == Spec => []ReadsSucceed
<1>1. IInv => ReadsSucceed BY DEF IInv
<1> QED BY <1>1, Inductive, PTL

\* Whether the stop record, the row, the closed pipe or the ceiling tells of it: a
\* response for a terminal that is running does not say ACTIVE if output had been lost
\* before the read, with any number of other reads that close the pipe, save the row or
\* fail beside it, closes that miss the terminal, and restarts (observeCaptureStop,
\* enforceCaptureReserve, enforceCaptureCeiling, updateTranscript).  Losses of which
\* nothing is recorded are not covered: see Recorded.
THEOREM LossIsReportedHolds == Spec => []LossIsReported
<1>1. IInv => LossIsReported BY DEF IInv, LossIsTracked
<1> QED BY <1>1, Inductive, PTL

\* The files of an accepted archive, one behind the other, are the beginning of the
\* transcript, each byte once: comparing the inventories before and after is enough,
\* because files only grow and only the last one does (copyChecked, archiveTerminal).
THEOREM ArchiveIsASnapshotHolds == Spec => []ArchiveIsASnapshot
<1>1. ASSUME TypeOK, ArchiveInOrder PROVE ArchiveIsASnapshot
  <2>1. CASE arch.pc # "accepted" BY <2>1 DEF ArchiveIsASnapshot
  <2>2. CASE arch.pc = "accepted"
    <3>1. /\ Len(arch.copy) = Len(arch.sizes)
          /\ \A i \in 1..Len(arch.sizes) : i < Len(arch.sizes) => arch.sizes[i] = SegmentBytes
          /\ \A i \in 1..Len(arch.copy) :
                arch.copy[i] = [k \in 1..arch.sizes[i] |-> Before(i) + k]
      <4>1. arch.pc \in {"copy", "accepted"} BY <2>2
      <4> QED BY <1>1, <2>2, <4>1, Zenon DEF ArchiveInOrder
    <3>2. Len(arch.sizes) \in Nat /\ SegmentBytes \in Nat \ {0}
      <4>1. arch \in [pc : {"none", "copy", "accepted"}, sizes : Seq(Nat),
                      copy : Seq(Seq(Nat)), state : States]
        BY <1>1, RecordTypes, Zenon
      <4> QED BY <4>1, Constants
    <3>3. ASSUME NEW i \in 1..Len(arch.copy)
          PROVE  Before(i) = IF i = 1 THEN 0 ELSE arch.copy[i - 1][arch.sizes[i - 1]]
      <4>1. CASE i = 1 BY <4>1, BeforeFacts
      <4>2. CASE i # 1
        <5>1. /\ i - 1 \in 1..Len(arch.copy) /\ i - 1 \in 1..Len(arch.sizes)
              /\ i - 1 < Len(arch.sizes) /\ i - 1 \in Nat \ {0} /\ (i - 1) + 1 = i
          BY <3>1, <3>2, <4>2
        <5>2. arch.sizes[i - 1] = SegmentBytes BY <3>1, <5>1
        <5>3. arch.copy[i - 1] = [k \in 1..SegmentBytes |-> Before(i - 1) + k]
          BY <3>1, <5>1, <5>2
        <5>4. SegmentBytes \in 1..SegmentBytes BY <3>2
        <5>5. arch.copy[i - 1][arch.sizes[i - 1]] = Before(i - 1) + SegmentBytes
          BY <5>2, <5>3, <5>4
        <5>6. Before((i - 1) + 1) = Before(i - 1) + SegmentBytes
          BY <5>1, BeforeFacts, Zenon
        <5> QED BY <4>2, <5>1, <5>5, <5>6
      <4> QED BY <4>1, <4>2
    <3> QED BY <3>1, <3>3 DEF ArchiveIsASnapshot
  <2> QED BY <2>1, <2>2
<1>2. TypeOK /\ IInv => ArchiveIsASnapshot BY <1>1 DEF IInv
<1> QED BY <1>2, Inductive, PTL
=============================================================================
