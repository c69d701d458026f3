-------------------------------- MODULE Wal ---------------------------------
(***************************************************************************)
(* The write-ahead log of the extreme mode: wal.go.                        *)
(*                                                                         *)
(* Write, Read, Truncate and the flusher's work are done under w.mu.  What *)
(* is in the bufio buffer, or in the file and not synced, is lost in a     *)
(* crash but for some prefix, whose last entry may be cut in the middle    *)
(* (Torn); the log is opened again with O_APPEND, behind whatever is left. *)
(* An entry is the number of its Write.                                    *)
(***************************************************************************)
EXTENDS Naturals, Sequences, SequencesExt

CONSTANTS
  BatchEvery,     \* entries between two syncs of SyncBatch (100)
  MaxWalWrites, MaxWalCrashes, MaxWalFaults   \* bounds on Write, on crashes, on failing I/O

ASSUME WalAssumption == BatchEvery \in Nat \ {0} /\ {MaxWalWrites, MaxWalCrashes, MaxWalFaults} \subseteq Nat

VARIABLES
  walPolicy,    \* w.syncPolicy
  walFile,      \* what a sync has made durable
  walBuf,       \* what was written since
  walEntries,   \* w.entries
  walSignal,    \* the channel w.flusher holds a signal
  walFlusher,   \* periodicFlusher: "waiting", "woken" or "stopped"
  walState,     \* "open", or how it ended: "closed", "failed", "crashed"
  walBroken,    \* the writer keeps the error of a write that failed
  walShut,      \* w.file was closed by a Truncate that could not open it again
  walNext,      \* the next entry
  walCrashes, walFaults,
  walAcked,     \* history: entries whose Write returned nil since the log was truncated
  walRead       \* history: what the last Read returned

walVars == <<walPolicy, walFile, walBuf, walEntries, walSignal, walFlusher, walState, walBroken, walShut, walNext,
             walCrashes, walFaults, walAcked, walRead>>

Torn == 0
Policies == {"always", "periodic", "batch", "never"}

WalInit ==
  /\ walPolicy \in Policies
  /\ walFile = <<>> /\ walBuf = <<>> /\ walEntries = 0 /\ walBroken = FALSE /\ walShut = FALSE
  /\ walSignal = FALSE
  /\ walFlusher = (IF walPolicy = "periodic" THEN "waiting" ELSE "stopped")
  /\ walState = "open" /\ walNext = 1 /\ walCrashes = 0 /\ walFaults = 0
  /\ walAcked = {} /\ walRead = <<>>

-----------------------------------------------------------------------------
\* Mutant: flush leaves out the Sync.
FlushedUnsynced(buf) ==
  /\ ~walBroken /\ ~walShut
  /\ walBuf' = buf
  /\ UNCHANGED <<walFile, walBroken, walFaults>>
\* flush: the buffer reaches the file and the disk, or one of the two calls fails;
\* only the error of the writer is remembered.
FlushedWal(buf) ==
  /\ ~walBroken /\ ~walShut
  /\ walFile' = walFile \o buf /\ walBuf' = <<>>
  /\ UNCHANGED <<walBroken, walFaults>>
FlushFailed(buf) ==
  /\ walBuf' = buf /\ UNCHANGED walFile
  /\ \/ walBroken /\ UNCHANGED <<walBroken, walFaults>>
     \/ ~walBroken /\ walShut /\ walBroken' = (buf # <<>>) /\ UNCHANGED walFaults
     \/ /\ ~walBroken /\ ~walShut /\ walFaults < MaxWalFaults
        /\ walFaults' = walFaults + 1 /\ walBroken' \in BOOLEAN

\* Write, by its policy; the signal is sent only when the channel is empty.
SyncsNow(n) == walPolicy = "always" \/ (walPolicy = "batch" /\ n % BatchEvery = 0)
WalWrite ==
  /\ walState = "open" /\ walNext <= MaxWalWrites
  /\ walNext' = walNext + 1
  /\ \/ /\ walBroken
        /\ UNCHANGED <<walFile, walBuf, walEntries, walSignal, walBroken, walFaults, walAcked>>
     \/ /\ ~walBroken
        /\ walEntries' = walEntries + 1
        /\ LET buf == Append(walBuf, walNext)
           IN IF SyncsNow(walEntries')
              THEN \/ FlushedWal(buf) /\ walAcked' = walAcked \union {walNext}
                   \/ FlushFailed(buf) /\ UNCHANGED walAcked
              ELSE /\ walBuf' = buf /\ walAcked' = walAcked \union {walNext}
                   /\ UNCHANGED <<walFile, walBroken, walFaults>>
        /\ walSignal' = (walPolicy = "periodic" \/ walSignal)
  /\ UNCHANGED <<walPolicy, walFlusher, walState, walShut, walCrashes, walRead>>

\* periodicFlusher takes the signal, or a tick, and then the lock.
FlusherWakes ==
  /\ walState = "open" /\ walFlusher = "waiting"
  /\ walSignal' \in (IF walSignal THEN BOOLEAN ELSE {FALSE})
  /\ walFlusher' = "woken"
  /\ UNCHANGED <<walPolicy, walFile, walBuf, walEntries, walState, walBroken, walShut, walNext, walCrashes, walFaults,
                 walAcked, walRead>>
FlusherFlushes ==
  /\ walState = "open" /\ walFlusher = "woken"
  /\ walFlusher' = "waiting"
  /\ FlushedWal(walBuf) \/ FlushFailed(walBuf)
  /\ UNCHANGED <<walPolicy, walEntries, walSignal, walState, walShut, walNext, walCrashes, walAcked, walRead>>

\* readEntry stops at the first entry that is not whole: the bytes after it do not
\* have its checksum.
Whole(s) == LET i == SelectInSeq(s, LAMBDA e : e = Torn) IN IF i = 0 THEN s ELSE SubSeq(s, 1, i - 1)
\* Read does not flush: what is in the buffer may have reached the file or not.
ReadWal ==
  /\ walState = "open"
  /\ \E n \in 0..Len(walBuf) : walRead' = Whole(walFile \o SubSeq(walBuf, 1, n))
  /\ UNCHANGED <<walPolicy, walFile, walBuf, walEntries, walSignal, walFlusher, walState, walBroken, walShut, walNext,
                 walCrashes, walFaults, walAcked>>

\* Truncate makes a new file and a new writer, or leaves the old one closed.
TruncateWal ==
  /\ walState = "open" /\ ~walShut
  /\ \/ /\ walFile' = <<>> /\ walBuf' = <<>> /\ walEntries' = 0 /\ walBroken' = FALSE /\ walAcked' = {}
        /\ UNCHANGED <<walShut, walFaults>>
     \/ /\ walFaults < MaxWalFaults /\ walFaults' = walFaults + 1 /\ walShut' = TRUE
        /\ UNCHANGED <<walFile, walBuf, walEntries, walBroken, walAcked>>
  /\ walRead' = <<>>
  /\ UNCHANGED <<walPolicy, walSignal, walFlusher, walState, walNext, walCrashes>>

\* Close ends the flusher and flushes.
CloseWal ==
  /\ walState = "open"
  /\ walFlusher' = "stopped"
  /\ \/ FlushedWal(walBuf) /\ walState' = "closed"
     \/ FlushFailed(walBuf) /\ walState' = "failed"
  /\ UNCHANGED <<walPolicy, walEntries, walSignal, walShut, walNext, walCrashes, walAcked, walRead>>

CrashWal ==
  /\ walState \in {"open", "failed"} /\ walCrashes < MaxWalCrashes
  /\ walCrashes' = walCrashes + 1 /\ walState' = "crashed"
  /\ \E n \in 0..Len(walBuf) :
       \E tail \in (IF n < Len(walBuf) THEN {<<>>, <<Torn>>} ELSE {<<>>}) :
         walFile' = walFile \o SubSeq(walBuf, 1, n) \o tail
  /\ walBuf' = <<>> /\ walFlusher' = "stopped"
  /\ UNCHANGED <<walPolicy, walEntries, walSignal, walBroken, walShut, walNext, walFaults, walAcked, walRead>>

NewWAL ==
  /\ walState \in {"closed", "crashed"}
  /\ walState' = "open" /\ walEntries' = 0 /\ walSignal' = FALSE /\ walBroken' = FALSE /\ walShut' = FALSE
  /\ walFlusher' = (IF walPolicy = "periodic" THEN "waiting" ELSE "stopped")
  /\ UNCHANGED <<walPolicy, walFile, walBuf, walNext, walCrashes, walFaults, walAcked, walRead>>

WalNextStep ==
  \/ WalWrite \/ FlusherWakes \/ FlusherFlushes \/ ReadWal \/ TruncateWal \/ CloseWal \/ CrashWal \/ NewWAL
WalSpec == WalInit /\ [][WalNextStep]_walVars

-----------------------------------------------------------------------------
KeptEntries == ToSet(Whole(walFile))
CutShort == Torn \in ToSet(walFile)

\* SyncAlways: an entry that was accepted is found again after any crash, unless an
\* earlier crash has cut an entry in front of it.
AcceptedIsKept == walPolicy = "always" /\ ~CutShort => walAcked \subseteq KeptEntries
\* SyncBatch: fewer than BatchEvery accepted entries can be lost.
BatchLossBounded ==
  walPolicy = "batch" /\ walFaults = 0 /\ walState = "open" => Len(walBuf) < BatchEvery
\* SyncPeriodic: what is in the buffer has woken the flusher or is about to.
FlushIsComing ==
  walPolicy = "periodic" /\ walState = "open" /\ walFaults = 0 /\ walBuf # <<>>
    => walSignal \/ walFlusher = "woken"
\* A log that was closed lacks nothing of what it accepted while nothing had crashed.
ClosedIsComplete ==
  walState = "closed" /\ walCrashes = 0 => walAcked \subseteq KeptEntries
\* Read returns entries in the order of their Writes.
ReadInOrder == \A i, j \in DOMAIN walRead : i < j => walRead[i] < walRead[j]
\* The log loses no more than its policy allows, and gives back in order what it kept.
WalSound == AcceptedIsKept /\ BatchLossBounded /\ FlushIsComing /\ ClosedIsComplete /\ ReadInOrder
=============================================================================
