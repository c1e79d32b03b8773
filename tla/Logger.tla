------------------------------- MODULE Logger -------------------------------
(***************************************************************************)
(* One log file of the logger: writers fill a buffer, a ticker moves the   *)
(* buffer to a bounded queue, a goroutine flushes the queue to disk and    *)
(* rotates the file by size and by hour, and backup goroutines move the    *)
(* files of a finished hour away.  A line is its number; a file is named   *)
(* by directory, hour and order number (Plain for the file being filled).  *)
(***************************************************************************)
EXTENDS Integers, Sequences, FiniteSets, Functions

CONSTANTS
  QueueSize,     \* capacity of bufferQueue
  MaxFileSize,   \* lines after which a file is split
  MaxFileCount,  \* order numbers of one hour
  MaxLines,      \* bound: lines written
  MaxHour,       \* bound: hours
  MaxLogFaults      \* bound: failures to create or to write a file

ASSUME LogAssumption ==
  /\ QueueSize \in Nat \ {0} /\ MaxFileSize \in Nat /\ MaxFileCount \in Nat \ {0}
  /\ MaxLines \in Nat /\ MaxHour \in Nat \ {0} /\ MaxLogFaults \in Nat

Plain == -1
NoFile == <<>>
Name(dir, h, order) == <<dir, h, order>>

VARIABLES
  now,        \* the hour on the clock
  lines,      \* lines written
  buffer, bufferQueue,
  locked,     \* the ticker waits for room with bufferInfoLock held
  fpc,        \* where FlushBufferQueue is
  batch,      \* the buffer it has taken
  hour, fileOrder,
  files,      \* contents of the files, by name
  logFile,    \* the file open for appending, NoFile when creating it failed
  link,       \* the file the symlink points to
  backups,    \* hours with a LoggerBackup goroutine to run
  purged,    \* history: lines deleted with an old file ...
  reused,     \* ... under which fileOrder,
  failed,     \* history: lines not written because a call failed
  lfaults,
  struck      \* history: the clock struck between two readings of it

logVars == <<now, lines, buffer, bufferQueue, locked, fpc, batch, hour, fileOrder,
          files, logFile, link, backups, purged, reused, failed, lfaults, struck>>
writerVars == <<lines, buffer, bufferQueue, locked>>
diskVars == <<files, logFile, link, purged, reused>>

\* NewLoggerInfo reads the clock once for hour and once in CreateFile.
LogInit ==
  /\ now \in {0, 1}
  /\ lines = 0
  /\ buffer = <<>>
  /\ bufferQueue = <<>>
  /\ locked = FALSE
  /\ fpc = "idle"
  /\ batch = <<>>
  /\ hour = 0
  /\ fileOrder = 0
  /\ logFile = Name("log", now, Plain)
  /\ link = logFile
  /\ files = [n \in {logFile} |-> <<>>]
  /\ backups = {}
  /\ purged = {}
  /\ reused = {}
  /\ failed = {}
  /\ lfaults = 0
  /\ struck = (now # hour)

-----------------------------------------------------------------------------
\* LoggerInfo.Write, for every level that is logged.
Write ==
  /\ ~locked
  /\ lines < MaxLines
  /\ lines' = lines + 1
  /\ buffer' = Append(buffer, lines')
  /\ UNCHANGED <<now, bufferQueue, locked, fpc, batch, hour, fileOrder, diskVars,
                 backups, failed, lfaults, struck>>

\* WriteBufferToQueue: the ticker fires and the queue is full.
Block ==
  /\ ~locked
  /\ buffer # <<>>
  /\ Len(bufferQueue) = QueueSize
  /\ locked' = TRUE
  /\ UNCHANGED <<now, lines, buffer, bufferQueue, fpc, batch, hour, fileOrder,
                 diskVars, backups, failed, lfaults, struck>>

\* WriteBufferToQueue: the buffer goes on the queue and a new one begins.
Enqueue ==
  /\ buffer # <<>>
  /\ Len(bufferQueue) < QueueSize
  /\ bufferQueue' = Append(bufferQueue, buffer)
  /\ buffer' = <<>>
  /\ locked' = FALSE
  /\ UNCHANGED <<now, lines, fpc, batch, hour, fileOrder, diskVars, backups,
                 failed, lfaults, struck>>

Strike ==
  /\ now < MaxHour
  /\ now' = now + 1
  /\ struck' = (struck \/ fpc = "hour")
  /\ UNCHANGED <<writerVars, fpc, batch, hour, fileOrder, diskVars, backups,
                 failed, lfaults>>

-----------------------------------------------------------------------------
\* CreateFile: the file of the hour on the clock is opened for appending, and
\* the symlink set, whether or not opening it worked.
CreateFile(f) ==
  LET n == Name("log", now, Plain)
  IN  /\ link' = n
      /\ \/ /\ files' = [x \in DOMAIN f \cup {n} |-> IF x \in DOMAIN f THEN f[x] ELSE <<>>]
            /\ logFile' = n
            /\ UNCHANGED lfaults
         \/ /\ lfaults < MaxLogFaults
            /\ lfaults' = lfaults + 1
            /\ files' = f
            /\ logFile' = NoFile

\* FlushBufferQueue takes a buffer and asks NeedSplit, which creates the file
\* again when the symlink leads nowhere.
Take ==
  /\ fpc = "idle"
  /\ bufferQueue # <<>>
  /\ batch' = Head(bufferQueue)
  /\ bufferQueue' = Tail(bufferQueue)
  /\ \/ /\ now > hour
        /\ fpc' = "rotate"
        /\ UNCHANGED <<diskVars, lfaults>>
     \/ /\ now <= hour
        /\ link \in DOMAIN files
        /\ fpc' = IF Len(files[link]) > MaxFileSize THEN "split" ELSE "write"
        /\ UNCHANGED <<diskVars, lfaults>>
     \/ /\ now <= hour
        /\ link \notin DOMAIN files
        /\ CreateFile(files)
        /\ fpc' = "write"
        /\ UNCHANGED <<purged, reused>>
  /\ UNCHANGED <<now, lines, buffer, locked, hour, fileOrder, backups, failed, struck>>

\* os.Remove of an older file and os.Rename, which fails without a file.
Renamed(f, from, to) ==
  LET rest == DOMAIN f \ {from, to}
  IN  [n \in rest \cup (IF from \in DOMAIN f THEN {to} ELSE {}) |->
         IF n = to THEN f[from] ELSE f[n]]

\* Mutant of OrderName: the order number is not part of the name.
OrderNameFixed == Name("log", hour, 0)

\* The name a full file gets: order numbers start again after maxFileCount.
OrderName == Name("log", hour, fileOrder % MaxFileCount)

\* The file is moved to its order number, in place of an older file there.
Move ==
  /\ CreateFile(Renamed(files, link, OrderName))
  /\ IF OrderName \in DOMAIN files
     THEN /\ purged' = purged \cup Range(files[OrderName])
          /\ reused' = reused \cup {fileOrder}
     ELSE UNCHANGED <<purged, reused>>

\* The file is too large.
Split ==
  /\ fpc = "split"
  /\ Move
  /\ fileOrder' = fileOrder + 1
  /\ fpc' = "write"
  /\ UNCHANGED <<now, writerVars, batch, hour, backups, failed, struck>>

\* The hour is over: the last part of a split hour gets an order number too.
Rotate ==
  /\ fpc = "rotate"
  /\ IF fileOrder # 0 THEN Move
     ELSE CreateFile(files) /\ UNCHANGED <<purged, reused>>
  /\ fileOrder' = 0
  /\ fpc' = "hour"
  /\ UNCHANGED <<now, writerVars, batch, hour, backups, failed, struck>>

\* The backup of the hour starts, and the clock is read once more.
NewHour ==
  /\ fpc = "hour"
  /\ backups' = backups \cup {hour}
  /\ hour' = now
  /\ fpc' = "write"
  /\ UNCHANGED <<now, writerVars, batch, fileOrder, diskVars, failed, lfaults, struck>>

\* The buffer is written, at the second attempt if need be.
WriteFile ==
  /\ fpc = "write"
  /\ logFile # NoFile
  /\ files' = [files EXCEPT ![logFile] = @ \o batch]
  /\ batch' = <<>>
  /\ fpc' = "idle"
  /\ UNCHANGED <<now, writerVars, hour, fileOrder, logFile, link, backups,
                 purged, reused, failed, lfaults, struck>>

\* Both attempts fail; they always do when the file could not be created.
WriteFails ==
  /\ fpc = "write"
  /\ IF logFile = NoFile THEN UNCHANGED lfaults
     ELSE lfaults < MaxLogFaults /\ lfaults' = lfaults + 1
  /\ failed' = failed \cup Range(batch)
  /\ batch' = <<>>
  /\ fpc' = "idle"
  /\ UNCHANGED <<now, writerVars, hour, fileOrder, diskVars, backups, struck>>

\* LoggerBackup: the files of the hour move to the backup directory, the plain
\* one and the numbered ones.
LoggerBackup(h) ==
  LET moved == {n \in DOMAIN files : n[1] = "log" /\ n[2] = h}
      to(n) == Name("backup", n[2], n[3])
  IN  /\ h \in backups
      /\ backups' = backups \ {h}
      /\ files' = [n \in (DOMAIN files \ moved) \cup {to(m) : m \in moved} |->
                     IF n[1] = "backup" /\ Name("log", n[2], n[3]) \in moved
                     THEN files[Name("log", n[2], n[3])] ELSE files[n]]
      /\ logFile' = IF logFile \in moved THEN to(logFile) ELSE logFile
      /\ UNCHANGED <<now, writerVars, fpc, batch, hour, fileOrder, link, purged,
                     reused, failed, lfaults, struck>>

LogNext ==
  \/ Write
  \/ Block
  \/ Enqueue
  \/ Strike
  \/ Take
  \/ Split
  \/ Rotate
  \/ NewHour
  \/ WriteFile
  \/ WriteFails
  \/ \E h \in 0 .. MaxHour : LoggerBackup(h)

LogSpec == LogInit /\ [][LogNext]_logVars

-----------------------------------------------------------------------------
LogTypeOK ==
  /\ now \in 0 .. MaxHour
  /\ hour \in 0 .. now
  /\ Len(bufferQueue) <= QueueSize
  /\ fpc \in {"idle", "split", "rotate", "hour", "write"}
  /\ fileOrder \in Nat
  /\ logFile = NoFile \/ logFile \in DOMAIN files
  /\ backups \subseteq 0 .. MaxHour

\* Where a line is: in the buffer, in the batch, in the queue or in a file.
Spots(part, s, n) == {<<part, i>> : i \in {j \in DOMAIN s : s[j] = n}}
Places(n) ==
  Spots(<<"buffer">>, buffer, n) \cup Spots(<<"batch">>, batch, n)
    \cup (UNION {Spots(<<"queue", k>>, bufferQueue[k], n) : k \in DOMAIN bufferQueue})
    \cup (UNION {Spots(<<"file", f>>, files[f], n) : f \in DOMAIN files})

\* Every line that was logged is in the buffer, in the queue or in exactly one
\* file, in order within the file, however writers, flushing, rotation and
\* backup interleave.  It is gone only when creating or writing the file failed
\* or when an hour had more than maxFileCount splits and an order number was
\* used again.  And once the backups are done only the files of the current
\* hour are left in the log directory, unless the clock struck between
\* CreateFile and the reading of the hour (logger.go:287-393).
LinesKept ==
  /\ \A n \in 1 .. lines :
       Cardinality(Places(n)) = IF n \in purged \cup failed THEN 0 ELSE 1
  /\ \A k \in reused : k >= MaxFileCount
  /\ failed # {} => lfaults > 0
  /\ \A f \in DOMAIN files : \A i \in 1 .. Len(files[f]) - 1 : files[f][i] < files[f][i + 1]
  /\ (fpc = "idle" /\ backups = {} /\ ~struck) =>
       \A f \in DOMAIN files : f[1] = "log" => f[2] = hour \/ f = link
=============================================================================
