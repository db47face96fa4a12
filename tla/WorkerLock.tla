------------------------------ MODULE WorkerLock ------------------------------
(***************************************************************************)
(* The lock file of a checkout: one worker per checkout, whichever was     *)
(* started last.  It holds the token of its holder and the pid that owns   *)
(* the holder's process tree, which is the worker's own pid or that of the *)
(* wrapper that starts it, and starts it anew when the source changes.     *)
(*                                                                         *)
(* A file system call is a step: nothing holds the path from one to the    *)
(* next.  Locks without a token and starts that may not replace a worker   *)
(* are left out: both end in a refusal or in the steps below.              *)
(***************************************************************************)
EXTENDS Naturals, FiniteSets

CONSTANTS
    Places,     \* places for a worker process; a new process has a new token
    Wrappers,    \* wrappers
    OwnerOf,     \* per worker: its wrapper, or the worker itself
    MaxLives     \* bound: processes per place

ASSUME LockAssumption ==
    /\ OwnerOf \in [Places -> Places \cup Wrappers]
    /\ \A p \in Places : OwnerOf[p] \in {p} \cup Wrappers
    /\ Places \cap Wrappers = {}
    /\ MaxLives \in Nat \ {0}

VARIABLES
    lockFile,    \* the path: Free, or a token and whether it is written yet
    wrapper,     \* "up", "stopping", "down"
    process,     \* the processes
    swapped      \* history: a file was unlinked that is not the one compared

lockVars == <<lockFile, wrapper, process, swapped>>

-----------------------------------------------------------------------------
Tokens == Places \X (1..MaxLives)
Free   == [token |-> <<>>, written |-> FALSE]
NoToken == <<>>

ProcAt == {"off", "create", "write", "read", "signal", "await", "compare",
           "unlink", "held", "releaseCompare", "releaseUnlink"}

LockTypeOK ==
    /\ lockFile \in {Free} \cup [token : Tokens, written : BOOLEAN]
    /\ wrapper \in [Wrappers -> {"up", "stopping", "down"}]
    /\ process \in [Places -> [at : ProcAt, life : 0..MaxLives, seen : Tokens \cup {NoToken}]]
    /\ swapped \in BOOLEAN

LockInit ==
    /\ lockFile = Free
    /\ wrapper = [o \in Wrappers |-> "up"]
    /\ process = [p \in Places |-> [at |-> "off", life |-> 0, seen |-> NoToken]]
    /\ swapped = FALSE

On(p)    == process[p].at # "off"
Mine(p)  == <<p, process[p].life>>
Owner(t) == OwnerOf[t[1]]

\* pidAlive
OwnerAlive(o) == IF o \in Places THEN On(o) ELSE wrapper[o] # "down"

AtStep(p, at)  == process[p].at = at
MovesTo(p, at) == process' = [process EXCEPT ![p].at = at]
Ended(p)       == [at |-> "off", life |-> process[p].life, seen |-> NoToken]
ProcessEnds(p) == process' = [process EXCEPT ![p] = Ended(p)]
\* A stop signal: handlers are there once the lock is held.
Signalled(p) ==
    IF AtStep(p, "held") THEN [process[p] EXCEPT !.at = "releaseCompare"]
    ELSE IF process[p].at \in {"releaseCompare", "releaseUnlink"} THEN process[p]
    ELSE Ended(p)

-----------------------------------------------------------------------------
(***************************************************************************)
(* acquireOrchestrationWorkerLock                                          *)
(***************************************************************************)

\* The watcher of a wrapper starts a worker when the last one has exited.
StartWorker(p) ==
    /\ AtStep(p, "off") /\ process[p].life < MaxLives
    /\ OwnerOf[p] \in Wrappers =>
          /\ wrapper[OwnerOf[p]] = "up"
          /\ \A q \in Places : OwnerOf[q] = OwnerOf[p] => ~On(q)
    /\ process' = [process EXCEPT ![p] = [at |-> "create", life |-> @.life + 1, seen |-> NoToken]]
    /\ UNCHANGED <<lockFile, wrapper, swapped>>

\* writeFileSync with flag wx: the path appears, or existed; the content follows.
Create(p) ==
    /\ AtStep(p, "create")
    /\ IF lockFile = Free
       THEN lockFile' = [token |-> Mine(p), written |-> FALSE] /\ MovesTo(p, "write")
       ELSE UNCHANGED lockFile /\ MovesTo(p, "read")
    /\ UNCHANGED <<wrapper, swapped>>

WriteLock(p) ==
    /\ AtStep(p, "write")
    /\ lockFile' = IF lockFile.token = Mine(p) THEN [lockFile EXCEPT !.written = TRUE] ELSE lockFile
    /\ MovesTo(p, "held")
    /\ UNCHANGED <<wrapper, swapped>>

\* A path that is gone by now, or without content yet, is an invalid lock.
Refuse(p) ==
    /\ AtStep(p, "read") /\ ~lockFile.written
    /\ ProcessEnds(p)
    /\ UNCHANGED <<lockFile, wrapper, swapped>>

Read(p) ==
    /\ AtStep(p, "read") /\ lockFile.written
    /\ LET o == Owner(lockFile.token)
       IN  process' = [process EXCEPT ![p].seen = lockFile.token,
                       ![p].at = IF OwnerAlive(o) /\ o # OwnerOf[p] THEN "signal" ELSE "compare"]
    /\ UNCHANGED <<lockFile, wrapper, swapped>>

\* terminateProcessTree: a signal to the owner, which a wrapper passes on.
Signal(p) ==
    /\ AtStep(p, "signal")
    /\ LET o == Owner(process[p].seen)
           hit == {q \in Places : OwnerOf[q] = o /\ On(q)}
       IN  /\ process' = [q \in Places |-> IF q \in hit THEN Signalled(q)
                                         ELSE IF q = p THEN [process[p] EXCEPT !.at = "await"]
                                         ELSE process[q]]
           /\ wrapper' = [w \in Wrappers |-> IF w = o /\ wrapper[w] = "up"
                                             THEN "stopping" ELSE wrapper[w]]
    /\ UNCHANGED <<lockFile, swapped>>

Died(p) ==
    /\ AtStep(p, "await") /\ ~OwnerAlive(Owner(process[p].seen))
    /\ MovesTo(p, "compare")
    /\ UNCHANGED <<lockFile, wrapper, swapped>>

\* Whoever is still there after the grace period is killed; the worker of a
\* wrapper that is killed is not.
KillHard(p) ==
    /\ AtStep(p, "await")
    /\ LET o == Owner(process[p].seen)
       IN  /\ OwnerAlive(o)
           /\ IF o \in Places THEN ProcessEnds(o) /\ UNCHANGED wrapper
              ELSE wrapper' = [wrapper EXCEPT ![o] = "down"] /\ UNCHANGED process
    /\ UNCHANGED <<lockFile, swapped>>

\* "lock preserved"
GiveUp(p) ==
    /\ AtStep(p, "await") /\ OwnerAlive(Owner(process[p].seen))
    /\ ProcessEnds(p)
    /\ UNCHANGED <<lockFile, wrapper, swapped>>

\* unlinkIfOwned reads the file ...
Compares(p, at, same, other) ==
    /\ AtStep(p, at)
    /\ IF lockFile.written /\ lockFile.token = process[p].seen THEN MovesTo(p, same) ELSE other
    /\ UNCHANGED <<lockFile, wrapper, swapped>>

\* ... and unlinks the path.
Unlinks(p, at) ==
    /\ AtStep(p, at)
    /\ lockFile' = Free
    /\ swapped' = (swapped \/ lockFile \notin {Free, [token |-> process[p].seen, written |-> TRUE]})
    /\ UNCHANGED wrapper

Compare(p) == Compares(p, "compare", "unlink", MovesTo(p, "create"))
Unlink(p)  == Unlinks(p, "unlink") /\ MovesTo(p, "create")

-----------------------------------------------------------------------------
(***************************************************************************)
(* releaseOrchestrationWorkerLock, and what ends processes.                *)
(***************************************************************************)
StopWorker(p) ==
    /\ AtStep(p, "held")
    /\ process' = [process EXCEPT ![p] = Signalled(p)]
    /\ UNCHANGED <<lockFile, wrapper, swapped>>

\* Mutant: a release that does not look whose lock it is.
ReleaseAnyones(p) ==
    /\ AtStep(p, "releaseCompare")
    /\ process' = [process EXCEPT ![p].at = "releaseUnlink", ![p].seen = lockFile.token]
    /\ UNCHANGED <<lockFile, wrapper, swapped>>

ReleaseCompare(p) ==
    /\ AtStep(p, "releaseCompare")
    /\ IF lockFile.written /\ lockFile.token = Mine(p)
       THEN process' = [process EXCEPT ![p].at = "releaseUnlink", ![p].seen = Mine(p)]
       ELSE ProcessEnds(p)
    /\ UNCHANGED <<lockFile, wrapper, swapped>>

ReleaseUnlink(p) == Unlinks(p, "releaseUnlink") /\ ProcessEnds(p)

WorkerDies(p) ==
    /\ On(p)
    /\ ProcessEnds(p)
    /\ UNCHANGED <<lockFile, wrapper, swapped>>

\* A wrapper waits for its worker for a few seconds.
WrapperExits(o) ==
    /\ wrapper[o] = "stopping"
    /\ wrapper' = [wrapper EXCEPT ![o] = "down"]
    /\ UNCHANGED <<lockFile, process, swapped>>

LockStep(p) ==
    \/ StartWorker(p) \/ Create(p) \/ WriteLock(p) \/ Refuse(p) \/ Read(p)
    \/ Signal(p) \/ Died(p) \/ KillHard(p) \/ GiveUp(p) \/ Compare(p) \/ Unlink(p)
    \/ StopWorker(p) \/ ReleaseCompare(p) \/ ReleaseUnlink(p) \/ WorkerDies(p)

LockNext == (\E p \in Places : LockStep(p)) \/ \E o \in Wrappers : WrapperExits(o)

LockSpec == LockInit /\ [][LockNext]_lockVars

-----------------------------------------------------------------------------
\* "Ensure only one orchestration worker owns this checkout": as long as nobody
\* unlinked a file that had been replaced since it was compared, one process at a
\* time runs as the worker.  Workers that outlive their wrapper are excepted: the
\* lock knows the pid of the wrapper only.
OneWorkerPerCheckout ==
    swapped \/ \A p, q \in Places :
        /\ AtStep(p, "held") /\ OwnerAlive(OwnerOf[p])
        /\ AtStep(q, "held") /\ OwnerAlive(OwnerOf[q])
        => p = q
=============================================================================
