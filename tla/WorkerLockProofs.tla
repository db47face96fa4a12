--------------------------- MODULE WorkerLockProofs ---------------------------
(***************************************************************************)
(* One worker runs per checkout, for every number of workers, wrappers and *)
(* restarts.                                                               *)
(***************************************************************************)
EXTENDS WorkerLock, TLAPS

-----------------------------------------------------------------------------
\* Before it has created the file, and from then on.
Acquiring == {"create", "read", "signal", "await", "compare", "unlink"}
Holding   == {"write", "held", "releaseCompare", "releaseUnlink"}

\* A process that is there has been started.
LivesCounted == \A p \in Places : On(p) => process[p].life \in 1..MaxLives

\* An owner has one process at a time.
OwnersHaveOne ==
    \A p, q \in Places : (On(p) /\ On(q) /\ OwnerOf[p] = OwnerOf[q]) => p = q

\* A token names a process that has been started.
TokensArePast ==
    /\ lockFile # Free => lockFile.token[2] <= process[lockFile.token[1]].life
    /\ \A p \in Places : process[p].seen # NoToken =>
           process[p].seen[2] <= process[process[p].seen[1]].life

\* A process that is still to create the file is not the one the file names.
AcquirersAreNew ==
    \A p \in Places : process[p].at \in Acquiring => lockFile.token # Mine(p)

\* Who releases has compared its own token.
ReleasesItsOwn == \A p \in Places : AtStep(p, "releaseUnlink") => process[p].seen = Mine(p)

\* Who is about to remove the lock of a process that runs knows that its owner is gone.
RemovesTheDead ==
    \A p, r \in Places :
        (process[p].at \in {"compare", "unlink"} /\ On(r) /\ process[p].seen = Mine(r))
            => ~OwnerAlive(OwnerOf[r])

\* Whoever holds the lock and has an owner is the one the file names.
HoldersAreNamed ==
    \A p \in Places :
        (process[p].at \in Holding /\ OwnerAlive(OwnerOf[p])) => lockFile.token = Mine(p)

LockInvariant ==
    /\ LockTypeOK
    /\ LivesCounted
    /\ OwnersHaveOne
    /\ TokensArePast
    /\ AcquirersAreNew
    /\ ReleasesItsOwn
    /\ RemovesTheDead
    /\ swapped \/ HoldersAreNamed
-----------------------------------------------------------------------------
LEMMA TokensAreNotEmpty == NoToken \notin Tokens
BY DEF NoToken, Tokens

LEMMA FilesNameSomeone ==
    ASSUME NEW p \in Places
    PROVE  /\ Free.token # Mine(p)
           /\ \A n, w : [token |-> <<p, n>>, written |-> w] # Free
<1>1. Free.token = <<>>  BY DEF Free
<1>2. \A n : <<p, n>> # <<>>  OBVIOUS
<1>3. \A n, w : [token |-> <<p, n>>, written |-> w].token = <<p, n>>  OBVIOUS
<1> QED  BY <1>1, <1>2, <1>3 DEF Mine

LEMMA StartsWithoutHolders == LockInit => LockInvariant
<1> SUFFICES ASSUME LockInit  PROVE LockInvariant
  OBVIOUS
<1>1. LockTypeOK
  <2>1. [at |-> "off", life |-> 0, seen |-> NoToken]
           \in [at : ProcAt, life : 0..MaxLives, seen : Tokens \cup {NoToken}]
    BY LockAssumption DEF ProcAt
  <2> QED  BY <2>1 DEF LockInit, LockTypeOK
<1>2. \A p \in Places : process[p].at = "off" /\ process[p].seen = NoToken
  BY DEF LockInit
<1>3. LivesCounted /\ OwnersHaveOne /\ ReleasesItsOwn /\ RemovesTheDead
  BY <1>2 DEF LivesCounted, OwnersHaveOne, ReleasesItsOwn, RemovesTheDead, On, AtStep
<1>4. TokensArePast
  BY <1>2 DEF LockInit, TokensArePast
<1>5. AcquirersAreNew /\ HoldersAreNamed
  BY <1>2 DEF AcquirersAreNew, HoldersAreNamed, Acquiring, Holding
<1> QED  BY <1>1, <1>3, <1>4, <1>5 DEF LockInvariant

LEMMA StartWorkerKeeps ==
    ASSUME LockInvariant, NEW p \in Places, StartWorker(p)
    PROVE  LockInvariant'
<1>1. LockTypeOK'
  BY LockAssumption
     DEF LockInvariant, LockTypeOK, Tokens, Mine, ProcAt, NoToken, Free, StartWorker
<1>2. LivesCounted'
  BY LockAssumption, TokensAreNotEmpty
     DEF LockInvariant, LockTypeOK, LivesCounted, On, AtStep, StartWorker
<1>3. OwnersHaveOne'
  BY LockAssumption, TokensAreNotEmpty
     DEF LockInvariant, LockTypeOK, OwnersHaveOne, On, AtStep, StartWorker
<1>4. TokensArePast'
  BY DEF LockInvariant, LockTypeOK, TokensArePast, On, Tokens, Mine, Free, NoToken,
     StartWorker
<1>5. AcquirersAreNew'
  <2>1. LockTypeOK'  BY <1>1
  <2>2. ASSUME NEW q \in Places, process'[q].at \in Acquiring
        PROVE  lockFile'.token # Mine(q)'
    <3>1. CASE q = p
      <4>1. Mine(q)' = <<p, process[p].life + 1>>
        BY <3>1 DEF LockInvariant, LockTypeOK, Mine, StartWorker
      <4>2. CASE lockFile = Free
        BY <4>1, <4>2 DEF Free, StartWorker
      <4>3. CASE lockFile # Free
        BY <4>1, <4>3 DEF LockInvariant, LockTypeOK, TokensArePast, StartWorker
      <4> QED  BY <4>2, <4>3
    <3>2. CASE q # p
      BY <2>2, <3>2 DEF LockInvariant, AcquirersAreNew, Mine, StartWorker
    <3> QED  BY <3>1, <3>2
  <2> QED  BY <2>2 DEF AcquirersAreNew
<1>6. ReleasesItsOwn'
  BY LockAssumption, TokensAreNotEmpty
     DEF LockInvariant, LockTypeOK, ReleasesItsOwn, AtStep, Mine, On, StartWorker
<1>7. RemovesTheDead'
  BY LockAssumption, TokensAreNotEmpty
     DEF LockInvariant, LockTypeOK, RemovesTheDead, TokensArePast, AtStep, Mine, On,
         OwnerAlive, Owner, Tokens, Free, NoToken, OwnersHaveOne, StartWorker
<1>8. swapped' \/ HoldersAreNamed'
  BY LockAssumption
     DEF LockInvariant, HoldersAreNamed, ReleasesItsOwn, RemovesTheDead,
         AcquirersAreNew, AtStep, Mine, On, OwnerAlive, Acquiring, Holding, Owner, Free,
         StartWorker
<1> QED  BY <1>1, <1>2, <1>3, <1>4, <1>5, <1>6, <1>7, <1>8 DEF LockInvariant

LEMMA CreateKeeps ==
    ASSUME LockInvariant, NEW p \in Places, Create(p)
    PROVE  LockInvariant'
<1>1. LockTypeOK'
  <2>1. lockFile' \in {Free} \cup [token : Tokens, written : BOOLEAN]
    <3>1. Mine(p) \in Tokens
      BY DEF LockInvariant, LockTypeOK, LivesCounted, Tokens, Mine, On, AtStep, Create
    <3>2. [token |-> Mine(p), written |-> FALSE] \in [token : Tokens, written : BOOLEAN]
      BY <3>1
    <3>3. lockFile' = lockFile \/ lockFile' = [token |-> Mine(p), written |-> FALSE]
      BY DEF Create
    <3>4. lockFile \in {Free} \cup [token : Tokens, written : BOOLEAN]
      BY DEF LockInvariant, LockTypeOK
    <3> QED  BY <3>2, <3>3, <3>4
  <2>2. process' \in [Places -> [at : ProcAt, life : 0..MaxLives, seen : Tokens \cup {NoToken}]]
    <3>1. process[p] \in [at : ProcAt, life : 0..MaxLives, seen : Tokens \cup {NoToken}]
      BY DEF LockInvariant, LockTypeOK
    <3>2. \A a \in ProcAt : [process[p] EXCEPT !.at = a]
             \in [at : ProcAt, life : 0..MaxLives, seen : Tokens \cup {NoToken}]
      BY <3>1
    <3>3. "write" \in ProcAt /\ "read" \in ProcAt
      BY DEF ProcAt
    <3> QED  BY <3>2, <3>3 DEF LockInvariant, LockTypeOK, Create, MovesTo
  <2> QED  BY <2>1, <2>2 DEF LockInvariant, LockTypeOK, Create
<1>2. LivesCounted'
  BY LockAssumption, TokensAreNotEmpty
     DEF LockInvariant, LockTypeOK, LivesCounted, On, AtStep, Create, MovesTo
<1>3. OwnersHaveOne'
  BY LockAssumption, TokensAreNotEmpty
     DEF LockInvariant, LockTypeOK, OwnersHaveOne, On, AtStep, Create, MovesTo
<1>4. TokensArePast'
  BY DEF LockInvariant, LockTypeOK, TokensArePast, On, Tokens, Mine, Free, NoToken,
     Create, MovesTo
<1>5. AcquirersAreNew'
  BY DEF LockInvariant, LockTypeOK, AcquirersAreNew, AtStep, On, Mine, Acquiring, Free,
     Tokens, NoToken, Create, MovesTo
<1>6. ReleasesItsOwn'
  BY LockAssumption, TokensAreNotEmpty
     DEF LockInvariant, LockTypeOK, ReleasesItsOwn, AtStep, Mine, On, Create,
         MovesTo
<1>7. RemovesTheDead'
  BY DEF LockInvariant, LockTypeOK, RemovesTheDead, AtStep, Mine, On, OwnerAlive, Owner,
     Tokens, Free, NoToken, OwnersHaveOne, Create, MovesTo
<1>8. swapped' \/ HoldersAreNamed'
  <2>1. CASE lockFile = Free
    <3>1. ASSUME NEW q \in Places, q # p, AtStep(q, "write") \/ process[q].at \in Holding,
                 OwnerAlive(OwnerOf[q])
          PROVE  swapped
      <4>1. lockFile.token # Mine(q)
        BY <2>1 DEF Free, Mine
      <4> QED  BY <3>1, <4>1 DEF LockInvariant, HoldersAreNamed, Holding, AtStep
    <3>2. \A q \in Places : On(q)' = On(q)
      BY DEF LockInvariant, LockTypeOK, On, AtStep, Create, MovesTo
    <3>3. \A o \in Places \cup Wrappers : OwnerAlive(o)' = OwnerAlive(o)
      BY <3>2 DEF OwnerAlive, Create
    <3>4. lockFile'.token = Mine(p)'
      BY <2>1 DEF LockInvariant, LockTypeOK, Mine, Create, MovesTo
    <3>5. ASSUME NEW q \in Places, q # p, process'[q].at \in Holding, OwnerAlive(OwnerOf[q])'
          PROVE  swapped'
      BY <3>1, <3>3, <3>5, LockAssumption DEF LockInvariant, LockTypeOK, Create, MovesTo
    <3> QED  BY <3>4, <3>5 DEF HoldersAreNamed
  <2>2. CASE lockFile # Free
    BY <2>2, LockAssumption
       DEF LockInvariant, LockTypeOK, HoldersAreNamed, Holding, AtStep, On, OwnerAlive, Mine,
           Create, MovesTo
  <2> QED  BY <2>1, <2>2
<1> QED  BY <1>1, <1>2, <1>3, <1>4, <1>5, <1>6, <1>7, <1>8 DEF LockInvariant

LEMMA WriteLockKeeps ==
    ASSUME LockInvariant, NEW p \in Places, WriteLock(p)
    PROVE  LockInvariant'
<1>1. LockTypeOK'
  <2>1. lockFile' \in {Free} \cup [token : Tokens, written : BOOLEAN]
    <3>1. Mine(p) # NoToken
      BY DEF Mine, NoToken
    <3>2. lockFile.token = Mine(p) => lockFile # Free
      BY <3>1 DEF Free, NoToken
    <3>3. lockFile # Free => [lockFile EXCEPT !.written = TRUE] \in [token : Tokens, written : BOOLEAN]
      BY DEF LockInvariant, LockTypeOK
    <3> QED  BY <3>2, <3>3 DEF LockInvariant, LockTypeOK, WriteLock
  <2>2. process' \in [Places -> [at : ProcAt, life : 0..MaxLives, seen : Tokens \cup {NoToken}]]
    <3>1. process[p] \in [at : ProcAt, life : 0..MaxLives, seen : Tokens \cup {NoToken}]
      BY DEF LockInvariant, LockTypeOK
    <3>2. [process[p] EXCEPT !.at = "held"]
             \in [at : ProcAt, life : 0..MaxLives, seen : Tokens \cup {NoToken}]
      BY <3>1 DEF ProcAt
    <3> QED  BY <3>2 DEF LockInvariant, LockTypeOK, WriteLock, MovesTo
  <2> QED  BY <2>1, <2>2 DEF LockInvariant, LockTypeOK, WriteLock
<1>2. LivesCounted'
  BY LockAssumption, TokensAreNotEmpty
     DEF LockInvariant, LockTypeOK, LivesCounted, On, AtStep, WriteLock, MovesTo
<1>3. OwnersHaveOne'
  BY LockAssumption, TokensAreNotEmpty
     DEF LockInvariant, LockTypeOK, OwnersHaveOne, On, AtStep, WriteLock, MovesTo
<1>4. TokensArePast'
  <2>1. \A q \in Places : process'[q].life = process[q].life /\ process'[q].seen = process[q].seen
    BY DEF LockInvariant, LockTypeOK, WriteLock, MovesTo
  <2>2. lockFile'.token = lockFile.token
    <3>1. \A b : lockFile # Free => [lockFile EXCEPT !.written = b].token = lockFile.token
      BY DEF LockInvariant, LockTypeOK
    <3>2. lockFile.token = Mine(p) => lockFile # Free
      BY DEF Free, Mine
    <3> QED  BY <3>1, <3>2 DEF WriteLock
  <2>3. lockFile' # Free => lockFile # Free
    BY FilesNameSomeone DEF WriteLock
  <2>4. lockFile # Free => lockFile.token \in Tokens
    BY DEF LockInvariant, LockTypeOK
  <2>5. \A t \in Tokens : t[1] \in Places
    BY DEF Tokens
  <2>6. lockFile' # Free => lockFile'.token[2] <= process'[lockFile'.token[1]].life
    BY <2>1, <2>2, <2>3, <2>4, <2>5 DEF LockInvariant, TokensArePast
  <2>7. \A q \in Places : process'[q].seen # NoToken =>
           process'[q].seen[2] <= process'[process'[q].seen[1]].life
    BY <2>1, <2>5 DEF LockInvariant, LockTypeOK, TokensArePast
  <2> QED  BY <2>6, <2>7 DEF TokensArePast
<1>5. AcquirersAreNew'
  BY DEF LockInvariant, AcquirersAreNew, AtStep, On, Mine, Acquiring, Free, Tokens,
     NoToken, WriteLock, MovesTo
<1>6. ReleasesItsOwn'
  BY LockAssumption, TokensAreNotEmpty
     DEF LockInvariant, LockTypeOK, ReleasesItsOwn, AtStep, Mine, On, WriteLock,
         MovesTo
<1>7. RemovesTheDead'
  BY DEF LockInvariant, RemovesTheDead, AtStep, Mine, On, OwnerAlive, Owner, Tokens,
     Free, NoToken, OwnersHaveOne, WriteLock, MovesTo
<1>8. swapped' \/ HoldersAreNamed'
  BY DEF LockInvariant, HoldersAreNamed, ReleasesItsOwn, RemovesTheDead,
     AcquirersAreNew, AtStep, Mine, On, OwnerAlive, Acquiring, Holding, Owner, Free,
     WriteLock, MovesTo
<1> QED  BY <1>1, <1>2, <1>3, <1>4, <1>5, <1>6, <1>7, <1>8 DEF LockInvariant

LEMMA RefuseKeeps ==
    ASSUME LockInvariant, NEW p \in Places, Refuse(p)
    PROVE  LockInvariant'
<1>1. LockTypeOK'
  BY DEF LockInvariant, LockTypeOK, Tokens, Mine, ProcAt, NoToken, Free, Refuse,
     ProcessEnds, Ended
<1>2. LivesCounted'
  BY LockAssumption, TokensAreNotEmpty
     DEF LockInvariant, LockTypeOK, LivesCounted, On, AtStep, Refuse, ProcessEnds,
         Ended
<1>3. OwnersHaveOne'
  BY LockAssumption, TokensAreNotEmpty
     DEF LockInvariant, LockTypeOK, OwnersHaveOne, On, AtStep, Refuse, ProcessEnds,
         Ended
<1>4. TokensArePast'
  BY DEF LockInvariant, TokensArePast, On, Tokens, Mine, Free, NoToken, Refuse,
     ProcessEnds, Ended
<1>5. AcquirersAreNew'
  BY DEF LockInvariant, AcquirersAreNew, AtStep, On, Mine, Acquiring, Free, Tokens,
     NoToken, Refuse, ProcessEnds, Ended
<1>6. ReleasesItsOwn'
  BY LockAssumption, TokensAreNotEmpty
     DEF LockInvariant, LockTypeOK, ReleasesItsOwn, AtStep, Mine, On, Refuse,
         ProcessEnds, Ended
<1>7. RemovesTheDead'
  BY DEF LockInvariant, RemovesTheDead, AtStep, Mine, On, OwnerAlive, Owner, Tokens,
     Free, NoToken, OwnersHaveOne, Refuse, ProcessEnds, Ended
<1>8. swapped' \/ HoldersAreNamed'
  BY DEF LockInvariant, HoldersAreNamed, ReleasesItsOwn, RemovesTheDead,
     AcquirersAreNew, AtStep, Mine, On, OwnerAlive, Acquiring, Holding, Owner, Free,
     Refuse, ProcessEnds, Ended
<1> QED  BY <1>1, <1>2, <1>3, <1>4, <1>5, <1>6, <1>7, <1>8 DEF LockInvariant

LEMMA ReadKeeps ==
    ASSUME LockInvariant, NEW p \in Places, Read(p)
    PROVE  LockInvariant'
<1>1. LockTypeOK'
  BY DEF LockInvariant, LockTypeOK, AtStep, Tokens, Mine, ProcAt, NoToken, Free, Read,
     Owner
<1>2. LivesCounted'
  BY DEF LockInvariant, LockTypeOK, AtStep, Read, Owner
<1>3. OwnersHaveOne'
  BY DEF LockInvariant, LockTypeOK, AtStep, Read, Owner
<1>4. TokensArePast'
  BY LockAssumption, TokensAreNotEmpty
     DEF LockInvariant, LockTypeOK, TokensArePast, AtStep, On, Tokens, Mine, Free,
         NoToken, Read, Owner
<1>5. AcquirersAreNew'
  BY DEF LockInvariant, LockTypeOK, AtStep, On, Mine, Acquiring, Free, Tokens, NoToken,
     Read, Owner
<1>6. ReleasesItsOwn'
  BY LockAssumption, TokensAreNotEmpty
     DEF LockInvariant, LockTypeOK, ReleasesItsOwn, AtStep, Mine, On, Read, Owner
<1>7. RemovesTheDead'
  BY DEF LockInvariant, LockTypeOK, AtStep, Mine, On, OwnerAlive, Owner, Tokens, Free,
     NoToken, OwnersHaveOne, Read
<1>8. swapped' \/ HoldersAreNamed'
  BY DEF LockInvariant, LockTypeOK, ReleasesItsOwn, RemovesTheDead, AcquirersAreNew,
     AtStep, Mine, On, OwnerAlive, Acquiring, Holding, Owner, Free, Read
<1> QED  BY <1>1, <1>2, <1>3, <1>4, <1>5, <1>6, <1>7, <1>8 DEF LockInvariant

LEMMA SignalKeeps ==
    ASSUME LockInvariant, NEW p \in Places, Signal(p)
    PROVE  LockInvariant'
<1>1. LockTypeOK'
  BY DEF LockInvariant, LockTypeOK, Tokens, Mine, ProcAt, NoToken, Free, Signal,
     Signalled, Ended, Owner
<1>2. LivesCounted'
  BY LockAssumption, TokensAreNotEmpty
     DEF LockInvariant, LockTypeOK, LivesCounted, On, AtStep, Signal, Signalled,
         Ended, Owner
<1>3. OwnersHaveOne'
  BY LockAssumption, TokensAreNotEmpty
     DEF LockInvariant, LockTypeOK, OwnersHaveOne, On, AtStep, Signal, Signalled,
         Ended, Owner
<1>4. TokensArePast'
  BY LockAssumption, TokensAreNotEmpty
     DEF LockInvariant, LockTypeOK, TokensArePast, AtStep, On, Tokens, Mine, Free,
         NoToken, Signal, Signalled, Ended, Owner
<1>5. AcquirersAreNew'
  BY DEF LockInvariant, AcquirersAreNew, AtStep, On, Mine, Acquiring, Free, Tokens,
     NoToken, Signal, Signalled, Ended, Owner
<1>6. ReleasesItsOwn'
  BY LockAssumption, TokensAreNotEmpty
     DEF LockInvariant, LockTypeOK, ReleasesItsOwn, AtStep, Mine, On, Signal,
         Signalled, Ended, Owner
<1>7. RemovesTheDead'
  BY LockAssumption
     DEF LockInvariant, RemovesTheDead, AtStep, Mine, On, OwnerAlive, Owner, Tokens,
         Free, NoToken, OwnersHaveOne, Signal, Signalled, Ended
<1>8. swapped' \/ HoldersAreNamed'
  BY LockAssumption
     DEF LockInvariant, HoldersAreNamed, ReleasesItsOwn, RemovesTheDead,
         AcquirersAreNew, AtStep, Mine, On, OwnerAlive, Acquiring, Holding, Owner, Free,
         Signal, Signalled, Ended
<1> QED  BY <1>1, <1>2, <1>3, <1>4, <1>5, <1>6, <1>7, <1>8 DEF LockInvariant

LEMMA DiedKeeps ==
    ASSUME LockInvariant, NEW p \in Places, Died(p)
    PROVE  LockInvariant'
<1>1. LockTypeOK'
  BY DEF LockInvariant, LockTypeOK, Tokens, Mine, ProcAt, NoToken, Free, Died, MovesTo,
     Owner
<1>2. LivesCounted'
  BY LockAssumption, TokensAreNotEmpty
     DEF LockInvariant, LockTypeOK, LivesCounted, On, AtStep, Died, MovesTo, Owner
<1>3. OwnersHaveOne'
  BY LockAssumption, TokensAreNotEmpty
     DEF LockInvariant, LockTypeOK, OwnersHaveOne, On, AtStep, Died, MovesTo, Owner
<1>4. TokensArePast'
  BY DEF LockInvariant, TokensArePast, On, Tokens, Mine, Free, NoToken, Died, MovesTo,
     Owner
<1>5. AcquirersAreNew'
  BY DEF LockInvariant, AcquirersAreNew, AtStep, On, Mine, Acquiring, Free, Tokens,
     NoToken, Died, MovesTo, Owner
<1>6. ReleasesItsOwn'
  BY LockAssumption, TokensAreNotEmpty
     DEF LockInvariant, LockTypeOK, ReleasesItsOwn, AtStep, Mine, On, Died, MovesTo,
         Owner
<1>7. RemovesTheDead'
  BY DEF LockInvariant, RemovesTheDead, AtStep, Mine, On, OwnerAlive, Owner, Tokens,
     Free, NoToken, OwnersHaveOne, Died, MovesTo
<1>8. swapped' \/ HoldersAreNamed'
  BY DEF LockInvariant, HoldersAreNamed, ReleasesItsOwn, RemovesTheDead,
     AcquirersAreNew, AtStep, Mine, On, OwnerAlive, Acquiring, Holding, Owner, Free,
     Died, MovesTo
<1> QED  BY <1>1, <1>2, <1>3, <1>4, <1>5, <1>6, <1>7, <1>8 DEF LockInvariant

LEMMA KillHardKeeps ==
    ASSUME LockInvariant, NEW p \in Places, KillHard(p)
    PROVE  LockInvariant'
<1>1. LockTypeOK'
  <2> DEFINE o == Owner(process[p].seen)
  <2>1. CASE o \in Places
    BY <2>1 DEF LockInvariant, LockTypeOK, ProcAt, KillHard, ProcessEnds, Ended
  <2>2. CASE o \notin Places
    BY <2>2 DEF LockInvariant, LockTypeOK, KillHard
  <2> QED  BY <2>1, <2>2
<1>2. LivesCounted'
  BY LockAssumption, TokensAreNotEmpty
     DEF LockInvariant, LockTypeOK, LivesCounted, On, AtStep, KillHard, ProcessEnds,
         Ended, Owner
<1>3. OwnersHaveOne'
  BY LockAssumption, TokensAreNotEmpty
     DEF LockInvariant, LockTypeOK, OwnersHaveOne, On, AtStep, KillHard,
         ProcessEnds, Ended, Owner
<1>4. TokensArePast'
  BY DEF LockInvariant, LockTypeOK, TokensArePast, On, Tokens, Mine, Free, NoToken,
     KillHard, ProcessEnds, Ended, Owner
<1>5. AcquirersAreNew'
  BY DEF LockInvariant, LockTypeOK, AcquirersAreNew, AtStep, On, Mine, Acquiring, Free,
     Tokens, NoToken, KillHard, ProcessEnds, Ended, Owner
<1>6. ReleasesItsOwn'
  BY LockAssumption, TokensAreNotEmpty
     DEF LockInvariant, LockTypeOK, ReleasesItsOwn, AtStep, Mine, On, KillHard,
         ProcessEnds, Ended, Owner
<1>7. RemovesTheDead'
  <2> DEFINE o == Owner(process[p].seen)
  <2>1. CASE o \in Places
    BY <2>1, LockAssumption
       DEF LockInvariant, LockTypeOK, OwnersHaveOne, RemovesTheDead, On, AtStep, Mine, OwnerAlive,
           KillHard, ProcessEnds, Ended
  <2>2. CASE o \notin Places
    BY <2>2, LockAssumption
       DEF LockInvariant, LockTypeOK, RemovesTheDead, On, Mine, OwnerAlive, KillHard
  <2> QED  BY <2>1, <2>2
<1>8. swapped' \/ HoldersAreNamed'
  <2> DEFINE o == Owner(process[p].seen)
  <2>1. CASE o \in Places
    BY <2>1, LockAssumption
       DEF LockInvariant, LockTypeOK, OwnersHaveOne, HoldersAreNamed, Holding, On, AtStep, Mine, OwnerAlive,
           KillHard, ProcessEnds, Ended
  <2>2. CASE o \notin Places
    BY <2>2, LockAssumption
       DEF LockInvariant, LockTypeOK, HoldersAreNamed, Holding, On, AtStep, Mine, OwnerAlive, KillHard
  <2> QED  BY <2>1, <2>2
<1> QED  BY <1>1, <1>2, <1>3, <1>4, <1>5, <1>6, <1>7, <1>8 DEF LockInvariant

LEMMA GiveUpKeeps ==
    ASSUME LockInvariant, NEW p \in Places, GiveUp(p)
    PROVE  LockInvariant'
<1>1. LockTypeOK'
  BY DEF LockInvariant, LockTypeOK, Tokens, Mine, ProcAt, NoToken, Free, GiveUp,
     ProcessEnds, Ended
<1>2. LivesCounted'
  BY LockAssumption, TokensAreNotEmpty
     DEF LockInvariant, LockTypeOK, LivesCounted, On, AtStep, GiveUp, ProcessEnds,
         Ended
<1>3. OwnersHaveOne'
  BY LockAssumption, TokensAreNotEmpty
     DEF LockInvariant, LockTypeOK, OwnersHaveOne, On, AtStep, GiveUp, ProcessEnds,
         Ended
<1>4. TokensArePast'
  BY DEF LockInvariant, TokensArePast, On, Tokens, Mine, Free, NoToken, GiveUp,
     ProcessEnds, Ended
<1>5. AcquirersAreNew'
  BY DEF LockInvariant, AcquirersAreNew, AtStep, On, Mine, Acquiring, Free, Tokens,
     NoToken, GiveUp, ProcessEnds, Ended
<1>6. ReleasesItsOwn'
  BY LockAssumption, TokensAreNotEmpty
     DEF LockInvariant, LockTypeOK, ReleasesItsOwn, AtStep, Mine, On, GiveUp,
         ProcessEnds, Ended
<1>7. RemovesTheDead'
  BY DEF LockInvariant, RemovesTheDead, AtStep, Mine, On, OwnerAlive, Owner, Tokens,
     Free, NoToken, OwnersHaveOne, GiveUp, ProcessEnds, Ended
<1>8. swapped' \/ HoldersAreNamed'
  BY DEF LockInvariant, HoldersAreNamed, ReleasesItsOwn, RemovesTheDead,
     AcquirersAreNew, AtStep, Mine, On, OwnerAlive, Acquiring, Holding, Owner, Free,
     GiveUp, ProcessEnds, Ended
<1> QED  BY <1>1, <1>2, <1>3, <1>4, <1>5, <1>6, <1>7, <1>8 DEF LockInvariant

LEMMA CompareKeeps ==
    ASSUME LockInvariant, NEW p \in Places, Compare(p)
    PROVE  LockInvariant'
<1>1. LockTypeOK'
  BY DEF LockInvariant, LockTypeOK, Tokens, Mine, ProcAt, NoToken, Free, Compare,
     Compares, MovesTo
<1>2. LivesCounted'
  BY LockAssumption, TokensAreNotEmpty
     DEF LockInvariant, LockTypeOK, LivesCounted, On, AtStep, Compare, Compares,
         MovesTo
<1>3. OwnersHaveOne'
  BY LockAssumption, TokensAreNotEmpty
     DEF LockInvariant, LockTypeOK, OwnersHaveOne, On, AtStep, Compare, Compares,
         MovesTo
<1>4. TokensArePast'
  BY DEF LockInvariant, LockTypeOK, TokensArePast, On, Tokens, Mine, Free, NoToken,
     Compare, Compares, MovesTo
<1>5. AcquirersAreNew'
  BY DEF LockInvariant, LockTypeOK, AcquirersAreNew, AtStep, On, Mine, Acquiring, Free,
     Tokens, NoToken, Compare, Compares, MovesTo
<1>6. ReleasesItsOwn'
  BY LockAssumption, TokensAreNotEmpty
     DEF LockInvariant, LockTypeOK, ReleasesItsOwn, AtStep, Mine, On, Compare,
         Compares, MovesTo
<1>7. RemovesTheDead'
  BY TokensAreNotEmpty
     DEF LockInvariant, LockTypeOK, RemovesTheDead, AtStep, Mine, On, OwnerAlive, Owner,
         Tokens, Free, NoToken, OwnersHaveOne, Compare, Compares, MovesTo
<1>8. swapped' \/ HoldersAreNamed'
  BY LockAssumption, TokensAreNotEmpty
     DEF LockInvariant, LockTypeOK, HoldersAreNamed, OwnersHaveOne, ReleasesItsOwn,
         RemovesTheDead, AcquirersAreNew, AtStep, Mine, On, OwnerAlive, Acquiring,
         Holding, Owner, Free, Compare, Compares, MovesTo
<1> QED  BY <1>1, <1>2, <1>3, <1>4, <1>5, <1>6, <1>7, <1>8 DEF LockInvariant

LEMMA UnlinkKeeps ==
    ASSUME LockInvariant, NEW p \in Places, Unlink(p)
    PROVE  LockInvariant'
<1>1. LockTypeOK'
  BY DEF LockInvariant, LockTypeOK, Tokens, Mine, ProcAt, NoToken, Free, Unlink,
     Unlinks, MovesTo
<1>2. LivesCounted'
  BY LockAssumption, TokensAreNotEmpty
     DEF LockInvariant, LockTypeOK, LivesCounted, On, AtStep, Unlink, Unlinks,
         MovesTo
<1>3. OwnersHaveOne'
  BY LockAssumption, TokensAreNotEmpty
     DEF LockInvariant, LockTypeOK, OwnersHaveOne, On, AtStep, Unlink, Unlinks,
         MovesTo
<1>4. TokensArePast'
  BY DEF LockInvariant, TokensArePast, On, Tokens, Mine, Free, NoToken, Unlink, Unlinks,
     MovesTo
<1>5. AcquirersAreNew'
  BY DEF AcquirersAreNew, AtStep, On, Mine, Acquiring, Free, Tokens, NoToken, Unlink,
     Unlinks, MovesTo
<1>6. ReleasesItsOwn'
  BY LockAssumption, TokensAreNotEmpty
     DEF LockInvariant, LockTypeOK, ReleasesItsOwn, AtStep, Mine, On, Unlink,
         Unlinks, MovesTo
<1>7. RemovesTheDead'
  BY DEF LockInvariant, RemovesTheDead, AtStep, Mine, On, OwnerAlive, Owner, Tokens,
     Free, NoToken, OwnersHaveOne, Unlink, Unlinks, MovesTo
<1>8. swapped' \/ HoldersAreNamed'
  <2>1. SUFFICES ASSUME ~swapped'  PROVE HoldersAreNamed'
    OBVIOUS
  <2>2. ASSUME NEW q \in Places, q # p, process[q].at \in Holding, OwnerAlive(OwnerOf[q])
        PROVE  FALSE
    <3>1. ~swapped /\ lockFile \in {Free, [token |-> process[p].seen, written |-> TRUE]}
      BY <2>1 DEF Unlink, Unlinks
    <3>2. lockFile.token = Mine(q)
      BY <2>2, <3>1 DEF LockInvariant, HoldersAreNamed
    <3>3. process[p].seen = Mine(q)
      <4>1. lockFile # Free
        BY <3>2, FilesNameSomeone
      <4>2. lockFile = [token |-> process[p].seen, written |-> TRUE]
        BY <3>1, <4>1
      <4>3. \A t : [token |-> t, written |-> TRUE].token = t
        OBVIOUS
      <4> QED  BY <3>2, <4>2, <4>3
    <3> QED
      BY <2>2, <3>3 DEF LockInvariant, RemovesTheDead, Unlink, Unlinks, AtStep, Holding, On
  <2>3. ASSUME NEW q \in Places, process'[q].at \in Holding, OwnerAlive(OwnerOf[q])'
        PROVE  q # p /\ process[q].at \in Holding /\ OwnerAlive(OwnerOf[q])
    BY <2>3 DEF OwnerAlive, On, AtStep, Holding, Unlink, Unlinks, MovesTo
  <2> QED  BY <2>2, <2>3 DEF HoldersAreNamed
<1> QED  BY <1>1, <1>2, <1>3, <1>4, <1>5, <1>6, <1>7, <1>8 DEF LockInvariant

LEMMA StopWorkerKeeps ==
    ASSUME LockInvariant, NEW p \in Places, StopWorker(p)
    PROVE  LockInvariant'
<1>1. LockTypeOK'
  BY DEF LockInvariant, LockTypeOK, Tokens, Mine, ProcAt, NoToken, Free, StopWorker,
     Signalled, Ended
<1>2. LivesCounted'
  BY LockAssumption, TokensAreNotEmpty
     DEF LockInvariant, LockTypeOK, LivesCounted, On, AtStep, StopWorker, Signalled,
         Ended
<1>3. OwnersHaveOne'
  BY LockAssumption, TokensAreNotEmpty
     DEF LockInvariant, LockTypeOK, OwnersHaveOne, On, AtStep, StopWorker,
         Signalled, Ended
<1>4. TokensArePast'
  BY DEF LockInvariant, TokensArePast, On, Tokens, Mine, Free, NoToken, StopWorker,
     Signalled, Ended
<1>5. AcquirersAreNew'
  BY DEF LockInvariant, AcquirersAreNew, AtStep, On, Mine, Acquiring, Free, Tokens,
     NoToken, StopWorker, Signalled, Ended
<1>6. ReleasesItsOwn'
  BY LockAssumption, TokensAreNotEmpty
     DEF LockInvariant, LockTypeOK, ReleasesItsOwn, AtStep, Mine, On, StopWorker,
         Signalled, Ended
<1>7. RemovesTheDead'
  BY DEF LockInvariant, RemovesTheDead, AtStep, Mine, On, OwnerAlive, Owner, Tokens,
     Free, NoToken, OwnersHaveOne, StopWorker, Signalled, Ended
<1>8. swapped' \/ HoldersAreNamed'
  BY DEF LockInvariant, HoldersAreNamed, ReleasesItsOwn, RemovesTheDead,
     AcquirersAreNew, AtStep, Mine, On, OwnerAlive, Acquiring, Holding, Owner, Free,
     StopWorker, Signalled, Ended
<1> QED  BY <1>1, <1>2, <1>3, <1>4, <1>5, <1>6, <1>7, <1>8 DEF LockInvariant

LEMMA ReleaseCompareKeeps ==
    ASSUME LockInvariant, NEW p \in Places, ReleaseCompare(p)
    PROVE  LockInvariant'
<1>1. LockTypeOK'
  BY DEF LockInvariant, LockTypeOK, Tokens, Mine, ProcAt, NoToken, Free, ReleaseCompare,
     ProcessEnds, Ended
<1>2. LivesCounted'
  BY LockAssumption, TokensAreNotEmpty
     DEF LockInvariant, LockTypeOK, LivesCounted, On, AtStep, ReleaseCompare,
         ProcessEnds, Ended
<1>3. OwnersHaveOne'
  BY LockAssumption, TokensAreNotEmpty
     DEF LockInvariant, LockTypeOK, OwnersHaveOne, On, AtStep, ReleaseCompare,
         ProcessEnds, Ended
<1>4. TokensArePast'
  BY DEF LockInvariant, LockTypeOK, TokensArePast, On, Tokens, Mine, Free, NoToken,
     ReleaseCompare, ProcessEnds, Ended
<1>5. AcquirersAreNew'
  BY DEF LockInvariant, LockTypeOK, AcquirersAreNew, AtStep, On, Mine, Acquiring, Free,
     Tokens, NoToken, ReleaseCompare, ProcessEnds, Ended
<1>6. ReleasesItsOwn'
  BY LockAssumption, TokensAreNotEmpty
     DEF LockInvariant, LockTypeOK, ReleasesItsOwn, AtStep, Mine, On,
         ReleaseCompare, ProcessEnds, Ended
<1>7. RemovesTheDead'
  BY DEF LockInvariant, LockTypeOK, RemovesTheDead, AtStep, Mine, On, OwnerAlive, Owner,
     Tokens, Free, NoToken, OwnersHaveOne, ReleaseCompare, ProcessEnds, Ended
<1>8. swapped' \/ HoldersAreNamed'
  BY LockAssumption
     DEF LockInvariant, LockTypeOK, HoldersAreNamed, ReleasesItsOwn, RemovesTheDead,
         AcquirersAreNew, AtStep, Mine, On, OwnerAlive, Acquiring, Holding, Owner, Free,
         ReleaseCompare, ProcessEnds, Ended
<1> QED  BY <1>1, <1>2, <1>3, <1>4, <1>5, <1>6, <1>7, <1>8 DEF LockInvariant

LEMMA ReleaseUnlinkKeeps ==
    ASSUME LockInvariant, NEW p \in Places, ReleaseUnlink(p)
    PROVE  LockInvariant'
<1>1. LockTypeOK'
  BY DEF LockInvariant, LockTypeOK, Tokens, Mine, ProcAt, NoToken, Free, ReleaseUnlink,
     Unlinks, ProcessEnds, Ended
<1>2. LivesCounted'
  BY LockAssumption, TokensAreNotEmpty
     DEF LockInvariant, LockTypeOK, LivesCounted, On, AtStep, ReleaseUnlink,
         Unlinks, ProcessEnds, Ended
<1>3. OwnersHaveOne'
  BY LockAssumption, TokensAreNotEmpty
     DEF LockInvariant, LockTypeOK, OwnersHaveOne, On, AtStep, ReleaseUnlink,
         Unlinks, ProcessEnds, Ended
<1>4. TokensArePast'
  BY DEF LockInvariant, TokensArePast, On, Tokens, Mine, Free, NoToken, ReleaseUnlink,
     Unlinks, ProcessEnds, Ended
<1>5. AcquirersAreNew'
  BY DEF AcquirersAreNew, AtStep, On, Mine, Acquiring, Free, Tokens, NoToken,
     ReleaseUnlink, Unlinks, ProcessEnds, Ended
<1>6. ReleasesItsOwn'
  BY LockAssumption, TokensAreNotEmpty
     DEF LockInvariant, LockTypeOK, ReleasesItsOwn, AtStep, Mine, On, ReleaseUnlink,
         Unlinks, ProcessEnds, Ended
<1>7. RemovesTheDead'
  BY DEF LockInvariant, RemovesTheDead, AtStep, Mine, On, OwnerAlive, Owner, Tokens,
     Free, NoToken, OwnersHaveOne, ReleaseUnlink, Unlinks, ProcessEnds, Ended
<1>8. swapped' \/ HoldersAreNamed'
  <2>1. SUFFICES ASSUME ~swapped'  PROVE HoldersAreNamed'
    OBVIOUS
  <2>2. ASSUME NEW q \in Places, q # p, process[q].at \in Holding, OwnerAlive(OwnerOf[q])
        PROVE  FALSE
    <3>1. ~swapped /\ lockFile \in {Free, [token |-> process[p].seen, written |-> TRUE]}
      BY <2>1 DEF ReleaseUnlink, Unlinks
    <3>2. lockFile.token = Mine(q)
      BY <2>2, <3>1 DEF LockInvariant, HoldersAreNamed
    <3>3. process[p].seen = Mine(q)
      <4>1. lockFile # Free
        BY <3>2, FilesNameSomeone
      <4>2. lockFile = [token |-> process[p].seen, written |-> TRUE]
        BY <3>1, <4>1
      <4>3. \A t : [token |-> t, written |-> TRUE].token = t
        OBVIOUS
      <4> QED  BY <3>2, <4>2, <4>3
    <3> QED
      BY <2>2, <3>3 DEF LockInvariant, ReleasesItsOwn, ReleaseUnlink, Unlinks, AtStep, Mine
  <2>3. ASSUME NEW q \in Places, process'[q].at \in Holding, OwnerAlive(OwnerOf[q])'
        PROVE  q # p /\ process[q].at \in Holding /\ OwnerAlive(OwnerOf[q])
    BY <2>3
       DEF LockInvariant, LockTypeOK, OwnerAlive, On, Holding, ReleaseUnlink, Unlinks,
           ProcessEnds, Ended
  <2> QED  BY <2>2, <2>3 DEF HoldersAreNamed
<1> QED  BY <1>1, <1>2, <1>3, <1>4, <1>5, <1>6, <1>7, <1>8 DEF LockInvariant

LEMMA WorkerDiesKeeps ==
    ASSUME LockInvariant, NEW p \in Places, WorkerDies(p)
    PROVE  LockInvariant'
<1>1. LockTypeOK'
  BY DEF LockInvariant, LockTypeOK, Tokens, Mine, ProcAt, NoToken, Free, WorkerDies,
     ProcessEnds, Ended
<1>2. LivesCounted'
  BY LockAssumption, TokensAreNotEmpty
     DEF LockInvariant, LockTypeOK, LivesCounted, On, AtStep, WorkerDies,
         ProcessEnds, Ended
<1>3. OwnersHaveOne'
  BY LockAssumption, TokensAreNotEmpty
     DEF LockInvariant, LockTypeOK, OwnersHaveOne, On, AtStep, WorkerDies,
         ProcessEnds, Ended
<1>4. TokensArePast'
  BY DEF LockInvariant, TokensArePast, On, Tokens, Mine, Free, NoToken, WorkerDies,
     ProcessEnds, Ended
<1>5. AcquirersAreNew'
  BY DEF LockInvariant, AcquirersAreNew, AtStep, On, Mine, Acquiring, Free, Tokens,
     NoToken, WorkerDies, ProcessEnds, Ended
<1>6. ReleasesItsOwn'
  BY LockAssumption, TokensAreNotEmpty
     DEF LockInvariant, LockTypeOK, ReleasesItsOwn, AtStep, Mine, On, WorkerDies,
         ProcessEnds, Ended
<1>7. RemovesTheDead'
  BY DEF LockInvariant, RemovesTheDead, AtStep, Mine, On, OwnerAlive, Owner, Tokens,
     Free, NoToken, OwnersHaveOne, WorkerDies, ProcessEnds, Ended
<1>8. swapped' \/ HoldersAreNamed'
  BY DEF LockInvariant, HoldersAreNamed, ReleasesItsOwn, RemovesTheDead,
     AcquirersAreNew, AtStep, Mine, On, OwnerAlive, Acquiring, Holding, Owner, Free,
     WorkerDies, ProcessEnds, Ended
<1> QED  BY <1>1, <1>2, <1>3, <1>4, <1>5, <1>6, <1>7, <1>8 DEF LockInvariant

LEMMA LockStepKeeps ==
    ASSUME LockInvariant, NEW p \in Places, LockStep(p)
    PROVE  LockInvariant'
BY StartWorkerKeeps, CreateKeeps, WriteLockKeeps, RefuseKeeps, ReadKeeps, SignalKeeps,
   DiedKeeps, KillHardKeeps, GiveUpKeeps, CompareKeeps, UnlinkKeeps, StopWorkerKeeps,
   ReleaseCompareKeeps, ReleaseUnlinkKeeps, WorkerDiesKeeps
   DEF LockStep

LEMMA WrapperExitsKeeps ==
    ASSUME LockInvariant, NEW o \in Wrappers, WrapperExits(o)
    PROVE  LockInvariant'
<1>1. LockTypeOK'
  BY DEF LockInvariant, LockTypeOK, WrapperExits
<1>2. \A p \in Places : /\ On(p)' = On(p)
                        /\ Mine(p)' = Mine(p)
                        /\ OwnerAlive(OwnerOf[p])' => OwnerAlive(OwnerOf[p])
  BY DEF LockTypeOK, On, AtStep, Mine, OwnerAlive, WrapperExits
<1>3. LivesCounted' /\ OwnersHaveOne' /\ ReleasesItsOwn'
  BY <1>2 DEF LockInvariant, LivesCounted, OwnersHaveOne, ReleasesItsOwn, AtStep, WrapperExits
<1>4. TokensArePast'
  BY DEF LockInvariant, TokensArePast, WrapperExits
<1>5. AcquirersAreNew'
  BY <1>2 DEF LockInvariant, AcquirersAreNew, WrapperExits
<1>6. RemovesTheDead'
  BY <1>2 DEF LockInvariant, RemovesTheDead, WrapperExits
<1>7. swapped' \/ HoldersAreNamed'
  BY <1>2 DEF LockInvariant, HoldersAreNamed, WrapperExits
<1> QED  BY <1>1, <1>3, <1>4, <1>5, <1>6, <1>7 DEF LockInvariant

LEMMA LockNextKeeps == LockInvariant /\ [LockNext]_lockVars => LockInvariant'
<1>1. ASSUME LockInvariant, UNCHANGED lockVars  PROVE LockInvariant'
  BY <1>1 DEF lockVars, LockInvariant, LockTypeOK, LivesCounted, OwnersHaveOne, TokensArePast,
     AcquirersAreNew, ReleasesItsOwn, RemovesTheDead, HoldersAreNamed, On, AtStep, Mine, OwnerAlive
<1> QED  BY <1>1, LockStepKeeps, WrapperExitsKeeps DEF LockNext

LEMMA HoldersAreOne == LockInvariant => OneWorkerPerCheckout
<1> SUFFICES ASSUME LockInvariant, ~swapped, NEW p \in Places, NEW q \in Places,
                    AtStep(p, "held"), OwnerAlive(OwnerOf[p]),
                    AtStep(q, "held"), OwnerAlive(OwnerOf[q])
             PROVE  p = q
  BY DEF OneWorkerPerCheckout
<1>1. lockFile.token = Mine(p) /\ lockFile.token = Mine(q)
  BY DEF LockInvariant, HoldersAreNamed, Holding, AtStep
<1> QED  BY <1>1 DEF Mine

-----------------------------------------------------------------------------
LEMMA LockInvariantHolds == LockSpec => []LockInvariant
BY StartsWithoutHolders, LockNextKeeps, PTL DEF LockSpec

\* The lock file, the wrappers and the processes stay of their types.
THEOREM LockTypesCorrect == LockSpec => []LockTypeOK
<1>1. LockInvariant => LockTypeOK  BY DEF LockInvariant
<1> QED  BY <1>1, LockInvariantHolds, PTL

\* As long as nobody unlinked a file that had been replaced since it was compared,
\* one process at a time holds the lock with its owner alive: the work that
\* acquireOrchestrationWorkerLock and releaseOrchestrationWorkerLock are there for.
THEOREM OneWorker == LockSpec => []OneWorkerPerCheckout
BY HoldersAreOne, LockInvariantHolds, PTL
=============================================================================
