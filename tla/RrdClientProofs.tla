--------------------------- MODULE RrdClientProofs ---------------------------
(* Proofs about the life of the daemons that clients meet: for any processes *)
(* and connections, at any addresses, whatever crashes, at most one daemon   *)
(* goes on over a pid file, unless two of them raced for a stale one.  About *)
(* the library rrd_client.c and the tool that uses it: whatever connection   *)
(* is kept from command to command, whatever other clients do, a command     *)
(* goes to the daemon that was named for it and to no other.  And about the  *)
(* conversation: however lines are pipelined and cut up, and whatever the    *)
(* daemon does in between, there is one answer for each line that is owed    *)
(* one, in their order, and a batch reports what failed in it.               *)
EXTENDS RrdClient, NaturalLemmas, FiniteSetTheorems, TLAPS

(* An inode has one address: that of the process that created it, or the one *)
(* where it was left behind.                                                 *)
Home(i, a) == (i \in Procs /\ Addr(i) = a) \/ (i = Stale /\ a \in job.stale)

Phases == {"off", "check", "take", "bind", "write", "serve", "stop", "drain", "gone", "dead"}
Types ==
    /\ job \in Jobs
    /\ phase \in [Procs -> Phases]
    /\ pidFile \in [job.addrs -> Inodes \union {None}]
    /\ pidIn \in [Inodes -> Inodes \union {None}]
    /\ fd \in [Procs -> Inodes \union {None}]
    /\ \A p \in Procs : phase[p] # "off" => p \in job.starts

(* Nothing leads yet to the inode of a process that was not started.         *)
Untouched(i) ==
    /\ pidIn[i] = None
    /\ \A a \in job.addrs : pidFile[a] # i
    /\ \A q \in Procs : fd[q] # i
InodesInv ==
    /\ \A a \in job.addrs : pidFile[a] # None => Home(pidFile[a], a)
    /\ \A p \in Procs : fd[p] # None => Home(fd[p], Addr(p))
    /\ \A p \in Procs : phase[p] = "off" => Untouched(p)

(* A claimant has passed daemonize, or is about to empty the file it found.  *)
(* Without a race it is alone, the name leads to its inode, and what is in   *)
(* there turns others away.                                                  *)
Claims(p) == phase[p] = "take" \/ Holds(p)
Guarded(p) ==
    /\ pidFile[Addr(p)] = fd[p]
    /\ Holds(p) => pidIn[fd[p]] = IF phase[p] \in {"bind", "write"} THEN None ELSE p
    /\ \A q \in Procs : Claims(q) /\ Addr(q) = Addr(p) => q = p
ClaimsInv ==
    \A p \in Procs : Claims(p) => /\ fd[p] # None
                                  /\ Addr(p) \notin raced => Guarded(p)

IInv == Types /\ InodesInv /\ ClaimsInv

-----------------------------------------------------------------------------
(* An inode has one address.                                                 *)
LEMMA OneHome ==
    ASSUME job \in Jobs, NEW i, NEW a, NEW b, Home(i, a), Home(i, b)
    PROVE  a = b
BY RrdProtocolAssumption DEF Home

(* At the beginning there is at most the pid file of a daemon that is gone.  *)
LEMMA NobodyClaims == Init => IInv
<1> SUFFICES ASSUME Init PROVE IInv
  OBVIOUS
<1>1. Types
  BY RrdProtocolAssumption DEF Init, Types, Phases, Inodes
<1>2. InodesInv
  BY RrdProtocolAssumption DEF Init, InodesInv, Untouched, Home, Inodes
<1>3. ClaimsInv
  BY DEF Init, ClaimsInv, Claims, Holds
<1> QED
  BY <1>1, <1>2, <1>3 DEF IInv

(* Nothing that the invariant speaks of changes.                             *)
LEMMA Undisturbed == IInv /\ UNCHANGED <<job, startVars>> => IInv'
BY DEF IInv, Types, InodesInv, Untouched, Home, ClaimsInv, Claims, Holds, Guarded, Addr, Inodes,
       Phases, startVars

(* A process that was started has an address of the job.                     *)
LEMMA AddrOf == ASSUME Types, NEW p \in Procs, phase[p] # "off" PROVE Addr(p) \in job.addrs
BY RrdProtocolAssumption DEF Types, Addr

-----------------------------------------------------------------------------
(* daemonize.                                                                *)

(* The pid file is created exclusively, or found.                            *)
LEMMA StartHolds == ASSUME IInv, NEW p \in Procs, Start(p) PROVE IInv'
<1> USE DEF IInv
<1>0. p \in job.starts /\ Addr(p) \in job.addrs
  BY RrdProtocolAssumption DEF Start, Types, Addr
<1>1. CASE CreatesPidFile(p)
  <2>1. /\ pidFile[Addr(p)] = None
        /\ pidFile' = [pidFile EXCEPT ![Addr(p)] = p]
        /\ fd' = [fd EXCEPT ![p] = p]
        /\ phase' = [phase EXCEPT ![p] = "bind"]
        /\ UNCHANGED <<job, pidIn, raced>>
    BY <1>1 DEF Start, CreatesPidFile, Enter
  <2>2. phase[p] = "off" /\ Untouched(p)
    BY DEF Start, InodesInv
  <2>3. Types'
    BY <1>0, <2>1 DEF Types, Phases, Inodes
  <2>4. InodesInv'
    BY <1>0, <2>1, <2>2, RrdProtocolAssumption DEF InodesInv, Untouched, Home, Types, Addr
  <2>5. \A q \in Procs : Claims(q) /\ Addr(q) = Addr(p) => Addr(q) \in raced
    BY <2>1 DEF ClaimsInv, Guarded
  <2>6. \A q \in Procs : q # p => (Claims(q)' <=> Claims(q)) /\ (Holds(q)' <=> Holds(q)) /\ fd'[q] = fd[q] /\ phase'[q] = phase[q]
    BY <2>1 DEF Claims, Holds, Types
  <2>7. ASSUME NEW q \in Procs, Claims(q)', q # p PROVE fd'[q] # None /\ (Addr(q)' \notin raced' => Guarded(q)')
    <3>1. Claims(q) /\ fd[q] # None BY <2>6, <2>7 DEF ClaimsInv
    <3>2. ASSUME Addr(q) \notin raced PROVE Guarded(q)'
      <4>1. Guarded(q) /\ Addr(q) # Addr(p)
        BY <2>5, <3>1, <3>2 DEF ClaimsInv
      <4>2. pidFile'[Addr(q)] = pidFile[Addr(q)]
        BY <2>1, <4>1, <3>1, AddrOf DEF Types, Claims, Holds
      <4> QED BY <2>1, <2>6, <4>1, <4>2, <2>7 DEF Guarded, Addr
    <3> QED BY <2>1, <2>6, <2>7, <3>1, <3>2 DEF Addr
  <2>8. fd'[p] # None /\ (Addr(p)' \notin raced' => Guarded(p)')
    <3>1. fd'[p] = p /\ pidFile'[Addr(p)] = p /\ pidIn'[p] = None /\ phase'[p] = "bind"
      BY <1>0, <2>1, <2>2 DEF Types, Untouched
    <3> QED BY <2>1, <2>5, <2>6, <3>1, RrdProtocolAssumption DEF Guarded, Addr, Holds
  <2>9. ClaimsInv'
    BY <2>7, <2>8 DEF ClaimsInv
  <2> QED BY <2>3, <2>4, <2>9
<1>2. CASE ~CreatesPidFile(p)
  <2>1. /\ phase' = [phase EXCEPT ![p] = "check"]
        /\ UNCHANGED <<job, pidIn, raced, pidFile, fd>> /\ phase[p] = "off"
    BY <1>2 DEF Start, Enter
  <2>2. Types' BY <1>0, <2>1 DEF Types, Phases, Inodes
  <2>3. InodesInv' BY <2>1 DEF InodesInv, Untouched, Home, Types, Addr
  <2>4. ClaimsInv' BY <2>1 DEF ClaimsInv, Claims, Holds, Guarded, Addr, Types
  <2> QED BY <2>2, <2>3, <2>4
<1> QED BY <1>1, <1>2

(* check_pidfile turns away or lets take over.                               *)
LEMMA CheckHolds == ASSUME IInv, NEW p \in Procs, Check(p) PROVE IInv'
<1> USE DEF IInv
<1> DEFINE i == pidFile[Addr(p)]
           ok == i # None /\ pidIn[i] # None /\ (pidIn[i] \in Procs => ~Alive(pidIn[i]))
<1>0. phase[p] = "check" /\ Addr(p) \in job.addrs
  BY AddrOf DEF Check
<1>1. /\ phase' = [phase EXCEPT ![p] = IF ok THEN "take" ELSE "gone"]
      /\ fd' = [fd EXCEPT ![p] = IF ok THEN i ELSE None]
      /\ raced' = raced \union {Addr(p) : q \in {q \in Procs : ok /\ phase[q] = "take" /\ fd[q] = i}}
      /\ UNCHANGED <<job, pidFile, pidIn>>
  BY DEF Check, Enter
<1>2. Types'
  <2>1. i \in Inodes \union {None}   BY <1>0 DEF Types
  <2> QED BY <1>0, <1>1, <2>1 DEF Types, Phases
<1>3. InodesInv'
  <2>1. ok => Home(i, Addr(p))       BY <1>0 DEF InodesInv
  <2>2. ASSUME NEW r \in Procs, phase[r] = "off" PROVE Untouched(r) /\ i # r
    BY <1>0, <2>2 DEF InodesInv, Untouched
  <2>3. \A r \in Procs : /\ fd'[r] = IF r # p THEN fd[r] ELSE IF ok THEN i ELSE None
                         /\ phase'[r] = "off" => phase[r] = "off" /\ r # p
    BY <1>0, <1>1 DEF Types
  <2>4. (\A a \in job.addrs : pidFile[a] # None => Home(pidFile[a], a))'
    BY <1>1 DEF InodesInv, Home, Addr
  <2>5. (\A r \in Procs : fd[r] # None => Home(fd[r], Addr(r)))'
    BY <1>1, <2>1, <2>3 DEF InodesInv, Home, Addr
  <2>6. ASSUME NEW r \in Procs, phase'[r] = "off" PROVE Untouched(r)'
    <3>1. phase[r] = "off" /\ Untouched(r) /\ i # r
      BY <2>2, <2>3, <2>6
    <3>2. r # None
      BY RrdProtocolAssumption
    <3>3. \A q \in Procs : fd'[q] # r
      BY <2>3, <3>1, <3>2 DEF Untouched
    <3> QED BY <1>1, <3>1, <3>3 DEF Untouched
  <2> HIDE DEF i, ok
  <2> QED BY <2>4, <2>5, <2>6 DEF InodesInv
<1>4. \A q \in Procs : q # p =>
        (Claims(q)' <=> Claims(q)) /\ (Holds(q)' <=> Holds(q)) /\ fd'[q] = fd[q] /\ phase'[q] = phase[q]
  BY <1>1 DEF Claims, Holds, Types
<1>5. ~Claims(p) /\ (Claims(p)' <=> ok) /\ ~Holds(p)' /\ (ok => fd'[p] = i)
  BY <1>0, <1>1 DEF Claims, Holds, Types
<1>6. ASSUME NEW q \in Procs, Claims(q), Addr(q) = Addr(p), Addr(p) \notin raced', ok PROVE FALSE
  <2>1. Guarded(q) /\ fd[q] = i    BY <1>1, <1>6 DEF ClaimsInv, Guarded
  <2>2. CASE phase[q] = "take"     BY <1>1, <1>6, <2>1, <2>2
  <2>3. CASE Holds(q)
    <3>1. pidIn[i] = q /\ Alive(q) BY <1>6, <2>1, <2>3 DEF Guarded, Holds, Alive
    <3> QED BY <1>6, <3>1
  <2> QED BY <1>6, <2>2, <2>3 DEF Claims
<1>7. ASSUME NEW q \in Procs, Claims(q)', q # p
      PROVE  fd'[q] # None /\ (Addr(q)' \notin raced' => Guarded(q)')
  <2>1. Claims(q) /\ fd[q] # None  BY <1>4, <1>7 DEF ClaimsInv
  <2>2. ASSUME Addr(q) \notin raced' PROVE Guarded(q)'
    <3>1. Guarded(q)               BY <1>1, <2>1, <2>2 DEF ClaimsInv
    <3> QED BY <1>1, <1>4, <1>5, <1>6, <1>7, <2>1, <2>2, <3>1 DEF Guarded, Addr
  <2> QED BY <1>1, <1>4, <1>7, <2>1, <2>2 DEF Addr
<1>8. ASSUME Claims(p)' PROVE fd'[p] # None /\ (Addr(p)' \notin raced' => Guarded(p)')
  BY <1>1, <1>4, <1>5, <1>6, <1>8 DEF Guarded, Addr
<1> QED BY <1>2, <1>3, <1>7, <1>8 DEF ClaimsInv

-----------------------------------------------------------------------------
(* A claimant p that is already alone, or in a race, goes on: only its phase *)
(* and what is in its inode change.                                          *)
LEMMA ClaimantGoesOn ==
    ASSUME IInv, NEW p \in Procs, Claims(p), NEW ph \in Phases, NEW i \in Inodes \union {None},
           phase' = [phase EXCEPT ![p] = ph],
           ph \in {"bind", "write", "serve", "stop", "drain"},
           pidIn' = [pidIn EXCEPT ![fd[p]] = i],
           Addr(p) \notin raced => i = IF ph \in {"bind", "write"} THEN None ELSE p,
           UNCHANGED <<job, pidFile, fd, raced>>
    PROVE  IInv'
<1> USE DEF IInv
<1>0. fd[p] # None /\ fd[p] \in Inodes /\ phase[p] # "off" /\ p \in job.starts
  BY DEF ClaimsInv, Claims, Holds, Types
<1>1. Types'
  BY <1>0 DEF Types
<1>2. InodesInv'
  <2>1. ASSUME NEW r \in Procs, phase'[r] = "off" PROVE Untouched(r)'
    <3>1. phase[r] = "off" /\ Untouched(r)  BY <1>0, <2>1 DEF Types, InodesInv
    <3>2. fd[p] # r                         BY <3>1 DEF Untouched
    <3> QED BY <3>1, <3>2 DEF Untouched, Types, Inodes
  <2> QED BY <2>1 DEF InodesInv, Home, Addr
<1>3. \A q \in Procs : q # p =>
        (Claims(q)' <=> Claims(q)) /\ (Holds(q)' <=> Holds(q)) /\ phase'[q] = phase[q]
  BY DEF Claims, Holds, Types
<1>4. phase'[p] = ph /\ pidIn'[fd[p]] = i
  BY <1>0 DEF Types
<1>5. ASSUME NEW q \in Procs, Claims(q)', q # p
      PROVE  fd'[q] # None /\ (Addr(q)' \notin raced' => Guarded(q)')
  <2>1. Claims(q) /\ fd[q] # None  BY <1>3, <1>5 DEF ClaimsInv
  <2>2. ASSUME Addr(q) \notin raced PROVE Guarded(q)'
    <3>1. Guarded(q) /\ Addr(q) # Addr(p)
      BY <1>5, <2>1, <2>2 DEF ClaimsInv, Guarded
    <3>2. fd[q] # fd[p]
      BY <1>0, <2>1, <3>1, OneHome DEF Types, InodesInv
    <3>3. pidIn'[fd[q]] = pidIn[fd[q]]
      BY <3>2, <2>1 DEF Types
    <3> QED BY <1>3, <1>5, <3>1, <3>3 DEF Guarded, Addr
  <2> QED BY <2>1, <2>2 DEF Addr
<1>6. fd'[p] # None /\ (Addr(p)' \notin raced' => Guarded(p)')
  <2>1. ASSUME Addr(p) \notin raced PROVE Guarded(p)'
    <3>1. Guarded(p)               BY <2>1 DEF ClaimsInv
    <3> QED BY <1>3, <1>4, <2>1, <3>1 DEF Guarded, Addr
  <2> QED BY <1>0, <2>1 DEF Addr
<1> QED BY <1>1, <1>2, <1>5, <1>6 DEF ClaimsInv

(* A process that leaves: it may take with it the name of its address.       *)
LEMMA ProcessLeaves ==
    ASSUME IInv, NEW p \in Procs, phase[p] # "off",
           phase' = [phase EXCEPT ![p] = "gone"] \/ phase' = [phase EXCEPT ![p] = "dead"],
           \/ UNCHANGED pidFile
           \/ Claims(p) /\ pidFile' = [pidFile EXCEPT ![Addr(p)] = None],
           UNCHANGED <<job, pidIn, fd, raced>>
    PROVE  IInv'
<1> USE DEF IInv
<1>0. p \in job.starts /\ Addr(p) \in job.addrs
  BY AddrOf DEF Types
<1>1. Types'
  BY <1>0 DEF Types, Phases
<1>2. \A q \in Procs : q # p =>
        (Claims(q)' <=> Claims(q)) /\ (Holds(q)' <=> Holds(q)) /\ phase'[q] = phase[q]
  BY DEF Claims, Holds, Types
<1>3. ~Claims(p)' /\ phase'[p] # "off"
  BY DEF Claims, Holds, Types
<1>4. \A a \in job.addrs : pidFile'[a] = pidFile[a] \/ pidFile'[a] = None
  BY <1>0 DEF Types
<1>5. InodesInv'
  BY <1>2, <1>3, <1>4, RrdProtocolAssumption DEF InodesInv, Untouched, Home, Addr
<1>6. ASSUME NEW q \in Procs, Claims(q)' PROVE fd'[q] # None /\ (Addr(q)' \notin raced' => Guarded(q)')
  <2>1. q # p /\ Claims(q) /\ fd[q] # None  BY <1>2, <1>3, <1>6 DEF ClaimsInv
  <2>2. ASSUME Addr(q) \notin raced PROVE Guarded(q)'
    <3>1. Guarded(q)                        BY <2>1, <2>2 DEF ClaimsInv
    <3>2. pidFile'[Addr(q)] = pidFile[Addr(q)]
      <4>1. CASE UNCHANGED pidFile          BY <4>1
      <4>2. CASE Claims(p) /\ pidFile' = [pidFile EXCEPT ![Addr(p)] = None]
        <5>1. Addr(q) # Addr(p)             BY <2>1, <3>1, <4>2 DEF Guarded
        <5>2. Addr(q) \in job.addrs         BY <2>1, AddrOf DEF Claims, Holds
        <5> QED BY <4>2, <5>1, <5>2 DEF Types
      <4> QED BY <4>1, <4>2
    <3> QED BY <1>2, <1>3, <2>1, <3>1, <3>2 DEF Guarded, Addr
  <2> QED BY <2>1, <2>2 DEF Addr
<1> QED BY <1>1, <1>5, <1>6 DEF ClaimsInv

(* The same when what is in the inode stays.                                 *)
LEMMA ClaimantKeepsPid ==
    ASSUME IInv, NEW p \in Procs, NEW ph \in Phases,
           \/ phase[p] = "bind" /\ ph = "write"
           \/ phase[p] \in {"serve", "stop"} /\ ph \in {"stop", "drain"},
           phase' = [phase EXCEPT ![p] = ph],
           UNCHANGED <<job, pidFile, pidIn, fd, raced>>
    PROVE  IInv'
<1>1. Claims(p) /\ Holds(p)  BY DEF Claims, Holds
<1>2. fd[p] \in Inodes       BY <1>1 DEF IInv, ClaimsInv, Types
<1>3. pidIn[fd[p]] \in Inodes \union {None} /\ pidIn' = [pidIn EXCEPT ![fd[p]] = pidIn[fd[p]]]
  BY <1>2 DEF IInv, Types
<1>4. Addr(p) \notin raced => pidIn[fd[p]] = IF ph \in {"bind", "write"} THEN None ELSE p
  BY <1>1 DEF IInv, ClaimsInv, Guarded
<1>5. ph \in {"bind", "write", "serve", "stop", "drain"}  OBVIOUS
<1> QED BY <1>1, <1>3, <1>4, <1>5, ClaimantGoesOn

-----------------------------------------------------------------------------
(* The steps of a process.                                                   *)
LEMMA ProcessHolds == ASSUME IInv, NEW p \in Procs, Process(p) PROVE IInv'
<1>1. CASE Start(p)        BY <1>1, StartHolds
<1>2. CASE Check(p)        BY <1>2, CheckHolds
<1>3. CASE TakeOver(p)
  <2>1. Claims(p) /\ "bind" \in Phases /\ None \in Inodes \union {None}
    BY <1>3 DEF TakeOver, Claims, Phases
  <2>2. /\ phase' = [phase EXCEPT ![p] = "bind"]
        /\ pidIn' = [pidIn EXCEPT ![fd[p]] = None]
        /\ UNCHANGED <<job, pidFile, fd, raced>>
    BY <1>3 DEF TakeOver, Enter
  <2> QED BY <2>1, <2>2, ClaimantGoesOn
<1>4. CASE BindUnix(p)
  <2>1. phase[p] = "bind" /\ phase' = [phase EXCEPT ![p] = "write"]
        /\ UNCHANGED <<job, pidFile, pidIn, fd, raced>>
    BY <1>4 DEF BindUnix, Enter
  <2> QED BY <2>1, ClaimantKeepsPid DEF Phases
<1>5. CASE BindNetwork(p)
  <2>1. phase[p] = "bind" /\ UNCHANGED <<job, pidIn, fd, raced>>
    BY <1>5 DEF BindNetwork
  <2>2. \/ phase' = [phase EXCEPT ![p] = "write"] /\ UNCHANGED pidFile
        \/ phase' = [phase EXCEPT ![p] = "gone"] /\ pidFile' = [pidFile EXCEPT ![Addr(p)] = None]
    BY <1>5 DEF BindNetwork, Enter
  <2>3. Claims(p)          BY <2>1 DEF Claims, Holds
  <2> QED BY <2>1, <2>2, <2>3, ClaimantKeepsPid, ProcessLeaves DEF Phases
<1>6. CASE WritePid(p)
  <2>1. Claims(p) /\ "serve" \in Phases /\ p \in Inodes \union {None}
    BY <1>6 DEF WritePid, Claims, Holds, Phases, Inodes
  <2>2. /\ phase' = [phase EXCEPT ![p] = "serve"]
        /\ pidIn' = [pidIn EXCEPT ![fd[p]] = p]
        /\ UNCHANGED <<job, pidFile, fd, raced>>
    BY <1>6 DEF WritePid, Enter
  <2> QED BY <2>1, <2>2, ClaimantGoesOn
<1>7. CASE CloseListenSockets(p)
  <2>1. phase[p] = "stop" /\ phase' = [phase EXCEPT ![p] = "drain"]
        /\ UNCHANGED <<job, pidFile, pidIn, fd, raced>>
    BY <1>7 DEF CloseListenSockets, Enter
  <2> QED BY <2>1, ClaimantKeepsPid DEF Phases
<1>8. CASE Exit(p)
  <2>1. /\ phase[p] = "drain" /\ phase' = [phase EXCEPT ![p] = "gone"]
        /\ pidFile' = [pidFile EXCEPT ![Addr(p)] = None]
        /\ UNCHANGED <<job, pidIn, fd, raced>>
    BY <1>8 DEF Exit, Enter
  <2> QED BY <2>1, ProcessLeaves DEF Claims, Holds
<1>9. CASE FlushThread(p) \/ TakeFirst(p) \/ WriteOut(p)
  BY <1>9, Undisturbed DEF FlushThread, TakeFirst, WriteOut
<1> QED BY <1>1, <1>2, <1>3, <1>4, <1>5, <1>6, <1>7, <1>8, <1>9 DEF Process

(* Who is killed or told to stop.                                            *)
LEMMA SignalsHold == ASSUME IInv, Signals PROVE IInv'
<1>1. ASSUME NEW p \in Procs, Crash(p) PROVE IInv'
  <2>1. /\ phase[p] # "off" /\ phase' = [phase EXCEPT ![p] = "dead"]
        /\ UNCHANGED <<job, pidFile, pidIn, fd, raced>>
    BY <1>1 DEF Crash, Enter, Alive
  <2> QED BY <2>1, ProcessLeaves
<1>2. ASSUME NEW p \in Procs, Stop(p) PROVE IInv'
  <2>1. phase[p] = "serve" /\ phase' = [phase EXCEPT ![p] = "stop"]
        /\ UNCHANGED <<job, pidFile, pidIn, fd, raced>>
    BY <1>2 DEF Stop, Enter, Serving
  <2> QED BY <2>1, ClaimantKeepsPid DEF Phases
<1> QED BY <1>1, <1>2 DEF Signals

(* Connections and clients leave the processes alone.                        *)
LEMMA ConnectionHolds == ASSUME IInv, NEW c \in Conns, Accept(c) \/ Connection(c) PROVE IInv'
<1>1. Accept(c) \/ Leave(c) \/ ReadSome(c) => UNCHANGED <<job, startVars>>
  BY DEF Accept, Leave, ReadSome
<1>2. Quit(c) \/ Refuse(c) \/ BatchStart(c) \/ BatchDone(c) => UNCHANGED <<job, startVars>>
  BY DEF Quit, Refuse, BatchStart, BatchDone
<1>3. Stats(c) \/ Help(c) \/ Queue(c) \/ ShowPending(c) => UNCHANGED <<job, startVars>>
  BY DEF Stats, Help, Queue, ShowPending, PendingAt, Show
<1>4. RefuseUpdate(c) \/ Update(c) \/ Forget(c) \/ FlushAll(c) => UNCHANGED <<job, startVars>>
  BY DEF RefuseUpdate, Update, Forget, FlushAll
<1>5. FlushNothing(c) \/ FlushWaits(c) \/ FlushReturns(c) => UNCHANGED <<job, startVars>>
  BY DEF FlushNothing, FlushWaits, FlushReturns
<1> QED BY <1>1, <1>2, <1>3, <1>4, <1>5, Undisturbed DEF Connection, Handle

(* Clients touch neither pid files nor sockets.                              *)
LEMMA ClientsHold == ASSUME IInv, Tool \/ \E c \in Conns : Raw(c) PROVE IInv'
<1>1. ASSUME NEW c \in Conns, Raw(c) PROVE UNCHANGED <<job, startVars>>
  BY <1>1 DEF Raw, RawConnect, RawSend, RawLeave, rawUnchanged
<1>2. rrdc_connect \/ ToolFails \/ UpdatesItself \/ Send => UNCHANGED <<job, startVars>>
  BY DEF rrdc_connect, ToolFails, UpdatesItself, Send, toolUnchanged
<1>3. ReadsFile \/ GotAnswer \/ GotNothing \/ ToolExits => UNCHANGED <<job, startVars>>
  BY DEF ReadsFile, GotAnswer, GotNothing, ToolExits, toolUnchanged
<1> QED BY <1>1, <1>2, <1>3, Undisturbed DEF Tool

(* Every step keeps the invariant.                                           *)
LEMMA NextHolds == IInv /\ [Next]_vars => IInv'
<1> SUFFICES ASSUME IInv, [Next]_vars PROVE IInv'
  OBVIOUS
<1>1. CASE Server   BY <1>1, ProcessHolds, ConnectionHolds DEF Server
<1>2. CASE Signals  BY <1>2, SignalsHold
<1>3. CASE Tool \/ \E c \in Conns : Raw(c)  BY <1>3, ClientsHold
<1>4. CASE UNCHANGED vars
  BY <1>4, Undisturbed DEF vars, serverVars, startVars
<1> QED BY <1>1, <1>2, <1>3, <1>4 DEF Next

(* OneDaemon: of the processes started for one address at most one goes on,  *)
(* whatever crashes or leaves, unless two found the same stale pid file      *)
(* before either emptied it (daemonize, check_pidfile, remove_pidfile).      *)
THEOREM AtMostOneDaemon == Spec => []OneDaemon
<1>1. ClientInit => IInv         BY NobodyClaims DEF ClientInit
<1>2. IInv => OneDaemon          BY DEF IInv, ClaimsInv, Guarded, Claims, OneDaemon
<1> QED BY <1>1, <1>2, NextHolds, PTL DEF Spec

-----------------------------------------------------------------------------
(* The record that stands for a connection, the library's state, and what    *)
(* became of a command.                                                      *)
Fields == {"st", "addr", "proc", "asked", "up", "hup", "dn", "rbuf", "batch", "cmds", "wbuf", "wait", "woken",
           "did", "sent", "took", "due"}
ConnShape == DOMAIN conn = Conns /\ \A c \in Conns : DOMAIN conn[c] = Fields
LibTypes ==
    [sd : Conns \union {None}, sd_path : {lib.sd_path}, pc : {"next", "ready", "reply", "dead"},
     failed : BOOLEAN, file : Nat]
Words == {"ok", "read", "local", "refused", "lost", "error", "killed"}
Outcomes == [out : Words, conn : Conns \union {None}, no : Nat, err : BOOLEAN]
Shape ==
    /\ ConnShape /\ lib \in LibTypes /\ results \in Seq(Outcomes)
    /\ \A c \in Conns : conn[c].asked \in Nat

(* A connection that is in use goes to the address a.                        *)
Carries(c, a) == c \in Conns /\ conn[c].st # "new" /\ conn[c].addr = a

(* While the tool works on a command it is connected to the daemon named for *)
(* it, unless the connection failed, and then to none.                       *)
AtWork == lib.pc \in {"ready", "reply"}
LibraryInv ==
    /\ lib.sd # None => Carries(lib.sd, lib.sd_path) /\ lib.sd \notin Raws
    /\ AtWork /\ lib.failed => lib.sd = None
    /\ AtWork /\ ~lib.failed /\ Named # None => lib.sd # None /\ lib.sd_path = Named
    /\ lib.pc = "reply" => ~lib.failed /\ Named # None

(* What was asked went where it should, and what was not asked is admitted.  *)
Rightly(r, named) ==
    /\ r.conn # None => Carries(r.conn, named)
    /\ r.conn = None /\ named # None => r.out \in {"error", "killed"} \/ r.err
ResultsInv == \A i \in 1 .. Len(results) : Rightly(results[i], WasNamed(job.tool[i]))

LInv == Shape /\ LibraryInv /\ ResultsInv

-----------------------------------------------------------------------------
(* What a step does to a connection in use: it goes where it went.           *)
Keeps(k, m) ==
    /\ DOMAIN m = Fields /\ (k.st # "new" => m.st # "new" /\ m.addr = k.addr)
    /\ k.asked \in Nat => m.asked \in Nat
AllKept == DOMAIN conn' = Conns /\ \A c \in Conns : Keeps(conn[c], conn'[c])

(* Nothing is sent before anything is connected.                             *)
LEMMA InitHolds == ClientInit => LInv
<1> SUFFICES ASSUME ClientInit PROVE LInv
  OBVIOUS
<1>1. conn = [c \in Conns |-> Idle] /\ lib = LibInit /\ results = <<>>
  BY DEF ClientInit, Init
<1>2. DOMAIN Idle = Fields /\ Idle.asked = 0
  BY DEF Idle, Fields
<1>3. ConnShape /\ \A c \in Conns : conn[c].asked \in Nat
  BY <1>1, <1>2 DEF ConnShape
<1>4. lib \in LibTypes /\ results \in Seq(Outcomes)
  BY <1>1 DEF LibInit, LibTypes
<1>5. LibraryInv
  BY <1>1 DEF LibInit, LibraryInv, AtWork
<1>6. ResultsInv
  BY <1>1 DEF ResultsInv
<1> QED BY <1>3, <1>4, <1>5, <1>6 DEF LInv, Shape

(* What is in use goes on to carry requests to its address.                  *)
LEMMA CarriesOn ==
    ASSUME AllKept, NEW c, NEW a, Carries(c, a) PROVE Carries(c, a)'
BY DEF AllKept, Keeps, Carries

(* Results that are true stay true, whatever becomes of the connections.     *)
LEMMA ResultsStay ==
    ASSUME ResultsInv, AllKept, job' = job, NEW i \in 1 .. Len(results),
           i \in 1 .. Len(results'), results'[i] = results[i]
    PROVE  Rightly(results[i], WasNamed(job.tool[i]))'
<1>1. Rightly(results[i], WasNamed(job.tool[i]))
  BY DEF ResultsInv
<1> QED BY <1>1, CarriesOn DEF Rightly, WasNamed

(* A step of the daemons or of another client.                               *)
LEMMA ConnectionsMove ==
    ASSUME LInv, AllKept, UNCHANGED <<job, lib, results>>
    PROVE  LInv'
<1> USE DEF LInv
<1>1. Shape'
  BY DEF Shape, ConnShape, LibTypes, AllKept, Keeps
<1>2. LibraryInv'
  BY CarriesOn DEF LibraryInv, AtWork, Named, Cmd, Raws
<1>3. ASSUME NEW i \in 1 .. Len(results') PROVE Rightly(results[i], WasNamed(job.tool[i]))'
  BY ResultsStay
<1>4. ResultsInv'
  BY <1>3 DEF ResultsInv
<1> QED BY <1>1, <1>2, <1>4

-----------------------------------------------------------------------------
(* The daemon's side of a connection.                                        *)

(* One change after the other.                                               *)
LEMMA KeepsOn == ASSUME NEW k, NEW m, NEW n, Keeps(k, m), Keeps(m, n) PROVE Keeps(k, n)
BY DEF Keeps

(* None of what a thread does to its connection, or a crash to all of them,  *)
(* makes it go elsewhere (connection_thread_main, send_response).            *)
LEMMA EndsKeep ==
    ASSUME NEW k, DOMAIN k = Fields
    PROVE  /\ Keeps(k, k)
           /\ Keeps(k, TakeLine(k))
           /\ Keeps(k, Closed(k))
           /\ Keeps(k, Reset(k))
           /\ Keeps(k, Unsent(k))
<1>1. Keeps(k, k) /\ Keeps(k, TakeLine(k)) /\ Keeps(k, Closed(k))
  BY DEF Keeps, Fields, TakeLine, Closed
<1>2. Keeps(k, Reset(k))
  BY DEF Keeps, Fields, Reset
<1>3. Keeps(k, Unsent(k))
  BY DEF Keeps, Fields, Unsent
<1> QED BY <1>1, <1>2, <1>3

(* An answer goes back over the connection that asked.                       *)
LEMMA AnswerKeeps ==
    ASSUME NEW k, DOMAIN k = Fields, NEW ok, NEW info, NEW m \in send_response(k, ok, info)
    PROVE  Keeps(k, m)
<1>1. Keeps(k, Answered(k, ok, info))
  BY EndsKeep DEF Keeps, Fields, Answered
<1>2. Keeps(Answered(k, ok, info), Marked(Answered(k, ok, info), ok))
  BY <1>1 DEF Keeps, Fields, Marked
<1>3. m \in {Marked(Answered(k, ok, info), ok), Closed(k)}
  BY DEF send_response
<1> QED BY <1>1, <1>2, <1>3, KeepsOn, EndsKeep

(* One connection changes.                                                   *)
LEMMA OneChanges ==
    ASSUME ConnShape, NEW c \in Conns, NEW k, Keeps(conn[c], k), Change(c, k)
    PROVE  AllKept
BY EndsKeep DEF ConnShape, Change, AllKept

(* A command is answered after its line, or something else, was taken.       *)
LEMMA ReplyKeeps ==
    ASSUME ConnShape, NEW c \in Conns, NEW k, Keeps(conn[c], k), NEW ok, NEW info,
           Reply(c, k, ok, info)
    PROVE  AllKept
<1>1. PICK m \in send_response(k, ok, info) : Change(c, m)
  BY DEF Reply
<1>2. Keeps(k, m)
  BY AnswerKeeps DEF Keeps
<1>3. Keeps(conn[c], m)
  BY <1>2, KeepsOn
<1> QED BY <1>1, <1>3, OneChanges

(* Who is woken, or freed of what it waited for, stays connected.            *)
LEMMA WokenKeeps ==
    ASSUME ConnShape, NEW p, NEW f
    PROVE  /\ DOMAIN Woken(conn, p, f) = Conns /\ DOMAIN Forgotten(conn, p, f) = Conns
           /\ \A c \in Conns : /\ Keeps(conn[c], Woken(conn, p, f)[c])
                               /\ Keeps(conn[c], Forgotten(conn, p, f)[c])
<1>1. ASSUME NEW c \in Conns PROVE Keeps(conn[c], Woken(conn, p, f)[c])
  BY DEF ConnShape, Keeps, Fields, Woken
<1>2. ASSUME NEW c \in Conns PROVE Keeps(conn[c], Forgotten(conn, p, f)[c])
  <2>1. CASE conn[c].wait = f
    <3> DEFINE w == Woken(conn, p, f)[c]
    <3>1. Keeps(conn[c], w)  BY <1>1
    <3>2. Forgotten(conn, p, f)[c] = [w EXCEPT !.due = <<>>]
      BY <2>1 DEF Forgotten
    <3> HIDE DEF w
    <3> QED BY <3>1, <3>2 DEF Keeps, Fields
  <2>2. CASE conn[c].wait # f
    BY <2>2, EndsKeep DEF ConnShape, Forgotten
  <2> QED BY <2>1, <2>2
<1> QED BY <1>1, <1>2 DEF Woken, Forgotten

(* Every command, and what a thread does in between.                         *)
LEMMA ConnectionKeeps ==
    ASSUME ConnShape, NEW c \in Conns, Accept(c) \/ Connection(c) PROVE AllKept
<1>0. DOMAIN conn[c] = Fields /\ Keeps(conn[c], TakeLine(conn[c]))
  BY EndsKeep DEF ConnShape
<1>1. ASSUME Accept(c) PROVE AllKept
  <2>1. Keeps(conn[c], [conn[c] EXCEPT !.st = "open"])
    BY <1>0 DEF Keeps, Fields
  <2> QED BY <1>1, <2>1, OneChanges DEF Accept
<1>2. ASSUME Leave(c) PROVE AllKept
  BY <1>0, <1>2, EndsKeep, OneChanges DEF Leave
<1>3. ASSUME ReadSome(c) PROVE AllKept
  <2>1. PICK n \in 1 .. Len(conn[c].up) :
           Change(c, [conn[c] EXCEPT !.rbuf = @ \o SubSeq(conn[c].up, 1, n),
                                     !.up = SubSeq(conn[c].up, n + 1, Len(conn[c].up))])
    BY <1>3 DEF ReadSome
  <2>2. Keeps(conn[c], [conn[c] EXCEPT !.rbuf = @ \o SubSeq(conn[c].up, 1, n),
                                       !.up = SubSeq(conn[c].up, n + 1, Len(conn[c].up))])
    BY <1>0 DEF Keeps, Fields
  <2> QED BY <2>1, <2>2, OneChanges
<1>4. ASSUME Quit(c) PROVE AllKept
  <2>1. Keeps(TakeLine(conn[c]), Closed(TakeLine(conn[c])))
    BY <1>0, EndsKeep DEF Keeps
  <2> QED BY <1>0, <1>4, <2>1, KeepsOn, OneChanges DEF Quit
<1>5. ASSUME BatchStart(c) PROVE AllKept
  <2>1. PICK k \in send_response(TakeLine(conn[c]), TRUE, <<>>) :
           Change(c, IF k.st = "open" THEN [k EXCEPT !.batch = TRUE, !.cmds = 0] ELSE k)
    BY <1>5 DEF BatchStart
  <2>2. Keeps(TakeLine(conn[c]), k)
    <3>1. DOMAIN TakeLine(conn[c]) = Fields
      BY <1>0 DEF Keeps
    <3> QED BY <3>1, AnswerKeeps, Zenon
  <2>3. Keeps(k, IF k.st = "open" THEN [k EXCEPT !.batch = TRUE, !.cmds = 0] ELSE k)
    BY <2>2 DEF Keeps, Fields
  <2>4. Keeps(conn[c], k)
    BY <1>0, <2>2, KeepsOn
  <2>5. Keeps(conn[c], IF k.st = "open" THEN [k EXCEPT !.batch = TRUE, !.cmds = 0] ELSE k)
    BY <2>3, <2>4, KeepsOn
  <2> QED BY <2>1, <2>5, OneChanges
<1>6. ASSUME BatchDone(c) PROVE AllKept
  <2>1. Keeps(conn[c], [TakeLine(conn[c]) EXCEPT !.batch = FALSE, !.cmds = 0])
    BY <1>0 DEF Keeps, Fields
  <2> QED BY <1>6, <2>1, ReplyKeeps DEF BatchDone
<1>7. ASSUME Refuse(c) \/ RefuseUpdate(c) \/ FlushNothing(c) \/ FlushAll(c) PROVE AllKept
  BY <1>0, <1>7, ReplyKeeps DEF Refuse, RefuseUpdate, FlushNothing, FlushAll
<1>8. ASSUME NEW cmd, NEW ok, NEW count, Show(c, cmd, ok, count) PROVE AllKept
  BY <1>0, <1>8, ReplyKeeps DEF Show
<1>9. ASSUME Stats(c) \/ Help(c) \/ Queue(c) \/ ShowPending(c) PROVE AllKept
  BY <1>8, <1>9 DEF Stats, Help, Queue, ShowPending, PendingAt
<1>10. ASSUME Update(c) PROVE AllKept
  <2> DEFINE k == conn[c]
             t == Taken(Item(k.proc, get_abs_path(TheLine(k).path)).stamp, TheLine(k).vals)
             u == [TakeLine(k) EXCEPT !.took = Append(@, [of |-> Len(k.did) + 1, vals |-> t.took])]
  <2>1. Reply(c, u, Accepts(t), <<>>)
    BY <1>10 DEF Update
  <2>2. Keeps(k, u)
    BY <1>0 DEF Keeps, Fields
  <2> HIDE DEF u, t
  <2> QED BY <2>1, <2>2, ReplyKeeps
<1>11. ASSUME FlushWaits(c) PROVE AllKept
  <2> DEFINE k == conn[c]
             f == get_abs_path(TheLine(k).path)
             busy == writing[k.proc].file = f
             u == [TakeLine(k) EXCEPT !.wait = f, !.woken = FALSE,
                                      !.due = IF busy THEN <<>> ELSE cache[k.proc][f].vals]
  <2>1. Change(c, u)
    BY <1>11 DEF FlushWaits
  <2>2. Keeps(k, u)
    BY <1>0 DEF Keeps, Fields
  <2> HIDE DEF u
  <2> QED BY <2>1, <2>2, OneChanges
<1>12. ASSUME FlushReturns(c) PROVE AllKept
  <2>1. Keeps(conn[c], [conn[c] EXCEPT !.wait = None, !.woken = FALSE, !.due = <<>>])
    BY <1>0 DEF Keeps, Fields
  <2> QED BY <1>12, <2>1, ReplyKeeps DEF FlushReturns
<1>13. ASSUME Forget(c) PROVE AllKept
  <2> DEFINE p == conn[c].proc
             f == get_abs_path(TheLine(conn[c]).path)
  <2>1. CASE Allowed(TheLine(conn[c])) /\ Cached(p, f)
    <3>1. PICK m \in send_response(TakeLine(conn[c]), TRUE, <<>>) :
             conn' = [Forgotten(conn, p, f) EXCEPT ![c] = m]
      BY <1>13, <2>1 DEF Forget
    <3>2. Keeps(TakeLine(conn[c]), m)
      <4>1. DOMAIN TakeLine(conn[c]) = Fields
        BY <1>0 DEF Keeps
      <4> QED BY <4>1, AnswerKeeps, Zenon
    <3>3. Keeps(conn[c], m)
      BY <1>0, <3>2, KeepsOn
    <3> DEFINE F == Forgotten(conn, p, f)
    <3>4. DOMAIN F = Conns /\ \A d \in Conns : Keeps(conn[d], F[d])
      BY WokenKeeps
    <3>5. conn' = [F EXCEPT ![c] = m]
      BY <3>1
    <3> HIDE DEF F
    <3> QED BY <3>3, <3>4, <3>5 DEF AllKept
  <2>2. CASE ~(Allowed(TheLine(conn[c])) /\ Cached(p, f))
    BY <1>0, <1>13, <2>2, ReplyKeeps DEF Forget
  <2> QED BY <2>1, <2>2
<1> QED
  BY <1>1, <1>2, <1>3, <1>4, <1>5, <1>6, <1>7, <1>9, <1>10, <1>11, <1>12, <1>13
  DEF Connection, Handle

-----------------------------------------------------------------------------
(* Processes and signals.                                                    *)

(* Nothing happens to the connections.                                       *)
LEMMA NoneChanges == ASSUME ConnShape, conn' = conn PROVE AllKept
BY EndsKeep DEF ConnShape, AllKept

(* A process that crashes or goes closes its ends of its connections.        *)
LEMMA ProcessKeeps ==
    ASSUME ConnShape, NEW p \in Procs, Process(p) \/ Crash(p) \/ Stop(p) PROVE AllKept
<1>1. ASSUME Start(p) \/ Check(p) \/ TakeOver(p) \/ BindUnix(p) \/ BindNetwork(p) PROVE AllKept
  BY <1>1, NoneChanges DEF Start, Check, TakeOver, BindUnix, BindNetwork
<1>2. ASSUME WritePid(p) \/ Exit(p) \/ FlushThread(p) \/ TakeFirst(p) \/ Stop(p) PROVE AllKept
  BY <1>2, NoneChanges DEF WritePid, Exit, FlushThread, TakeFirst, Stop
<1>3. ASSUME WriteOut(p) PROVE AllKept
  <2>1. conn' = conn \/ conn' = Woken(conn, p, writing[p].file)
    BY <1>3 DEF WriteOut, Announced
  <2> QED BY <2>1, NoneChanges, WokenKeeps DEF AllKept
<1>4. ASSUME CloseListenSockets(p) PROVE AllKept
  <2>1. conn' = [c \in Conns |-> IF conn[c].proc = p /\ conn[c].st = "backlog" THEN Reset(conn[c]) ELSE conn[c]]
    BY <1>4 DEF CloseListenSockets
  <2>2. ASSUME NEW c \in Conns PROVE Keeps(conn[c], conn'[c])
    BY <2>1, EndsKeep DEF ConnShape
  <2> QED BY <2>1, <2>2 DEF AllKept
<1>5. ASSUME Crash(p) PROVE AllKept
  <2>1. PICK silent \in SUBSET {c \in Conns : conn[c].proc = p} :
           conn' = [c \in Conns |-> IF conn[c].proc # p THEN conn[c]
                                    ELSE Reset(IF c \in silent THEN Unsent(conn[c]) ELSE conn[c])]
    BY <1>5 DEF Crash
  <2>2. ASSUME NEW c \in Conns PROVE Keeps(conn[c], conn'[c])
    <3>1. Keeps(conn[c], conn[c]) /\ Keeps(conn[c], Unsent(conn[c]))
      BY EndsKeep DEF ConnShape
    <3>2. Keeps(conn[c], Reset(conn[c])) /\ Keeps(Unsent(conn[c]), Reset(Unsent(conn[c])))
      BY <3>1, EndsKeep DEF ConnShape, Keeps
    <3>3. Keeps(conn[c], Reset(Unsent(conn[c])))
      BY <3>1, <3>2, KeepsOn
    <3> QED BY <2>1, <3>1, <3>2, <3>3
  <2> QED BY <2>1, <2>2 DEF AllKept
<1> QED BY <1>1, <1>2, <1>3, <1>4, <1>5 DEF Process

(* Clients that pipeline open connections of their own, and leave them.      *)
LEMMA RawKeeps == ASSUME ConnShape, NEW c \in Conns, Raw(c) PROVE AllKept
<1>0. DOMAIN conn[c] = Fields
  BY DEF ConnShape
<1>1. ASSUME NEW a PROVE DOMAIN Opened(a) = Fields /\ Opened(a).asked = 0
  BY DEF Opened, Idle, Fields
<1>2. ASSUME RawConnect(c) PROVE AllKept
  <2>1. Keeps(conn[c], Opened(job.raw[c].addr))
    BY <1>1, <1>2 DEF RawConnect, Keeps
  <2> QED BY <1>2, <2>1, OneChanges DEF RawConnect
<1>3. ASSUME RawSend(c) PROVE AllKept
  <2> DEFINE next == conn[c].asked + 1
             u == [conn[c] EXCEPT !.up = @ \o Pieces(job.raw[c].lines[next]), !.asked = next]
  <2>1. Change(c, u)
    BY <1>3 DEF RawSend
  <2>2. Keeps(conn[c], u)
    BY <1>0 DEF Keeps, Fields
  <2> HIDE DEF u
  <2> QED BY <2>1, <2>2, OneChanges
<1>4. ASSUME RawLeave(c) PROVE AllKept
  <2>1. Keeps(conn[c], [conn[c] EXCEPT !.hup = TRUE])
    BY <1>0 DEF Keeps, Fields
  <2> QED BY <1>4, <2>1, OneChanges DEF RawLeave
<1> QED BY <1>2, <1>3, <1>4 DEF Raw

-----------------------------------------------------------------------------
(* The library and the tool.                                                 *)

(* Hanging up is the client's end of the same connection.                    *)
LEMMA HungKeeps ==
    ASSUME ConnShape
    PROVE  DOMAIN Hung(conn) = Conns /\ \A c \in Conns : Keeps(conn[c], Hung(conn)[c])
<1>1. CASE lib.sd = None
  BY <1>1, EndsKeep DEF ConnShape, Hung
<1>2. CASE lib.sd # None
  <2> DEFINE h == [conn EXCEPT ![lib.sd].hup = TRUE]
  <2>1. Hung(conn) = h
    BY <1>2 DEF Hung
  <2>2. DOMAIN h = Conns
    BY DEF ConnShape
  <2>3. \A c \in Conns : Keeps(conn[c], h[c])
    BY DEF ConnShape, Keeps, Fields
  <2> HIDE DEF h
  <2> QED BY <2>1, <2>2, <2>3
<1> QED BY <1>1, <1>2

(* What is noted of a command.                                               *)
LEMMA ResultTyped == ASSUME LInv, NEW out \in Words PROVE Result(out) \in Outcomes
<1>1. lib \in LibTypes /\ \A c \in Conns : conn[c].asked \in Nat
  BY DEF LInv, Shape
<1>2. lib.pc = "reply" => lib.sd \in Conns
  BY DEF LInv, LibraryInv, AtWork, Carries
<1> QED BY <1>1, <1>2 DEF Result, Outcomes, LibTypes

(* A command is finished: what became of it is noted, and the library keeps  *)
(* its connection or has dropped it.                                         *)
LEMMA FinishHolds ==
    ASSUME LInv, AllKept, job' = job, NEW out \in Words,
           NEW l \in {lib, [lib EXCEPT !.sd = None, !.sd_path = None]},
           Finish(out, l), Rightly(Result(out), WasNamed(Cmd))
    PROVE  LInv'
<1> USE DEF LInv
<1> DEFINE r == Result(out)
           n == Len(results) + 1
<1>1. lib \in LibTypes /\ results \in Seq(Outcomes) /\ Len(results) \in Nat
  BY DEF Shape
<1>2. r \in Outcomes
  BY <1>1, ResultTyped
<1>3. results' = Append(results, r) /\ lib' = [l EXCEPT !.pc = "next"]
  BY DEF Finish
<1>4. lib' \in LibTypes' /\ lib'.pc = "next"
      /\ (lib'.sd # None => lib'.sd = lib.sd /\ lib'.sd_path = lib.sd_path)
  <2>1. CASE l = lib
    BY <1>1, <1>3, <2>1 DEF LibTypes
  <2>2. CASE l = [lib EXCEPT !.sd = None, !.sd_path = None]
    <3>1. lib' = [lib EXCEPT !.sd = None, !.sd_path = None, !.pc = "next"]
      BY <1>1, <1>3, <2>2 DEF LibTypes
    <3> QED BY <1>1, <3>1 DEF LibTypes
  <2> QED BY <2>1, <2>2
<1> HIDE DEF r
<1>5. results' \in Seq(Outcomes) /\ Len(results') = n /\ results'[n] = r
      /\ \A i \in 1 .. Len(results) : results'[i] = results[i]
  BY <1>1, <1>2, <1>3
<1>6. Shape'
  <2>1. Seq(Outcomes)' = Seq(Outcomes)
    BY DEF Outcomes
  <2>2. ConnShape'
    BY DEF AllKept, Keeps, ConnShape
  <2>3. \A c \in Conns : conn'[c].asked \in Nat
    BY DEF Shape, AllKept, Keeps
  <2> QED BY <1>4, <1>5, <2>1, <2>2, <2>3 DEF Shape
<1>7. LibraryInv'
  <2>1. lib'.sd # None => Carries(lib.sd, lib.sd_path)'
    BY <1>4, CarriesOn DEF LibraryInv
  <2>2. ~AtWork' /\ lib'.pc # "reply"
    BY <1>4 DEF AtWork
  <2> QED BY <1>4, <2>1, <2>2 DEF LibraryInv, Raws
<1>8. ASSUME NEW i \in 1 .. n PROVE Rightly(results[i], WasNamed(job.tool[i]))'
  <2>1. CASE i = n
    <3>1. Rightly(r, WasNamed(job.tool[n]))
      BY DEF r, Cmd
    <3>2. r.conn # None => Carries(r.conn, WasNamed(job.tool[n])) /\ conn'[r.conn].addr = conn[r.conn].addr /\ conn'[r.conn].st # "new"
      BY <3>1 DEF Rightly, Carries, AllKept, Keeps
    <3> QED BY <1>5, <2>1, <3>1, <3>2 DEF Rightly, Carries, WasNamed
  <2>2. CASE i # n
    BY <1>1, <1>5, <2>2, ResultsStay
  <2> QED BY <2>1, <2>2
<1>9. ResultsInv'
  BY <1>5, <1>8 DEF ResultsInv
<1> QED BY <1>6, <1>7, <1>9

(* Where a connection kept or opened stands before a request, if any was to  *)
(* be opened.                                                                *)
LEMMA NamedIsConnected ==
    ASSUME LInv, AtWork, ~lib.failed
    PROVE  Named # None <=> rrdc_is_connected
BY DEF LInv, LibraryInv, Named, rrdc_is_connected

(* A new connection, or none, for the command that comes next.               *)
LEMMA ConnectHolds == ASSUME LInv, rrdc_connect PROVE LInv'
<1> USE DEF LInv
<1>0. /\ lib \in LibTypes /\ lib.pc = "next" /\ UNCHANGED <<job, results>>
      /\ \A c \in Conns : DOMAIN conn[c] = Fields
      /\ Seq(Outcomes)' = Seq(Outcomes) /\ Named' = Named
  BY DEF Shape, ConnShape, rrdc_connect, Outcomes, Named, Cmd
<1>1. CASE Named = None \/ (lib.sd # None /\ lib.sd_path = Named)
  <2>1. lib' = [lib EXCEPT !.pc = "ready", !.failed = FALSE, !.file = 1] /\ conn' = conn
    BY <1>1 DEF rrdc_connect
  <2>2. AllKept
    BY <2>1, NoneChanges DEF Shape
  <2>3. lib' \in LibTypes' /\ lib'.pc = "ready" /\ ~lib'.failed /\ lib'.sd = lib.sd /\ lib'.sd_path = lib.sd_path
    BY <1>0, <2>1 DEF LibTypes
  <2>4. Shape'
    BY <1>0, <2>2, <2>3 DEF Shape, ConnShape, AllKept, Keeps
  <2>5. LibraryInv'
    BY <1>0, <1>1, <2>1, <2>3 DEF LibraryInv, AtWork, Carries, Raws
  <2> QED BY <1>0, <2>2, <2>4, <2>5, ResultsStay DEF ResultsInv
<1>2. CASE ~(Named = None \/ (lib.sd # None /\ lib.sd_path = Named)) /\ Reachable(Named)
  <2>1. PICK c \in Conns :
           /\ IsFresh(c)
           /\ conn' = [Hung(conn) EXCEPT ![c] = Opened(Named)]
           /\ lib' = [LibInit EXCEPT !.pc = "ready", !.sd = c, !.sd_path = Named]
    BY <1>2 DEF rrdc_connect
  <2>2. /\ DOMAIN Opened(Named) = Fields /\ Opened(Named).st = "backlog"
        /\ Opened(Named).addr = Named /\ Opened(Named).asked = 0
    BY DEF Opened, Idle, Fields
  <2>3. conn'[c] = Opened(Named) /\ DOMAIN conn' = Conns
        /\ \A d \in Conns : d # c => conn'[d] = Hung(conn)[d]
    BY <2>1, HungKeeps DEF Shape
  <2>4. AllKept
    <3>1. Keeps(conn[c], conn'[c])
      BY <2>1, <2>2, <2>3 DEF Keeps, IsFresh
    <3> QED BY <2>3, <3>1, HungKeeps DEF AllKept, Shape
  <2>5. /\ lib' \in LibTypes' /\ lib'.pc = "ready" /\ ~lib'.failed
        /\ lib'.sd = c /\ lib'.sd_path = Named
    BY <2>1 DEF LibInit, LibTypes
  <2>6. Carries(c, Named)' /\ c # None /\ c \notin Raws
    BY <1>0, <2>1, <2>2, <2>3, RrdProtocolAssumption DEF Carries, IsFresh
  <2>7. Shape'
    BY <1>0, <2>4, <2>5 DEF Shape, ConnShape, AllKept, Keeps
  <2>8. LibraryInv'
    BY <1>0, <2>5, <2>6 DEF LibraryInv, AtWork, Carries, Raws
  <2> QED BY <1>0, <2>4, <2>7, <2>8, ResultsStay DEF ResultsInv
<1>3. CASE ~(Named = None \/ (lib.sd # None /\ lib.sd_path = Named)) /\ ~Reachable(Named)
  <2>1. conn' = Hung(conn) /\ lib' = [LibInit EXCEPT !.pc = "ready", !.failed = TRUE]
    BY <1>3 DEF rrdc_connect
  <2>2. AllKept
    BY <2>1, HungKeeps DEF AllKept, Shape
  <2>3. lib' \in LibTypes' /\ lib'.pc = "ready" /\ lib'.failed /\ lib'.sd = None
    BY <2>1 DEF LibInit, LibTypes
  <2>4. Shape'
    BY <1>0, <2>2, <2>3 DEF Shape, ConnShape, AllKept, Keeps
  <2>5. LibraryInv'
    BY <2>3 DEF LibraryInv, AtWork
  <2> QED BY <1>0, <2>2, <2>4, <2>5, ResultsStay DEF ResultsInv
<1> QED BY <1>1, <1>2, <1>3

(* A command is finished without a request.                                  *)
LEMMA WithoutRequest ==
    ASSUME LInv, lib.pc = "ready", NEW out \in Words,
           out \in {"error", "killed"} \/ lib.failed \/ Named = None
    PROVE  Rightly(Result(out), WasNamed(Cmd))
<1>1. lib \in LibTypes
  BY DEF LInv, Shape
<1>2. Result(out).conn = None /\ Result(out).out = out /\ Result(out).err = lib.failed
  BY DEF Result
<1>3. WasNamed(Cmd) = Named
  BY DEF WasNamed, Named
<1> QED BY <1>1, <1>2, <1>3 DEF Rightly

(* A command is finished with the answer to its request.                     *)
LEMMA WithRequest ==
    ASSUME LInv, lib.pc = "reply", NEW out \in Words
    PROVE  Rightly(Result(out), WasNamed(Cmd))
<1>1. Result(out).conn = lib.sd
  BY DEF Result
<1>2. lib.sd # None /\ Carries(lib.sd, Named)
  BY DEF LInv, LibraryInv, AtWork
<1>3. WasNamed(Cmd) = Named
  BY DEF WasNamed, Named
<1> QED BY <1>1, <1>2, <1>3 DEF Rightly

(* The words the tool has for what became of a command.                      *)
LEMMA ItsWords ==
    /\ "ok" \in Words /\ "read" \in Words /\ "local" \in Words /\ "refused" \in Words
    /\ "lost" \in Words /\ "error" \in Words /\ "killed" \in Words
BY DEF Words

(* The commands that ask nobody.                                             *)
LEMMA AloneHolds == ASSUME LInv, ToolFails \/ UpdatesItself \/ ReadsFile PROVE LInv'
<1>0. lib.pc = "ready" /\ AtWork /\ job' = job /\ conn' = conn
  BY DEF AtWork, ToolFails, UpdatesItself, ReadsFile, toolUnchanged
<1>1. AllKept
  BY <1>0, NoneChanges DEF LInv, Shape
<1>2. ASSUME NEW out \in Words, Finish(out, lib), out = "error" \/ lib.failed \/ Named = None
      PROVE  LInv'
  <2>1. Rightly(Result(out), WasNamed(Cmd))
    BY <1>0, <1>2, WithoutRequest
  <2> QED BY <1>0, <1>1, <1>2, <2>1, FinishHolds
<1>3. ASSUME ToolFails PROVE LInv'
  BY <1>2, <1>3, ItsWords DEF ToolFails
<1>4. ASSUME UpdatesItself PROVE LInv'
  <2>1. Named = None
    BY <1>0, <1>4, NamedIsConnected DEF UpdatesItself
  <2> QED BY <1>2, <1>4, <2>1, ItsWords DEF UpdatesItself
<1>5. ASSUME ReadsFile PROVE LInv'
  <2>1. lib.failed \/ Named = None
    BY <1>0, <1>5, NamedIsConnected DEF ReadsFile, LInv, Shape, LibTypes
  <2> QED BY <1>2, <1>5, <2>1, ItsWords DEF ReadsFile, ReadsItself
<1> QED BY <1>3, <1>4, <1>5

(* The tool goes on with the command it works on.                            *)
LEMMA WorkHolds ==
    ASSUME LInv, AtWork, ~lib.failed, AllKept, UNCHANGED <<job, results>>,
           lib' \in LibTypes', lib'.pc \in {"ready", "reply"}, lib'.pc = "reply" => Named # None,
           lib'.sd = lib.sd, lib'.sd_path = lib.sd_path, lib'.failed = lib.failed
    PROVE  LInv'
<1>1. Shape'
  BY DEF LInv, Shape, ConnShape, AllKept, Keeps, Outcomes
<1>2. LibraryInv'
  <2>1. Named' = Named
    BY DEF Named, Cmd
  <2>2. lib'.sd # None => Carries(lib.sd, lib.sd_path)'
    BY CarriesOn DEF LInv, LibraryInv
  <2> QED BY <2>1, <2>2 DEF LInv, LibraryInv, AtWork, Carries, Raws
<1>3. ResultsInv'
  BY ResultsStay DEF LInv, ResultsInv
<1> QED BY <1>1, <1>2, <1>3 DEF LInv

(* A request, which goes out over the connection of the daemon named.        *)
LEMMA SendHolds == ASSUME LInv, Send PROVE LInv'
<1>0. /\ lib.pc = "ready" /\ AtWork /\ job' = job /\ lib \in LibTypes
      /\ lib.sd # None /\ ~lib.failed /\ Named # None
  <2>1. lib.pc = "ready" /\ AtWork /\ lib.sd # None /\ lib \in LibTypes /\ job' = job
    BY DEF Send, AtWork, rrdc_is_connected, LInv, Shape, toolUnchanged
  <2>2. ~lib.failed
    BY <2>1 DEF LInv, LibraryInv
  <2> QED BY <2>1, <2>2, NamedIsConnected DEF Send
<1>1. CASE conn[lib.sd].st = "closed" /\ IsUnix(lib.sd_path)
  <2>1. results' = Append(results, Result("killed")) /\ lib' = [lib EXCEPT !.pc = "dead"] /\ conn' = conn
    BY <1>1 DEF Send
  <2>2. AllKept
    BY <2>1, NoneChanges DEF LInv, Shape
  <2>3. Rightly(Result("killed"), WasNamed(Cmd))
    BY <1>0, WithoutRequest, ItsWords
  <2>4. results \in Seq(Outcomes) /\ Result("killed") \in Outcomes
    BY <1>0, ItsWords, ResultTyped DEF LInv, Shape
  <2>5. lib' \in LibTypes' /\ lib'.pc = "dead" /\ lib'.sd = lib.sd /\ lib'.sd_path = lib.sd_path
    BY <1>0, <2>1 DEF LibTypes
  <2>6. results' \in Seq(Outcomes)' /\ Len(results') = Len(results) + 1
        /\ results'[Len(results) + 1] = Result("killed")
        /\ \A i \in 1 .. Len(results) : results'[i] = results[i]
    <3> DEFINE r == Result("killed")
    <3>1. Seq(Outcomes)' = Seq(Outcomes)
      BY DEF Outcomes
    <3>2. r \in Outcomes /\ results' = Append(results, r)
      BY <2>1, <2>4
    <3> HIDE DEF r
    <3>3. results' \in Seq(Outcomes) /\ Len(results') = Len(results) + 1
          /\ results'[Len(results) + 1] = r
          /\ \A i \in 1 .. Len(results) : results'[i] = results[i]
      BY <2>4, <3>2
    <3> QED BY <3>1, <3>3 DEF r
  <2>7. Shape'
    BY <2>2, <2>5, <2>6 DEF LInv, Shape, ConnShape, AllKept, Keeps
  <2>8. LibraryInv'
    BY <1>0, <2>1, <2>5 DEF LInv, LibraryInv, AtWork, Carries, Raws
  <2>9. ASSUME NEW i \in 1 .. Len(results') PROVE Rightly(results[i], WasNamed(job.tool[i]))'
    <3>1. CASE i = Len(results) + 1
      BY <1>0, <2>1, <2>3, <2>6, <3>1 DEF Rightly, Carries, WasNamed, Cmd
    <3>2. CASE i # Len(results) + 1
      <4>1. i \in 1 .. Len(results)
        BY <2>4, <2>6, <3>2
      <4> QED BY <1>0, <2>2, <2>6, <4>1, ResultsStay DEF LInv
    <3> QED BY <3>1, <3>2
  <2>10. ResultsInv'
    BY <2>9 DEF ResultsInv
  <2> QED BY <2>7, <2>8, <2>10 DEF LInv
<1>2. CASE ~(conn[lib.sd].st = "closed" /\ IsUnix(lib.sd_path))
  <2>1. /\ lib' = [lib EXCEPT !.pc = "reply"] /\ results' = results
        /\ Change(lib.sd, [conn[lib.sd] EXCEPT !.up = @ \o Pieces(Request), !.asked = @ + 1])
    BY <1>2 DEF Send
  <2>2. AllKept
    <3>1. PICK c \in Conns : c = lib.sd
      BY <1>0 DEF LInv, LibraryInv, Carries
    <3>2. DOMAIN conn[c] = Fields
      BY DEF LInv, Shape, ConnShape
    <3> DEFINE k == conn[c]
               u == [k EXCEPT !.up = @ \o Pieces(Request), !.asked = @ + 1]
    <3>3. Keeps(k, u)
      <4> HIDE DEF k
      <4> QED BY <3>2 DEF k, Keeps, Fields
    <3>4. Change(c, u)
      BY <2>1, <3>1
    <3> HIDE DEF u
    <3> QED BY <3>3, <3>4, OneChanges DEF LInv, Shape
  <2>3. /\ lib' \in LibTypes' /\ lib'.pc = "reply" /\ lib'.failed = lib.failed
        /\ lib'.sd = lib.sd /\ lib'.sd_path = lib.sd_path
    BY <1>0, <2>1 DEF LibTypes
  <2> QED BY <1>0, <2>1, <2>2, <2>3, WorkHolds
<1> QED BY <1>1, <1>2

(* The answer, or the end of the connection in its place.                    *)
LEMMA AnswerHolds == ASSUME LInv, GotAnswer \/ GotNothing PROVE LInv'
<1>0. /\ lib.pc = "reply" /\ AtWork /\ job' = job /\ lib \in LibTypes
      /\ lib.sd # None /\ ~lib.failed /\ Named # None
  BY DEF GotAnswer, GotNothing, AtWork, LInv, LibraryInv, Shape, toolUnchanged
<1>1. ASSUME GotAnswer PROVE LInv'
  <2>1. PICK dn, n :
           /\ conn' = [conn EXCEPT ![lib.sd].dn = SubSeq(dn, AnswerLength(dn) + 1, Len(dn))]
           /\ UpdateAnswered(n) \/ StatsAnswered(n) \/ FlushAnswered(n) \/ FlushcachedAnswered(n)
    BY <1>1 DEF GotAnswer
  <2>2. AllKept
    BY <2>1 DEF LInv, Shape, ConnShape, AllKept, Keeps, Fields
  <2>3. ASSUME NEW out \in Words, Finish(out, lib) PROVE LInv'
    BY <1>0, <2>2, <2>3, WithRequest, FinishHolds
  <2>4. ASSUME UpdateAnswered(n) \/ StatsAnswered(n) \/ FlushAnswered(n) PROVE LInv'
    BY <2>3, <2>4, ItsWords DEF UpdateAnswered, StatsAnswered, FlushAnswered, ReadsItself
  <2>5. ASSUME FlushcachedAnswered(n) PROVE LInv'
    <3>1. CASE n < 0 \/ lib.file = Len(Cmd.paths)
      BY <2>3, <2>5, <3>1, ItsWords DEF FlushcachedAnswered
    <3>2. CASE ~(n < 0 \/ lib.file = Len(Cmd.paths))
      <4>1. lib' = [lib EXCEPT !.pc = "ready", !.file = @ + 1] /\ results' = results
        BY <2>5, <3>2 DEF FlushcachedAnswered
      <4>2. /\ lib' \in LibTypes' /\ lib'.pc = "ready" /\ lib'.failed = lib.failed
            /\ lib'.sd = lib.sd /\ lib'.sd_path = lib.sd_path
        <5>1. lib.file + 1 \in Nat
          BY <1>0 DEF LibTypes
        <5> QED BY <1>0, <4>1, <5>1 DEF LibTypes
      <4> QED BY <1>0, <2>2, <4>1, <4>2, WorkHolds
    <3> QED BY <3>1, <3>2
  <2> QED BY <2>1, <2>4, <2>5
<1>2. ASSUME GotNothing PROVE LInv'
  <2>1. AllKept
    BY <1>2, HungKeeps DEF GotNothing, AllKept, LInv, Shape
  <2>2. Finish("lost", [lib EXCEPT !.sd = None, !.sd_path = None])
    BY <1>2 DEF GotNothing
  <2> QED BY <1>0, <2>1, <2>2, WithRequest, FinishHolds, ItsWords
<1> QED BY <1>1, <1>2

(* The end of the run, which closes what connection is left.                 *)
LEMMA ExitHolds == ASSUME LInv, ToolExits PROVE LInv'
<1>0. /\ job' = job /\ results' = results /\ lib \in LibTypes /\ lib.pc \in {"next", "dead"}
      /\ conn' = Hung(conn) /\ lib' = [LibInit EXCEPT !.pc = lib.pc]
  BY DEF ToolExits, toolUnchanged, LInv, Shape
<1>1. AllKept
  BY <1>0, HungKeeps DEF AllKept, LInv, Shape
<1>2. lib' \in LibTypes' /\ lib'.sd = None /\ lib'.pc \in {"next", "dead"}
  BY <1>0 DEF LibInit, LibTypes
<1>3. Shape'
  BY <1>0, <1>1, <1>2 DEF LInv, Shape, ConnShape, AllKept, Keeps, Outcomes
<1>4. LibraryInv'
  BY <1>2 DEF LibraryInv, AtWork
<1>5. ResultsInv'
  BY <1>0, <1>1, ResultsStay DEF LInv, ResultsInv
<1> QED BY <1>3, <1>4, <1>5 DEF LInv

-----------------------------------------------------------------------------
(* What a behaviour is about does not change in it.                          *)
LEMMA JobStays == Next => job' = job
<1>1. ASSUME NEW p \in Procs, Process(p) \/ Crash(p) \/ Stop(p) PROVE job' = job
  BY <1>1 DEF Process, Start, Check, TakeOver, BindUnix, BindNetwork, WritePid,
              CloseListenSockets, Exit, FlushThread, TakeFirst, WriteOut, Crash, Stop
<1>2. ASSUME NEW c \in Conns, Accept(c) \/ Leave(c) \/ ReadSome(c) PROVE job' = job
  BY <1>2 DEF Accept, Leave, ReadSome
<1>3. ASSUME NEW c \in Conns, Handle(c) PROVE job' = job
  BY <1>3 DEF Handle, Quit, Refuse, BatchStart, BatchDone, Stats, Help, Queue, ShowPending,
              PendingAt, Show, RefuseUpdate, Update, Forget, FlushAll, FlushNothing,
              FlushWaits, FlushReturns
<1>4. ASSUME NEW c \in Conns, Raw(c) PROVE job' = job
  BY <1>4 DEF Raw, RawConnect, RawSend, RawLeave, rawUnchanged
<1>5. ASSUME Tool PROVE job' = job
  BY <1>5 DEF Tool, rrdc_connect, ToolFails, UpdatesItself, Send, ReadsFile, GotAnswer, GotNothing,
              ToolExits, toolUnchanged
<1> QED BY <1>1, <1>2, <1>3, <1>4, <1>5 DEF Next, Server, Signals, Connection

(* Every step keeps all of that.                                             *)
LEMMA LibraryNext == LInv /\ [Next]_vars => LInv'
<1> SUFFICES ASSUME LInv, [Next]_vars PROVE LInv'
  OBVIOUS
<1>0. ConnShape
  BY DEF LInv, Shape
<1>1. CASE (Server \/ Signals) /\ UNCHANGED libVars
  <2>1. AllKept
    BY <1>0, <1>1, ProcessKeeps, ConnectionKeeps DEF Server, Signals
  <2>2. job' = job
    BY <1>1, JobStays DEF Next
  <2> QED BY <1>1, <2>1, <2>2, ConnectionsMove DEF libVars
<1>2. CASE \E c \in Conns : Raw(c)
  <2>1. UNCHANGED <<job, lib, results>>
    BY <1>2 DEF Raw, RawConnect, RawSend, RawLeave, rawUnchanged, libVars
  <2> QED BY <1>0, <1>2, <2>1, RawKeeps, ConnectionsMove
<1>3. CASE Tool
  BY <1>3, ConnectHolds, AloneHolds, SendHolds, AnswerHolds, ExitHolds DEF Tool
<1>4. CASE UNCHANGED vars
  BY <1>0, <1>4, NoneChanges, ConnectionsMove DEF vars, serverVars
<1> QED BY <1>1, <1>2, <1>3, <1>4 DEF Next

(* A command goes to the daemon that it, or else the environment, names, and *)
(* to none when nobody names one, whatever connection is kept; one that      *)
(* could not ask says so (rrdc_connect, rrdc_is_connected, response_read).   *)
THEOREM NamedDaemonAsked == Spec => []NamedDaemonOnly
<1>1. LInv => NamedDaemonOnly
  BY DEF LInv, Shape, ResultsInv, Rightly, Carries, NamedDaemonOnly
<1> QED BY <1>1, InitHolds, LibraryNext, PTL DEF Spec



(* A sequence of whatever.                                                   *)
IsSeq(s) == \E S : s \in Seq(S)

(* Its length, its indices, and when it is empty.                            *)
LEMMA SeqFacts ==
    ASSUME NEW s, IsSeq(s)
    PROVE  Len(s) \in Nat /\ DOMAIN s = 1 .. Len(s) /\ (s = <<>> <=> Len(s) = 0)
BY DEF IsSeq

(* The one without elements.                                                 *)
LEMMA NothingIsSeq == ASSUME NEW s, s = <<>> PROVE IsSeq(s)
<1>1. s \in Seq({})
  OBVIOUS
<1> QED BY <1>1 DEF IsSeq

(* An element at the end of a sequence of whatever.                          *)
LEMMA AppendFacts ==
    ASSUME NEW s, IsSeq(s), NEW e
    PROVE  /\ IsSeq(Append(s, e)) /\ Len(Append(s, e)) = Len(s) + 1
           /\ \A i \in 1 .. Len(s) : Append(s, e)[i] = s[i]
           /\ Append(s, e)[Len(s) + 1] = e
<1>1. PICK S : s \in Seq(S)
  BY DEF IsSeq
<1>2. s \in Seq(S \union {e}) /\ e \in S \union {e}
  BY <1>1
<1>3. Append(s, e) \in Seq(S \union {e})
  BY <1>2
<1> QED BY <1>2, <1>3 DEF IsSeq

(* Two sequences, one after the other.                                       *)
LEMMA ConcatFacts ==
    ASSUME NEW s, IsSeq(s), NEW t, IsSeq(t)
    PROVE  /\ IsSeq(s \o t) /\ Len(s \o t) = Len(s) + Len(t)
           /\ \A i \in 1 .. Len(s) : (s \o t)[i] = s[i]
           /\ \A i \in 1 .. Len(t) : (s \o t)[Len(s) + i] = t[i]
<1>1. PICK S, T : s \in Seq(S) /\ t \in Seq(T)
  BY DEF IsSeq
<1>2. s \in Seq(S \union T) /\ t \in Seq(S \union T)
  BY <1>1
<1>3. s \o t \in Seq(S \union T)
  BY <1>2
<1>4. Len(s) \in Nat /\ Len(t) \in Nat
  BY <1>1
<1>5. Len(s \o t) = Len(s) + Len(t) /\ \A i \in 1 .. Len(s) : (s \o t)[i] = s[i]
  BY <1>2, <1>4
<1>6. ASSUME NEW i \in 1 .. Len(t) PROVE (s \o t)[Len(s) + i] = t[i]
  <2>1. Len(s) + i \in 1 .. Len(s) + Len(t) /\ Len(s) + i > Len(s) /\ (Len(s) + i) - Len(s) = i
    BY <1>4
  <2> QED BY <1>2, <2>1
<1> QED BY <1>3, <1>5, <1>6 DEF IsSeq

(* A part of a sequence.                                                     *)
LEMMA SubFacts ==
    ASSUME NEW s, IsSeq(s), NEW m \in Nat \ {0}, NEW n \in Nat, m <= n + 1, n <= Len(s)
    PROVE  /\ IsSeq(SubSeq(s, m, n)) /\ Len(SubSeq(s, m, n)) = n - m + 1
           /\ \A i \in 1 .. n - m + 1 : SubSeq(s, m, n)[i] = s[m + i - 1]
<1>1. PICK S : s \in Seq(S)
  BY DEF IsSeq
<1>2. \A i \in m .. n : s[i] \in S
  BY <1>1
<1>3. SubSeq(s, m, n) \in Seq(S)
  BY <1>1, <1>2
<1> QED BY <1>1, <1>3 DEF IsSeq

(* Two sequences of the same elements are equal.                             *)
LEMMA SameElements ==
    ASSUME NEW s, IsSeq(s), NEW t, IsSeq(t), Len(s) = Len(t), \A i \in 1 .. Len(s) : s[i] = t[i]
    PROVE  s = t
<1>1. PICK S : s \in Seq(S)
  BY DEF IsSeq
<1>2. PICK T : t \in Seq(T)
  BY DEF IsSeq
<1>3. s \in Seq(S \union T) /\ t \in Seq(S \union T)
  BY <1>1, <1>2
<1> QED BY <1>3

(* The elements of a finite set one after the other (g_tree_foreach).        *)
LEMMA SetToSeqFacts ==
    ASSUME NEW S, IsFiniteSet(S)
    PROVE  /\ IsSeq(SetToSeq(S)) /\ IsInjective(SetToSeq(S))
           /\ \A i \in 1 .. Len(SetToSeq(S)) : SetToSeq(S)[i] \in S
<1> DEFINE n == Cardinality(S)
<1>1. n \in Nat /\ \E f : ExistsBijection(1 .. n, S)
  BY FS_CardinalityType
<1>2. PICK f \in [1 .. n -> S] : \A a, b \in 1 .. n : f[a] = f[b] => a = b
  BY <1>1 DEF ExistsBijection, Bijection, Injection, IsInjective, Surjection
<1>3. f \in [1 .. n -> S] /\ IsInjective(f)
  BY <1>2 DEF IsInjective
<1>4. SetToSeq(S) \in [1 .. n -> S] /\ IsInjective(SetToSeq(S))
  BY <1>3 DEF SetToSeq
<1> HIDE DEF n
<1> DEFINE s == SetToSeq(S)
<1> HIDE DEF s
<1>5. s \in [1 .. n -> S] /\ IsInjective(s)
  BY <1>4 DEF s
<1>6. s \in Seq(S) /\ Len(s) = n
  BY <1>1, <1>5
<1> QED BY <1>5, <1>6 DEF s, IsSeq

-----------------------------------------------------------------------------
(* What was said: the lines a connection has carried, the lines sent back    *)
(* and those the client has not read yet.                                    *)
Sentences == [kind : {"status", "info", "error"}, n : Int, of : Nat]
DidOK(did) ==
    /\ IsSeq(did)
    /\ \A i \in 1 .. Len(did) : DOMAIN did[i] = {"line", "is"} /\ did[i].is \in {"none", "ok", "err"}

(* Batches do not nest, and a dot ends one.                                  *)
BatchesOK(did) ==
    \A k \in 1 .. Len(did) : /\ Opens(did, k) => ~InBatch(did, k)
                             /\ Ends(did, k) => InBatch(did, k)

(* Each answer is framed, there is one for each line that is owed one, in    *)
(* their order, and the client has read whole answers.                       *)
FramesOK(sent) ==
    /\ sent \in Seq(Sentences)
    /\ sent # <<>> => sent[1].kind = "status"
    /\ \A i \in Statuses(sent) : FramedAt(sent, i)
AnswersOK(did, sent) ==
    /\ {sent[i].of : i \in Statuses(sent)} = Owed(did)
    /\ \A i, j \in Statuses(sent) : i < j => sent[i].of < sent[j].of
ReadOK(sent, dn) ==
    /\ dn \in Seq(Sentences) /\ Len(dn) <= Len(sent)
    /\ \A i \in 1 .. Len(dn) : dn[i] = sent[Len(sent) - Len(dn) + i]
    /\ dn # <<>> => dn[1].kind = "status"

(* The n lines after the i-th are those with the numbers F, in order.        *)
Lists(s, i, n, F) ==
    /\ {s[i + j].n : j \in 1 .. n} = F
    /\ \A j, h \in 1 .. n : j < h => s[i + j].n < s[i + h].n
ReportsOK(did, sent) ==
    \A i \in Statuses(sent) : Ends(did, sent[i].of) =>
        \A b \in 1 .. sent[i].of - 1 :
           OpenFrom(did, b, sent[i].of) => Lists(sent, i, sent[i].n, Failures(did, b, sent[i].of))

Speech(did, sent, dn) ==
    /\ DidOK(did) /\ BatchesOK(did)
    /\ FramesOK(sent) /\ AnswersOK(did, sent) /\ ReadOK(sent, dn) /\ ReportsOK(did, sent)

(* What the thread keeps between two lines: whether a batch is open, how     *)
(* many lines it has taken in, and which of them failed.                     *)
Mood(did, batch, cmds, wbuf) ==
    /\ wbuf \in Seq(Sentences) /\ \A i \in 1 .. Len(wbuf) : wbuf[i].kind # "status"
    /\ batch <=> InBatch(did, Len(did) + 1)
    /\ ~batch => wbuf = <<>>
    /\ \A b \in 1 .. Len(did) : OpenFrom(did, b, Len(did) + 1) =>
          /\ cmds = Len(did) - b
          /\ Lists(wbuf, 0, Len(wbuf), Failures(did, b, Len(did) + 1))

-----------------------------------------------------------------------------
(* A line is taken, and it gets its answer.                                  *)

(* What is in a batch depends on the lines before.                           *)
SameBefore(d, e, n) ==
    \A k \in 1 .. n : /\ k < n => (Opens(e, k) <=> Opens(d, k)) /\ (Ends(e, k) <=> Ends(d, k))
                      /\ \A b \in 1 .. k - 1 : OpenFrom(e, b, k) <=> OpenFrom(d, b, k)
                      /\ InBatch(e, k) <=> InBatch(d, k)
                      /\ \A b \in 1 .. k - 1 : Failures(e, b, k) = Failures(d, b, k)
(* Histories that agree before the n-th line have the same batches there.    *)
LEMMA SameBatches ==
    ASSUME NEW d, NEW e, NEW n \in Nat, \A i \in 1 .. n - 1 : e[i] = d[i]
    PROVE  SameBefore(d, e, n)
<1> SUFFICES ASSUME NEW k \in 1 .. n
             PROVE  /\ k < n => (Opens(e, k) <=> Opens(d, k)) /\ (Ends(e, k) <=> Ends(d, k))
                    /\ \A b \in 1 .. k - 1 : OpenFrom(e, b, k) <=> OpenFrom(d, b, k)
                    /\ InBatch(e, k) <=> InBatch(d, k)
                    /\ \A b \in 1 .. k - 1 : Failures(e, b, k) = Failures(d, b, k)
  BY DEF SameBefore
<1>1. \A i \in 1 .. n - 1 : (Opens(e, i) <=> Opens(d, i)) /\ (Ends(e, i) <=> Ends(d, i))
  BY DEF Opens, Ends
<1>2. ASSUME NEW b \in 1 .. k - 1 PROVE OpenFrom(e, b, k) <=> OpenFrom(d, b, k)
  <2>1. b \in 1 .. n - 1 /\ \A i \in b + 1 .. k - 1 : i \in 1 .. n - 1
    OBVIOUS
  <2> QED BY <1>1, <2>1 DEF OpenFrom
<1>3. InBatch(e, k) <=> InBatch(d, k)
  BY <1>2 DEF InBatch
<1>4. ASSUME NEW b \in 1 .. k - 1 PROVE Failures(e, b, k) = Failures(d, b, k)
  <2>1. \A m \in 1 .. k - b - 1 : b + m \in 1 .. n - 1
    OBVIOUS
  <2> QED BY <2>1 DEF Failures
<1> QED BY <1>1, <1>2, <1>3, <1>4

(* A line that neither opens nor ends a batch leaves it as it is.            *)
LEMMA BatchGoesOn ==
    ASSUME NEW d, NEW n \in Nat \ {0}, ~Opens(d, n), ~Ends(d, n)
    PROVE  /\ \A b \in 1 .. n - 1 : OpenFrom(d, b, n + 1) <=> OpenFrom(d, b, n)
           /\ ~OpenFrom(d, n, n + 1)
           /\ InBatch(d, n + 1) <=> InBatch(d, n)
<1>1. ASSUME NEW b \in 1 .. n - 1 PROVE OpenFrom(d, b, n + 1) <=> OpenFrom(d, b, n)
  <2>1. b + 1 .. (n + 1) - 1 = (b + 1 .. n - 1) \union {n}
    OBVIOUS
  <2> QED BY <2>1 DEF OpenFrom
<1>2. ~OpenFrom(d, n, n + 1)
  BY DEF OpenFrom
<1>3. 1 .. (n + 1) - 1 = (1 .. n - 1) \union {n}
  OBVIOUS
<1> QED BY <1>1, <1>2, <1>3 DEF InBatch

(* A line is taken and not answered yet (next_cmd, handle_request).          *)
LEMMA SpeechTaken ==
    ASSUME NEW d, NEW sent, NEW dn, Speech(d, sent, dn), NEW line,
           NEW e, e = Append(d, [line |-> line, is |-> "none"])
    PROVE  Speech(e, sent, dn)
<1> DEFINE n == Len(d) + 1
<1>1. /\ IsSeq(e) /\ Len(e) = n /\ Len(d) \in Nat /\ e[n] = [line |-> line, is |-> "none"]
      /\ \A i \in 1 .. n - 1 : e[i] = d[i]
  BY AppendFacts, SeqFacts DEF Speech, DidOK
<1>2. n \in Nat /\ n - 1 = Len(d)
  BY <1>1
<1> HIDE DEF n
<1>0. SameBefore(d, e, n)
  BY <1>1, <1>2, SameBatches
<1>3. DidOK(e)
  BY <1>1, <1>2 DEF Speech, DidOK
<1>4. BatchesOK(e)
  <2>1. ~Opens(e, n) /\ ~Ends(e, n)
    BY <1>1 DEF Opens, Ends
  <2>2. ASSUME NEW k \in 1 .. n, k # n PROVE (Opens(e, k) => ~InBatch(e, k)) /\ (Ends(e, k) => InBatch(e, k))
    <3>1. k \in 1 .. Len(d) /\ k < n
      BY <1>2, <2>2
    <3> QED BY <1>0, <3>1 DEF Speech, BatchesOK, SameBefore
  <2> QED BY <1>1, <2>1, <2>2 DEF BatchesOK
<1>5. Owed(e) = Owed(d)
  <2>1. DOMAIN e = 1 .. n /\ DOMAIN d = 1 .. n - 1
    BY <1>1, <1>2, SeqFacts DEF Speech, DidOK
  <2>2. ASSUME NEW k \in 1 .. n - 1 PROVE k \in Owed(e) <=> k \in Owed(d)
    <3>1. k \in 1 .. n /\ k < n
      BY <1>2
    <3>2. (Ends(e, k) <=> Ends(d, k)) /\ (InBatch(e, k) <=> InBatch(d, k)) /\ e[k] = d[k]
      BY <1>0, <1>1, <3>1 DEF SameBefore
    <3> QED BY <2>1, <3>1, <3>2 DEF Owed
  <2>3. n \notin Owed(e) /\ Owed(e) \subseteq 1 .. n /\ Owed(d) \subseteq 1 .. n - 1
    BY <1>1, <2>1 DEF Owed
  <2>4. \A k \in 1 .. n : k # n => k \in 1 .. n - 1
    BY <1>2
  <2> QED BY <2>2, <2>3, <2>4
<1>6. AnswersOK(e, sent)
  BY <1>5 DEF Speech, AnswersOK
<1>7. ReportsOK(e, sent)
  <2> SUFFICES ASSUME NEW i \in Statuses(sent), Ends(e, sent[i].of),
                      NEW b \in 1 .. sent[i].of - 1, OpenFrom(e, b, sent[i].of)
               PROVE  Lists(sent, i, sent[i].n, Failures(e, b, sent[i].of))
    BY DEF ReportsOK
  <2>1. sent[i].of \in Owed(d)
    BY DEF Speech, AnswersOK
  <2>2. sent[i].of \in 1 .. n /\ sent[i].of < n
    <3>1. sent[i].of \in 1 .. n - 1
      BY <1>2, <2>1, SeqFacts DEF Owed, Speech, DidOK
    <3> QED BY <1>2, <3>1
  <2>3. /\ Ends(d, sent[i].of) /\ OpenFrom(d, b, sent[i].of)
        /\ Failures(e, b, sent[i].of) = Failures(d, b, sent[i].of)
    BY <1>0, <2>2 DEF SameBefore
  <2> QED BY <2>3 DEF Speech, ReportsOK
<1> QED BY <1>3, <1>4, <1>6, <1>7 DEF Speech

(* What becomes of the last line is settled, or, with a crash before its     *)
(* answer is sent, unsettled.                                                *)
Settles(d, e, v) ==
    /\ Len(d) # 0 /\ e = [d EXCEPT ![Len(d)].is = v] /\ v \in {"none", "ok", "err"}
    /\ Opens(e, Len(d)) => ~InBatch(d, Len(d))
    /\ Ends(e, Len(d)) => InBatch(d, Len(d))
(* Nothing before the last line changes by that.                             *)
LEMMA Settling ==
    ASSUME NEW d, NEW e, NEW v, DidOK(d), BatchesOK(d), Settles(d, e, v), NEW n, n = Len(d)
    PROVE  /\ n \in Nat \ {0} /\ DidOK(e) /\ BatchesOK(e) /\ Len(e) = n
           /\ e[n].is = v /\ e[n].line = d[n].line
           /\ SameBefore(d, e, n)
           /\ \A k \in 1 .. n - 1 : k \in Owed(e) <=> k \in Owed(d)
           /\ n \in Owed(e) <=> v # "none" /\ (InBatch(d, n) => Ends(e, n))
           /\ Owed(d) \subseteq 1 .. n /\ Owed(e) \subseteq 1 .. n
<1>1. /\ IsSeq(d) /\ n \in Nat \ {0} /\ DOMAIN d = 1 .. n
      /\ \A i \in 1 .. n : DOMAIN d[i] = {"line", "is"} /\ d[i].is \in {"none", "ok", "err"}
  BY SeqFacts DEF DidOK, Settles
<1>2. PICK S : d \in Seq(S)
  BY <1>1 DEF IsSeq
<1> DEFINE last == [d[n] EXCEPT !.is = v]
<1>3. e = [d EXCEPT ![n] = last]
  BY DEF Settles
<1>4. last.is = v /\ last.line = d[n].line /\ DOMAIN last = {"line", "is"}
  BY <1>1
<1> HIDE DEF last
<1>5. e \in Seq(S \union {last}) /\ Len(e) = n /\ e[n] = last /\ \A i \in 1 .. n - 1 : e[i] = d[i]
  BY <1>1, <1>2, <1>3
<1>6. DidOK(e) /\ DOMAIN e = 1 .. n
  <2>1. IsSeq(e)
    BY <1>5 DEF IsSeq
  <2>2. ASSUME NEW i \in 1 .. n PROVE DOMAIN e[i] = {"line", "is"} /\ e[i].is \in {"none", "ok", "err"}
    <3>1. CASE i = n
      BY <1>4, <1>5, <3>1 DEF Settles
    <3>2. CASE i # n
      <4>1. i \in 1 .. n - 1
        BY <1>1, <3>2
      <4> QED BY <1>1, <1>5, <4>1
    <3> QED BY <3>1, <3>2
  <2> QED BY <1>5, <2>1, <2>2, SeqFacts DEF DidOK
<1>7. SameBefore(d, e, n)
  BY <1>1, <1>5, SameBatches
<1>8. \A k \in 1 .. n - 1 : k \in 1 .. n /\ k < n
  BY <1>1
<1>9. n \in 1 .. n
  BY <1>1
<1>10. BatchesOK(e)
  <2>1. (Opens(e, n) => ~InBatch(e, n)) /\ (Ends(e, n) => InBatch(e, n))
    BY <1>7, <1>9 DEF Settles, SameBefore
  <2>2. ASSUME NEW k \in 1 .. n - 1 PROVE (Opens(e, k) => ~InBatch(e, k)) /\ (Ends(e, k) => InBatch(e, k))
    BY <1>7, <1>8 DEF BatchesOK, SameBefore
  <2>3. \A k \in 1 .. n : k = n \/ k \in 1 .. n - 1
    BY <1>1
  <2> QED BY <1>5, <2>1, <2>2, <2>3 DEF BatchesOK
<1>11. ASSUME NEW k \in 1 .. n - 1 PROVE k \in Owed(e) <=> k \in Owed(d)
  <2>1. (Ends(e, k) <=> Ends(d, k)) /\ (InBatch(e, k) <=> InBatch(d, k)) /\ e[k] = d[k]
    BY <1>5, <1>7, <1>8 DEF SameBefore
  <2> QED BY <1>1, <1>6, <1>8, <2>1 DEF Owed
<1>12. n \in Owed(e) <=> v # "none" /\ (InBatch(d, n) => Ends(e, n))
  <2>1. InBatch(e, n) <=> InBatch(d, n)
    BY <1>7, <1>9 DEF SameBefore
  <2> QED BY <1>4, <1>5, <1>6, <1>9, <2>1 DEF Owed
<1>13. Owed(d) \subseteq 1 .. n /\ Owed(e) \subseteq 1 .. n
  BY <1>1, <1>6 DEF Owed
<1> QED BY <1>1, <1>4, <1>5, <1>6, <1>7, <1>10, <1>11, <1>12, <1>13

(* The reports of batches that were over before stay as they were.           *)
LEMMA ReportsStay ==
    ASSUME NEW d, NEW e, NEW n \in Nat, SameBefore(d, e, n), NEW sent, ReportsOK(d, sent),
           NEW i \in Statuses(sent), sent[i].of \in 1 .. n - 1, Ends(e, sent[i].of),
           NEW b \in 1 .. sent[i].of - 1, OpenFrom(e, b, sent[i].of)
    PROVE  Lists(sent, i, sent[i].n, Failures(e, b, sent[i].of))
<1>1. sent[i].of \in 1 .. n /\ sent[i].of < n
  OBVIOUS
<1>2. /\ Ends(d, sent[i].of) /\ OpenFrom(d, b, sent[i].of)
      /\ Failures(e, b, sent[i].of) = Failures(d, b, sent[i].of)
  BY <1>1 DEF SameBefore
<1> QED BY <1>2 DEF ReportsOK

(* A command of a batch says nothing, unless it is the dot (send_response).  *)
LEMMA SpeechSilent ==
    ASSUME NEW d, NEW sent, NEW dn, Speech(d, sent, dn), NEW e, NEW v, Settles(d, e, v),
           d[Len(d)].is = "none", InBatch(d, Len(d)), ~Ends(e, Len(d))
    PROVE  Speech(e, sent, dn)
<1> DEFINE n == Len(d)
<1>1. /\ n \in Nat \ {0} /\ DidOK(e) /\ BatchesOK(e) /\ SameBefore(d, e, n)
      /\ \A k \in 1 .. n - 1 : k \in Owed(e) <=> k \in Owed(d)
      /\ n \notin Owed(e) /\ Owed(d) \subseteq 1 .. n /\ Owed(e) \subseteq 1 .. n
  BY Settling DEF Speech
<1>2. n \notin Owed(d)
  BY DEF Owed
<1> HIDE DEF n
<1>3. \A k \in 1 .. n : k # n => k \in 1 .. n - 1
  BY <1>1
<1>4. Owed(e) = Owed(d)
  BY <1>1, <1>2, <1>3
<1>5. AnswersOK(e, sent)
  BY <1>4 DEF Speech, AnswersOK
<1>6. ReportsOK(e, sent)
  <2>1. ASSUME NEW i \in Statuses(sent) PROVE sent[i].of \in 1 .. n - 1
    BY <1>1, <1>2, <1>3 DEF Speech, AnswersOK
  <2> QED BY <1>1, <2>1, ReportsStay DEF Speech, ReportsOK
<1> QED BY <1>1, <1>5, <1>6 DEF Speech

(* An answer: its status line and the lines that this announces.             *)
Answer(a, n) ==
    /\ a \in Seq(Sentences) /\ a # <<>> /\ Len(a) = 1 + (IF a[1].n > 0 THEN a[1].n ELSE 0)
    /\ a[1].kind = "status" /\ a[1].of = n
    /\ \A i \in 2 .. Len(a) : a[i].kind # "status"

(* An answer after others keeps the frames.                                  *)
LEMMA FramesGoOn ==
    ASSUME NEW sent, FramesOK(sent), NEW n, NEW a, Answer(a, n), NEW t, t = sent \o a
    PROVE  /\ FramesOK(t) /\ Len(t) = Len(sent) + Len(a) /\ Len(sent) \in Nat /\ Len(a) \in Nat \ {0}
           /\ Statuses(t) = Statuses(sent) \union {Len(sent) + 1} /\ Statuses(sent) \subseteq 1 .. Len(sent)
           /\ \A i \in 1 .. Len(sent) : t[i] = sent[i]
           /\ \A i \in 1 .. Len(a) : t[Len(sent) + i] = a[i]
<1> DEFINE m == Len(sent)
           l == Len(a)
<1>1. /\ sent \in Seq(Sentences) /\ a \in Seq(Sentences) /\ m \in Nat /\ l \in Nat \ {0}
      /\ a[1] \in Sentences
  <2>1. sent \in Seq(Sentences) /\ a \in Seq(Sentences) /\ m \in Nat /\ l \in Nat
    BY DEF FramesOK, Answer
  <2>2. l # 0
    BY <2>1 DEF Answer
  <2> QED BY <2>1, <2>2
<1>2. t \in Seq(Sentences) /\ Len(t) = m + l /\ (\A i \in 1 .. m : t[i] = sent[i]) /\ DOMAIN t = 1 .. m + l
  BY <1>1
<1>3. \A i \in 1 .. l : t[m + i] = a[i]
  <2>1. ASSUME NEW i \in 1 .. l PROVE t[m + i] = a[i]
    <3>1. m + i \in 1 .. m + l /\ m + i > m /\ (m + i) - m = i
      BY <1>1
    <3> QED BY <1>1, <3>1
  <2> QED BY <2>1
<1> DEFINE z == IF a[1].n > 0 THEN a[1].n ELSE 0
<1>4. z \in Nat /\ l = 1 + z
  BY <1>1 DEF Answer, Sentences
<1> HIDE DEF z
<1>5. t[m + 1] = a[1] /\ m + 1 \in 1 .. m + l
  BY <1>1, <1>3
<1>6. \A j \in m + 2 .. m + l : t[j].kind # "status"
  <2>1. ASSUME NEW j \in m + 2 .. m + l PROVE t[j].kind # "status"
    <3>1. j - m \in 2 .. l /\ j - m \in 1 .. l /\ m + (j - m) = j
      BY <1>1
    <3> QED BY <1>3, <3>1 DEF Answer
  <2> QED BY <2>1
<1>7. Statuses(sent) \subseteq 1 .. m /\ \A i \in 1 .. m : i \in Statuses(sent) <=> sent[i].kind = "status"
  BY <1>1 DEF Statuses
<1>8. Statuses(t) = Statuses(sent) \union {m + 1}
  <2>1. \A i \in 1 .. m + l : i \in Statuses(t) <=> t[i].kind = "status"
    BY <1>2 DEF Statuses
  <2>2. Statuses(t) \subseteq 1 .. m + l
    BY <1>2 DEF Statuses
  <2>3. ASSUME NEW i \in 1 .. m + l PROVE i \in Statuses(t) <=> i \in Statuses(sent) \union {m + 1}
    <3>1. CASE i \in 1 .. m
      BY <1>1, <1>2, <1>7, <2>1, <3>1
    <3>2. CASE i = m + 1
      BY <1>5, <2>1, <3>2 DEF Answer
    <3>3. CASE i \in m + 2 .. m + l
      <4>1. i \notin 1 .. m /\ i # m + 1
        BY <1>1, <3>3
      <4> QED BY <1>6, <1>7, <2>1, <3>3, <4>1
    <3>4. i \in 1 .. m \/ i = m + 1 \/ i \in m + 2 .. m + l
      BY <1>1
    <3> QED BY <3>1, <3>2, <3>3, <3>4
  <2>4. Statuses(sent) \union {m + 1} \subseteq 1 .. m + l
    BY <1>1, <1>7
  <2> QED BY <2>2, <2>3, <2>4
<1>9. ASSUME NEW i \in Statuses(t) PROVE FramedAt(t, i)
  <2>1. CASE i = m + 1
    <3>0. t[i].n = a[1].n
      BY <1>5, <2>1
    <3>1. (m + 1) + z = m + l
      BY <1>1, <1>4
    <3>2. i + z <= Len(t) /\ (\A j \in i + 1 .. i + z : t[j].kind # "status") /\ ~(i + z < Len(t))
      BY <1>1, <1>2, <1>4, <1>6, <2>1, <3>1
    <3> QED BY <3>0, <3>2 DEF FramedAt, z
  <2>2. CASE i # m + 1
    <3>1. i \in Statuses(sent) /\ i \in 1 .. m
      BY <1>7, <1>8, <2>2
    <3> DEFINE y == IF sent[i].n > 0 THEN sent[i].n ELSE 0
    <3>2. y \in Nat /\ t[i] = sent[i]
      <4>1. sent[i] \in Sentences
        BY <1>1, <3>1
      <4>2. sent[i].n \in Int
        BY <4>1 DEF Sentences
      <4> QED BY <1>2, <3>1, <4>2
    <3>3. /\ i + y <= m
          /\ \A j \in i + 1 .. i + y : sent[j].kind # "status"
          /\ i + y < m => sent[i + y + 1].kind = "status"
      BY <3>1 DEF FramesOK, FramedAt
    <3> HIDE DEF y
    <3>4. \A j \in i + 1 .. i + y : t[j].kind # "status"
      BY <1>1, <1>2, <3>1, <3>2, <3>3
    <3>5. t[i + y + 1].kind = "status"
      <4>1. CASE i + y < m
        <5>1. i + y + 1 \in 1 .. m
          BY <1>1, <3>1, <3>2, <4>1
        <5> QED BY <1>2, <3>3, <4>1, <5>1
      <4>2. CASE i + y = m
        BY <1>5, <4>2 DEF Answer
      <4> QED BY <1>1, <3>1, <3>2, <3>3, <4>1, <4>2
    <3>6. i + y <= Len(t)
      BY <1>1, <1>2, <3>1, <3>2, <3>3
    <3> QED BY <3>2, <3>4, <3>5, <3>6 DEF FramedAt, y
  <2> QED BY <2>1, <2>2
<1>10. t[1].kind = "status"
  <2>1. CASE m = 0
    BY <1>5, <2>1 DEF Answer
  <2>2. CASE m # 0
    BY <1>1, <1>2, <2>2 DEF FramesOK
  <2> QED BY <2>1, <2>2
<1>11. FramesOK(t)
  BY <1>2, <1>9, <1>10 DEF FramesOK
<1> QED BY <1>1, <1>2, <1>3, <1>7, <1>8, <1>11

(* What the client has not read yet comes last in what was sent.             *)
LEMMA ReadGoesOn ==
    ASSUME NEW sent, FramesOK(sent), NEW dn, ReadOK(sent, dn), NEW n, NEW a, Answer(a, n)
    PROVE  ReadOK(sent \o a, dn \o a)
<1> DEFINE m == Len(sent)
           l == Len(a)
           u == Len(dn)
           t == sent \o a
           v == dn \o a
<1>1. /\ sent \in Seq(Sentences) /\ dn \in Seq(Sentences) /\ a \in Seq(Sentences)
      /\ m \in Nat /\ l \in Nat \ {0} /\ u \in Nat /\ u <= m
  BY FramesGoOn DEF FramesOK, ReadOK, Answer
<1>2. /\ t \in Seq(Sentences) /\ Len(t) = m + l
      /\ (\A i \in 1 .. m : t[i] = sent[i]) /\ \A i \in 1 .. l : t[m + i] = a[i]
  BY FramesGoOn, <1>1
<1>3. IsSeq(dn) /\ IsSeq(a)
  BY <1>1 DEF IsSeq
<1>4. /\ v \in Seq(Sentences) /\ Len(v) = u + l
      /\ (\A i \in 1 .. u : v[i] = dn[i]) /\ \A i \in 1 .. l : v[u + i] = a[i]
  BY <1>1, <1>3, ConcatFacts
<1> HIDE DEF m, l, u, t, v
<1>5. ASSUME NEW i \in 1 .. u + l PROVE v[i] = t[(m + l) - (u + l) + i]
  <2>1. CASE i \in 1 .. u
    <3>1. m - u + i \in 1 .. m /\ (m + l) - (u + l) + i = m - u + i
      BY <1>1, <2>1
    <3>2. dn[i] = sent[m - u + i]
      BY <2>1 DEF ReadOK, m, u
    <3> QED BY <1>2, <1>4, <2>1, <3>1, <3>2
  <2>2. CASE i \notin 1 .. u
    <3>1. i - u \in 1 .. l /\ u + (i - u) = i /\ m + (i - u) = (m + l) - (u + l) + i
      BY <1>1, <2>2
    <3> QED BY <1>2, <1>4, <3>1
  <2> QED BY <2>1, <2>2
<1>6. v[1].kind = "status"
  <2>1. CASE u = 0
    <3>1. v[1] = a[1]
      BY <1>1, <1>4, <2>1
    <3> QED BY <3>1 DEF Answer
  <2>2. CASE u # 0
    <3>1. v[1] = dn[1] /\ dn # <<>>
      BY <1>1, <1>4, <2>2 DEF u
    <3> QED BY <3>1 DEF ReadOK
  <2> QED BY <2>1, <2>2
<1>7. ReadOK(t, v)
  BY <1>1, <1>2, <1>4, <1>5, <1>6 DEF ReadOK
<1> QED BY <1>7 DEF t, v

(* The answer to the last line, which is owed one: the line is outside of a  *)
(* batch or is the dot, whose answer lists what failed (send_response).      *)
LEMMA SpeechAnswered ==
    ASSUME NEW d, NEW sent, NEW dn, Speech(d, sent, dn), NEW e, NEW v, Settles(d, e, v), v # "none",
           d[Len(d)].is = "none", InBatch(d, Len(d)) => Ends(e, Len(d)),
           NEW a, Answer(a, Len(d)),
           Ends(e, Len(d)) => \A b \in 1 .. Len(d) - 1 : OpenFrom(d, b, Len(d)) =>
                                 Lists(a, 1, a[1].n, Failures(d, b, Len(d)))
    PROVE  Speech(e, sent \o a, dn \o a)
<1> DEFINE n == Len(d)
           m == Len(sent)
           t == sent \o a
<1>1. /\ n \in Nat \ {0} /\ DidOK(e) /\ BatchesOK(e) /\ SameBefore(d, e, n)
      /\ \A k \in 1 .. n - 1 : k \in Owed(e) <=> k \in Owed(d)
      /\ n \in Owed(e) /\ Owed(d) \subseteq 1 .. n /\ Owed(e) \subseteq 1 .. n
  BY Settling DEF Speech
<1>2. n \notin Owed(d)
  BY DEF Owed
<1>3. /\ FramesOK(t) /\ m \in Nat
      /\ Statuses(t) = Statuses(sent) \union {m + 1} /\ Statuses(sent) \subseteq 1 .. m
      /\ (\A i \in 1 .. m : t[i] = sent[i]) /\ \A i \in 1 .. Len(a) : t[m + i] = a[i]
      /\ Len(a) \in Nat \ {0}
  <2>1. FramesOK(sent) /\ Answer(a, n) /\ t = sent \o a
    BY DEF Speech
  <2> HIDE DEF t, n
  <2>2. FramesOK(t) BY <2>1, FramesGoOn
  <2>3. m \in Nat BY <2>1, FramesGoOn
  <2>4. Statuses(t) = Statuses(sent) \union {m + 1} /\ Statuses(sent) \subseteq 1 .. m BY <2>1, FramesGoOn
  <2>5. (\A i \in 1 .. m : t[i] = sent[i])  BY <2>1, FramesGoOn
  <2>6. \A i \in 1 .. Len(a) : t[m + i] = a[i]  BY <2>1, FramesGoOn
  <2>7. Len(a) \in Nat \ {0}  BY <2>1, FramesGoOn
  <2> QED BY <2>2, <2>3, <2>4, <2>5, <2>6, <2>7
<1>4. ReadOK(t, dn \o a)
  BY ReadGoesOn DEF Speech
<1>5. t[m + 1] = a[1] /\ a[1].of = n /\ m + 1 \notin 1 .. m
  BY <1>3 DEF Answer
<1> HIDE DEF n, m, t
<1>6. \A k \in 1 .. n : k # n => k \in 1 .. n - 1
  BY <1>1
<1>7. ASSUME NEW i \in Statuses(sent) PROVE i \in 1 .. m /\ t[i] = sent[i] /\ sent[i].of \in 1 .. n - 1
  BY <1>1, <1>2, <1>3, <1>6 DEF Speech, AnswersOK
<1>8. AnswersOK(e, t)
  <2>1. {t[i].of : i \in Statuses(t)} = {sent[i].of : i \in Statuses(sent)} \union {n}
    BY <1>3, <1>5, <1>7
  <2>2. Owed(e) = Owed(d) \union {n}
    BY <1>1, <1>6
  <2>3. ASSUME NEW i \in Statuses(t), NEW j \in Statuses(t), i < j PROVE t[i].of < t[j].of
    <3>1. i \in Statuses(sent)
      BY <1>3, <1>7, <2>3
    <3>2. CASE j \in Statuses(sent)
      BY <1>7, <2>3, <3>1, <3>2 DEF Speech, AnswersOK
    <3>3. CASE j = m + 1
      <4>1. t[j].of = n
        BY <1>5, <3>3
      <4>2. t[i].of \in 1 .. n - 1
        BY <1>7, <3>1
      <4> QED BY <1>1, <4>1, <4>2
    <3> QED BY <1>3, <3>2, <3>3
  <2> QED BY <2>1, <2>2, <2>3 DEF Speech, AnswersOK
<1>9. ReportsOK(e, t)
  <2> SUFFICES ASSUME NEW i \in Statuses(t), Ends(e, t[i].of),
                      NEW b \in 1 .. t[i].of - 1, OpenFrom(e, b, t[i].of)
               PROVE  Lists(t, i, t[i].n, Failures(e, b, t[i].of))
    BY DEF ReportsOK
  <2>1. CASE i \in Statuses(sent)
    <3>1. t[i] = sent[i] /\ i \in 1 .. m /\ sent[i].of \in 1 .. n - 1
      BY <1>7, <2>1
    <3>2. Lists(sent, i, sent[i].n, Failures(e, b, sent[i].of))
      BY <1>1, <2>1, <3>1, ReportsStay DEF Speech
    <3>3. sent[i].n \in Int /\ (sent[i].n > 0 => i + sent[i].n <= m)
      <4>1. sent[i] \in Sentences
        BY <3>1 DEF Speech, FramesOK, m
      <4>2. FramedAt(sent, i)
        BY <2>1 DEF Speech, FramesOK
      <4> QED BY <4>1, <4>2 DEF FramedAt, Sentences, m
    <3>4. \A j \in 1 .. sent[i].n : t[i + j] = sent[i + j]
      <4>1. ASSUME NEW j \in 1 .. sent[i].n PROVE i + j \in 1 .. m
        BY <1>3, <3>1, <3>3
      <4> QED BY <1>3, <4>1
    <3> QED BY <3>1, <3>2, <3>4 DEF Lists
  <2>2. CASE i = m + 1
    <3>1. t[i].of = n /\ t[i].n = a[1].n
      BY <1>5, <2>2
    <3>2. n \in 1 .. n
      BY <1>1
    <3>3. b \in 1 .. n - 1 /\ OpenFrom(d, b, n) /\ Failures(e, b, n) = Failures(d, b, n)
      BY <1>1, <3>1, <3>2 DEF SameBefore
    <3>4. Lists(a, 1, a[1].n, Failures(d, b, n))
      BY <3>1, <3>3 DEF n
    <3>5. a[1].n \in Int /\ (a[1].n > 0 => Len(a) = 1 + a[1].n)
      <4>1. a[1] \in Sentences
        BY <1>3 DEF Answer
      <4> QED BY <4>1 DEF Answer, Sentences
    <3>6. \A j \in 1 .. a[1].n : t[i + j] = a[1 + j]
      <4>1. ASSUME NEW j \in 1 .. a[1].n PROVE 1 + j \in 1 .. Len(a) /\ m + (1 + j) = i + j
        BY <1>3, <2>2, <3>5
      <4> QED BY <1>3, <4>1
    <3> QED BY <3>1, <3>3, <3>4, <3>6 DEF Lists
  <2> QED BY <1>3, <2>1, <2>2
<1>10. Speech(e, t, dn \o a)
  BY <1>1, <1>3, <1>4, <1>8, <1>9 DEF Speech
<1> QED BY <1>10 DEF t

(* The client reads one answer (response_read).                              *)
LEMMA SpeechRead ==
    ASSUME NEW did, NEW sent, NEW dn, Speech(did, sent, dn), dn # <<>>
    PROVE  Speech(did, sent, SubSeq(dn, AnswerLength(dn) + 1, Len(dn)))
<1> DEFINE m == Len(sent)
           u == Len(dn)
           z == IF dn[1].n > 0 THEN dn[1].n ELSE 0
           p == m - u + 1
           t == SubSeq(dn, 1 + z + 1, u)
<1>1. /\ sent \in Seq(Sentences) /\ dn \in Seq(Sentences) /\ m \in Nat /\ u \in Nat \ {0} /\ u <= m
      /\ \A i \in 1 .. u : dn[i] = sent[m - u + i]
      /\ dn[1].kind = "status"
  BY DEF Speech, FramesOK, ReadOK
<1>2. z \in Nat /\ p \in 1 .. m /\ dn[1] = sent[p]
  <2>1. dn[1] \in Sentences /\ 1 \in 1 .. u
    BY <1>1
  <2>2. dn[1].n \in Int
    BY <2>1 DEF Sentences
  <2>3. p \in 1 .. m
    BY <1>1
  <2>4. m - u + 1 = p
    OBVIOUS
  <2> HIDE DEF p
  <2>5. dn[1] = sent[p]
    BY <1>1, <2>1, <2>4
  <2> QED BY <2>2, <2>3, <2>5
<1>3. p \in Statuses(sent)
  BY <1>1, <1>2 DEF Statuses
<1>4. p + z <= m /\ (p + z < m => sent[p + z + 1].kind = "status")
  <2>1. FramedAt(sent, p)
    BY <1>3 DEF Speech, FramesOK
  <2> QED BY <1>2, <2>1 DEF FramedAt
<1> HIDE DEF z
<1>5. 1 + z + 1 \in Nat \ {0} /\ 1 + z + 1 <= u + 1 /\ u - (1 + z + 1) + 1 = u - 1 - z
  BY <1>1, <1>2, <1>4
<1>6. IsSeq(dn)
  BY <1>1 DEF IsSeq
<1> HIDE DEF m, u
<1>7. Len(t) = u - 1 - z /\ \A i \in 1 .. u - 1 - z : t[i] = dn[1 + z + 1 + i - 1]
  BY <1>1, <1>5, <1>6, SubFacts DEF u
<1>8. ASSUME NEW i \in 1 .. u - 1 - z PROVE t[i] = sent[m - Len(t) + i] /\ t[i] \in Sentences
  <2>1. 1 + z + 1 + i - 1 \in 1 .. u /\ m - u + (1 + z + 1 + i - 1) = m - (u - 1 - z) + i
    BY <1>1, <1>2
  <2>2. t[i] = dn[1 + z + 1 + i - 1] /\ Len(t) = u - 1 - z
    BY <1>7
  <2> HIDE DEF t
  <2>3. dn[1 + z + 1 + i - 1] = sent[m - u + (1 + z + 1 + i - 1)] /\ dn[1 + z + 1 + i - 1] \in Sentences
    BY <1>1, <2>1 DEF u
  <2> QED BY <2>1, <2>2, <2>3
<1>9. t \in Seq(Sentences)
  <2>1. IsSeq(t)
    BY <1>1, <1>5, <1>6, SubFacts DEF u
  <2> HIDE DEF t
  <2>2. PICK S : t \in Seq(S)
    BY <2>1 DEF IsSeq
  <2> QED BY <1>7, <1>8, <2>2
<1>10. t # <<>> => t[1].kind = "status"
  <2> SUFFICES ASSUME Len(t) # 0 PROVE t[1].kind = "status"
    BY <1>9
  <2>1. 1 \in 1 .. u - 1 - z /\ m - (u - 1 - z) + 1 = p + z + 1 /\ p + z < m
    BY <1>1, <1>2, <1>5, <1>7
  <2> QED BY <1>4, <1>7, <1>8, <2>1
<1>11. ReadOK(sent, t)
  <2>1. Len(t) <= m
    BY <1>1, <1>2, <1>5, <1>7
  <2> QED BY <1>7, <1>8, <1>9, <1>10, <2>1 DEF ReadOK, m
<1>12. Speech(did, sent, t)
  BY <1>11 DEF Speech
<1> QED BY <1>12 DEF AnswerLength, z, t, u

(* Before a status line the frames end, too.                                 *)
CutAt(sent, p, t) ==
    /\ FramesOK(t) /\ Len(t) = p - 1
    /\ \A i \in 1 .. p - 1 : t[i] = sent[i]
    /\ Statuses(t) = {i \in Statuses(sent) : i < p}
    /\ \A i \in Statuses(t) : i + (IF sent[i].n > 0 THEN sent[i].n ELSE 0) <= p - 1
(* The frames that are left are whole.                                       *)
LEMMA FramesCut ==
    ASSUME NEW sent, FramesOK(sent), NEW p \in Statuses(sent), NEW t, t = SubSeq(sent, 1, p - 1)
    PROVE  CutAt(sent, p, t)
<1> DEFINE m == Len(sent)
<1>1. sent \in Seq(Sentences) /\ m \in Nat /\ p \in 1 .. m /\ sent[p].kind = "status"
  BY DEF FramesOK, Statuses
<1>2. Len(t) = p - 1 /\ t \in Seq(Sentences) /\ (\A i \in 1 .. p - 1 : t[i] = sent[i]) /\ DOMAIN t = 1 .. p - 1
  BY <1>1
<1> HIDE DEF m
<1>3. Statuses(t) = {i \in Statuses(sent) : i < p}
  <2>1. Statuses(sent) \subseteq 1 .. m /\ \A i \in 1 .. m : i \in Statuses(sent) <=> sent[i].kind = "status"
    BY <1>1 DEF Statuses, m
  <2>2. Statuses(t) \subseteq 1 .. p - 1 /\ \A i \in 1 .. p - 1 : i \in Statuses(t) <=> t[i].kind = "status"
    BY <1>2 DEF Statuses
  <2>3. \A i \in 1 .. m : i < p <=> i \in 1 .. p - 1
    BY <1>1
  <2>4. \A i \in 1 .. p - 1 : i \in 1 .. m
    BY <1>1
  <2> QED BY <1>2, <2>1, <2>2, <2>3, <2>4
<1>4. ASSUME NEW i \in Statuses(t)
      PROVE  FramedAt(t, i) /\ i + (IF sent[i].n > 0 THEN sent[i].n ELSE 0) <= p - 1
  <2> DEFINE z == IF sent[i].n > 0 THEN sent[i].n ELSE 0
  <2>1. i \in Statuses(sent) /\ i \in 1 .. p - 1 /\ i \in 1 .. m /\ t[i] = sent[i]
    <3>1. i \in Statuses(sent) /\ i < p
      BY <1>3
    <3>2. i \in 1 .. m
      BY <1>1, <3>1 DEF Statuses, m
    <3> QED BY <1>1, <1>2, <3>1, <3>2
  <2>2. z \in Nat
    <3>1. sent[i] \in Sentences
      BY <1>1, <2>1 DEF m
    <3>2. sent[i].n \in Int
      BY <3>1 DEF Sentences
    <3> QED BY <3>2
  <2>3. /\ i + z <= m
        /\ \A j \in i + 1 .. i + z : sent[j].kind # "status"
        /\ i + z < m => sent[i + z + 1].kind = "status"
    BY <2>1 DEF FramesOK, FramedAt, m
  <2> HIDE DEF z
  <2>4. i + z <= p - 1
    <3>1. p \notin i + 1 .. i + z
      BY <1>1, <2>3
    <3> QED BY <1>1, <2>1, <2>2, <3>1
  <2>5. \A j \in i + 1 .. i + z : t[j].kind # "status"
    BY <1>1, <1>2, <2>1, <2>2, <2>3, <2>4
  <2>6. i + z < Len(t) => t[i + z + 1].kind = "status"
    <3> SUFFICES ASSUME i + z < p - 1 PROVE t[i + z + 1].kind = "status"
      BY <1>2
    <3>1. i + z + 1 \in 1 .. p - 1 /\ i + z < m
      BY <1>1, <2>1, <2>2
    <3> QED BY <1>2, <2>3, <3>1
  <2>7. FramedAt(t, i)
    BY <1>2, <2>1, <2>4, <2>5, <2>6 DEF FramedAt, z
  <2> QED BY <2>4, <2>7 DEF z
<1>5. t # <<>> => t[1].kind = "status"
  <2>1. t # <<>> => 1 \in 1 .. p - 1 /\ sent # <<>>
    BY <1>1, <1>2 DEF m
  <2> QED BY <1>2, <2>1 DEF FramesOK
<1>6. FramesOK(t)
  BY <1>2, <1>4, <1>5 DEF FramesOK
<1> QED BY <1>1, <1>2, <1>3, <1>4, <1>6 DEF CutAt

(* A crash comes before the answer to the last line is sent.                 *)
LEMMA SpeechUnsent ==
    ASSUME NEW d, NEW sent, NEW dn, Speech(d, sent, dn), NEW x \in 1 .. Len(dn),
           dn[x].of = Len(d), dn[x].kind = "status"
    PROVE  Speech([d EXCEPT ![Len(d)].is = "none"], SubSeq(sent, 1, Len(sent) - (Len(dn) - x + 1)),
                  SubSeq(dn, 1, x - 1))
<1> DEFINE n == Len(d)
           m == Len(sent)
           u == Len(dn)
           p == m - u + x
           e == [d EXCEPT ![Len(d)].is = "none"]
           t == SubSeq(sent, 1, p - 1)
           w == SubSeq(dn, 1, x - 1)
<1>1. /\ sent \in Seq(Sentences) /\ dn \in Seq(Sentences) /\ m \in Nat /\ u \in Nat /\ u <= m
      /\ \A i \in 1 .. u : dn[i] = sent[m - u + i]
      /\ dn # <<>> => dn[1].kind = "status"
  BY DEF Speech, FramesOK, ReadOK
<1>2. p \in 1 .. m /\ m - (u - x + 1) = p - 1
  BY <1>1
<1>3. sent[p] = dn[x] /\ p \in Statuses(sent)
  <2>1. sent[p] = dn[x]
    BY <1>1
  <2> HIDE DEF p
  <2> QED BY <1>1, <1>2, <2>1 DEF Statuses
<1>4. n \in Owed(d)
  BY <1>3 DEF Speech, AnswersOK
<1>5. n \in Nat \ {0} /\ Owed(d) \subseteq 1 .. n
  BY <1>4, SeqFacts DEF Speech, DidOK, Owed
<1>6. Settles(d, e, "none")
  <2>1. e[Len(d)].is = "none"
    BY <1>5, SeqFacts DEF Speech, DidOK
  <2> HIDE DEF e
  <2>2. ~Opens(e, Len(d)) /\ ~Ends(e, Len(d))
    BY <2>1 DEF Opens, Ends
  <2> QED BY <1>5, <2>2 DEF Settles, e
<1> HIDE DEF e
<1>7. /\ DidOK(e) /\ BatchesOK(e) /\ SameBefore(d, e, n)
      /\ \A k \in 1 .. n - 1 : k \in Owed(e) <=> k \in Owed(d)
      /\ n \notin Owed(e) /\ Owed(e) \subseteq 1 .. n
  BY <1>6, Settling DEF Speech
<1> HIDE DEF p
<1>8. t = SubSeq(sent, 1, p - 1)
  OBVIOUS
<1> HIDE DEF t
<1>9. FramesOK(sent) /\ p \in Statuses(sent)
  BY <1>3 DEF Speech
<1> HIDE DEF m, u, n, w
<1>30. CutAt(sent, p, t)
  BY <1>8, <1>9, FramesCut
<1>10. FramesOK(t) /\ Len(t) = p - 1 /\ \A i \in 1 .. p - 1 : t[i] = sent[i]
  BY <1>30 DEF CutAt
<1>11. Statuses(t) = {i \in Statuses(sent) : i < p}
  BY <1>30 DEF CutAt
<1>12. \A i \in Statuses(t) : i + (IF sent[i].n > 0 THEN sent[i].n ELSE 0) <= p - 1
  BY <1>30 DEF CutAt

<1>13. ASSUME NEW i \in Statuses(sent) PROVE i \in 1 .. m /\ sent[i].of \in 1 .. n
  BY <1>1, <1>5 DEF Statuses, Speech, AnswersOK, m
<1>14. ASSUME NEW i \in Statuses(sent) PROVE i < p <=> sent[i].of # n
  <2>1. sent[p].of = n
    BY <1>3 DEF n
  <2>2. CASE i < p
    <3>1. sent[i].of < n
      BY <1>3, <2>1, <2>2 DEF Speech, AnswersOK
    <3> QED BY <1>5, <1>13, <2>2, <3>1
  <2>3. CASE i = p
    BY <1>2, <2>1, <2>3
  <2>4. CASE i > p
    <3>1. n < sent[i].of
      BY <1>3, <2>1, <2>4 DEF Speech, AnswersOK
    <3> QED BY <1>5, <1>13, <3>1
  <2> QED BY <1>2, <1>13, <2>2, <2>3, <2>4
<1>15. ASSUME NEW i \in Statuses(t)
       PROVE  i \in Statuses(sent) /\ i \in 1 .. p - 1 /\ t[i] = sent[i] /\ sent[i].of \in 1 .. n - 1
  <2>1. i \in Statuses(sent) /\ i < p
    BY <1>11, <1>12
  <2>2. i \in 1 .. p - 1
    BY <1>2, <1>13, <2>1
  <2>3. sent[i].of \in 1 .. n /\ sent[i].of # n
    BY <1>13, <1>14, <2>1
  <2> QED BY <1>5, <1>10, <2>1, <2>2, <2>3
<1>16. AnswersOK(e, t)
  <2>1. ASSUME NEW k \in Owed(e) PROVE \E i \in Statuses(t) : t[i].of = k
    <3>1. k \in 1 .. n /\ k # n
      BY <1>7
    <3>2. k \in Owed(d)
      BY <1>5, <1>7, <3>1
    <3>3. PICK i \in Statuses(sent) : sent[i].of = k
      BY <3>2 DEF Speech, AnswersOK
    <3>4. i \in Statuses(t)
      BY <1>11, <1>12, <1>14, <3>1, <3>3
    <3> QED BY <1>15, <3>3, <3>4
  <2>2. ASSUME NEW i \in Statuses(t) PROVE t[i].of \in Owed(e)
    <3>1. sent[i].of \in Owed(d)
      BY <1>15 DEF Speech, AnswersOK
    <3> QED BY <1>7, <1>15, <3>1
  <2>3. \A i, j \in Statuses(t) : i < j => t[i].of < t[j].of
    BY <1>15 DEF Speech, AnswersOK
  <2> QED BY <2>1, <2>2, <2>3 DEF AnswersOK
<1>17. ReportsOK(e, t)
  <2> SUFFICES ASSUME NEW i \in Statuses(t), Ends(e, t[i].of),
                      NEW b \in 1 .. t[i].of - 1, OpenFrom(e, b, t[i].of)
               PROVE  Lists(t, i, t[i].n, Failures(e, b, t[i].of))
    BY DEF ReportsOK
  <2>1. i \in Statuses(sent) /\ i \in 1 .. p - 1 /\ t[i] = sent[i] /\ sent[i].of \in 1 .. n - 1
    BY <1>15
  <2>2. Lists(sent, i, sent[i].n, Failures(e, b, sent[i].of))
    BY <1>5, <1>7, <2>1, ReportsStay DEF Speech
  <2>3. sent[i].n \in Int /\ (sent[i].n > 0 => i + sent[i].n <= p - 1)
    <3>1. sent[i] \in Sentences
      BY <1>1, <1>13, <2>1 DEF m
    <3> QED BY <1>11, <1>12, <3>1 DEF Sentences
  <2>4. \A j \in 1 .. sent[i].n : t[i + j] = sent[i + j]
    <3>1. ASSUME NEW j \in 1 .. sent[i].n PROVE i + j \in 1 .. p - 1
      BY <1>2, <2>1, <2>3
    <3> QED BY <1>10, <3>1
  <2> QED BY <2>1, <2>2, <2>4 DEF Lists
<1>18. ReadOK(t, w)
  <2>1. IsSeq(dn) /\ x \in 1 .. u
    BY <1>1 DEF IsSeq, u
  <2>2. 1 \in Nat \ {0} /\ x - 1 \in Nat /\ 1 <= x - 1 + 1 /\ x - 1 <= Len(dn) /\ (x - 1) - 1 + 1 = x - 1
    BY <1>1, <2>1 DEF u
  <2>3. IsSeq(w) /\ Len(w) = x - 1 /\ \A i \in 1 .. x - 1 : w[i] = dn[1 + i - 1]
    BY <2>1, <2>2, SubFacts DEF w
  <2>4. ASSUME NEW i \in 1 .. x - 1
        PROVE w[i] = dn[i] /\ w[i] \in Sentences /\ w[i] = t[Len(t) - Len(w) + i]
    <3>1. w[i] = dn[i] /\ i \in 1 .. u
      <4>1. 1 + i - 1 = i /\ i \in 1 .. u
        BY <1>1, <2>1
      <4> QED BY <2>3, <4>1
    <3>2. dn[i] \in Sentences /\ dn[i] = sent[m - u + i]
      BY <1>1, <3>1 DEF u
    <3>3. m - u + i \in 1 .. p - 1 /\ m - u + i = (p - 1) - (x - 1) + i
      BY <1>1, <2>1 DEF p
    <3> QED BY <1>10, <2>3, <3>1, <3>2, <3>3
  <2>5. w \in Seq(Sentences)
    <3>1. PICK S : w \in Seq(S)
      BY <2>3 DEF IsSeq
    <3> QED BY <2>3, <2>4, <3>1
  <2>6. Len(w) <= Len(t)
    BY <1>1, <1>10, <2>1, <2>3 DEF p
  <2>7. w # <<>> => w[1].kind = "status"
    <3>1. w # <<>> => 1 \in 1 .. x - 1 /\ dn # <<>>
      BY <2>1, <2>3, <2>5, <1>1 DEF u
    <3> QED BY <1>1, <2>4, <3>1
  <2> QED BY <2>3, <2>4, <2>5, <2>6, <2>7 DEF ReadOK
<1>19. Speech(e, t, w)
  BY <1>7, <1>10, <1>16, <1>17, <1>18 DEF Speech
<1> QED BY <1>2, <1>19 DEF e, t, w, m, u

-----------------------------------------------------------------------------
(* What the thread keeps: its batch and the failures in it.                  *)

(* A line that is not answered yet has not failed.                           *)
LEMMA NoFailureYet ==
    ASSUME NEW d, NEW n \in Nat \ {0}, d[n].is # "err", NEW b \in 1 .. n - 1
    PROVE  Failures(d, b, n + 1) = Failures(d, b, n)
<1>1. 1 .. (n + 1) - b - 1 = (1 .. n - b - 1) \union {n - b} /\ b + (n - b) = n
  OBVIOUS
<1> QED BY <1>1 DEF Failures

(* A line is taken and counted in a batch (handle_request).                  *)
LEMMA MoodTaken ==
    ASSUME NEW d, IsSeq(d), NEW batch, NEW cmds, NEW wbuf, Mood(d, batch, cmds, wbuf), NEW line,
           NEW e, e = Append(d, [line |-> line, is |-> "none"])
    PROVE  Mood(e, batch, IF batch THEN cmds + 1 ELSE cmds, wbuf)
<1> DEFINE n == Len(d) + 1
<1>1. /\ IsSeq(e) /\ Len(e) = n /\ Len(d) \in Nat /\ e[n] = [line |-> line, is |-> "none"]
      /\ \A i \in 1 .. n - 1 : e[i] = d[i]
  BY AppendFacts, SeqFacts
<1>2. n \in Nat \ {0} /\ n - 1 = Len(d) /\ n \in 1 .. n
  BY <1>1
<1> HIDE DEF n
<1>3. SameBefore(d, e, n)
  BY <1>1, <1>2, SameBatches
<1>4. ~Opens(e, n) /\ ~Ends(e, n) /\ e[n].is # "err"
  BY <1>1 DEF Opens, Ends
<1>5. /\ \A b \in 1 .. n - 1 : OpenFrom(e, b, n + 1) <=> OpenFrom(e, b, n)
      /\ ~OpenFrom(e, n, n + 1) /\ (InBatch(e, n + 1) <=> InBatch(e, n))
  BY <1>2, <1>4, BatchGoesOn
<1>6. batch <=> InBatch(e, n + 1)
  BY <1>2, <1>3, <1>5 DEF SameBefore, Mood, n
<1>7. ASSUME NEW b \in 1 .. n, OpenFrom(e, b, n + 1)
      PROVE  /\ (IF batch THEN cmds + 1 ELSE cmds) = n - b
             /\ Lists(wbuf, 0, Len(wbuf), Failures(e, b, n + 1))
  <2>1. b \in 1 .. n - 1
    BY <1>2, <1>5, <1>7
  <2>2. OpenFrom(d, b, n) /\ Failures(e, b, n) = Failures(d, b, n)
    BY <1>2, <1>3, <1>5, <1>7, <2>1 DEF SameBefore
  <2>3. batch
    BY <1>2, <2>1, <2>2 DEF Mood, InBatch, n
  <2>4. b \in 1 .. Len(d) /\ n = Len(d) + 1
    BY <1>2, <2>1
  <2>5. cmds = Len(d) - b /\ Lists(wbuf, 0, Len(wbuf), Failures(d, b, n))
    BY <2>2, <2>4 DEF Mood
  <2>6. Failures(e, b, n + 1) = Failures(e, b, n)
    BY <1>2, <1>4, <2>1, NoFailureYet
  <2> QED BY <1>1, <2>2, <2>3, <2>4, <2>5, <2>6
<1> QED BY <1>1, <1>6, <1>7 DEF Mood

(* A command that is not BATCH and not the dot: in a batch its failure is    *)
(* kept, with its number (send_response).                                    *)
KeptLines(failed, cmds, wbuf, w) ==
    \/ ~failed /\ w = wbuf
    \/ failed /\ \E l \in Sentences : l.kind # "status" /\ l.n = cmds /\ w = Append(wbuf, l)
(* Then the thread knows the failures of its batch, the new one with them.   *)
LEMMA MoodKept ==
    ASSUME NEW d, NEW batch, NEW cmds, NEW wbuf, Mood(d, batch, cmds, wbuf),
           DidOK(d), BatchesOK(d), NEW e, NEW v, Settles(d, e, v), v # "none", d[Len(d)].is = "none",
           ~Opens(e, Len(d)), ~Ends(e, Len(d)),
           NEW w, KeptLines(batch /\ v = "err", cmds, wbuf, w)
    PROVE  Mood(e, batch, cmds, w)
<1> DEFINE n == Len(d)
<1>1. n \in Nat \ {0} /\ Len(e) = n /\ e[n].is = v /\ SameBefore(d, e, n)
  BY Settling
<1>2. n \in 1 .. n /\ wbuf \in Seq(Sentences) /\ Len(wbuf) \in Nat
  BY <1>1 DEF Mood
<1>3. ~Opens(d, n) /\ ~Ends(d, n) /\ d[n].is # "err"
  BY DEF Opens, Ends
<1> HIDE DEF n
<1>4. /\ \A b \in 1 .. n - 1 : OpenFrom(e, b, n + 1) <=> OpenFrom(d, b, n + 1)
      /\ ~OpenFrom(e, n, n + 1) /\ (InBatch(e, n + 1) <=> InBatch(d, n + 1))
  <2>1. /\ \A b \in 1 .. n - 1 : OpenFrom(e, b, n + 1) <=> OpenFrom(e, b, n)
        /\ ~OpenFrom(e, n, n + 1) /\ (InBatch(e, n + 1) <=> InBatch(e, n))
    BY <1>1, BatchGoesOn DEF n
  <2>2. /\ \A b \in 1 .. n - 1 : OpenFrom(d, b, n + 1) <=> OpenFrom(d, b, n)
        /\ (InBatch(d, n + 1) <=> InBatch(d, n))
    BY <1>1, <1>3, BatchGoesOn
  <2> QED BY <1>1, <1>2, <2>1, <2>2 DEF SameBefore
<1>5. batch <=> InBatch(e, n + 1)
  BY <1>4 DEF Mood, n
<1>6. /\ w \in Seq(Sentences) /\ \A i \in 1 .. Len(w) : w[i].kind # "status"
      /\ ~batch => w = <<>>
  <2>1. CASE batch /\ v = "err"
    <3>0. PICK l \in Sentences : l.kind # "status" /\ l.n = cmds /\ w = Append(wbuf, l)
      BY <2>1 DEF KeptLines
    <3>1. IsSeq(wbuf) /\ w = Append(wbuf, l)
      BY <1>2, <3>0 DEF IsSeq
    <3>2. w \in Seq(Sentences)
      BY <1>2, <3>1
    <3>3. /\ Len(w) = Len(wbuf) + 1 /\ w[Len(wbuf) + 1] = l
          /\ \A i \in 1 .. Len(wbuf) : w[i] = wbuf[i]
      BY <3>1, AppendFacts
    <3>4. \A i \in 1 .. Len(wbuf) + 1 : i \in 1 .. Len(wbuf) \/ i = Len(wbuf) + 1
      BY <1>2
    <3> QED BY <2>1, <3>0, <3>2, <3>3, <3>4 DEF Mood
  <2>2. CASE ~(batch /\ v = "err")
    BY <2>2 DEF Mood, KeptLines
  <2> QED BY <2>1, <2>2
<1>7. ASSUME NEW b \in 1 .. n, OpenFrom(e, b, n + 1)
      PROVE  cmds = n - b /\ Lists(w, 0, Len(w), Failures(e, b, n + 1))
  <2>1. b \in 1 .. n - 1 /\ OpenFrom(d, b, n + 1)
    BY <1>1, <1>4, <1>7
  <2>2. cmds = n - b /\ Lists(wbuf, 0, Len(wbuf), Failures(d, b, n + 1)) /\ batch
    <3>1. b \in 1 .. Len(d) /\ n = Len(d)
      BY <1>1, <2>1 DEF n
    <3>2. batch
      <4>1. b \in 1 .. (n + 1) - 1
        BY <1>1
      <4> QED BY <1>5, <1>7, <4>1 DEF InBatch
    <3> QED BY <2>1, <3>1, <3>2 DEF Mood
  <2>3. Failures(d, b, n + 1) = Failures(d, b, n) /\ Failures(e, b, n) = Failures(d, b, n)
    BY <1>1, <1>2, <1>3, <2>1, NoFailureYet DEF SameBefore
  <2>4. CASE v # "err"
    <3>1. Failures(e, b, n + 1) = Failures(e, b, n) /\ w = wbuf
      BY <1>1, <2>1, <2>4, NoFailureYet DEF KeptLines
    <3> QED BY <2>2, <2>3, <3>1
  <2>5. CASE v = "err"
    <3>1. Failures(e, b, n + 1) = Failures(d, b, n) \union {n - b}
      <4>1. 1 .. (n + 1) - b - 1 = (1 .. n - b - 1) \union {n - b} /\ b + (n - b) = n
        BY <1>1, <2>1
      <4> QED BY <1>1, <2>3, <2>5, <4>1 DEF Failures
    <3>2. \A m \in Failures(d, b, n) : m \in Int /\ m < n - b
      BY <1>1, <2>1 DEF Failures
    <3> DEFINE u == Len(wbuf)
    <3>0. PICK l \in Sentences : l.kind # "status" /\ l.n = cmds /\ w = Append(wbuf, l)
      BY <2>2, <2>5 DEF KeptLines
    <3>3. /\ Len(w) = u + 1 /\ w[u + 1] = l
          /\ \A i \in 1 .. u : w[i] = wbuf[i]
      <4>1. IsSeq(wbuf) /\ w = Append(wbuf, l)
        BY <1>2, <3>0 DEF IsSeq
      <4> QED BY <4>1, AppendFacts
    <3>4. l.n = n - b /\ u \in Nat
      BY <1>2, <2>2, <3>0
    <3> HIDE DEF u
    <3>5. \A j \in 1 .. u + 1 : 0 + j = j /\ (j \in 1 .. u \/ j = u + 1)
      BY <3>4
    <3>6. {wbuf[j].n : j \in 1 .. u} = Failures(d, b, n) /\ \A j, h \in 1 .. u : j < h => wbuf[j].n < wbuf[h].n
      <4>1. \A j \in 1 .. u : 0 + j = j
        BY <3>4
      <4> QED BY <2>2, <2>3, <4>1 DEF Lists, u
    <3>7. 1 .. u + 1 = (1 .. u) \union {u + 1}
      BY <3>4
    <3>8. {w[0 + j].n : j \in 1 .. u + 1} = Failures(d, b, n) \union {n - b}
      <4>1. {w[0 + j].n : j \in 1 .. u + 1} = {w[j].n : j \in 1 .. u + 1}
        BY <3>5
      <4>2. {w[j].n : j \in 1 .. u + 1} = {w[j].n : j \in 1 .. u} \union {w[u + 1].n}
        BY <3>7
      <4>3. {w[j].n : j \in 1 .. u} = {wbuf[j].n : j \in 1 .. u}
        BY <3>3
      <4> QED BY <3>3, <3>4, <3>6, <4>1, <4>2, <4>3
    <3>9. ASSUME NEW j \in 1 .. u + 1, NEW h \in 1 .. u + 1, j < h PROVE w[0 + j].n < w[0 + h].n
      <4>1. j \in 1 .. u
        BY <3>4, <3>9
      <4>2. CASE h \in 1 .. u
        BY <3>3, <3>5, <3>6, <3>9, <4>1, <4>2
      <4>3. CASE h = u + 1
        <5>1. wbuf[j].n \in Failures(d, b, n)
          BY <3>6, <4>1
        <5> QED BY <3>2, <3>3, <3>4, <3>5, <4>1, <4>3, <5>1
      <4> QED BY <3>5, <4>2, <4>3
    <3> QED BY <2>2, <3>1, <3>3, <3>8, <3>9 DEF Lists
  <2> QED BY <2>4, <2>5
<1> QED BY <1>1, <1>5, <1>6, <1>7 DEF Mood, n

(* BATCH opens a batch (batch_start).                                        *)
LEMMA MoodOpened ==
    ASSUME NEW d, DidOK(d), BatchesOK(d), NEW e, NEW v, Settles(d, e, v), Opens(e, Len(d))
    PROVE  Mood(e, TRUE, 0, <<>>)
<1> DEFINE n == Len(d)
<1>1. n \in Nat \ {0} /\ Len(e) = n /\ SameBefore(d, e, n) /\ Opens(e, n) /\ ~InBatch(d, n)
  <2>1. Opens(e, n) /\ ~InBatch(d, n)
    BY DEF Settles
  <2>2. n \in Nat \ {0} /\ Len(e) = n /\ SameBefore(d, e, n)
    BY Settling
  <2> QED BY <2>1, <2>2
<1> HIDE DEF n
<1>2. OpenFrom(e, n, n + 1)
  <2>1. n + 1 .. (n + 1) - 1 = {}
    BY <1>1
  <2> QED BY <1>1, <2>1 DEF OpenFrom
<1>3. InBatch(e, n + 1)
  <2>1. n \in 1 .. (n + 1) - 1
    BY <1>1
  <2> QED BY <1>2, <2>1 DEF InBatch
<1>4. ASSUME NEW b \in 1 .. n, OpenFrom(e, b, n + 1) PROVE b = n
  <2> SUFFICES ASSUME b # n PROVE FALSE
    OBVIOUS
  <2>1. b \in 1 .. n - 1 /\ n \in 1 .. n /\ \A i \in b + 1 .. n - 1 : i \in b + 1 .. (n + 1) - 1
    BY <1>1
  <2>2. OpenFrom(e, b, n)
    BY <1>4, <2>1 DEF OpenFrom
  <2>3. InBatch(d, n)
    BY <1>1, <2>1, <2>2 DEF SameBefore, InBatch
  <2> QED BY <1>1, <2>3
<1>5. ASSUME NEW b \in 1 .. n, OpenFrom(e, b, n + 1)
      PROVE  0 = n - b /\ Lists(<<>>, 0, Len(<<>>), Failures(e, b, n + 1))
  <2>1. b = n
    BY <1>4, <1>5
  <2>2. 1 .. (n + 1) - n - 1 = {} /\ 1 .. Len(<<>>) = {}
    BY <1>1
  <2>3. Failures(e, n, n + 1) = {}
    BY <2>2 DEF Failures
  <2>4. Lists(<<>>, 0, Len(<<>>), {})
    BY <2>2 DEF Lists
  <2> QED BY <1>1, <2>1, <2>3, <2>4
<1> QED BY <1>1, <1>3, <1>5 DEF Mood

(* The dot ends it (batch_done).                                             *)
LEMMA MoodEnded ==
    ASSUME NEW d, DidOK(d), BatchesOK(d), NEW e, NEW v, Settles(d, e, v), Ends(e, Len(d)), NEW cmds
    PROVE  Mood(e, FALSE, cmds, <<>>)
<1> DEFINE n == Len(d)
<1>1. n \in Nat \ {0} /\ Len(e) = n /\ Ends(e, n)
  BY Settling
<1> HIDE DEF n
<1>2. ASSUME NEW b \in 1 .. n PROVE ~OpenFrom(e, b, n + 1)
  <2>1. CASE b = n
    BY <1>1, <2>1 DEF OpenFrom, Opens, Ends
  <2>2. CASE b # n
    <3>1. n \in b + 1 .. (n + 1) - 1
      BY <1>1, <2>2
    <3> QED BY <1>1, <3>1 DEF OpenFrom
  <2> QED BY <2>1, <2>2
<1>3. (n + 1) - 1 = n
  BY <1>1
<1>4. ~InBatch(e, n + 1)
  BY <1>2, <1>3 DEF InBatch
<1> QED BY <1>1, <1>2, <1>4 DEF Mood

-----------------------------------------------------------------------------
(* A connection in conversation.                                             *)

(* A thread that waits for a write took a FLUSH, which has no answer yet.    *)
Waiting(did) == Len(did) # 0 /\ did[Len(did)].is = "none" /\ did[Len(did)].line.cmd = "FLUSH"
Talk(k) ==
    /\ Speech(k.did, k.sent, k.dn)
    /\ k.st # "closed" => Mood(k.did, k.batch, k.cmds, k.wbuf)
    /\ k.batch \in BOOLEAN
    /\ k.wait # None => k.st = "open" /\ Waiting(k.did)

(* The thread has taken the line and is about to answer it.                  *)
Asked(k, line) ==
    /\ DOMAIN k = Fields /\ k.st = "open" /\ k.batch \in BOOLEAN
    /\ Speech(k.did, k.sent, k.dn)
    /\ Len(k.did) # 0 /\ k.did[Len(k.did)].is = "none" /\ k.did[Len(k.did)].line = line

(* A line is taken (next_cmd).                                               *)
LEMMA LineTaken ==
    ASSUME NEW k, DOMAIN k = Fields, Talk(k), k.st = "open", NEW m, m = TakeLine(k)
    PROVE  /\ Asked(m, TheLine(k)) /\ Mood(m.did, m.batch, m.cmds, m.wbuf)
           /\ m.batch = k.batch /\ m.hup = k.hup /\ m.addr = k.addr /\ m.wait = k.wait
<1> DEFINE e == Append(k.did, [line |-> TheLine(k), is |-> "none"])
<1>1. /\ DOMAIN m = Fields /\ m.st = "open" /\ m.batch = k.batch /\ m.wbuf = k.wbuf
      /\ m.sent = k.sent /\ m.dn = k.dn /\ m.did = e /\ m.cmds = IF k.batch THEN k.cmds + 1 ELSE k.cmds
      /\ m.hup = k.hup /\ m.addr = k.addr /\ m.wait = k.wait
  BY DEF TakeLine, Took, Counted, Fields
<1>2. IsSeq(k.did) /\ Speech(k.did, k.sent, k.dn) /\ Mood(k.did, k.batch, k.cmds, k.wbuf)
      /\ k.batch \in BOOLEAN
  BY DEF Talk, Speech, DidOK
<1>3. Len(k.did) \in Nat /\ Len(e) = Len(k.did) + 1 /\ e[Len(e)] = [line |-> TheLine(k), is |-> "none"]
  BY <1>2, AppendFacts, SeqFacts
<1>4. Speech(e, k.sent, k.dn)
  BY <1>2, SpeechTaken
<1>5. Mood(e, k.batch, IF k.batch THEN k.cmds + 1 ELSE k.cmds, k.wbuf)
  BY <1>2, MoodTaken
<1> HIDE DEF e
<1>6. Len(e) # 0 /\ e[Len(e)].is = "none" /\ e[Len(e)].line = TheLine(k)
  BY <1>3
<1> QED BY <1>1, <1>2, <1>4, <1>5, <1>6 DEF Asked

(* The lines of an answer (send_response, count_lines).                      *)
NoStatus(lines) == lines \in Seq(Sentences) /\ \A i \in 1 .. Len(lines) : lines[i].kind # "status"
(* The status line counts the lines that follow it.                          *)
LEMMA AnswerBuilt ==
    ASSUME NEW k, Len(k.did) \in Nat, NEW ok \in BOOLEAN, NEW lines, NoStatus(lines)
    PROVE  /\ Answer(SentLines(k, ok, lines), Len(k.did))
           /\ ok => \A F : Lists(lines, 0, Len(lines), F) =>
                              Lists(SentLines(k, ok, lines), 1, SentLines(k, ok, lines)[1].n, F)
<1> DEFINE f == IF ok THEN lines ELSE <<>>
           s == Line(k, "status", StatusOf(k, ok, lines))
           a == <<s>> \o f
<1>1. f \in Seq(Sentences) /\ Len(f) \in Nat /\ \A i \in 1 .. Len(f) : f[i].kind # "status"
  BY DEF NoStatus
<1>2. /\ s \in Sentences /\ s.kind = "status" /\ s.of = Len(k.did) /\ s.n = IF ok THEN Len(lines) ELSE -1
      /\ s.n \in Int
  BY <1>1 DEF Line, StatusOf, Sentences, NoStatus
<1>3. (IF s.n > 0 THEN s.n ELSE 0) = Len(f)
  BY <1>1, <1>2
<1>4. (ok => f = lines) /\ (ok => s.n = Len(lines))
  BY <1>2
<1>5. a = SentLines(k, ok, lines)
  BY DEF SentLines, Follow
<1> HIDE DEF f, s
<1>6. <<s>> \in Seq(Sentences) /\ Len(<<s>>) = 1 /\ <<s>>[1] = s
  BY <1>2
<1>7. IsSeq(<<s>>) /\ IsSeq(f)
  BY <1>1, <1>6 DEF IsSeq
<1>8. /\ a \in Seq(Sentences) /\ Len(a) = 1 + Len(f) /\ a[1] = s
      /\ \A i \in 1 .. Len(f) : a[1 + i] = f[i]
  BY <1>1, <1>6, <1>7, ConcatFacts
<1> HIDE DEF a
<1>9. \A i \in 2 .. Len(a) : a[i].kind # "status"
  <2>1. \A i \in 2 .. Len(a) : i - 1 \in 1 .. Len(f) /\ 1 + (i - 1) = i
    BY <1>1, <1>8
  <2> QED BY <1>1, <1>8, <2>1
<1>10. a # <<>>
  BY <1>1, <1>8
<1>11. Answer(a, Len(k.did))
  BY <1>2, <1>3, <1>8, <1>9, <1>10 DEF Answer
<1>12. ASSUME ok, NEW F, Lists(lines, 0, Len(lines), F) PROVE Lists(a, 1, a[1].n, F)
  <2>1. f = lines /\ a[1].n = Len(f)
    BY <1>4, <1>8, <1>12
  <2>2. Lists(f, 0, Len(f), F)
    BY <1>12, <2>1
  <2>3. \A j \in 1 .. Len(f) : a[1 + j] = f[0 + j]
    <3>1. \A j \in 1 .. Len(f) : 0 + j = j
      BY <1>1
    <3> QED BY <1>8, <3>1
  <2>4. {a[1 + j].n : j \in 1 .. Len(f)} = {f[0 + j].n : j \in 1 .. Len(f)}
    BY <2>3
  <2> QED BY <2>1, <2>2, <2>3, <2>4 DEF Lists
<1> QED BY <1>5, <1>11, <1>12

(* What becomes of the line: Marked.                                         *)
LEMMA MarkSettles ==
    ASSUME NEW k, NEW line, Asked(k, line), NEW ok \in BOOLEAN,
           ok /\ line.cmd = "BATCH" => ~InBatch(k.did, Len(k.did)),
           ok /\ line.cmd = "." => InBatch(k.did, Len(k.did)),
           NEW e, e = [k.did EXCEPT ![Len(k.did)].is = IF ok THEN "ok" ELSE "err"]
    PROVE  /\ Settles(k.did, e, IF ok THEN "ok" ELSE "err")
           /\ Opens(e, Len(k.did)) <=> ok /\ line.cmd = "BATCH"
           /\ Ends(e, Len(k.did)) <=> ok /\ line.cmd = "."
           /\ InBatch(k.did, Len(k.did)) <=> InBatch(k.did, Len(k.did) + 1)
<1> DEFINE d == k.did
           n == Len(d)
           v == IF ok THEN "ok" ELSE "err"
<1>1. /\ DidOK(d) /\ n \in Nat \ {0} /\ DOMAIN d = 1 .. n /\ d[n].is = "none" /\ d[n].line = line
      /\ DOMAIN d[n] = {"line", "is"}
  <2>1. DidOK(d) /\ Len(d) # 0
    BY DEF Asked, Speech
  <2>2. n \in Nat \ {0} /\ DOMAIN d = 1 .. n
    BY <2>1, SeqFacts DEF DidOK
  <2> QED BY <2>1, <2>2 DEF DidOK, Asked
<1>2. e[n].is = v /\ e[n].line = line
  <2>1. n \in DOMAIN d
    BY <1>1
  <2>2. e[n] = [d[n] EXCEPT !.is = v]
    BY <2>1
  <2> QED BY <1>1, <2>2
<1> HIDE DEF n, d
<1>3. (Opens(e, n) <=> ok /\ line.cmd = "BATCH") /\ (Ends(e, n) <=> ok /\ line.cmd = ".")
  BY <1>2 DEF Opens, Ends
<1>4. InBatch(d, n) <=> InBatch(d, n + 1)
  <2>1. ~Opens(d, n) /\ ~Ends(d, n)
    BY <1>1 DEF Opens, Ends
  <2> QED BY <1>1, <2>1, BatchGoesOn
<1>5. Settles(d, e, v)
  BY <1>1, <1>3 DEF Settles, n, d
<1> QED BY <1>3, <1>4, <1>5 DEF n, d

(* What send_response leaves alone and what it changes.                      *)
MarkOf(ok) == IF ok THEN "ok" ELSE "err"
Replied(k, ok, info, m) ==
    LET a == SentLines(k, ok, k.wbuf \o info) IN
    /\ DOMAIN m = Fields /\ m.did = [k.did EXCEPT ![Len(k.did)].is = MarkOf(ok)]
    /\ m.sent = IF k.batch THEN k.sent ELSE k.sent \o a
    /\ m.dn = IF k.batch THEN k.dn ELSE k.dn \o a
    /\ m.wbuf = IF ~k.batch THEN <<>> ELSE IF ok THEN k.wbuf
                ELSE Append(k.wbuf, Line(k, "error", k.cmds))
    /\ m.st = k.st /\ m.batch = k.batch /\ m.cmds = k.cmds /\ m.wait = k.wait
(* It either closes the connection or answers.                               *)
LEMMA ReplyFields ==
    ASSUME NEW k, DOMAIN k = Fields, NEW ok \in BOOLEAN, NEW info, NEW m \in send_response(k, ok, info)
    PROVE  m = Closed(k) \/ Replied(k, ok, info, m)
<1> SUFFICES ASSUME m = Marked(Answered(k, ok, info), ok) PROVE Replied(k, ok, info, m)
  BY DEF send_response
<1> DEFINE h == Answered(k, ok, info)
           a == SentLines(k, ok, k.wbuf \o info)
<1>1. /\ DOMAIN h = Fields /\ h.did = k.did
      /\ h.sent = IF k.batch THEN k.sent ELSE k.sent \o a
      /\ h.dn = IF k.batch THEN k.dn ELSE k.dn \o a
      /\ h.wbuf = IF ~k.batch THEN <<>> ELSE IF ok THEN k.wbuf
                  ELSE Append(k.wbuf, Line(k, "error", k.cmds))
      /\ h.st = k.st /\ h.batch = k.batch /\ h.cmds = k.cmds /\ h.wait = k.wait
  BY DEF Answered, Fields
<1> HIDE DEF h, a
<1>2. m = [h EXCEPT !.did = [h.did EXCEPT ![Len(h.did)].is = MarkOf(ok)]]
  <2>1. m = Marked(h, ok)
    BY DEF h
  <2> QED BY <2>1 DEF Marked, MarkOf
<1>3. /\ DOMAIN m = Fields /\ m.did = [h.did EXCEPT ![Len(h.did)].is = MarkOf(ok)]
      /\ m.sent = h.sent /\ m.dn = h.dn /\ m.wbuf = h.wbuf
      /\ m.st = h.st /\ m.batch = h.batch /\ m.cmds = h.cmds /\ m.wait = h.wait
  BY <1>1, <1>2 DEF Fields
<1> QED BY <1>1, <1>3 DEF a, Replied

(* The connection is closed instead.                                         *)
LEMMA TalkClosed ==
    ASSUME NEW k, DOMAIN k = Fields, Speech(k.did, k.sent, k.dn), k.batch \in BOOLEAN
    PROVE  Talk(Closed(k))
BY DEF Talk, Closed, Fields

(* The answer to a command that is not BATCH and not the dot.                *)
LEMMA TalkReplied ==
    ASSUME NEW k, NEW line, Asked(k, line), Mood(k.did, k.batch, k.cmds, k.wbuf), k.wait = None,
           NEW ok \in BOOLEAN, ok => line.cmd # "BATCH" /\ line.cmd # ".",
           NEW info, NoStatus(info), NEW m \in send_response(k, ok, info)
    PROVE  Talk(m)
<1>1. CASE m = Closed(k)
  BY <1>1, TalkClosed DEF Asked
<1>2. CASE m # Closed(k)
  <2> DEFINE d == k.did
             n == Len(d)
             e == [k.did EXCEPT ![Len(k.did)].is = MarkOf(ok)]
             v == MarkOf(ok)
             a == SentLines(k, ok, k.wbuf \o info)
  <2>1. /\ DOMAIN m = Fields /\ m.did = e
        /\ m.sent = IF k.batch THEN k.sent ELSE k.sent \o a
        /\ m.dn = IF k.batch THEN k.dn ELSE k.dn \o a
        /\ m.wbuf = IF ~k.batch THEN <<>> ELSE IF ok THEN k.wbuf
                    ELSE Append(k.wbuf, Line(k, "error", k.cmds))
        /\ m.st = k.st /\ m.batch = k.batch /\ m.cmds = k.cmds /\ m.wait = k.wait
    <3>1. Replied(k, ok, info, m)
      BY <1>2, ReplyFields DEF Asked
    <3> QED BY <3>1 DEF Replied
  <2>2. Settles(d, e, v) /\ ~Opens(e, n) /\ ~Ends(e, n) /\ (InBatch(d, n) <=> InBatch(d, n + 1))
    BY MarkSettles DEF MarkOf
  <2>3. Speech(d, k.sent, k.dn) /\ k.batch \in BOOLEAN /\ d[n].is = "none" /\ v # "none" /\ (v = "err" <=> ~ok)
    BY DEF Asked, MarkOf
  <2>4. DidOK(d) /\ BatchesOK(d) /\ n \in Nat
    BY <2>3, SeqFacts DEF Speech, DidOK
  <2>5. k.batch <=> InBatch(d, n)
    BY <2>2 DEF Mood
  <2>6. NoStatus(k.wbuf)
    BY DEF Mood, NoStatus
  <2>7. Speech(e, m.sent, m.dn)
    <3>1. CASE k.batch
      BY <2>1, <2>2, <2>3, <2>5, <3>1, SpeechSilent
    <3>2. CASE ~k.batch
      <4>1. k.wbuf = <<>> /\ k.wbuf \o info = info
        BY <3>2 DEF Mood, NoStatus
      <4>2. Answer(a, n)
        BY <2>4, <4>1, AnswerBuilt
      <4> HIDE DEF a
      <4>3. Speech(e, k.sent \o a, k.dn \o a)
        BY <2>2, <2>3, <2>5, <3>2, <4>2, SpeechAnswered
      <4> QED BY <2>1, <3>2, <4>3
    <3> QED BY <3>1, <3>2
  <2>8. Mood(e, k.batch, k.cmds, m.wbuf)
    <3>1. ASSUME k.batch, v = "err" PROVE Line(k, "error", k.cmds) \in Sentences
      <4>1. PICK b \in 1 .. (n + 1) - 1 : OpenFrom(d, b, n + 1)
        BY <2>2, <2>5, <3>1 DEF InBatch
      <4>2. b \in 1 .. n
        BY <2>4
      <4>3. k.cmds = n - b
        BY <4>1, <4>2 DEF Mood
      <4>4. k.cmds \in Int
        BY <2>4, <4>2, <4>3
      <4> QED BY <2>4, <4>4 DEF Line, Sentences
    <3>2. KeptLines(k.batch /\ v = "err", k.cmds, k.wbuf, m.wbuf)
      <4>1. CASE k.batch /\ v = "err"
        <5> DEFINE l == Line(k, "error", k.cmds)
        <5>1. l.kind # "status" /\ l.n = k.cmds
          BY DEF Line
        <5>2. m.wbuf = Append(k.wbuf, l)
          BY <2>1, <2>3, <4>1
        <5> QED BY <3>1, <4>1, <5>1, <5>2 DEF KeptLines
      <4>2. CASE ~(k.batch /\ v = "err")
        BY <2>1, <2>3, <4>2 DEF Mood, KeptLines
      <4> QED BY <4>1, <4>2
    <3> HIDE DEF d, e, v, n
    <3>3. Mood(d, k.batch, k.cmds, k.wbuf)
      BY DEF d
    <3>4. /\ DidOK(d) /\ BatchesOK(d) /\ Settles(d, e, v) /\ v # "none" /\ d[Len(d)].is = "none"
          /\ ~Opens(e, Len(d)) /\ ~Ends(e, Len(d))
      BY <2>2, <2>3, <2>4 DEF n
    <3> QED BY <3>2, <3>3, <3>4, MoodKept
  <2> QED BY <2>1, <2>3, <2>7, <2>8 DEF Talk
<1> QED BY <1>1, <1>2

(* BATCH is answered and opens a batch, unless the client has gone.          *)
LEMMA TalkOpened ==
    ASSUME NEW k, NEW line, Asked(k, line), Mood(k.did, k.batch, k.cmds, k.wbuf), k.wait = None,
           line.cmd = "BATCH", ~k.batch, NEW h \in send_response(k, TRUE, <<>>),
           NEW m, m = IF h.st = "open" THEN [h EXCEPT !.batch = TRUE, !.cmds = 0] ELSE h
    PROVE  Talk(m)
<1>1. CASE h = Closed(k)
  <2>1. h.st = "closed"
    BY <1>1 DEF Asked, Closed, Fields
  <2> QED BY <1>1, <2>1, TalkClosed DEF Asked
<1>2. CASE h # Closed(k)
  <2> DEFINE d == k.did
             n == Len(d)
             e == [k.did EXCEPT ![Len(k.did)].is = MarkOf(TRUE)]
             a == SentLines(k, TRUE, k.wbuf \o <<>>)
  <2>0. PICK ok \in BOOLEAN : ok = TRUE
    OBVIOUS
  <2>1. /\ DOMAIN h = Fields /\ h.did = e /\ h.sent = k.sent \o a /\ h.dn = k.dn \o a
        /\ h.wbuf = <<>> /\ h.st = "open" /\ h.wait = None
    <3>1. h \in send_response(k, ok, <<>>) /\ DOMAIN k = Fields /\ k.st = "open"
      BY <2>0 DEF Asked
    <3>2. Replied(k, ok, <<>>, h)
      BY <1>2, <3>1, ReplyFields
    <3> QED BY <2>0, <3>1, <3>2 DEF Replied
  <2>2. /\ m.did = e /\ m.sent = k.sent \o a /\ m.dn = k.dn \o a /\ m.wbuf = <<>>
        /\ m.batch = TRUE /\ m.cmds = 0 /\ m.wait = None
    BY <2>1 DEF Fields
  <2>3. DidOK(d) /\ BatchesOK(d) /\ n \in Nat /\ Speech(d, k.sent, k.dn) /\ d[n].is = "none"
    BY SeqFacts DEF Speech, DidOK, Asked
  <2>4. InBatch(d, n + 1) <=> FALSE
    BY DEF Mood
  <2>5. ~InBatch(d, n)
    <3>1. ~Opens(d, n) /\ ~Ends(d, n) /\ n \in Nat \ {0}
      BY <2>3 DEF Opens, Ends, Asked
    <3> QED BY <2>4, <3>1, BatchGoesOn
  <2>6. Settles(d, e, "ok") /\ Opens(e, n) /\ ~Ends(e, n)
    BY <2>5, MarkSettles DEF MarkOf
  <2>7. NoStatus(k.wbuf \o <<>>)
    BY DEF Mood, NoStatus
  <2>8. Answer(a, n)
    BY <2>3, <2>7, AnswerBuilt
  <2> HIDE DEF a, e
  <2>9. Speech(e, k.sent \o a, k.dn \o a)
    BY <2>3, <2>5, <2>6, <2>8, SpeechAnswered
  <2>10. Mood(e, TRUE, 0, <<>>)
    BY <2>3, <2>6, MoodOpened
  <2> QED BY <2>2, <2>9, <2>10 DEF Talk
<1> QED BY <1>1, <1>2

(* The dot ends the batch and says what failed in it.                        *)
LEMMA TalkEnded ==
    ASSUME NEW h, NEW line, Asked(h, line), Mood(h.did, h.batch, h.cmds, h.wbuf), h.wait = None,
           line.cmd = ".", h.batch, NEW k, k = [h EXCEPT !.batch = FALSE, !.cmds = 0],
           NEW m \in send_response(k, TRUE, <<>>)
    PROVE  Talk(m)
<1>1. /\ Asked(k, line) /\ k.wait = None /\ k.batch = FALSE /\ k.did = h.did /\ k.wbuf = h.wbuf
      /\ k.sent = h.sent /\ k.dn = h.dn
  BY DEF Asked, Fields
<1>2. CASE m = Closed(k)
  BY <1>1, <1>2, TalkClosed DEF Asked
<1>3. CASE m # Closed(k)
  <2> DEFINE d == k.did
             n == Len(d)
             e == [k.did EXCEPT ![Len(k.did)].is = MarkOf(TRUE)]
             a == SentLines(k, TRUE, k.wbuf \o <<>>)
  <2>0. PICK ok \in BOOLEAN : ok = TRUE
    OBVIOUS
  <2>1. /\ m.did = e /\ m.sent = k.sent \o a /\ m.dn = k.dn \o a
        /\ m.wbuf = <<>> /\ m.wait = None /\ m.batch = FALSE
    <3>1. m \in send_response(k, ok, <<>>) /\ DOMAIN k = Fields
      BY <1>1, <2>0 DEF Asked
    <3>2. Replied(k, ok, <<>>, m)
      BY <1>3, <3>1, ReplyFields
    <3> QED BY <1>1, <2>0, <3>1, <3>2 DEF Replied
  <2>3. DidOK(d) /\ BatchesOK(d) /\ n \in Nat \ {0} /\ Speech(d, k.sent, k.dn) /\ d[n].is = "none"
    BY <1>1, SeqFacts DEF Speech, DidOK, Asked
  <2>4. InBatch(d, n + 1)
    BY <1>1 DEF Mood
  <2>5. ~Opens(d, n) /\ ~Ends(d, n)
    BY <2>3 DEF Opens, Ends
  <2>6. InBatch(d, n)
    BY <2>3, <2>4, <2>5, BatchGoesOn
  <2>7. Settles(d, e, "ok") /\ Ends(e, n)
    BY <1>1, <2>6, MarkSettles DEF MarkOf
  <2>8. NoStatus(k.wbuf \o <<>>) /\ k.wbuf \o <<>> = k.wbuf
    BY <1>1 DEF Mood, NoStatus
  <2>9. /\ Answer(a, n)
        /\ \A F : Lists(k.wbuf, 0, Len(k.wbuf), F) => Lists(a, 1, a[1].n, F)
    BY <2>3, <2>8, AnswerBuilt
  <2>10. ASSUME NEW b \in 1 .. n - 1, OpenFrom(d, b, n) PROVE Lists(a, 1, a[1].n, Failures(d, b, n))
    <3>1. OpenFrom(d, b, n + 1)
      BY <2>3, <2>5, <2>10, BatchGoesOn
    <3>2. b \in 1 .. Len(d)
      BY <2>3
    <3>3. Lists(k.wbuf, 0, Len(k.wbuf), Failures(d, b, n + 1))
      BY <1>1, <3>1, <3>2 DEF Mood
    <3>4. Failures(d, b, n + 1) = Failures(d, b, n)
      BY <2>3, NoFailureYet
    <3> HIDE DEF a
    <3> QED BY <2>9, <3>3, <3>4
  <2> HIDE DEF a, e
  <2>11. Speech(e, k.sent \o a, k.dn \o a)
    BY <2>3, <2>7, <2>9, <2>10, SpeechAnswered
  <2>12. Mood(e, FALSE, m.cmds, <<>>)
    BY <2>3, <2>7, MoodEnded
  <2> QED BY <2>1, <2>11, <2>12 DEF Talk
<1> QED BY <1>2, <1>3

-----------------------------------------------------------------------------
(* What travels to the daemon.                                               *)

(* The pieces T on their way and in the buffer carry the lines from the one  *)
(* after the n-th to the asked-th, in their order; f numbers them.           *)
Numbered(T, f, n, asked, L) ==
    /\ \A i \in 1 .. Len(T) : f[i] \in Nat \ {0} /\ T[i].line = L[f[i]]
    /\ \A i \in 1 .. Len(T) - 1 : f[i + 1] = IF T[i].last THEN f[i] + 1 ELSE f[i]
    /\ Len(T) # 0 => f[1] = n + 1 /\ f[Len(T)] = asked /\ (T[Len(T)].last \/ L[asked].cmd = "endless")
    /\ Len(T) = 0 => asked = n
Stream(T, n, asked, L) ==
    IsSeq(T) /\ n \in Nat /\ asked \in Nat /\ asked <= Len(L) /\ \E f : Numbered(T, f, n, asked, L)

(* The pieces of a line (no line is empty, an endless one has no end).       *)
LEMMA PiecesFacts ==
    ASSUME NEW line, line.size \in Nat \ {0}
    PROVE  /\ IsSeq(Pieces(line)) /\ Len(Pieces(line)) = line.size
           /\ \A i \in 1 .. line.size : /\ Pieces(line)[i].line = line
                                        /\ Pieces(line)[i].last <=> line.cmd # "endless" /\ i = line.size
<1> DEFINE piece(i) == [line |-> line, last |-> line.cmd # "endless" /\ i = line.size]
           z == line.size
           P == [i \in 1 .. z |-> piece(i)]
<1>1. P \in Seq({piece(i) : i \in 1 .. z}) /\ Len(P) = z
  <2> DEFINE S == {piece(i) : i \in 1 .. z}
  <2> HIDE DEF piece
  <2>1. P \in [1 .. z -> S] /\ z \in Nat
    OBVIOUS
  <2> HIDE DEF P, z, S
  <2>2. P \in Seq(S) /\ Len(P) = z
    BY <2>1
  <2> QED BY <2>2 DEF S
<1>2. \A i \in 1 .. z : P[i] = piece(i)
  OBVIOUS
<1>3. P = Pieces(line)
  BY DEF Pieces
<1>4. \A i \in 1 .. z : piece(i).line = line /\ (piece(i).last <=> line.cmd # "endless" /\ i = line.size)
  OBVIOUS
<1> HIDE DEF P, piece
<1>5. IsSeq(P)
  BY <1>1 DEF IsSeq
<1> QED BY <1>1, <1>2, <1>3, <1>4, <1>5

(* A client sends its next line, which it does when the one before has an    *)
(* end.                                                                      *)
LEMMA StreamSent ==
    ASSUME NEW T, NEW n, NEW asked, NEW L, Stream(T, n, asked, L), asked + 1 <= Len(L),
           L[asked + 1].size \in Nat \ {0}, asked > 0 => L[asked].cmd # "endless"
    PROVE  Stream(T \o Pieces(L[asked + 1]), n, asked + 1, L)
<1> DEFINE a == asked + 1
           line == L[a]
           P == Pieces(line)
           z == line.size
           m == Len(T)
           U == T \o P
<1>1. IsSeq(T) /\ n \in Nat /\ asked \in Nat /\ m \in Nat /\ z \in Nat \ {0} /\ a \in Nat \ {0}
  BY SeqFacts DEF Stream
<1>2. /\ IsSeq(P) /\ Len(P) = z
      /\ \A i \in 1 .. z : P[i].line = line /\ (P[i].last <=> line.cmd # "endless" /\ i = z)
  BY <1>1, PiecesFacts
<1>3. PICK f : Numbered(T, f, n, asked, L)
  BY DEF Stream
<1> HIDE DEF P, z, m, line
<1>4. /\ IsSeq(U) /\ Len(U) = m + z /\ \A i \in 1 .. m : U[i] = T[i]
      /\ \A i \in 1 .. z : U[m + i] = P[i]
  <2>1. IsSeq(T) /\ IsSeq(P)
    BY <1>1, <1>2
  <2>2. IsSeq(U) /\ Len(U) = Len(T) + Len(P)
    BY <2>1, ConcatFacts
  <2>3. \A i \in 1 .. Len(T) : U[i] = T[i]
    BY <2>1, ConcatFacts
  <2>4. \A i \in 1 .. Len(P) : U[Len(T) + i] = P[i]
    BY <2>1, ConcatFacts
  <2> HIDE DEF U
  <2> QED BY <1>2, <2>2, <2>3, <2>4 DEF m
<1> HIDE DEF U
<1> DEFINE g == [i \in 1 .. m + z |-> IF i <= m THEN f[i] ELSE a]
<1>5. (\A i \in 1 .. m : g[i] = f[i]) /\ \A i \in m + 1 .. m + z : g[i] = a
  BY <1>1
<1> HIDE DEF g
<1>6. \A i \in m + 1 .. m + z : i - m \in 1 .. z /\ m + (i - m) = i
  BY <1>1
<1>7. ASSUME NEW i \in m + 1 .. m + z
      PROVE  U[i].line = line /\ (U[i].last <=> line.cmd # "endless" /\ i = m + z)
  <2>1. U[i] = P[i - m] /\ (i - m = z <=> i = m + z)
    BY <1>1, <1>4, <1>6
  <2> QED BY <1>2, <1>6, <2>1
<1>8. \A i \in 1 .. m + z : i \in 1 .. m \/ i \in m + 1 .. m + z
  BY <1>1
<1>9. ASSUME NEW i \in 1 .. m + z PROVE g[i] \in Nat \ {0} /\ U[i].line = L[g[i]]
  <2>1. CASE i \in 1 .. m
    BY <1>3, <1>4, <1>5, <2>1 DEF Numbered, m
  <2>2. CASE i \in m + 1 .. m + z
    BY <1>1, <1>5, <1>7, <2>2 DEF line
  <2> QED BY <1>8, <2>1, <2>2
<1>10. m # 0 => f[1] = n + 1 /\ f[m] = asked /\ (T[m].last \/ L[asked].cmd = "endless") /\ f[m] \in Nat \ {0}
  <2>1. m # 0 => m \in 1 .. m
    BY <1>1
  <2> QED BY <1>3, <2>1 DEF Numbered, m
<1>11. m # 0 => T[m].last
  BY <1>1, <1>10
<1>12. ASSUME NEW i \in 1 .. m + z - 1 PROVE g[i + 1] = IF U[i].last THEN g[i] + 1 ELSE g[i]
  <2>1. CASE i \in 1 .. m - 1
    <3>1. i \in 1 .. m /\ i + 1 \in 1 .. m
      BY <1>1, <2>1
    <3> QED BY <1>3, <1>4, <1>5, <2>1, <3>1 DEF Numbered, m
  <2>2. CASE i = m
    <3>1. i \in 1 .. m /\ i + 1 \in m + 1 .. m + z /\ m # 0
      BY <1>1, <2>2
    <3> QED BY <1>4, <1>5, <1>10, <1>11, <2>2, <3>1
  <2>3. CASE i \in m + 1 .. m + z - 1
    <3>1. i \in m + 1 .. m + z /\ i + 1 \in m + 1 .. m + z /\ i # m + z
      BY <1>1, <2>3
    <3> QED BY <1>5, <1>7, <3>1
  <2>4. i \in 1 .. m - 1 \/ i = m \/ i \in m + 1 .. m + z - 1
    BY <1>1
  <2> QED BY <2>1, <2>2, <2>3, <2>4
<1>13. g[1] = n + 1
  <2>1. CASE m = 0
    <3>1. 1 \in m + 1 .. m + z /\ asked = n
      BY <1>1, <1>3, <2>1 DEF Numbered, m
    <3> QED BY <1>5, <3>1
  <2>2. CASE m # 0
    <3>1. 1 \in 1 .. m
      BY <1>1, <2>2
    <3> QED BY <1>5, <1>10, <2>2, <3>1
  <2> QED BY <2>1, <2>2
<1>14. g[m + z] = a /\ (U[m + z].last \/ L[a].cmd = "endless")
  <2>1. m + z \in m + 1 .. m + z
    BY <1>1
  <2> QED BY <1>5, <1>7, <2>1 DEF line
<1>15. Numbered(U, g, n, a, L)
  BY <1>1, <1>4, <1>9, <1>12, <1>13, <1>14 DEF Numbered
<1>16. Stream(U, n, a, L)
  BY <1>1, <1>4, <1>15 DEF Stream
<1> QED BY <1>16 DEF U, P, line

(* The daemon takes a line, with all of its pieces and no other.             *)
LEMMA StreamTaken ==
    ASSUME NEW T, NEW n, NEW asked, NEW L, Stream(T, n, asked, L),
           NEW x \in 1 .. Len(T), T[x].last, \A j \in 1 .. x - 1 : ~T[j].last
    PROVE  /\ T[1].line = L[n + 1]
           /\ Stream(SubSeq(T, x + 1, Len(T)), n + 1, asked, L)
<1> DEFINE m == Len(T)
           U == SubSeq(T, x + 1, m)
<1>1. IsSeq(T) /\ n \in Nat /\ asked \in Nat /\ m \in Nat /\ x \in 1 .. m /\ m # 0
  BY SeqFacts DEF Stream
<1>2. PICK f : Numbered(T, f, n, asked, L)
  BY DEF Stream
<1>3. /\ x + 1 \in Nat \ {0} /\ x + 1 <= m + 1 /\ m - (x + 1) + 1 = m - x
      /\ IsSeq(U) /\ Len(U) = m - x /\ \A i \in 1 .. m - x : U[i] = T[x + 1 + i - 1]
  <2>1. x + 1 \in Nat \ {0} /\ x + 1 <= m + 1 /\ m - (x + 1) + 1 = m - x
    BY <1>1
  <2> HIDE DEF m
  <2>2. IsSeq(T) /\ x + 1 \in Nat \ {0} /\ m \in Nat /\ x + 1 <= m + 1 /\ m <= Len(T)
    BY <1>1, <2>1 DEF m
  <2>3. IsSeq(U) /\ Len(U) = m - (x + 1) + 1
    BY <2>2, SubFacts
  <2>4. \A i \in 1 .. m - (x + 1) + 1 : U[i] = T[x + 1 + i - 1]
    BY <2>2, SubFacts
  <2> HIDE DEF U
  <2> QED BY <2>1, <2>3, <2>4
<1>4. \A i \in 1 .. m - x : x + 1 + i - 1 = x + i /\ x + i \in 1 .. m
  BY <1>1
<1> HIDE DEF U, m
<1>5. \A i \in 1 .. m - x : U[i] = T[x + i]
  BY <1>3, <1>4
<1>6. f[1] = n + 1 /\ f[m] = asked /\ (T[m].last \/ L[asked].cmd = "endless")
  BY <1>1, <1>2 DEF Numbered, m
<1>7. T[1].line = L[n + 1]
  <2>1. 1 \in 1 .. m
    BY <1>1
  <2> QED BY <1>2, <1>6, <2>1 DEF Numbered, m
<1>8. f[x] = n + 1
  <2> DEFINE Bad == {i \in 1 .. x : f[i] # n + 1}
  <2> SUFFICES ASSUME Bad # {} PROVE FALSE
    <3>1. x \in 1 .. x
      BY <1>1
    <3> QED BY <3>1
  <2>1. PICK i \in Bad : \A j \in Bad : i <= j
    <3>1. Bad \in SUBSET Nat
      BY <1>1
    <3> HIDE DEF Bad
    <3> QED BY <3>1, Least
  <2>2. i \in 1 .. x /\ i # 1 /\ f[i] # n + 1
    BY <1>6
  <2>3. i - 1 \in 1 .. x /\ i - 1 \in 1 .. x - 1 /\ i - 1 \in 1 .. m - 1 /\ (i - 1) + 1 = i /\ ~(i <= i - 1)
    BY <1>1, <2>2
  <2>4. f[i] = f[i - 1]
    BY <1>2, <2>3 DEF Numbered, m
  <2>5. i - 1 \in Bad
    BY <2>2, <2>3, <2>4
  <2> HIDE DEF Bad
  <2> QED BY <2>1, <2>3, <2>5
<1> DEFINE g == [i \in 1 .. m - x |-> f[x + i]]
<1>9. ASSUME NEW i \in 1 .. m - x PROVE g[i] \in Nat \ {0} /\ U[i].line = L[g[i]]
  <2>1. g[i] = f[x + i] /\ x + i \in 1 .. m
    BY <1>4
  <2> HIDE DEF g
  <2> QED BY <1>2, <1>5, <2>1 DEF Numbered, m
<1>10. ASSUME NEW i \in 1 .. (m - x) - 1 PROVE g[i + 1] = IF U[i].last THEN g[i] + 1 ELSE g[i]
  <2>1. i \in 1 .. m - x /\ i + 1 \in 1 .. m - x /\ x + i \in 1 .. m - 1 /\ x + (i + 1) = (x + i) + 1
    BY <1>1
  <2>2. g[i] = f[x + i] /\ g[i + 1] = f[(x + i) + 1]
    BY <2>1
  <2> HIDE DEF g
  <2> QED BY <1>2, <1>5, <2>1, <2>2 DEF Numbered, m
<1>11. m - x # 0 => g[1] = n + 1 + 1 /\ g[m - x] = asked /\ (U[m - x].last \/ L[asked].cmd = "endless")
  <2> SUFFICES ASSUME m - x # 0
               PROVE  g[1] = n + 1 + 1 /\ g[m - x] = asked /\ (U[m - x].last \/ L[asked].cmd = "endless")
    OBVIOUS
  <2>1. 1 \in 1 .. m - x /\ m - x \in 1 .. m - x /\ x + (m - x) = m /\ x \in 1 .. m - 1
    BY <1>1
  <2>2. g[1] = f[x + 1] /\ g[m - x] = f[m]
    BY <2>1
  <2> HIDE DEF g
  <2>3. f[x + 1] = f[x] + 1
    BY <1>2, <2>1 DEF Numbered, m
  <2> QED BY <1>5, <1>6, <1>8, <2>1, <2>2, <2>3
<1>12. m - x = 0 => asked = n + 1
  <2>1. m - x = 0 => x = m
    BY <1>1
  <2> QED BY <1>6, <1>8, <2>1
<1> HIDE DEF g
<1>13. Numbered(U, g, n + 1, asked, L)
  BY <1>3, <1>9, <1>10, <1>11, <1>12 DEF Numbered
<1>14. asked <= Len(L)
  BY DEF Stream
<1>15. Stream(U, n + 1, asked, L)
  BY <1>1, <1>3, <1>13, <1>14 DEF Stream
<1> QED BY <1>7, <1>15 DEF U, m

(* The lines in the pieces are lines: their values are sequences.            *)
Piecewise(T) == IsSeq(T) /\ \A i \in 1 .. Len(T) : IsSeq(T[i].line.vals)
(* Pieces after other pieces.                                                *)
LEMMA PiecewiseConcat ==
    ASSUME NEW s, NEW t, Piecewise(s), Piecewise(t) PROVE Piecewise(s \o t)
<1> DEFINE m == Len(s)
           l == Len(t)
           u == s \o t
<1>1. IsSeq(s) /\ IsSeq(t) /\ m \in Nat /\ l \in Nat
  BY SeqFacts DEF Piecewise
<1>2. IsSeq(u) /\ Len(u) = m + l
  BY <1>1, ConcatFacts
<1>3. (\A i \in 1 .. m : u[i] = s[i]) /\ \A i \in 1 .. l : u[m + i] = t[i]
  BY <1>1, ConcatFacts
<1> HIDE DEF m, l, u
<1>4. ASSUME NEW i \in 1 .. m + l PROVE IsSeq(u[i].line.vals)
  <2>1. CASE i \in 1 .. m
    BY <1>3, <2>1 DEF Piecewise, m
  <2>2. CASE i \notin 1 .. m
    <3>1. i - m \in 1 .. l /\ m + (i - m) = i
      BY <1>1, <2>2
    <3>2. u[i] = t[i - m]
      BY <1>3, <3>1
    <3> QED BY <3>1, <3>2 DEF Piecewise, l
  <2> QED BY <2>1, <2>2
<1>5. Piecewise(u)
  BY <1>2, <1>4 DEF Piecewise
<1> QED BY <1>5 DEF u

(* A part of some pieces.                                                    *)
LEMMA PiecewiseSub ==
    ASSUME NEW s, Piecewise(s), NEW m \in Nat \ {0}, NEW n \in Nat, m <= n + 1, n <= Len(s)
    PROVE  Piecewise(SubSeq(s, m, n)) /\ Len(SubSeq(s, m, n)) = n - m + 1
<1> DEFINE u == SubSeq(s, m, n)
<1>1. IsSeq(s)
  BY DEF Piecewise
<1>2. Len(s) \in Nat
  BY <1>1, SeqFacts
<1>3. IsSeq(u) /\ Len(u) = n - m + 1
  BY <1>1, SubFacts
<1>4. \A i \in 1 .. n - m + 1 : u[i] = s[m + i - 1]
  BY <1>1, SubFacts
<1> HIDE DEF u
<1>5. \A i \in 1 .. n - m + 1 : m + i - 1 \in 1 .. Len(s)
  BY <1>2
<1>6. Piecewise(u)
  BY <1>3, <1>4, <1>5 DEF Piecewise
<1> QED BY <1>3, <1>6 DEF u

(* What is left of two sequences after the front of the first is gone, and   *)
(* the second moved to the first in part.                                    *)
LEMMA RestConcat ==
    ASSUME NEW s, IsSeq(s), NEW t, IsSeq(t), NEW x \in 0 .. Len(s)
    PROVE  SubSeq(s, x + 1, Len(s)) \o t = SubSeq(s \o t, x + 1, Len(s \o t))
<1> DEFINE m == Len(s)
           l == Len(t)
           u == s \o t
           a == SubSeq(s, x + 1, m)
           b == a \o t
           c == SubSeq(u, x + 1, m + l)
<1>1. m \in Nat /\ l \in Nat
  BY SeqFacts
<1>2. IsSeq(u) /\ Len(u) = m + l
  BY ConcatFacts
<1>3. (\A i \in 1 .. m : u[i] = s[i]) /\ \A i \in 1 .. l : u[m + i] = t[i]
  BY ConcatFacts
<1>4. /\ x + 1 \in Nat \ {0} /\ x + 1 <= m + 1 /\ m - (x + 1) + 1 = m - x /\ m - x \in Nat
      /\ x + 1 <= (m + l) + 1 /\ (m + l) - (x + 1) + 1 = (m - x) + l /\ m + l \in Nat
  BY <1>1
<1> HIDE DEF m, l, u
<1>5. IsSeq(a) /\ Len(a) = m - x /\ \A i \in 1 .. m - x : a[i] = s[x + 1 + i - 1]
  <2>1. m <= Len(s)
    BY <1>1 DEF m
  <2> QED BY <1>1, <1>4, <2>1, SubFacts
<1>6. IsSeq(c) /\ Len(c) = (m - x) + l /\ \A i \in 1 .. (m - x) + l : c[i] = u[x + 1 + i - 1]
  <2>1. m + l <= Len(u)
    BY <1>1, <1>2
  <2> QED BY <1>2, <1>4, <2>1, SubFacts
<1> HIDE DEF a, c
<1>7. IsSeq(b) /\ Len(b) = (m - x) + l /\ \A i \in 1 .. m - x : b[i] = a[i]
  BY <1>5, ConcatFacts DEF l
<1>8. \A i \in 1 .. l : b[(m - x) + i] = t[i]
  BY <1>5, ConcatFacts DEF l
<1> HIDE DEF b
<1>9. ASSUME NEW i \in 1 .. (m - x) + l PROVE b[i] = c[i]
  <2>0. x + 1 + i - 1 = x + i /\ x \in Nat
    BY <1>1
  <2>1. CASE i \in 1 .. m - x
    <3>1. x + i \in 1 .. m
      BY <1>1, <1>4, <2>0, <2>1
    <3>2. b[i] = s[x + i]
      BY <1>5, <1>7, <2>0, <2>1
    <3>3. c[i] = s[x + i]
      BY <1>3, <1>6, <2>0, <3>1
    <3> QED BY <3>2, <3>3
  <2>2. CASE i \notin 1 .. m - x
    <3>1. i - (m - x) \in 1 .. l /\ (m - x) + (i - (m - x)) = i /\ m + (i - (m - x)) = x + i
      BY <1>1, <1>4, <2>0, <2>2
    <3>2. b[i] = t[i - (m - x)]
      BY <1>8, <3>1
    <3>3. c[i] = t[i - (m - x)]
      BY <1>3, <1>6, <2>0, <3>1
    <3> QED BY <3>2, <3>3
  <2> QED BY <2>1, <2>2
<1>10. b = c
  BY <1>6, <1>7, <1>9, SameElements
<1> QED BY <1>2, <1>10 DEF b, a, c, m, u

(* What moves from the socket to the buffer keeps its place (read(2)).       *)
LEMMA MoveConcat ==
    ASSUME NEW s, IsSeq(s), NEW t, IsSeq(t), NEW n \in 1 .. Len(t)
    PROVE  (s \o SubSeq(t, 1, n)) \o SubSeq(t, n + 1, Len(t)) = s \o t
<1> DEFINE m == Len(s)
           l == Len(t)
           a == SubSeq(t, 1, n)
           b == SubSeq(t, n + 1, l)
           sa == s \o a
           u == sa \o b
           w == s \o t
<1>1. m \in Nat /\ l \in Nat
  BY SeqFacts
<1>2. IsSeq(a) /\ Len(a) = n /\ \A i \in 1 .. n : a[i] = t[i]
  <2>1. n - 1 + 1 = n /\ \A i \in 1 .. n : 1 + i - 1 = i
    BY <1>1
  <2>2. n \in Nat /\ n <= Len(t) /\ 1 <= n + 1
    BY <1>1
  <2>3. IsSeq(a) /\ Len(a) = n - 1 + 1 /\ \A i \in 1 .. n - 1 + 1 : a[i] = t[1 + i - 1]
    BY <2>2, SubFacts
  <2> HIDE DEF a
  <2> QED BY <2>1, <2>3
<1>3. IsSeq(b) /\ Len(b) = l - n /\ \A i \in 1 .. l - n : b[i] = t[n + i]
  <2>1. l - (n + 1) + 1 = l - n /\ \A i \in 1 .. l - n : (n + 1) + i - 1 = n + i
    BY <1>1
  <2>2. n + 1 \in Nat \ {0} /\ n + 1 <= l + 1 /\ l <= Len(t)
    BY <1>1
  <2> HIDE DEF l
  <2>3. IsSeq(b) /\ Len(b) = l - (n + 1) + 1 /\ \A i \in 1 .. l - (n + 1) + 1 : b[i] = t[(n + 1) + i - 1]
    BY <1>1, <2>2, SubFacts
  <2> HIDE DEF b
  <2> QED BY <2>1, <2>3
<1> HIDE DEF a, b
<1>4. IsSeq(sa) /\ Len(sa) = m + n
  BY <1>2, ConcatFacts
<1>5. (\A i \in 1 .. m : sa[i] = s[i]) /\ \A i \in 1 .. n : sa[m + i] = a[i]
  BY <1>2, ConcatFacts
<1> HIDE DEF sa
<1>6. IsSeq(u) /\ Len(u) = (m + n) + (l - n)
  <2>1. IsSeq(sa) /\ IsSeq(b)
    BY <1>3, <1>4
  <2>2. IsSeq(u) /\ Len(u) = Len(sa) + Len(b)
    <3> HIDE DEF m, l, w
    <3> QED BY <2>1, ConcatFacts
  <2> HIDE DEF u, m, l, w
  <2> QED BY <1>3, <1>4, <2>2
<1>7. (\A i \in 1 .. m + n : u[i] = sa[i]) /\ \A i \in 1 .. l - n : u[(m + n) + i] = b[i]
  <2>1. /\ \A i \in 1 .. Len(sa) : u[i] = sa[i]
        /\ \A i \in 1 .. Len(b) : u[Len(sa) + i] = b[i]
    <3>1. IsSeq(sa) /\ IsSeq(b)
      BY <1>3, <1>4
    <3> HIDE DEF m, l, w
    <3> QED BY <3>1, ConcatFacts
  <2> HIDE DEF u, m, l, w
  <2> QED BY <1>3, <1>4, <2>1
<1>8. IsSeq(w) /\ Len(w) = m + l
  BY ConcatFacts
<1>9. (\A i \in 1 .. m : w[i] = s[i]) /\ \A i \in 1 .. l : w[m + i] = t[i]
  BY ConcatFacts
<1> HIDE DEF u, w, m, l
<1>10. n \in 1 .. l
  BY DEF l
<1>11. ASSUME NEW i \in 1 .. m + l PROVE u[i] = w[i]
  <2>1. CASE i \in 1 .. m
    <3>1. i \in 1 .. m + n
      BY <1>1, <1>10, <2>1
    <3> QED BY <1>5, <1>7, <1>9, <2>1, <3>1
  <2>2. CASE i \in m + 1 .. m + n
    <3>1. i - m \in 1 .. n /\ i - m \in 1 .. l /\ m + (i - m) = i /\ i \in 1 .. m + n
      BY <1>1, <1>10, <2>2
    <3>2. u[i] = a[i - m]
      BY <1>5, <1>7, <3>1
    <3>3. w[i] = t[i - m]
      BY <1>9, <3>1
    <3> QED BY <1>2, <3>1, <3>2, <3>3
  <2>3. CASE i \in m + n + 1 .. m + l
    <3>1. /\ i - (m + n) \in 1 .. l - n /\ (m + n) + (i - (m + n)) = i
          /\ i - m \in 1 .. l /\ m + (i - m) = i /\ n + (i - (m + n)) = i - m
      BY <1>1, <1>10, <2>3
    <3>2. u[i] = b[i - (m + n)]
      BY <1>7, <3>1
    <3>3. b[i - (m + n)] = t[i - m]
      BY <1>3, <3>1
    <3>4. w[i] = t[i - m]
      BY <1>9, <3>1
    <3> QED BY <3>2, <3>3, <3>4
  <2>4. i \in 1 .. m \/ i \in m + 1 .. m + n \/ i \in m + n + 1 .. m + l
    BY <1>1, <1>10
  <2> QED BY <2>1, <2>2, <2>3, <2>4
<1>12. Len(u) = Len(w) /\ Len(u) = m + l
  BY <1>1, <1>6, <1>8, <1>10
<1>13. u = w
  BY <1>6, <1>8, <1>11, <1>12, SameElements
<1> QED BY <1>13 DEF u, w, sa, a, b, l

-----------------------------------------------------------------------------
(* A connection: both directions together.                                   *)
Flow(k) ==
    /\ k.st \in {"new", "backlog", "open", "closed"}
    /\ k.st # "new" => k.proc \in Procs
    /\ Piecewise(k.rbuf) /\ Piecewise(k.up) /\ Len(k.rbuf) <= RbufSize
Sound(k) == DOMAIN k = Fields /\ Talk(k) /\ Flow(k)

(* The connection of a client that pipelines the lines L.                    *)
SaidInOrder(did, L) == \A i \in 1 .. Len(did) : did[i].line = L[i]
RawFlow(k, L) == Stream(k.rbuf \o k.up, Len(k.did), k.asked, L) /\ SaidInOrder(k.did, L)

(* The whole line at the front of the buffer.                                *)
LEMMA LineEndFacts ==
    ASSUME NEW k, IsSeq(k.rbuf), HasLine(k)
    PROVE  /\ LineEnd(k) \in 1 .. Len(k.rbuf) /\ k.rbuf[LineEnd(k)].last
           /\ \A j \in 1 .. LineEnd(k) - 1 : ~k.rbuf[j].last
<1>1. Len(k.rbuf) \in Nat /\ DOMAIN k.rbuf = 1 .. Len(k.rbuf)
  BY SeqFacts
<1> DEFINE All == {i \in 1 .. Len(k.rbuf) : k.rbuf[i].last}
<1>2. PICK x \in All : \A y \in All : x <= y
  <2>1. All \in SUBSET Nat /\ All # {}
    BY <1>1 DEF HasLine
  <2> HIDE DEF All
  <2> QED BY <2>1, Least
<1>3. x \in 1 .. Len(k.rbuf) /\ k.rbuf[x].last
  OBVIOUS
<1>4. \A j \in 1 .. x - 1 : ~k.rbuf[j].last
  <2> SUFFICES ASSUME NEW j \in 1 .. x - 1, k.rbuf[j].last PROVE FALSE
    OBVIOUS
  <2>1. j \in 1 .. Len(k.rbuf) /\ ~(x <= j)
    BY <1>1, <1>3
  <2>2. j \in All
    BY <2>1
  <2> HIDE DEF All
  <2> QED BY <1>2, <2>1, <2>2
<1>5. x \in DOMAIN k.rbuf
  BY <1>1, <1>3
<1> QED BY <1>1, <1>3, <1>4, <1>5 DEF LineEnd

(* The daemon takes the line out of the buffer, and leaves what came after   *)
(* it there (next_cmd).                                                      *)
LEMMA FlowTaken ==
    ASSUME NEW k, Sound(k), k.st = "open", HasLine(k), NEW m, m = TakeLine(k)
    PROVE  Flow(m) /\ IsSeq(TheLine(k).vals) /\ \A L : RawFlow(k, L) => RawFlow(m, L)
<1> DEFINE x == LineEnd(k)
           l == Len(k.rbuf)
           r == SubSeq(k.rbuf, x + 1, l)
           d == k.did
           e == Append(d, [line |-> TheLine(k), is |-> "none"])
<1>1. /\ m.rbuf = r /\ m.up = k.up /\ m.asked = k.asked /\ m.did = e /\ m.st = k.st /\ m.proc = k.proc
  BY DEF TakeLine, Took, RestOfBuffer, Fields, Sound
<1>2. IsSeq(k.rbuf) /\ IsSeq(k.up) /\ Piecewise(k.rbuf) /\ Piecewise(k.up) /\ l <= RbufSize /\ l \in Nat
  BY SeqFacts DEF Sound, Flow, Piecewise
<1>3. x \in 1 .. l /\ k.rbuf[x].last /\ \A j \in 1 .. x - 1 : ~k.rbuf[j].last
  BY <1>2, LineEndFacts
<1> HIDE DEF x
<1>4. Piecewise(r) /\ Len(r) = l - x
  <2>1. x + 1 \in Nat \ {0} /\ x + 1 <= l + 1 /\ l - (x + 1) + 1 = l - x /\ l <= Len(k.rbuf)
    BY <1>2, <1>3
  <2> HIDE DEF l
  <2>2. Piecewise(r) /\ Len(r) = l - (x + 1) + 1
    BY <1>2, <2>1, PiecewiseSub
  <2> QED BY <2>1, <2>2
<1>5. Flow(m)
  <2>1. Len(r) <= RbufSize
    BY <1>2, <1>3, <1>4, RrdProtocolAssumption
  <2> QED BY <1>1, <1>2, <1>4, <2>1 DEF Flow, Sound
<1>6. IsSeq(TheLine(k).vals)
  <2>1. 1 \in 1 .. l
    BY <1>2, <1>3
  <2> QED BY <1>2, <2>1 DEF Piecewise, TheLine
<1>7. /\ IsSeq(e) /\ Len(e) = Len(d) + 1 /\ Len(d) \in Nat /\ e[Len(d) + 1] = [line |-> TheLine(k), is |-> "none"]
      /\ \A i \in 1 .. Len(d) : e[i] = d[i]
  BY AppendFacts, SeqFacts DEF Sound, Talk, Speech, DidOK
<1>8. ASSUME NEW L, RawFlow(k, L) PROVE RawFlow(m, L)
  <2> DEFINE T == k.rbuf \o k.up
  <2>1. Stream(T, Len(d), k.asked, L)
    BY <1>8 DEF RawFlow
  <2>2. /\ Len(T) = l + Len(k.up) /\ Len(k.up) \in Nat /\ \A i \in 1 .. l : T[i] = k.rbuf[i]
    BY <1>2, ConcatFacts, SeqFacts
  <2>3. r \o k.up = SubSeq(T, x + 1, Len(T))
    <3>1. x \in 0 .. Len(k.rbuf)
      BY <1>2, <1>3
    <3> QED BY <1>2, <3>1, RestConcat
  <2> HIDE DEF T, l, r, e, d
  <2>4. x \in 1 .. Len(T) /\ T[x].last /\ (\A j \in 1 .. x - 1 : ~T[j].last) /\ T[1] = k.rbuf[1]
    <3>1. x \in 1 .. Len(T) /\ 1 \in 1 .. l /\ \A j \in 1 .. x - 1 : j \in 1 .. l
      BY <1>2, <1>3, <2>2
    <3> QED BY <1>3, <2>2, <3>1
  <2>5. T[1].line = L[Len(d) + 1] /\ Stream(SubSeq(T, x + 1, Len(T)), Len(d) + 1, k.asked, L)
    BY <2>1, <2>4, StreamTaken
  <2>6. SaidInOrder(e, L)
    <3>1. ASSUME NEW i \in 1 .. Len(d) + 1 PROVE e[i].line = L[i]
      <4>1. CASE i \in 1 .. Len(d)
        BY <1>7, <1>8, <4>1 DEF RawFlow, SaidInOrder, d
      <4>2. CASE i = Len(d) + 1
        BY <1>7, <2>4, <2>5, <4>2 DEF TheLine
      <4> QED BY <1>7, <4>1, <4>2
    <3> QED BY <1>7, <3>1 DEF SaidInOrder
  <2> QED BY <1>1, <1>7, <2>3, <2>5, <2>6 DEF RawFlow
<1> QED BY <1>5, <1>6, <1>8

(* Some of what is on its way comes into the buffer (read(2)).               *)
LEMMA FlowRead ==
    ASSUME NEW k, Sound(k), NEW n \in 1 .. Len(k.up), n <= Room(k),
           NEW m, m = [k EXCEPT !.rbuf = @ \o SubSeq(k.up, 1, n), !.up = SubSeq(k.up, n + 1, Len(k.up))]
    PROVE  Flow(m) /\ \A L : RawFlow(k, L) => RawFlow(m, L)
<1> DEFINE l == Len(k.up)
           a == SubSeq(k.up, 1, n)
           b == SubSeq(k.up, n + 1, l)
<1>1. /\ m.rbuf = k.rbuf \o a /\ m.up = b /\ m.asked = k.asked /\ m.did = k.did
      /\ m.st = k.st /\ m.proc = k.proc
  BY DEF Fields, Sound
<1>2. /\ IsSeq(k.rbuf) /\ IsSeq(k.up) /\ Piecewise(k.rbuf) /\ Piecewise(k.up) /\ l \in Nat
      /\ Len(k.rbuf) \in Nat
  BY SeqFacts DEF Sound, Flow, Piecewise
<1>3. Piecewise(a) /\ Len(a) = n
  <2>1. n \in Nat /\ n - 1 + 1 = n /\ 1 <= n + 1 /\ n <= Len(k.up)
    BY <1>2
  <2>2. Piecewise(a)
    <3>1. PICK z \in Nat \ {0} : z = 1
      OBVIOUS
    <3>2. Piecewise(SubSeq(k.up, z, n))
      BY <1>2, <2>1, <3>1, PiecewiseSub
    <3> QED BY <3>1, <3>2
  <2>3. Len(a) = n - 1 + 1
    BY <1>2, <2>1, SubFacts
  <2> HIDE DEF a
  <2> QED BY <2>1, <2>2, <2>3
<1>4. Piecewise(b)
  <2>1. n + 1 \in Nat \ {0} /\ n + 1 <= l + 1 /\ l <= Len(k.up)
    BY <1>2
  <2> QED BY <1>2, <2>1, PiecewiseSub
<1>5. (k.rbuf \o a) \o b = k.rbuf \o k.up
  BY <1>2, MoveConcat
<1> HIDE DEF a, b
<1>6. Piecewise(k.rbuf \o a) /\ Len(k.rbuf \o a) <= RbufSize
  <2>1. Piecewise(k.rbuf \o a)
    BY <1>2, <1>3, PiecewiseConcat
  <2>2. Len(k.rbuf \o a) = Len(k.rbuf) + Len(a)
    BY <1>2, <1>3, ConcatFacts DEF Piecewise
  <2> QED BY <1>2, <1>3, <2>1, <2>2, RrdProtocolAssumption DEF Room
<1>7. Flow(m)
  BY <1>1, <1>4, <1>6 DEF Flow, Sound
<1>8. ASSUME NEW L, RawFlow(k, L) PROVE RawFlow(m, L)
  BY <1>1, <1>5, <1>8 DEF RawFlow
<1> QED BY <1>7, <1>8

(* Nothing moves in the direction of the daemon, and no line is taken.       *)
SameLines(d, e) == Len(e) = Len(d) /\ \A i \in 1 .. Len(d) : e[i].line = d[i].line
SameFlow(k, m) ==
    /\ m.rbuf = k.rbuf /\ m.up = k.up /\ m.asked = k.asked /\ m.proc = k.proc
    /\ m.st = k.st \/ (m.st \in {"open", "closed"} /\ k.st # "new")
    /\ SameLines(k.did, m.did)
(* Then all lines are still on their way in their order.                     *)
LEMMA FlowStays ==
    ASSUME NEW k, Flow(k), NEW m, SameFlow(k, m)
    PROVE  Flow(m) /\ \A L : RawFlow(k, L) => RawFlow(m, L)
<1>1. Flow(m)
  BY DEF Flow, SameFlow
<1>2. ASSUME NEW L, RawFlow(k, L) PROVE RawFlow(m, L)
  BY <1>2 DEF RawFlow, SaidInOrder, SameFlow, SameLines
<1> QED BY <1>1, <1>2

(* What becomes of a line leaves the line as it is.                          *)
LEMMA MarkedLines ==
    ASSUME NEW d, DidOK(d), NEW v, NEW e, e = [d EXCEPT ![Len(d)].is = v]
    PROVE  SameLines(d, e)
<1> DEFINE n == Len(d)
<1>1. IsSeq(d) /\ n \in Nat /\ DOMAIN d = 1 .. n /\ \A i \in 1 .. n : DOMAIN d[i] = {"line", "is"}
  BY SeqFacts DEF DidOK
<1>2. PICK S : d \in Seq(S)
  BY <1>1 DEF IsSeq
<1> DEFINE last == [d[n] EXCEPT !.is = v]
<1>3. e = [d EXCEPT ![n] = last]
  OBVIOUS
<1>4. n \in 1 .. n => last.line = d[n].line
  BY <1>1
<1> HIDE DEF last
<1>5. e \in Seq(S \union {last}) /\ Len(e) = n
  <2>1. CASE n = 0
    <3>1. e = d
      BY <1>1, <1>2, <1>3, <2>1
    <3>2. d \in Seq(S \union {last})
      BY <1>2
    <3> QED BY <3>1, <3>2
  <2>2. CASE n # 0
    BY <1>1, <1>2, <1>3, <2>2
  <2> QED BY <2>1, <2>2
<1>6. \A i \in 1 .. n : e[i].line = d[i].line
  BY <1>1, <1>3, <1>4
<1> QED BY <1>5, <1>6 DEF SameLines

(* An answer moves nothing in the direction of the daemon.                   *)
LEMMA FlowReplied ==
    ASSUME NEW k, DOMAIN k = Fields, k.st = "open", DidOK(k.did), NEW ok \in BOOLEAN, NEW info,
           NEW m \in send_response(k, ok, info)
    PROVE  SameFlow(k, m) /\ DOMAIN m = Fields
<1>1. CASE m = Closed(k)
  BY <1>1 DEF Closed, Fields, SameFlow, SameLines
<1>2. CASE m # Closed(k)
  <2> DEFINE h == Answered(k, ok, info)
  <2>1. /\ DOMAIN h = Fields /\ h.did = k.did /\ h.rbuf = k.rbuf /\ h.up = k.up /\ h.asked = k.asked
        /\ h.proc = k.proc /\ h.st = k.st
    BY DEF Answered, Fields
  <2> HIDE DEF h
  <2>2. m = [h EXCEPT !.did = [h.did EXCEPT ![Len(h.did)].is = MarkOf(ok)]]
    <3>1. m = Marked(h, ok)
      BY <1>2 DEF h, send_response
    <3> QED BY <3>1 DEF Marked, MarkOf
  <2>3. /\ DOMAIN m = Fields /\ m.did = [k.did EXCEPT ![Len(k.did)].is = MarkOf(ok)]
        /\ m.rbuf = k.rbuf /\ m.up = k.up /\ m.asked = k.asked /\ m.proc = k.proc /\ m.st = k.st
    BY <2>1, <2>2 DEF Fields
  <2>4. SameLines(k.did, m.did)
    BY <2>3, MarkedLines
  <2> QED BY <2>3, <2>4 DEF SameFlow
<1> QED BY <1>1, <1>2

-----------------------------------------------------------------------------
(* What the daemon, its threads and a crash make of a connection.            *)
Goes(k, m) == Sound(m) /\ \A L : RawFlow(k, L) => RawFlow(m, L)

(* Only what neither end says nor hears changes.                             *)
Beside(k, m) ==
    /\ DOMAIN m = Fields
    /\ m.st = k.st /\ m.proc = k.proc /\ m.asked = k.asked /\ m.up = k.up /\ m.rbuf = k.rbuf
    /\ m.dn = k.dn /\ m.batch = k.batch /\ m.cmds = k.cmds /\ m.wbuf = k.wbuf /\ m.wait = k.wait
    /\ m.did = k.did /\ m.sent = k.sent
(* That leaves the conversation as it is.                                    *)
LEMMA BesideGoes == ASSUME NEW k, Sound(k), NEW m, Beside(k, m) PROVE Goes(k, m)
<1>1. Talk(m)
  BY DEF Sound, Talk, Beside
<1>2. Flow(m)
  BY DEF Sound, Flow, Beside
<1>3. ASSUME NEW L, RawFlow(k, L) PROVE RawFlow(m, L)
  BY <1>3 DEF RawFlow, Beside
<1> QED BY <1>1, <1>2, <1>3 DEF Goes, Sound, Beside

(* A connection is accepted, or closed (connection_thread_main).             *)
LEMMA OpensGoes ==
    ASSUME NEW k, Sound(k), k.st = "backlog", NEW m, m = [k EXCEPT !.st = "open"] PROVE Goes(k, m)
<1>1. /\ DOMAIN m = Fields /\ m.st = "open" /\ m.proc = k.proc /\ m.asked = k.asked /\ m.up = k.up
      /\ m.rbuf = k.rbuf /\ m.dn = k.dn /\ m.batch = k.batch /\ m.cmds = k.cmds /\ m.wbuf = k.wbuf
      /\ m.wait = k.wait /\ m.did = k.did /\ m.sent = k.sent
  BY DEF Fields, Sound
<1>2. Talk(m)
  BY <1>1 DEF Sound, Talk
<1>3. SameFlow(k, m)
  BY <1>1 DEF SameFlow, SameLines
<1> QED BY <1>1, <1>2, <1>3, FlowStays DEF Goes, Sound

(* When it is closed, what was said stays said.                              *)
LEMMA ClosedGoes ==
    ASSUME NEW k, DOMAIN k = Fields, Speech(k.did, k.sent, k.dn), k.batch \in BOOLEAN, Flow(k), k.st # "new",
           NEW m, m = Closed(k)
    PROVE  Goes(k, m)
<1>1. Talk(m) /\ DOMAIN m = Fields
  BY TalkClosed DEF Closed, Fields
<1>2. SameFlow(k, m)
  BY DEF SameFlow, SameLines, Closed, Fields
<1> QED BY <1>1, <1>2, FlowStays DEF Goes, Sound

(* Or nothing happens to it.                                                 *)
LEMMA SoundGoes == ASSUME NEW k, Sound(k) PROVE Goes(k, k)
BY DEF Goes

(* One change after the other.                                               *)
LEMMA GoesOn == ASSUME NEW k, NEW m, NEW n, Goes(k, m), Goes(m, n) PROVE Goes(k, n)
BY DEF Goes

(* A crash cuts the connection off, perhaps before its last answer.          *)
LEMMA ResetGoes == ASSUME NEW k, Sound(k) PROVE Goes(k, Reset(k))
<1>1. CASE k.st \in {"backlog", "open"}
  <2>1. Reset(k) = Closed(k) /\ k.st # "new"
    BY <1>1 DEF Reset, Closed
  <2>2. Goes(k, Closed(k))
    BY <2>1, ClosedGoes DEF Sound, Talk
  <2> QED BY <2>1, <2>2
<1>2. CASE k.st \notin {"backlog", "open"}
  BY <1>2, SoundGoes DEF Reset
<1> QED BY <1>1, <1>2

(* With the last answer unsent, the line before it has none.                 *)
LEMMA UnsentGoes == ASSUME NEW k, Sound(k) PROVE Goes(k, Reset(Unsent(k)))
<1> DEFINE says(n) == k.dn[n].of = Len(k.did) /\ k.dn[n].kind = "status"
<1>1. CASE ~(k.st = "open" /\ \E n \in DOMAIN k.dn : says(n))
  <2>1. Unsent(k) = k
    BY <1>1 DEF Unsent
  <2> QED BY <2>1, ResetGoes
<1>2. CASE k.st = "open" /\ \E n \in DOMAIN k.dn : says(n)
  <2> DEFINE x == LastAnswer(k)
             h == Unsent(k)
             e == [k.did EXCEPT ![Len(k.did)].is = "none"]
             t == SubSeq(k.sent, 1, Len(k.sent) - (Len(k.dn) - x + 1))
             w == SubSeq(k.dn, 1, x - 1)
  <2>1. x \in DOMAIN k.dn /\ says(x)
    BY <1>2 DEF LastAnswer
  <2>2. DOMAIN k.dn = 1 .. Len(k.dn)
    BY SeqFacts DEF Sound, Talk, Speech, ReadOK, IsSeq
  <2> HIDE DEF x
  <2>3. /\ DOMAIN h = Fields /\ h.did = e /\ h.sent = t /\ h.dn = w
        /\ h.st = k.st /\ h.proc = k.proc /\ h.asked = k.asked /\ h.up = k.up /\ h.rbuf = k.rbuf
        /\ h.batch = k.batch
    BY <1>2 DEF Unsent, Fields, Sound, x
  <2>4. Speech(e, t, w)
    BY <2>1, <2>2, SpeechUnsent DEF Sound, Talk
  <2> HIDE DEF h, e, t, w
  <2>5. SameFlow(k, h)
    <3>1. SameLines(k.did, e)
      BY MarkedLines DEF e, Sound, Talk, Speech
    <3> QED BY <2>3, <3>1 DEF SameFlow
  <2>6. Flow(h) /\ \A L : RawFlow(k, L) => RawFlow(h, L)
    BY <2>5, FlowStays DEF Sound
  <2>7. Reset(h) = Closed(h) /\ h.st # "new"
    BY <1>2, <2>3 DEF Reset, Closed
  <2>8. Goes(h, Closed(h))
    BY <2>3, <2>4, <2>6, <2>7, ClosedGoes DEF Sound, Talk
  <2>9. Goes(k, Reset(h))
    BY <2>6, <2>7, <2>8 DEF Goes
  <2> QED BY <2>9 DEF h
<1> QED BY <1>1, <1>2

(* A line is taken and answered at once.                                     *)
LEMMA TakenGoes ==
    ASSUME NEW k, Sound(k), k.st = "open", HasLine(k), k.wait = None,
           NEW h, Beside(TakeLine(k), h)
    PROVE  /\ Asked(h, TheLine(k)) /\ Mood(h.did, h.batch, h.cmds, h.wbuf) /\ h.wait = None
           /\ h.batch = k.batch /\ Flow(h) /\ (\A L : RawFlow(k, L) => RawFlow(h, L))
           /\ DidOK(h.did) /\ Sound(h)
<1> DEFINE m == TakeLine(k)
<1>1. /\ Asked(m, TheLine(k)) /\ Mood(m.did, m.batch, m.cmds, m.wbuf)
      /\ m.batch = k.batch /\ m.wait = None
  BY LineTaken DEF Sound
<1>2. Flow(m) /\ \A L : RawFlow(k, L) => RawFlow(m, L)
  BY FlowTaken
<1>3. DOMAIN m = Fields /\ Sound(m)
  BY <1>1, <1>2 DEF Sound, Talk, Asked
<1>4. Goes(m, h)
  BY <1>3, BesideGoes
<1> HIDE DEF m
<1>5. Beside(m, h)
  BY DEF m
<1>6. Asked(h, TheLine(k)) /\ Mood(h.did, h.batch, h.cmds, h.wbuf) /\ h.wait = None /\ h.batch = k.batch
  BY <1>1, <1>5 DEF Asked, Beside
<1>7. DidOK(h.did)
  BY <1>6 DEF Asked, Speech
<1> QED BY <1>2, <1>4, <1>6, <1>7 DEF Goes, Sound

(* The answer to a line that neither opens nor ends a batch.                 *)
LEMMA AnswerGoes ==
    ASSUME NEW k, Sound(k), k.st = "open", HasLine(k), k.wait = None,
           NEW h, Beside(TakeLine(k), h),
           NEW ok \in BOOLEAN, ok => TheLine(k).cmd # "BATCH" /\ TheLine(k).cmd # ".",
           NEW info, NoStatus(info), NEW m \in send_response(h, ok, info)
    PROVE  Goes(k, m)
<1>1. /\ Asked(h, TheLine(k)) /\ Mood(h.did, h.batch, h.cmds, h.wbuf) /\ h.wait = None
      /\ Flow(h) /\ (\A L : RawFlow(k, L) => RawFlow(h, L)) /\ DidOK(h.did)
  BY TakenGoes
<1>2. Talk(m)
  BY <1>1, TalkReplied
<1>3. SameFlow(h, m) /\ DOMAIN m = Fields
  BY <1>1, FlowReplied DEF Asked
<1>4. Flow(m) /\ \A L : RawFlow(h, L) => RawFlow(m, L)
  BY <1>1, <1>3, FlowStays
<1> QED BY <1>1, <1>2, <1>3, <1>4 DEF Goes, Sound

(* BATCH.                                                                    *)
LEMMA BatchStartGoes ==
    ASSUME NEW k, Sound(k), k.st = "open", HasLine(k), k.wait = None,
           TheLine(k).cmd = "BATCH", Admitted(k, "BATCH"),
           NEW g \in send_response(TakeLine(k), TRUE, <<>>),
           NEW m, m = IF g.st = "open" THEN [g EXCEPT !.batch = TRUE, !.cmds = 0] ELSE g
    PROVE  Goes(k, m)
<1> DEFINE h == TakeLine(k)
<1>0. Beside(h, h)
  BY LineTaken DEF Beside, Sound, Asked
<1>1. /\ Asked(h, TheLine(k)) /\ Mood(h.did, h.batch, h.cmds, h.wbuf) /\ h.wait = None
      /\ h.batch = k.batch /\ Flow(h) /\ (\A L : RawFlow(k, L) => RawFlow(h, L)) /\ DidOK(h.did)
  BY <1>0, TakenGoes
<1>2. ~k.batch
  BY DEF Admitted, command_check_context, BatchCommands
<1> HIDE DEF h
<1>3. g \in send_response(h, TRUE, <<>>)
  BY DEF h
<1>4. Talk(m)
  BY <1>1, <1>2, <1>3, TalkOpened
<1>5. SameFlow(h, g) /\ DOMAIN g = Fields
  <2>1. PICK ok \in BOOLEAN : ok = TRUE
    OBVIOUS
  <2>2. g \in send_response(h, ok, <<>>)
    BY <1>3, <2>1
  <2> QED BY <1>1, <2>2, FlowReplied DEF Asked
<1>6. SameFlow(h, m) /\ DOMAIN m = Fields
  BY <1>5 DEF SameFlow, Fields
<1>7. Flow(m) /\ \A L : RawFlow(h, L) => RawFlow(m, L)
  BY <1>1, <1>6, FlowStays
<1> QED BY <1>1, <1>4, <1>6, <1>7 DEF Goes, Sound

(* The dot.                                                                  *)
LEMMA BatchDoneGoes ==
    ASSUME NEW k, Sound(k), k.st = "open", HasLine(k), k.wait = None,
           TheLine(k).cmd = ".", Admitted(k, "."),
           NEW m \in send_response([TakeLine(k) EXCEPT !.batch = FALSE, !.cmds = 0], TRUE, <<>>)
    PROVE  Goes(k, m)
<1> DEFINE h == TakeLine(k)
           g == [h EXCEPT !.batch = FALSE, !.cmds = 0]
<1>0. Beside(h, h)
  BY LineTaken DEF Beside, Sound, Asked
<1>1. /\ Asked(h, TheLine(k)) /\ Mood(h.did, h.batch, h.cmds, h.wbuf) /\ h.wait = None
      /\ h.batch = k.batch /\ Flow(h) /\ (\A L : RawFlow(k, L) => RawFlow(h, L)) /\ DidOK(h.did)
  BY <1>0, TakenGoes
<1>2. k.batch
  BY DEF Admitted, command_check_context, ClientCommands, Sound, Talk
<1> HIDE DEF h
<1>3. m \in send_response(g, TRUE, <<>>)
  BY DEF h
<1>4. Talk(m)
  BY <1>1, <1>2, <1>3, TalkEnded
<1>5. /\ SameFlow(h, g) /\ DOMAIN g = Fields /\ g.st = "open" /\ g.did = h.did
  BY <1>1 DEF SameFlow, SameLines, Fields, Asked
<1>6. SameFlow(g, m) /\ DOMAIN m = Fields
  <2>1. PICK ok \in BOOLEAN : ok = TRUE
    OBVIOUS
  <2> HIDE DEF g
  <2>2. m \in send_response(g, ok, <<>>)
    BY <1>3, <2>1
  <2> QED BY <1>1, <1>5, <2>2, FlowReplied
<1> HIDE DEF g
<1>7. Flow(g) /\ \A L : RawFlow(h, L) => RawFlow(g, L)
  BY <1>1, <1>5, FlowStays
<1>8. Flow(m) /\ \A L : RawFlow(g, L) => RawFlow(m, L)
  BY <1>6, <1>7, FlowStays
<1> QED BY <1>1, <1>4, <1>6, <1>7, <1>8 DEF Goes, Sound

(* QUIT and a line that cannot be parsed.                                    *)
LEMMA QuitGoes ==
    ASSUME NEW k, Sound(k), k.st = "open", HasLine(k), k.wait = None
    PROVE  Goes(k, Closed(TakeLine(k)))
<1> DEFINE h == TakeLine(k)
<1>0. Beside(h, h)
  BY LineTaken DEF Beside, Sound, Asked
<1>1. /\ Asked(h, TheLine(k)) /\ Flow(h) /\ \A L : RawFlow(k, L) => RawFlow(h, L)
  BY <1>0, TakenGoes
<1> HIDE DEF h
<1>2. Goes(h, Closed(h))
  BY <1>1, ClosedGoes DEF Asked
<1>3. Goes(k, Closed(h))
  BY <1>1, <1>2 DEF Goes
<1> QED BY <1>3 DEF h

(* FLUSH waits, and goes on when it is woken (flush_file).                   *)
LEMMA FlushWaitsGoes ==
    ASSUME NEW k, Sound(k), k.st = "open", HasLine(k), k.wait = None, TheLine(k).cmd = "FLUSH",
           NEW f, NEW due, NEW m, m = [TakeLine(k) EXCEPT !.wait = f, !.woken = FALSE, !.due = due]
    PROVE  Goes(k, m)
<1> DEFINE h == TakeLine(k)
<1>0. Beside(h, h)
  BY LineTaken DEF Beside, Sound, Asked
<1>1. /\ Asked(h, TheLine(k)) /\ Mood(h.did, h.batch, h.cmds, h.wbuf)
      /\ Flow(h) /\ \A L : RawFlow(k, L) => RawFlow(h, L)
  BY <1>0, TakenGoes
<1> HIDE DEF h
<1>2. /\ DOMAIN m = Fields /\ m.st = h.st /\ m.did = h.did /\ m.sent = h.sent /\ m.dn = h.dn
      /\ m.batch = h.batch /\ m.cmds = h.cmds /\ m.wbuf = h.wbuf
      /\ m.rbuf = h.rbuf /\ m.up = h.up /\ m.asked = h.asked /\ m.proc = h.proc
  <2>1. m = [h EXCEPT !.wait = f, !.woken = FALSE, !.due = due] /\ DOMAIN h = Fields
    BY <1>1 DEF h, Asked
  <2> QED BY <2>1 DEF Fields
<1>3. Talk(m)
  BY <1>1, <1>2 DEF Talk, Asked, Waiting
<1>4. SameFlow(h, m)
  BY <1>2 DEF SameFlow, SameLines
<1>5. Flow(m) /\ \A L : RawFlow(h, L) => RawFlow(m, L)
  BY <1>1, <1>4, FlowStays
<1> QED BY <1>1, <1>2, <1>3, <1>5 DEF Goes, Sound

(* It is woken, and answers.                                                 *)
LEMMA FlushReturnsGoes ==
    ASSUME NEW k, Sound(k), k.wait # None,
           NEW m \in send_response([k EXCEPT !.wait = None, !.woken = FALSE, !.due = <<>>], TRUE, <<>>)
    PROVE  Goes(k, m)
<1> DEFINE h == [k EXCEPT !.wait = None, !.woken = FALSE, !.due = <<>>]
<1>1. /\ DOMAIN h = Fields /\ h.st = k.st /\ h.did = k.did /\ h.sent = k.sent /\ h.dn = k.dn
      /\ h.batch = k.batch /\ h.cmds = k.cmds /\ h.wbuf = k.wbuf /\ h.wait = None
      /\ h.rbuf = k.rbuf /\ h.up = k.up /\ h.asked = k.asked /\ h.proc = k.proc
  BY DEF Fields, Sound
<1>2. PICK ok \in BOOLEAN : ok = TRUE
  OBVIOUS
<1>3. PICK info : info = <<>>
  OBVIOUS
<1> HIDE DEF h
<1>4. m \in send_response(h, ok, info)
  BY <1>2, <1>3 DEF h
<1>5. k.st = "open" /\ Waiting(k.did)
  BY DEF Sound, Talk
<1>6. Asked(h, k.did[Len(k.did)].line) /\ Mood(h.did, h.batch, h.cmds, h.wbuf)
  BY <1>1, <1>5 DEF Asked, Waiting, Sound, Talk
<1>7. NoStatus(info)
  BY <1>3 DEF NoStatus
<1>8. Talk(m)
  <2>1. PICK line : line = k.did[Len(k.did)].line
    OBVIOUS
  <2>2. line.cmd = "FLUSH" /\ Asked(h, line)
    BY <1>5, <1>6, <2>1 DEF Waiting
  <2>3. ok => line.cmd # "BATCH" /\ line.cmd # "."
    BY <2>2
  <2> QED BY <1>1, <1>4, <1>6, <1>7, <2>2, <2>3, TalkReplied
<1>9. SameFlow(h, m) /\ DOMAIN m = Fields
  BY <1>1, <1>4, <1>5, FlowReplied DEF Sound, Talk, Speech
<1>10. SameFlow(k, h)
  BY <1>1 DEF SameFlow, SameLines
<1>11. Flow(h) /\ \A L : RawFlow(k, L) => RawFlow(h, L)
  BY <1>10, FlowStays DEF Sound
<1>12. Flow(m) /\ \A L : RawFlow(h, L) => RawFlow(m, L)
  BY <1>9, <1>11, FlowStays
<1> QED BY <1>8, <1>9, <1>11, <1>12 DEF Goes, Sound

(* A part of what is on its way arrives, or the client reads an answer.      *)
LEMMA ReadGoes ==
    ASSUME NEW k, Sound(k), NEW n \in 1 .. Len(k.up), n <= Room(k),
           NEW m, m = [k EXCEPT !.rbuf = @ \o SubSeq(k.up, 1, n), !.up = SubSeq(k.up, n + 1, Len(k.up))]
    PROVE  Goes(k, m)
<1>1. Flow(m) /\ \A L : RawFlow(k, L) => RawFlow(m, L)
  BY FlowRead
<1>2. /\ DOMAIN m = Fields /\ m.st = k.st /\ m.did = k.did /\ m.sent = k.sent /\ m.dn = k.dn
      /\ m.batch = k.batch /\ m.cmds = k.cmds /\ m.wbuf = k.wbuf /\ m.wait = k.wait
  BY DEF Fields, Sound
<1>3. Talk(m)
  BY <1>2 DEF Sound, Talk
<1> QED BY <1>1, <1>2, <1>3 DEF Goes, Sound

(* The client reads a whole answer (response_read).                          *)
LEMMA AnswerReadGoes ==
    ASSUME NEW k, Sound(k), k.dn # <<>>,
           NEW m, m = [k EXCEPT !.dn = SubSeq(k.dn, AnswerLength(k.dn) + 1, Len(k.dn))]
    PROVE  Goes(k, m)
<1> DEFINE w == SubSeq(k.dn, AnswerLength(k.dn) + 1, Len(k.dn))
<1>1. /\ DOMAIN m = Fields /\ m.st = k.st /\ m.did = k.did /\ m.sent = k.sent /\ m.dn = w
      /\ m.batch = k.batch /\ m.cmds = k.cmds /\ m.wbuf = k.wbuf /\ m.wait = k.wait
      /\ m.rbuf = k.rbuf /\ m.up = k.up /\ m.asked = k.asked /\ m.proc = k.proc
  BY DEF Fields, Sound
<1>2. Speech(k.did, k.sent, w)
  BY SpeechRead DEF Sound, Talk
<1>3. Talk(m)
  BY <1>1, <1>2 DEF Sound, Talk
<1>4. SameFlow(k, m)
  BY <1>1 DEF SameFlow, SameLines
<1> QED BY <1>1, <1>3, <1>4, FlowStays DEF Goes, Sound

-----------------------------------------------------------------------------
(* The queue of a process and its items.                                     *)
Elems(s) == {s[i] : i \in 1 .. Len(s)}
Distinct(s) == IsSeq(s) /\ \A i, j \in 1 .. Len(s) : s[i] = s[j] => i = j
ItemsOK(items) ==
    /\ IsFiniteSet(DOMAIN items)
    /\ \A f \in DOMAIN items : DOMAIN items[f] = {"vals", "stamp"} /\ IsSeq(items[f].vals)
QueueOK(q, items) ==
    Distinct(q) /\ \A f \in Elems(q) : f \in DOMAIN items /\ items[f].vals # <<>>
CacheInv ==
    /\ DOMAIN cache = Procs /\ DOMAIN queue = Procs
    /\ \A p \in Procs : ItemsOK(cache[p]) /\ QueueOK(queue[p], cache[p])

(* One queue after another that shares no path with it.                      *)
LEMMA DistinctConcat ==
    ASSUME NEW s, Distinct(s), NEW t, Distinct(t), Elems(s) \cap Elems(t) = {}
    PROVE  Distinct(s \o t) /\ Elems(s \o t) \subseteq Elems(s) \union Elems(t)
<1> DEFINE m == Len(s)
           l == Len(t)
           u == s \o t
<1>1. IsSeq(s) /\ IsSeq(t) /\ m \in Nat /\ l \in Nat
  BY SeqFacts DEF Distinct
<1>2. IsSeq(u) /\ Len(u) = m + l
  BY <1>1, ConcatFacts
<1>3. (\A i \in 1 .. m : u[i] = s[i]) /\ \A i \in 1 .. l : u[m + i] = t[i]
  BY <1>1, ConcatFacts
<1> HIDE DEF m, l, u
<1>4. ASSUME NEW i \in 1 .. m + l
      PROVE  \/ i \in 1 .. m /\ u[i] = s[i] /\ s[i] \in Elems(s)
             \/ i - m \in 1 .. l /\ u[i] = t[i - m] /\ t[i - m] \in Elems(t) /\ i \notin 1 .. m
  <2>1. CASE i \in 1 .. m
    BY <1>3, <2>1 DEF Elems, m
  <2>2. CASE i \notin 1 .. m
    <3>1. i - m \in 1 .. l /\ m + (i - m) = i
      BY <1>1, <2>2
    <3>2. u[i] = t[i - m]
      BY <1>3, <3>1
    <3> QED BY <2>2, <3>1, <3>2 DEF Elems, l
  <2> QED BY <2>1, <2>2
<1>5. ASSUME NEW i \in 1 .. m + l, NEW j \in 1 .. m + l, u[i] = u[j] PROVE i = j
  <2>1. CASE i \in 1 .. m /\ j \in 1 .. m
    BY <1>4, <1>5, <2>1 DEF Distinct, m
  <2>2. CASE i \notin 1 .. m /\ j \notin 1 .. m
    <3>1. i - m \in 1 .. l /\ j - m \in 1 .. l /\ t[i - m] = t[j - m]
      BY <1>4, <1>5, <2>2
    <3>2. i - m = j - m
      BY <3>1 DEF Distinct, l
    <3> QED BY <1>1, <3>2
  <2>3. i \in 1 .. m <=> j \in 1 .. m
    BY <1>4, <1>5
  <2> QED BY <2>1, <2>2, <2>3
<1>6. Elems(u) \subseteq Elems(s) \union Elems(t)
  BY <1>2, <1>4 DEF Elems
<1>7. Distinct(u)
  BY <1>2, <1>5 DEF Distinct
<1> QED BY <1>6, <1>7 DEF u

(* A part of a queue.                                                        *)
LEMMA DistinctSub ==
    ASSUME NEW s, Distinct(s), NEW m \in Nat \ {0}, NEW n \in Nat, m <= n + 1, n <= Len(s)
    PROVE  /\ Distinct(SubSeq(s, m, n)) /\ Elems(SubSeq(s, m, n)) \subseteq Elems(s)
           /\ Elems(SubSeq(s, m, n)) = {s[i] : i \in m .. n}
<1> DEFINE u == SubSeq(s, m, n)
<1>1. IsSeq(s) /\ Len(s) \in Nat
  BY SeqFacts DEF Distinct
<1>2. IsSeq(u) /\ Len(u) = n - m + 1
  BY <1>1, SubFacts
<1>3. \A i \in 1 .. n - m + 1 : u[i] = s[m + i - 1]
  BY <1>1, SubFacts
<1> HIDE DEF u
<1>4. ASSUME NEW i \in 1 .. n - m + 1 PROVE m + i - 1 \in m .. n /\ m + i - 1 \in 1 .. Len(s)
  BY <1>1
<1>5. \A i, j \in 1 .. n - m + 1 : u[i] = u[j] => i = j
  <2> SUFFICES ASSUME NEW i \in 1 .. n - m + 1, NEW j \in 1 .. n - m + 1, u[i] = u[j] PROVE i = j
    OBVIOUS
  <2>1. s[m + i - 1] = s[m + j - 1]
    BY <1>3
  <2>2. m + i - 1 = m + j - 1
    BY <1>4, <2>1 DEF Distinct
  <2> QED BY <2>2
<1>6. Elems(u) = {s[i] : i \in m .. n}
  <2>1. ASSUME NEW i \in m .. n PROVE i - m + 1 \in 1 .. n - m + 1 /\ u[i - m + 1] = s[i]
    <3>1. i - m + 1 \in 1 .. n - m + 1 /\ m + (i - m + 1) - 1 = i
      OBVIOUS
    <3> QED BY <1>3, <3>1
  <2>2. {s[i] : i \in m .. n} \subseteq Elems(u)
    <3> SUFFICES ASSUME NEW i \in m .. n PROVE s[i] \in Elems(u)
      OBVIOUS
    <3> QED BY <1>2, <2>1 DEF Elems
  <2>3. Elems(u) \subseteq {s[i] : i \in m .. n}
    <3> SUFFICES ASSUME NEW j \in 1 .. n - m + 1 PROVE u[j] \in {s[i] : i \in m .. n}
      BY <1>2 DEF Elems
    <3> QED BY <1>3, <1>4
  <2> QED BY <2>2, <2>3
<1>7. {s[i] : i \in m .. n} \subseteq Elems(s)
  <2>1. \A i \in m .. n : i \in 1 .. Len(s)
    BY <1>1
  <2> QED BY <2>1 DEF Elems
<1> QED BY <1>2, <1>5, <1>6, <1>7 DEF Distinct, u

(* remove_from_queue, enqueue_cache_item.                                    *)
LEMMA UnqueuedFacts ==
    ASSUME NEW q, Distinct(q), NEW f
    PROVE  Distinct(Unqueued(q, f)) /\ Elems(Unqueued(q, f)) \subseteq Elems(q) \ {f}
<1>1. IsSeq(q) /\ Len(q) \in Nat /\ DOMAIN q = 1 .. Len(q)
  BY SeqFacts DEF Distinct
<1>2. CASE ~Contains(q, f)
  <2>1. Unqueued(q, f) = q /\ f \notin Elems(q)
    BY <1>2 DEF Unqueued, Contains, Elems
  <2> QED BY <2>1
<1>3. CASE Contains(q, f)
  <2> DEFINE x == CHOOSE i \in DOMAIN q : q[i] = f
             a == SubSeq(q, 1, x - 1)
             b == SubSeq(q, x + 1, Len(q))
  <2>1. x \in 1 .. Len(q) /\ q[x] = f
    BY <1>1, <1>3 DEF Contains
  <2>2. Unqueued(q, f) = a \o b
    BY <1>3 DEF Unqueued, RemoveAt
  <2> HIDE DEF x
  <2>3. Distinct(a) /\ Elems(a) = {q[i] : i \in 1 .. x - 1}
    <3>1. PICK z \in Nat \ {0} : z = 1
      OBVIOUS
    <3>2. x - 1 \in Nat /\ z <= x - 1 + 1 /\ x - 1 <= Len(q)
      BY <1>1, <2>1, <3>1
    <3>3. Distinct(SubSeq(q, z, x - 1)) /\ Elems(SubSeq(q, z, x - 1)) = {q[i] : i \in z .. x - 1}
      BY <3>2, DistinctSub
    <3> QED BY <3>1, <3>3
  <2>4. Distinct(b) /\ Elems(b) = {q[i] : i \in x + 1 .. Len(q)}
    <3>1. x + 1 \in Nat \ {0} /\ x + 1 <= Len(q) + 1 /\ Len(q) <= Len(q)
      BY <1>1, <2>1
    <3> QED BY <1>1, <3>1, DistinctSub
  <2> HIDE DEF a, b
  <2>5. ASSUME NEW i \in 1 .. x - 1 PROVE i \in 1 .. Len(q) /\ i # x
    BY <1>1, <2>1
  <2>6. ASSUME NEW i \in x + 1 .. Len(q) PROVE i \in 1 .. Len(q) /\ i # x /\ i \notin 1 .. x - 1
    BY <1>1, <2>1
  <2>7. Elems(a) \subseteq Elems(q) \ {f}
    BY <2>1, <2>3, <2>5 DEF Elems, Distinct
  <2>8. Elems(b) \subseteq Elems(q) \ {f}
    BY <2>1, <2>4, <2>6 DEF Elems, Distinct
  <2>9. Elems(a) \cap Elems(b) = {}
    BY <2>3, <2>4, <2>5, <2>6 DEF Distinct
  <2>10. Distinct(a) /\ Distinct(b)
    BY <2>3, <2>4
  <2>11. Distinct(a \o b) /\ Elems(a \o b) \subseteq Elems(a) \union Elems(b)
    BY <2>9, <2>10, DistinctConcat
  <2> QED BY <2>2, <2>7, <2>8, <2>11
<1> QED BY <1>2, <1>3

(* A sequence of one element.                                                *)
LEMMA SingleFacts == ASSUME NEW f PROVE Distinct(<<f>>) /\ Elems(<<f>>) = {f} /\ IsSeq(<<f>>)
<1>1. <<f>> \in Seq({f}) /\ Len(<<f>>) = 1 /\ <<f>>[1] = f
  OBVIOUS
<1>2. 1 .. 1 = {1}
  OBVIOUS
<1>3. IsSeq(<<f>>)
  BY <1>1 DEF IsSeq
<1> DEFINE s == <<f>>
<1>4. IsSeq(s) /\ Len(s) = 1 /\ s[1] = f
  BY <1>1, <1>3
<1> HIDE DEF s
<1>5. Distinct(s) /\ Elems(s) = {f}
  BY <1>2, <1>4 DEF Distinct, Elems
<1> QED BY <1>3, <1>5 DEF s

(* FLUSH puts a path first.                                                  *)
LEMMA AtHeadFacts ==
    ASSUME NEW q, Distinct(q), NEW f
    PROVE  Distinct(AtHead(q, f)) /\ Elems(AtHead(q, f)) \subseteq Elems(q) \union {f}
<1>1. Distinct(Unqueued(q, f)) /\ Elems(Unqueued(q, f)) \subseteq Elems(q) \ {f}
  BY UnqueuedFacts
<1>2. Distinct(<<f>>) /\ Elems(<<f>>) = {f}
  BY SingleFacts
<1> DEFINE s == <<f>>
           t == Unqueued(q, f)
<1>3. Distinct(s) /\ Distinct(t) /\ Elems(s) \cap Elems(t) = {}
  BY <1>1, <1>2
<1> HIDE DEF s, t
<1>4. Distinct(s \o t) /\ Elems(s \o t) \subseteq Elems(s) \union Elems(t)
  BY <1>3, DistinctConcat
<1> QED BY <1>1, <1>2, <1>4 DEF s, t, AtHead

(* UPDATE puts a path last, if it is not queued.                             *)
LEMMA AtTailFacts ==
    ASSUME NEW q, Distinct(q), NEW f
    PROVE  Distinct(AtTail(q, f)) /\ Elems(AtTail(q, f)) \subseteq Elems(q) \union {f}
<1>1. CASE Contains(q, f)
  BY <1>1 DEF AtTail
<1>2. CASE ~Contains(q, f)
  <2> DEFINE s == Append(q, f)
             l == Len(q)
  <2>0. IsSeq(q)
    BY DEF Distinct
  <2>1. IsSeq(s) /\ Len(s) = l + 1 /\ (\A i \in 1 .. l : s[i] = q[i]) /\ s[l + 1] = f /\ l \in Nat
    BY <2>0, AppendFacts, SeqFacts
  <2>2. f \notin Elems(q)
    BY <1>2 DEF Contains, Elems
  <2> HIDE DEF s, l
  <2>3. \A i \in 1 .. l + 1 : i = l + 1 \/ (i \in 1 .. l /\ s[i] \in Elems(q))
    BY <2>1 DEF Elems, l
  <2>4. \A i, j \in 1 .. l + 1 : s[i] = s[j] => i = j
    BY <2>1, <2>2, <2>3 DEF Distinct, l
  <2>5. Distinct(s)
    BY <2>1, <2>4 DEF Distinct
  <2>6. Elems(s) \subseteq Elems(q) \union {f}
    <3> SUFFICES ASSUME NEW i \in 1 .. l + 1 PROVE s[i] \in Elems(q) \union {f}
      BY <2>1 DEF Elems
    <3> QED BY <2>1, <2>3
  <2> QED BY <1>2, <2>5, <2>6 DEF s, AtTail
<1> QED BY <1>1, <1>2

(* flush_old_values puts what it found at the end.                           *)
LEMMA OldFacts ==
    ASSUME NEW q, Distinct(q), NEW S, IsFiniteSet(S)
    PROVE  /\ Distinct(q \o SetToSeq(S \ Range(q)))
           /\ Elems(q \o SetToSeq(S \ Range(q))) \subseteq Elems(q) \union S
<1> DEFINE R == S \ Range(q)
           t == SetToSeq(R)
<1>0. IsFiniteSet(R)
  BY FS_Difference
<1> HIDE DEF R
<1>1. IsSeq(t) /\ IsInjective(t) /\ \A i \in 1 .. Len(t) : t[i] \in R
  BY <1>0, SetToSeqFacts
<1> HIDE DEF t
<1>2. Distinct(t)
  BY <1>1, SeqFacts DEF Distinct, IsInjective
<1>3. Elems(t) \subseteq R
  BY <1>1 DEF Elems
<1>4. Elems(q) = Range(q)
  BY SeqFacts DEF Distinct, Elems, Range
<1>5. Elems(q) \cap Elems(t) = {}
  BY <1>3, <1>4 DEF R
<1>6. Distinct(q \o t) /\ Elems(q \o t) \subseteq Elems(q) \union Elems(t)
  BY <1>2, <1>5, DistinctConcat
<1> QED BY <1>3, <1>6 DEF t, R

(* The values that are taken from a command are a sequence.                  *)
LEMMA TakenFacts ==
    ASSUME NEW stamp, NEW vals, IsSeq(vals)
    PROVE  IsSeq(Taken(stamp, vals).took)
<1> DEFINE forward(i) == vals[i] # -1 /\ vals[i] > (IF i = 1 THEN stamp ELSE vals[i - 1])
           M == {m \in 1 .. Len(vals) : \A i \in 1 .. m : forward(i)}
           n == Cardinality(M)
           s == SubSeq(vals, 1, n)
<1>1. Len(vals) \in Nat
  BY SeqFacts
<1>2. Taken(stamp, vals).took = s
  BY DEF Taken
<1> HIDE DEF forward
<1>3. M \in SUBSET (1 .. Len(vals))
  OBVIOUS
<1> HIDE DEF M
<1>4. IsFiniteSet(1 .. Len(vals)) /\ Cardinality(1 .. Len(vals)) <= Len(vals)
  <2>1. 1 \in Int /\ Len(vals) \in Int
    BY <1>1
  <2>2. IsFiniteSet(1 .. Len(vals)) /\ Cardinality(1 .. Len(vals)) = IF 1 > Len(vals) THEN 0 ELSE Len(vals) - 1 + 1
    BY <2>1, FS_Interval
  <2> QED BY <1>1, <2>2
<1>5. IsFiniteSet(M) /\ n <= Cardinality(1 .. Len(vals))
  BY <1>3, <1>4, FS_Subset
<1>6. n \in Nat /\ Cardinality(1 .. Len(vals)) \in Nat
  BY <1>4, <1>5, FS_CardinalityType
<1> HIDE DEF n
<1>7. n <= Len(vals)
  BY <1>1, <1>4, <1>5, <1>6 DEF n
<1>8. PICK z \in Nat \ {0} : z = 1
  OBVIOUS
<1>9. IsSeq(SubSeq(vals, z, n))
  <2>1. z <= n + 1
    BY <1>6, <1>8
  <2> QED BY <1>6, <1>7, <2>1, SubFacts
<1> QED BY <1>2, <1>8, <1>9

-----------------------------------------------------------------------------
(* What happens to the cache.                                                *)
ConnsInv ==
    \A c \in Conns : Sound(conn[c]) /\ (c \in Raws => RawFlow(conn[c], job.raw[c].lines))

(* An item is put into the cache.                                            *)
LEMMA PutFacts ==
    ASSUME NEW items, ItemsOK(items), NEW f, NEW item, DOMAIN item = {"vals", "stamp"}, IsSeq(item.vals)
    PROVE  ItemsOK(Put(items, f, item))
<1> DEFINE u == Put(items, f, item)
<1>1. DOMAIN u = DOMAIN items \union {f} /\ \A g \in DOMAIN u : u[g] = IF g = f THEN item ELSE items[g]
  BY DEF Put
<1>2. IsFiniteSet(DOMAIN items \union {f})
  BY FS_AddElement DEF ItemsOK
<1> HIDE DEF u
<1>3. ItemsOK(u)
  BY <1>1, <1>2 DEF ItemsOK
<1> QED BY <1>3 DEF u

(* Items leave the cache.                                                    *)
LEMMA WithoutFacts ==
    ASSUME NEW items, ItemsOK(items), NEW fs PROVE ItemsOK(Without(items, fs))
<1> DEFINE u == Without(items, fs)
<1>1. DOMAIN u = DOMAIN items \ fs /\ \A g \in DOMAIN u : u[g] = items[g]
  BY DEF Without
<1>2. IsFiniteSet(DOMAIN items \ fs)
  BY FS_Difference DEF ItemsOK
<1> HIDE DEF u
<1>3. ItemsOK(u)
  BY <1>1, <1>2 DEF ItemsOK
<1> QED BY <1>3 DEF u

(* One process changes its cache.                                            *)
LEMMA OneCache ==
    ASSUME CacheInv, NEW p \in Procs, NEW items, NEW q, ItemsOK(items), QueueOK(q, items),
           cache' = [cache EXCEPT ![p] = items] \/ (cache' = cache /\ items = cache[p]),
           queue' = [queue EXCEPT ![p] = q] \/ (queue' = queue /\ q = queue[p])
    PROVE  CacheInv'
<1>1. DOMAIN cache' = Procs /\ DOMAIN queue' = Procs
  BY DEF CacheInv
<1>2. ASSUME NEW o \in Procs PROVE ItemsOK(cache'[o]) /\ QueueOK(queue'[o], cache'[o])
  <2>1. CASE o = p
    <3>1. cache'[o] = items /\ queue'[o] = q
      BY <2>1 DEF CacheInv
    <3> QED BY <3>1
  <2>2. CASE o # p
    <3>1. cache'[o] = cache[o] /\ queue'[o] = queue[o]
      BY <2>2 DEF CacheInv
    <3> QED BY <3>1 DEF CacheInv
  <2> QED BY <2>1, <2>2
<1> QED BY <1>1, <1>2 DEF CacheInv

(* Or none does.                                                             *)
LEMMA CacheStays == CacheInv /\ UNCHANGED <<cache, queue>> => CacheInv'
BY DEF CacheInv

(* The queue thread takes the first item (queue_thread_main).                *)
LEMMA TakeFirstCache == ASSUME CacheInv, NEW p \in Procs, TakeFirst(p) PROVE CacheInv'
<1> DEFINE q == queue[p]
           f == Head(q)
           items == [cache[p] EXCEPT ![f].vals = <<>>]
           t == Tail(q)
<1>1. ItemsOK(cache[p]) /\ QueueOK(q, cache[p]) /\ q # <<>>
  BY DEF CacheInv, TakeFirst
<1>2. /\ cache' = [cache EXCEPT ![p] = items] /\ queue' = [queue EXCEPT ![p] = t]
  BY DEF TakeFirst
<1>3. IsSeq(q) /\ Len(q) \in Nat \ {0}
  BY <1>1, SeqFacts DEF QueueOK, Distinct
<1>4. IsSeq(t) /\ Len(t) = Len(q) - 1 /\ (\A i \in 1 .. Len(q) - 1 : t[i] = q[i + 1]) /\ f = q[1]
  <2>1. PICK S : q \in Seq(S)
    BY <1>3 DEF IsSeq
  <2>2. t \in Seq(S) /\ Len(t) = Len(q) - 1 /\ (\A i \in 1 .. Len(q) - 1 : t[i] = q[i + 1]) /\ f = q[1]
    BY <1>1, <2>1
  <2> QED BY <2>2 DEF IsSeq
<1> HIDE DEF t, f, q
<1>5. f \in Elems(q) /\ f \in DOMAIN cache[p]
  <2>1. 1 \in 1 .. Len(q)
    BY <1>3
  <2> QED BY <1>1, <1>4, <2>1 DEF Elems, QueueOK
<1>6. ItemsOK(items)
  <2>1. DOMAIN items = DOMAIN cache[p] /\ \A g \in DOMAIN items : g # f => items[g] = cache[p][g]
    OBVIOUS
  <2>2. DOMAIN items[f] = {"vals", "stamp"} /\ items[f].vals = <<>>
    BY <1>1, <1>5 DEF ItemsOK
  <2> HIDE DEF items
  <2>3. IsSeq(items[f].vals)
    BY <2>2, NothingIsSeq
  <2> QED BY <1>1, <2>1, <2>2, <2>3 DEF ItemsOK
<1>7. \A i \in 1 .. Len(q) - 1 : i + 1 \in 1 .. Len(q) /\ 1 \in 1 .. Len(q) /\ i + 1 # 1
  BY <1>3
<1>8. \A i, j \in 1 .. Len(q) - 1 : t[i] = t[j] => i = j
  <2> SUFFICES ASSUME NEW i \in 1 .. Len(q) - 1, NEW j \in 1 .. Len(q) - 1, t[i] = t[j] PROVE i = j
    OBVIOUS
  <2>1. q[i + 1] = q[j + 1]
    BY <1>4
  <2>2. i + 1 = j + 1
    BY <1>1, <1>7, <2>1 DEF QueueOK, Distinct
  <2> QED BY <2>2
<1>9. ASSUME NEW g \in Elems(t) PROVE g \in DOMAIN items /\ items[g].vals # <<>>
  <2>1. PICK i \in 1 .. Len(q) - 1 : g = q[i + 1]
    BY <1>4 DEF Elems
  <2>2. g \in Elems(q)
    BY <1>7, <2>1 DEF Elems
  <2>3. g # f
    BY <1>1, <1>4, <1>7, <2>1 DEF QueueOK, Distinct
  <2>4. g \in DOMAIN cache[p] /\ cache[p][g].vals # <<>>
    BY <1>1, <2>2 DEF QueueOK
  <2> QED BY <2>3, <2>4
<1>10. QueueOK(t, items)
  BY <1>4, <1>8, <1>9 DEF QueueOK, Distinct
<1> HIDE DEF items
<1> QED BY <1>2, <1>6, <1>10, OneCache

(* flush_old_values queues and purges.                                       *)
LEMMA OldCache ==
    ASSUME CacheInv, NEW p \in Procs, NEW old, NEW idle, FlushOldValues(p, old, idle) PROVE CacheInv'
<1> DEFINE S == {f \in old : Pending(p, f)}
           t == SetToSeq(S \ Range(queue[p]))
           q == queue[p] \o t
           items == Without(cache[p], Purged(p, idle))
<1>1. ItemsOK(cache[p]) /\ QueueOK(queue[p], cache[p])
  BY DEF CacheInv
<1>2. cache' = [cache EXCEPT ![p] = items] /\ queue' = [queue EXCEPT ![p] = q]
  BY DEF FlushOldValues
<1>3. IsFiniteSet(S)
  <2>1. S \in SUBSET DOMAIN cache[p]
    BY DEF Pending, Cached
  <2> HIDE DEF S
  <2> QED BY <1>1, <2>1, FS_Subset DEF ItemsOK
<1>4. \A f \in S : Pending(p, f)
  OBVIOUS
<1> HIDE DEF S
<1>5. Distinct(q) /\ Elems(q) \subseteq Elems(queue[p]) \union S
  BY <1>1, <1>3, OldFacts DEF QueueOK
<1> HIDE DEF q
<1>6. ItemsOK(items)
  BY <1>1, WithoutFacts
<1>7. ASSUME NEW f \in Elems(q) PROVE f \in DOMAIN items /\ items[f].vals # <<>>
  <2>1. Pending(p, f)
    BY <1>1, <1>4, <1>5 DEF QueueOK, Pending, Cached
  <2>2. f \in DOMAIN cache[p] /\ f \notin Purged(p, idle) /\ cache[p][f].vals # <<>>
    BY <2>1 DEF Purged, Pending, Cached
  <2> QED BY <2>2 DEF Without
<1> HIDE DEF items
<1>8. QueueOK(q, items)
  BY <1>5, <1>7 DEF QueueOK
<1> QED BY <1>2, <1>6, <1>8, OneCache

(* UPDATE adds to an item, and queues it or not (handle_request_update).     *)
LEMMA UpdateCache ==
    ASSUME CacheInv, ConnsInv, NEW c \in Conns, Update(c) PROVE CacheInv'
<1> DEFINE k == conn[c]
           p == k.proc
           f == get_abs_path(TheLine(k).path)
           t == Taken(Item(p, f).stamp, TheLine(k).vals)
           item == [vals |-> Item(p, f).vals \o t.took, stamp |-> t.stamp]
           items == Put(cache[p], f, item)
<1>1. /\ cache' = [cache EXCEPT ![p] = items]
      /\ \/ queue' = queue
         \/ item.vals # <<>> /\ queue' = [queue EXCEPT ![p] = AtTail(queue[p], f)]
  BY DEF Update
<1>2. Sound(k) /\ k.st = "open" /\ HasLine(k)
  BY DEF ConnsInv, Update, Gets, HasCommand
<1>3. p \in Procs
  BY <1>2 DEF Sound, Flow
<1>4. IsSeq(TheLine(k).vals)
  BY <1>2, FlowTaken
<1> HIDE DEF k
<1>5. IsSeq(t.took)
  BY <1>4, TakenFacts
<1> HIDE DEF t, p, f
<1>6. ItemsOK(cache[p]) /\ QueueOK(queue[p], cache[p])
  BY <1>3 DEF CacheInv
<1>7. IsSeq(Item(p, f).vals) /\ (f \in DOMAIN cache[p] => Item(p, f) = cache[p][f])
  <2>1. CASE f \in DOMAIN cache[p]
    BY <1>6, <2>1 DEF Item, Cached, ItemsOK
  <2>2. CASE f \notin DOMAIN cache[p]
    <3>1. Item(p, f).vals = <<>>
      BY <2>2 DEF Item, Cached, NewItem
    <3> QED BY <2>2, <3>1, NothingIsSeq
  <2> QED BY <2>1, <2>2
<1> DEFINE v == Item(p, f).vals
           w == t.took
<1>8. IsSeq(v \o w) /\ (v # <<>> => v \o w # <<>>)
  <2>1. IsSeq(v) /\ IsSeq(w)
    BY <1>5, <1>7
  <2> HIDE DEF v, w
  <2>2. IsSeq(v \o w) /\ Len(v \o w) = Len(v) + Len(w)
    BY <2>1, ConcatFacts
  <2>3. Len(v) \in Nat /\ Len(w) \in Nat /\ (v = <<>> <=> Len(v) = 0)
    BY <2>1, SeqFacts
  <2>4. v \o w = <<>> <=> Len(v \o w) = 0
    BY <2>2, SeqFacts
  <2> QED BY <2>2, <2>3, <2>4
<1>9. DOMAIN item = {"vals", "stamp"} /\ item.vals = v \o w
  OBVIOUS
<1> HIDE DEF item, v, w
<1>10. ItemsOK(items)
  BY <1>6, <1>8, <1>9, PutFacts
<1>11. \A g : g \in DOMAIN items <=> g \in DOMAIN cache[p] \/ g = f
  BY DEF Put
<1>12. items[f] = item /\ \A g \in DOMAIN cache[p] : g # f => items[g] = cache[p][g]
  BY DEF Put
<1> HIDE DEF items
<1>13. ASSUME NEW g \in DOMAIN cache[p], cache[p][g].vals # <<>> PROVE items[g].vals # <<>>
  BY <1>7, <1>8, <1>9, <1>12, <1>13 DEF v
<1>14. QueueOK(queue[p], items)
  BY <1>6, <1>11, <1>13 DEF QueueOK
<1>15. CASE queue' = queue
  BY <1>1, <1>3, <1>10, <1>14, <1>15, OneCache
<1>16. CASE item.vals # <<>> /\ queue' = [queue EXCEPT ![p] = AtTail(queue[p], f)]
  <2>1. Distinct(AtTail(queue[p], f)) /\ Elems(AtTail(queue[p], f)) \subseteq Elems(queue[p]) \union {f}
    BY <1>6, AtTailFacts DEF QueueOK
  <2>2. QueueOK(AtTail(queue[p], f), items)
    BY <1>11, <1>12, <1>14, <1>16, <2>1 DEF QueueOK
  <2> QED BY <1>1, <1>3, <1>10, <1>16, <2>2, OneCache
<1> QED BY <1>1, <1>15, <1>16

(* FLUSH puts a file first, FORGET takes it out.                             *)
LEMMA FlushCache ==
    ASSUME CacheInv, ConnsInv, NEW c \in Conns, FlushWaits(c) PROVE CacheInv'
<1> DEFINE p == conn[c].proc
           f == get_abs_path(TheLine(conn[c]).path)
<1>1. Pending(p, f) /\ queue' = [queue EXCEPT ![p] = AtHead(queue[p], f)] /\ cache' = cache
  BY DEF FlushWaits
<1>2. p \in Procs
  BY DEF FlushWaits, Gets, HasCommand, ConnsInv, Sound, Flow
<1> HIDE DEF p, f
<1>3. ItemsOK(cache[p]) /\ QueueOK(queue[p], cache[p])
  BY <1>2 DEF CacheInv
<1>4. QueueOK(AtHead(queue[p], f), cache[p])
  BY <1>1, <1>3, AtHeadFacts DEF QueueOK, Pending, Cached
<1> QED BY <1>1, <1>2, <1>3, <1>4, OneCache

(* FORGET takes the item out, and out of the queue (handle_request_forget).  *)
LEMMA ForgetCache ==
    ASSUME CacheInv, ConnsInv, NEW c \in Conns, Forget(c) PROVE CacheInv'
<1> DEFINE p == conn[c].proc
           f == get_abs_path(TheLine(conn[c]).path)
           items == Without(cache[p], {f})
<1>1. \/ UNCHANGED <<cache, queue>>
      \/ cache' = [cache EXCEPT ![p] = items] /\ queue' = [queue EXCEPT ![p] = Unqueued(queue[p], f)]
  BY DEF Forget
<1>2. p \in Procs
  BY DEF Forget, Gets, HasCommand, ConnsInv, Sound, Flow
<1> HIDE DEF p, f
<1>3. ItemsOK(cache[p]) /\ QueueOK(queue[p], cache[p])
  BY <1>2 DEF CacheInv
<1>4. ItemsOK(items)
  BY <1>3, WithoutFacts
<1>5. QueueOK(Unqueued(queue[p], f), items)
  <2>1. Distinct(Unqueued(queue[p], f)) /\ Elems(Unqueued(queue[p], f)) \subseteq Elems(queue[p]) \ {f}
    BY <1>3, UnqueuedFacts DEF QueueOK
  <2> QED BY <1>3, <2>1 DEF QueueOK, Without
<1> HIDE DEF items
<1> QED BY <1>1, <1>2, <1>4, <1>5, CacheStays, OneCache

(* Whatever happens, what is queued is pending.                              *)
LEMMA CacheHolds ==
    ASSUME CacheInv, ConnsInv, Next PROVE CacheInv'
<1>1. ASSUME NEW p \in Procs, Process(p) \/ Crash(p) \/ Stop(p) PROVE CacheInv'
  <2>1. ASSUME FlushThread(p) PROVE CacheInv'
    BY <2>1, OldCache DEF FlushThread
  <2>2. ASSUME Start(p) \/ Check(p) \/ TakeOver(p) \/ BindUnix(p) \/ BindNetwork(p) \/ WritePid(p)
        PROVE  UNCHANGED <<cache, queue>>
    BY <2>2 DEF Start, Check, TakeOver, BindUnix, BindNetwork, WritePid, cacheVars
  <2>3. ASSUME CloseListenSockets(p) \/ Exit(p) \/ WriteOut(p) \/ Crash(p) \/ Stop(p)
        PROVE  UNCHANGED <<cache, queue>>
    BY <2>3 DEF CloseListenSockets, Exit, WriteOut, Crash, Stop, cacheVars
  <2> QED BY <1>1, <2>1, <2>2, <2>3, TakeFirstCache, CacheStays DEF Process
<1>2. ASSUME NEW c \in Conns, Accept(c) \/ Connection(c) PROVE CacheInv'
  <2>1. ASSUME FlushAll(c) PROVE CacheInv'
    <3>1. conn[c].proc \in Procs
      BY <2>1 DEF FlushAll, Gets, HasCommand, ConnsInv, Sound, Flow
    <3> QED BY <2>1, <3>1, OldCache DEF FlushAll
  <2>2. ASSUME Accept(c) \/ Leave(c) \/ ReadSome(c) \/ Quit(c) \/ Refuse(c) \/ BatchStart(c) \/ BatchDone(c)
        PROVE  UNCHANGED <<cache, queue>>
    BY <2>2 DEF Accept, Leave, ReadSome, Quit, Refuse, BatchStart, BatchDone, cacheVars
  <2>3. ASSUME Stats(c) \/ Help(c) \/ Queue(c) \/ ShowPending(c) PROVE UNCHANGED <<cache, queue>>
    BY <2>3 DEF Stats, Help, Queue, ShowPending, PendingAt, Show, cacheVars
  <2>4. ASSUME RefuseUpdate(c) \/ FlushNothing(c) \/ FlushReturns(c) PROVE UNCHANGED <<cache, queue>>
    BY <2>4 DEF RefuseUpdate, FlushNothing, FlushReturns, cacheVars
  <2> QED BY <1>2, <2>1, <2>2, <2>3, <2>4, UpdateCache, FlushCache, ForgetCache, CacheStays
          DEF Connection, Handle
<1>3. ASSUME NEW c \in Conns, Raw(c) PROVE UNCHANGED <<cache, queue>>
  BY <1>3 DEF Raw, RawConnect, RawSend, RawLeave, rawUnchanged, cacheVars
<1>4. ASSUME rrdc_connect \/ ToolFails \/ UpdatesItself \/ Send PROVE UNCHANGED <<cache, queue>>
  BY <1>4 DEF rrdc_connect, ToolFails, UpdatesItself, Send, toolUnchanged, cacheVars
<1>5. ASSUME ReadsFile \/ GotAnswer \/ GotNothing \/ ToolExits PROVE UNCHANGED <<cache, queue>>
  BY <1>5 DEF ReadsFile, GotAnswer, GotNothing, ToolExits, toolUnchanged
<1> QED BY <1>1, <1>2, <1>3, <1>4, <1>5, CacheStays DEF Next, Server, Signals, Tool

-----------------------------------------------------------------------------
(* What the daemons do to their connections.                                 *)
AllGo == DOMAIN conn' = Conns /\ \A c \in Conns : Goes(conn[c], conn'[c])

(* Nothing happens to them.                                                  *)
LEMMA NoneGoes == ASSUME ConnShape, ConnsInv, conn' = conn PROVE AllGo
BY SoundGoes DEF ConnShape, ConnsInv, AllGo

(* One connection changes.                                                   *)
LEMMA OneGoes ==
    ASSUME ConnShape, ConnsInv, NEW c \in Conns, NEW k, Goes(conn[c], k), Change(c, k) PROVE AllGo
<1>1. conn' = [conn EXCEPT ![c] = k]
  BY DEF Change
<1>2. ASSUME NEW d \in Conns PROVE Goes(conn[d], conn'[d])
  BY <1>1, SoundGoes DEF ConnShape, ConnsInv
<1> QED BY <1>1, <1>2 DEF ConnShape, AllGo

(* What was said and sent stays in order.                                    *)
LEMMA ConnsGoOn == ASSUME ConnsInv, AllGo, job' = job PROVE ConnsInv'
BY DEF ConnsInv, AllGo, Goes, Raws

(* What HELP, STATS, QUEUE and PENDING show.                                 *)
LEMMA InfoFacts == ASSUME NEW k, Len(k.did) \in Nat, NEW count \in Nat PROVE NoStatus(Info(k, count))
<1> DEFINE e == Line(k, "info", 0)
<1>1. e \in Sentences /\ e.kind = "info"
  BY DEF Line, Sentences
<1>2. Info(k, count) = [i \in 1 .. count |-> e]
  BY DEF Info
<1> HIDE DEF e
<1>3. [i \in 1 .. count |-> e] \in Seq(Sentences) /\ Len([i \in 1 .. count |-> e]) = count
  BY <1>1
<1> QED BY <1>1, <1>2, <1>3 DEF NoStatus

(* Most answers bring no lines of their own.                                 *)
LEMMA NoInfo == ASSUME NEW info, info = <<>> PROVE NoStatus(info)
BY DEF NoStatus

(* A command is taken and answered.                                          *)
LEMMA ReplyGoes ==
    ASSUME ConnShape, ConnsInv, NEW c \in Conns, HasCommand(c),
           NEW h, Beside(TakeLine(conn[c]), h),
           NEW ok \in BOOLEAN, ok => TheLine(conn[c]).cmd # "BATCH" /\ TheLine(conn[c]).cmd # ".",
           NEW info, NoStatus(info), Reply(c, h, ok, info)
    PROVE  AllGo
<1> DEFINE k == conn[c]
<1>1. PICK m \in send_response(h, ok, info) : Change(c, m)
  BY DEF Reply
<1>2. Sound(k) /\ k.st = "open" /\ k.wait = None /\ HasLine(k)
  BY DEF ConnsInv, HasCommand
<1>3. Beside(TakeLine(k), h) /\ (ok => TheLine(k).cmd # "BATCH" /\ TheLine(k).cmd # ".")
  OBVIOUS
<1> HIDE DEF k
<1>4. Goes(k, m)
  BY <1>2, <1>3, AnswerGoes
<1> QED BY <1>1, <1>4, OneGoes DEF k

(* The line that is taken, and nothing else.                                 *)
LEMMA TakeFields == ASSUME NEW k, DOMAIN k = Fields PROVE Beside(TakeLine(k), TakeLine(k))
BY DEF Beside, TakeLine, Fields

(* A command that is neither BATCH nor the dot is answered without lines.    *)
LEMMA PlainReply ==
    ASSUME ConnShape, ConnsInv, NEW c \in Conns, HasCommand(c),
           NEW ok \in BOOLEAN, ok => TheLine(conn[c]).cmd # "BATCH" /\ TheLine(conn[c]).cmd # ".",
           Reply(c, TakeLine(conn[c]), ok, <<>>)
    PROVE  AllGo
<1> DEFINE h == TakeLine(conn[c])
<1>1. PICK info : info = <<>>
  OBVIOUS
<1>2. Beside(TakeLine(conn[c]), h)
  BY TakeFields DEF ConnShape
<1>3. Reply(c, h, ok, info)
  BY <1>1
<1> HIDE DEF h
<1> QED BY <1>1, <1>2, <1>3, NoInfo, ReplyGoes

(* The commands that only look.                                              *)
LEMMA ShowGoes ==
    ASSUME ConnShape, ConnsInv, NEW c \in Conns, NEW cmd, cmd # "BATCH", cmd # ".",
           NEW ok \in BOOLEAN, NEW count \in Nat, Show(c, cmd, ok, count)
    PROVE  AllGo
<1> DEFINE h == TakeLine(conn[c])
           info == Info(h, count)
<1>0. HasCommand(c) /\ TheLine(conn[c]).cmd = cmd /\ Reply(c, h, ok, info)
  BY DEF Show, Gets
<1>1. Beside(TakeLine(conn[c]), h)
  BY TakeFields DEF ConnShape
<1>2. Len(h.did) \in Nat
  <2>1. Sound(conn[c]) /\ conn[c].st = "open"
    BY <1>0 DEF ConnsInv, HasCommand
  <2>2. Asked(h, TheLine(conn[c]))
    BY <2>1, LineTaken DEF Sound
  <2> HIDE DEF h
  <2> QED BY <2>2, SeqFacts DEF Asked, Speech, DidOK
<1>3. NoStatus(info)
  BY <1>2, InfoFacts
<1> HIDE DEF h, info
<1> QED BY <1>0, <1>1, <1>3, ReplyGoes

(* UPDATE notes what it took from its line.                                  *)
LEMMA UpdateGoes == ASSUME ConnShape, ConnsInv, NEW c \in Conns, Update(c) PROVE AllGo
<1> DEFINE k == conn[c]
           t == Taken(Item(k.proc, get_abs_path(TheLine(k).path)).stamp, TheLine(k).vals)
           u == [TakeLine(k) EXCEPT !.took = Append(@, [of |-> Len(k.did) + 1, vals |-> t.took])]
<1>1. Reply(c, u, Accepts(t), <<>>) /\ HasCommand(c) /\ TheLine(k).cmd = "UPDATE"
  BY DEF Update, Gets
<1>2. Beside(TakeLine(k), u)
  <2>1. DOMAIN TakeLine(k) = Fields
    BY DEF ConnShape, TakeLine, Fields
  <2> DEFINE h == TakeLine(k)
  <2>2. u = [h EXCEPT !.took = u.took]
    BY <2>1 DEF Fields
  <2> HIDE DEF h, u
  <2>3. Beside(h, u)
    BY <2>1, <2>2 DEF h, Beside, Fields
  <2> QED BY <2>3 DEF h
<1>3. Accepts(t) \in BOOLEAN
  BY DEF Accepts
<1>4. PICK info : info = <<>>
  OBVIOUS
<1>5. PICK ok \in BOOLEAN : ok = Accepts(t)
  BY <1>3
<1>6. Reply(c, u, ok, info)
  BY <1>1, <1>4, <1>5
<1>7. TheLine(k).cmd # "BATCH" /\ TheLine(k).cmd # "."
  BY <1>1
<1> HIDE DEF u, t
<1> QED BY <1>1, <1>2, <1>4, <1>6, <1>7, NoInfo, ReplyGoes

(* Who is woken, or freed of what it waited for, says and hears what it did. *)
LEMMA WokenGoes ==
    ASSUME ConnShape, ConnsInv, NEW p, NEW f
    PROVE  /\ DOMAIN Woken(conn, p, f) = Conns /\ DOMAIN Forgotten(conn, p, f) = Conns
           /\ \A c \in Conns : /\ Goes(conn[c], Woken(conn, p, f)[c])
                               /\ Goes(conn[c], Forgotten(conn, p, f)[c])
<1>1. ASSUME NEW c \in Conns PROVE Beside(conn[c], Woken(conn, p, f)[c])
  BY DEF ConnShape, Beside, Fields, Woken
<1>2. ASSUME NEW c \in Conns PROVE Beside(conn[c], Forgotten(conn, p, f)[c])
  <2>1. CASE conn[c].wait = f
    <3> DEFINE w == Woken(conn, p, f)[c]
    <3>1. Beside(conn[c], w)  BY <1>1
    <3>2. Forgotten(conn, p, f)[c] = [w EXCEPT !.due = <<>>]
      BY <2>1 DEF Forgotten
    <3> HIDE DEF w
    <3> QED BY <3>1, <3>2 DEF Beside, Fields
  <2>2. CASE conn[c].wait # f
    BY <2>2 DEF ConnShape, Forgotten, Beside
  <2> QED BY <2>1, <2>2
<1> QED BY <1>1, <1>2, BesideGoes DEF Woken, Forgotten, ConnsInv

(* FORGET wakes others and is answered.                                      *)
LEMMA ForgetGoes == ASSUME ConnShape, ConnsInv, NEW c \in Conns, Forget(c) PROVE AllGo
<1> DEFINE k == conn[c]
           p == k.proc
           f == get_abs_path(TheLine(k).path)
<1>0. HasCommand(c) /\ TheLine(k).cmd = "FORGET"
  BY DEF Forget, Gets
<1>1. CASE Allowed(TheLine(k)) /\ Cached(p, f)
  <2>1. PICK m \in send_response(TakeLine(k), TRUE, <<>>) : conn' = [Forgotten(conn, p, f) EXCEPT ![c] = m]
    BY <1>1 DEF Forget
  <2>2. Goes(k, m)
    <3> DEFINE h == TakeLine(k)
    <3>0. PICK info : info = <<>>
      OBVIOUS
    <3>1. PICK ok \in BOOLEAN : ok = TRUE
      OBVIOUS
    <3>2. m \in send_response(h, ok, info)
      BY <2>1, <3>0, <3>1
    <3>3. Beside(TakeLine(k), h)
      BY TakeFields DEF ConnShape
    <3>4. Sound(k) /\ k.st = "open" /\ k.wait = None /\ HasLine(k)
      BY <1>0 DEF ConnsInv, HasCommand
    <3>5. TheLine(k).cmd # "BATCH" /\ TheLine(k).cmd # "."
      BY <1>0
    <3> HIDE DEF h, k
    <3> QED BY <3>0, <3>1, <3>2, <3>3, <3>4, <3>5, NoInfo, AnswerGoes
  <2> DEFINE F == Forgotten(conn, p, f)
  <2>3. DOMAIN F = Conns /\ \A d \in Conns : Goes(conn[d], F[d])
    BY WokenGoes
  <2>4. conn' = [F EXCEPT ![c] = m]
    BY <2>1
  <2> HIDE DEF F
  <2> QED BY <2>2, <2>3, <2>4 DEF AllGo
<1>2. CASE ~(Allowed(TheLine(k)) /\ Cached(p, f))
  <2>1. PICK ok \in BOOLEAN : ok = FALSE
    OBVIOUS
  <2>2. Reply(c, TakeLine(k), ok, <<>>)
    BY <1>2, <2>1 DEF Forget
  <2> QED BY <1>0, <2>1, <2>2, PlainReply
<1> QED BY <1>1, <1>2

(* FLUSH that waits, and one that is woken.                                  *)
LEMMA FlushGoes == ASSUME ConnShape, ConnsInv, NEW c \in Conns, FlushWaits(c) \/ FlushReturns(c) PROVE AllGo
<1>1. ASSUME FlushWaits(c) PROVE AllGo
  <2> DEFINE k == conn[c]
             f == get_abs_path(TheLine(k).path)
             busy == writing[k.proc].file = f
             due == IF busy THEN <<>> ELSE cache[k.proc][f].vals
             u == [TakeLine(k) EXCEPT !.wait = f, !.woken = FALSE, !.due = due]
  <2>1. Change(c, u)
    BY <1>1 DEF FlushWaits
  <2>2. Sound(k) /\ k.st = "open" /\ k.wait = None /\ HasLine(k) /\ TheLine(k).cmd = "FLUSH"
    BY <1>1 DEF FlushWaits, Gets, HasCommand, ConnsInv
  <2> HIDE DEF due, f
  <2>3. Goes(k, u)
    <3> HIDE DEF k
    <3> QED BY <2>2, FlushWaitsGoes
  <2> HIDE DEF u
  <2> QED BY <2>1, <2>3, OneGoes
<1>2. ASSUME FlushReturns(c) PROVE AllGo
  <2> DEFINE k == conn[c]
  <2>1. PICK m \in send_response([k EXCEPT !.wait = None, !.woken = FALSE, !.due = <<>>], TRUE, <<>>) : Change(c, m)
    BY <1>2 DEF FlushReturns, Reply
  <2>2. Sound(k) /\ k.wait # None
    BY <1>2 DEF FlushReturns, ConnsInv
  <2> HIDE DEF k
  <2>3. Goes(k, m)
    BY <2>1, <2>2, FlushReturnsGoes
  <2> QED BY <2>1, <2>3, OneGoes DEF k
<1> QED BY <1>1, <1>2

(* BATCH and the dot.                                                        *)
LEMMA BatchGoes == ASSUME ConnShape, ConnsInv, NEW c \in Conns, BatchStart(c) \/ BatchDone(c) PROVE AllGo
<1> DEFINE k == conn[c]
<1>1. ASSUME BatchStart(c) PROVE AllGo
  <2>1. PICK g \in send_response(TakeLine(k), TRUE, <<>>) :
           Change(c, IF g.st = "open" THEN [g EXCEPT !.batch = TRUE, !.cmds = 0] ELSE g)
    BY <1>1 DEF BatchStart
  <2>2. Sound(k) /\ k.st = "open" /\ k.wait = None /\ HasLine(k) /\ TheLine(k).cmd = "BATCH" /\ Admitted(k, "BATCH")
    BY <1>1 DEF BatchStart, Gets, HasCommand, ConnsInv
  <2> DEFINE m == IF g.st = "open" THEN [g EXCEPT !.batch = TRUE, !.cmds = 0] ELSE g
  <2>3. Goes(k, m)
    <3> HIDE DEF k
    <3> QED BY <2>1, <2>2, BatchStartGoes
  <2>4. Change(c, m)
    BY <2>1
  <2> HIDE DEF m
  <2> QED BY <2>3, <2>4, OneGoes
<1>2. ASSUME BatchDone(c) PROVE AllGo
  <2>1. PICK m \in send_response([TakeLine(k) EXCEPT !.batch = FALSE, !.cmds = 0], TRUE, <<>>) : Change(c, m)
    BY <1>2 DEF BatchDone, Reply
  <2>2. Sound(k) /\ k.st = "open" /\ k.wait = None /\ HasLine(k) /\ TheLine(k).cmd = "." /\ Admitted(k, ".")
    BY <1>2 DEF BatchDone, Gets, HasCommand, ConnsInv
  <2> HIDE DEF k
  <2>3. Goes(k, m)
    BY <2>1, <2>2, BatchDoneGoes
  <2> QED BY <2>1, <2>3, OneGoes DEF k
<1> QED BY <1>1, <1>2

(* Every command, and what a thread does in between.                         *)
LEMMA ConnectionGoes ==
    ASSUME ConnShape, ConnsInv, CacheInv, NEW c \in Conns, Accept(c) \/ Connection(c) PROVE AllGo
<1> DEFINE k == conn[c]
<1>0. Sound(k)
  BY DEF ConnsInv
<1>1. ASSUME Accept(c) PROVE AllGo
  <2>1. Goes(k, [k EXCEPT !.st = "open"])
    BY <1>0, <1>1, OpensGoes DEF Accept
  <2> QED BY <1>1, <2>1, OneGoes DEF Accept
<1>2. ASSUME Leave(c) PROVE AllGo
  <2>1. k.st = "open" /\ Change(c, Closed(k))
    BY <1>2 DEF Leave, Polling
  <2>2. Goes(k, Closed(k))
    BY <1>0, <2>1, ClosedGoes DEF Sound, Talk
  <2> QED BY <2>1, <2>2, OneGoes
<1>3. ASSUME ReadSome(c) PROVE AllGo
  <2>1. PICK n \in 1 .. Len(k.up) :
           /\ n <= Room(k)
           /\ Change(c, [k EXCEPT !.rbuf = @ \o SubSeq(k.up, 1, n), !.up = SubSeq(k.up, n + 1, Len(k.up))])
    BY <1>3 DEF ReadSome
  <2> DEFINE m == [k EXCEPT !.rbuf = @ \o SubSeq(k.up, 1, n), !.up = SubSeq(k.up, n + 1, Len(k.up))]
  <2>2. Goes(k, m)
    <3> HIDE DEF k
    <3> QED BY <1>0, <2>1, ReadGoes
  <2>3. Change(c, m)
    BY <2>1
  <2> HIDE DEF m
  <2> QED BY <2>2, <2>3, OneGoes
<1>4. ASSUME Quit(c) PROVE AllGo
  <2>1. Change(c, Closed(TakeLine(k))) /\ k.st = "open" /\ k.wait = None /\ HasLine(k)
    BY <1>4 DEF Quit, HasCommand
  <2>2. Goes(k, Closed(TakeLine(k)))
    <3> HIDE DEF k
    <3> QED BY <1>0, <2>1, QuitGoes
  <2> QED BY <2>1, <2>2, OneGoes
<1>5. ASSUME NEW ok \in BOOLEAN, HasCommand(c), ok => TheLine(k).cmd \notin {"BATCH", "."},
             Reply(c, TakeLine(k), ok, <<>>)
      PROVE  AllGo
  BY <1>5, PlainReply
<1>6. ASSUME Refuse(c) \/ RefuseUpdate(c) PROVE AllGo
  <2>1. PICK ok \in BOOLEAN : ok = FALSE
    OBVIOUS
  <2>2. HasCommand(c) /\ Reply(c, TakeLine(k), ok, <<>>)
    BY <1>6, <2>1 DEF Refuse, RefuseUpdate, Gets
  <2> QED BY <1>5, <2>1, <2>2
<1>7. ASSUME FlushNothing(c) PROVE AllGo
  <2>1. HasCommand(c) /\ TheLine(k).cmd = "FLUSH"
    BY <1>7 DEF FlushNothing, Gets
  <2>2. PICK ok \in BOOLEAN : Reply(c, TakeLine(k), ok, <<>>)
    <3>1. CASE Reply(c, TakeLine(k), FALSE, <<>>)
      BY <3>1
    <3> DEFINE found == Cached(k.proc, get_abs_path(TheLine(k).path)) \/ Exists(get_abs_path(TheLine(k).path), "base")
    <3>2. CASE Reply(c, TakeLine(k), found, <<>>)
      <4>1. found \in BOOLEAN
        OBVIOUS
      <4> HIDE DEF found
      <4> QED BY <3>2, <4>1
    <3> QED BY <1>7, <3>1, <3>2 DEF FlushNothing
  <2> QED BY <1>5, <2>1, <2>2
<1>8. ASSUME FlushAll(c) PROVE AllGo
  <2>1. PICK ok \in BOOLEAN : ok = TRUE
    OBVIOUS
  <2>2. HasCommand(c) /\ TheLine(k).cmd = "FLUSHALL" /\ Reply(c, TakeLine(k), ok, <<>>)
    BY <1>8, <2>1 DEF FlushAll, Gets
  <2> QED BY <1>5, <2>1, <2>2
<1>9. ASSUME NEW cmd, cmd # "BATCH", cmd # ".", NEW b \in BOOLEAN, NEW count \in Nat, Show(c, cmd, b, count)
      PROVE  AllGo
  BY <1>9, ShowGoes
<1>10. ASSUME Stats(c) \/ Help(c) \/ Queue(c) PROVE AllGo
  <2>1. PICK b \in BOOLEAN : b = TRUE
    OBVIOUS
  <2>2. StatsLines \in Nat /\ HelpLines \in Nat
    BY DEF StatsLines, HelpLines
  <2>3. Len(queue[k.proc]) \in Nat
    <3>1. k.proc \in Procs
      BY <1>0, <1>10 DEF Stats, Help, Queue, Show, Gets, HasCommand, Sound, Flow
    <3> QED BY <3>1, SeqFacts DEF CacheInv, QueueOK, Distinct
  <2>4. ASSUME Stats(c) PROVE AllGo
    BY <1>9, <2>1, <2>2, <2>4 DEF Stats
  <2>5. ASSUME Help(c) PROVE AllGo
    BY <1>9, <2>1, <2>2, <2>5 DEF Help
  <2>6. ASSUME Queue(c) PROVE AllGo
    BY <1>9, <2>1, <2>3, <2>6 DEF Queue
  <2> QED BY <1>10, <2>4, <2>5, <2>6
<1>11. ASSUME ShowPending(c) PROVE AllGo
  <2>1. PICK b, count : Show(c, "PENDING", b, count) /\ b \in BOOLEAN /\ count \in Nat
    <3>1. k.proc \in Procs
      BY <1>0, <1>11 DEF ShowPending, Gets, HasCommand, Sound, Flow
    <3>2. CASE Show(c, "PENDING", FALSE, 0)
      BY <3>2
    <3>3. ASSUME NEW f, Cached(k.proc, f), Show(c, "PENDING", TRUE, Len(cache[k.proc][f].vals))
          PROVE  \E b, count : Show(c, "PENDING", b, count) /\ b \in BOOLEAN /\ count \in Nat
      <4>1. Len(cache[k.proc][f].vals) \in Nat
        BY <3>1, <3>3, SeqFacts DEF CacheInv, ItemsOK, Cached
      <4> QED BY <3>3, <4>1
    <3> QED BY <1>11, <3>2, <3>3 DEF ShowPending, PendingAt
  <2> QED BY <1>9, <2>1
<1> QED
  BY <1>1, <1>2, <1>3, <1>4, <1>6, <1>7, <1>8, <1>10, <1>11, UpdateGoes, ForgetGoes, FlushGoes, BatchGoes
  DEF Connection, Handle

(* Processes and signals: a crash cuts off the connections of the process,   *)
(* perhaps before an answer.                                                 *)
LEMMA ProcessGoes ==
    ASSUME ConnShape, ConnsInv, NEW p \in Procs, Process(p) \/ Crash(p) \/ Stop(p) PROVE AllGo
<1>1. ASSUME Start(p) \/ Check(p) \/ TakeOver(p) \/ BindUnix(p) \/ BindNetwork(p) PROVE AllGo
  BY <1>1, NoneGoes DEF Start, Check, TakeOver, BindUnix, BindNetwork
<1>2. ASSUME WritePid(p) \/ Exit(p) \/ FlushThread(p) \/ TakeFirst(p) \/ Stop(p) PROVE AllGo
  BY <1>2, NoneGoes DEF WritePid, Exit, FlushThread, TakeFirst, Stop
<1>3. ASSUME WriteOut(p) PROVE AllGo
  <2>1. conn' = conn \/ conn' = Woken(conn, p, writing[p].file)
    BY <1>3 DEF WriteOut, Announced
  <2> QED BY <2>1, NoneGoes, WokenGoes DEF AllGo
<1>4. ASSUME CloseListenSockets(p) PROVE AllGo
  <2>1. conn' = [c \in Conns |-> IF conn[c].proc = p /\ conn[c].st = "backlog" THEN Reset(conn[c]) ELSE conn[c]]
    BY <1>4 DEF CloseListenSockets
  <2>2. ASSUME NEW c \in Conns PROVE Goes(conn[c], conn'[c])
    BY <2>1, ResetGoes, SoundGoes DEF ConnsInv
  <2> QED BY <2>1, <2>2 DEF AllGo
<1>5. ASSUME Crash(p) PROVE AllGo
  <2>1. PICK silent \in SUBSET {c \in Conns : conn[c].proc = p} :
           conn' = [c \in Conns |-> IF conn[c].proc # p THEN conn[c]
                                    ELSE Reset(IF c \in silent THEN Unsent(conn[c]) ELSE conn[c])]
    BY <1>5 DEF Crash
  <2>2. ASSUME NEW c \in Conns PROVE Goes(conn[c], conn'[c])
    <3>1. /\ Goes(conn[c], conn[c]) /\ Goes(conn[c], Reset(conn[c]))
          /\ Goes(conn[c], Reset(Unsent(conn[c])))
      BY SoundGoes, ResetGoes, UnsentGoes DEF ConnsInv
    <3> QED BY <2>1, <3>1
  <2> QED BY <2>1, <2>2 DEF AllGo
<1> QED BY <1>1, <1>2, <1>3, <1>4, <1>5 DEF Process

-----------------------------------------------------------------------------
(* What the clients do.                                                      *)

(* Nothing was said yet on a connection that is opened, or is not in use.    *)
Silent(k) ==
    /\ DOMAIN k = Fields /\ k.did = <<>> /\ k.sent = <<>> /\ k.dn = <<>> /\ k.wbuf = <<>> /\ k.batch = FALSE
    /\ k.rbuf = <<>> /\ k.up = <<>> /\ k.asked = 0 /\ k.wait = None
    /\ k.st \in {"new", "backlog"} /\ (k.st # "new" => k.proc \in Procs)
(* Such a connection is sound, and carries whatever its client will say.     *)
LEMMA SilentSound ==
    ASSUME NEW k, Silent(k)
    PROVE  Sound(k) /\ \A L : Len(L) \in Nat => RawFlow(k, L)
<1> DEFINE d == k.did
<1>1. /\ Len(d) = 0 /\ IsSeq(d) /\ Len(k.sent) = 0 /\ k.sent \in Seq(Sentences) /\ k.dn \in Seq(Sentences)
      /\ Len(k.dn) = 0 /\ DOMAIN d = {} /\ DOMAIN k.sent = {} /\ k.wbuf \in Seq(Sentences) /\ Len(k.wbuf) = 0
  BY NothingIsSeq DEF Silent
<1> HIDE DEF d
<1>2. Owed(d) = {} /\ Statuses(k.sent) = {}
  BY <1>1 DEF Owed, Statuses
<1>3. ~InBatch(d, 1) /\ ~\E b \in 1 .. 0 : TRUE
  BY DEF InBatch
<1>4. Speech(d, k.sent, k.dn)
  <2>1. DidOK(d) /\ BatchesOK(d)
    BY <1>1, <1>3 DEF DidOK, BatchesOK
  <2>2. FramesOK(k.sent) /\ AnswersOK(d, k.sent) /\ ReadOK(k.sent, k.dn) /\ ReportsOK(d, k.sent)
    BY <1>1, <1>2 DEF Silent, FramesOK, AnswersOK, ReadOK, ReportsOK
  <2> QED BY <2>1, <2>2 DEF Speech
<1>5. Mood(d, k.batch, k.cmds, k.wbuf)
  <2>1. Len(d) + 1 = 1
    BY <1>1
  <2> QED BY <1>1, <1>3, <2>1 DEF Silent, Mood
<1>6. Talk(k)
  BY <1>4, <1>5 DEF Talk, Silent, d
<1>7. Flow(k)
  <2>1. Piecewise(k.rbuf) /\ Len(k.rbuf) = 0 /\ Piecewise(k.up)
    BY NothingIsSeq DEF Silent, Piecewise
  <2> QED BY <2>1, RrdProtocolAssumption DEF Silent, Flow
<1>8. ASSUME NEW L, Len(L) \in Nat PROVE RawFlow(k, L)
  <2> DEFINE T == k.rbuf \o k.up
  <2>1. IsSeq(T) /\ Len(T) = 0
    <3>1. IsSeq(k.rbuf) /\ IsSeq(k.up) /\ Len(k.rbuf) = 0 /\ Len(k.up) = 0
      BY NothingIsSeq DEF Silent
    <3> DEFINE s == k.rbuf
               t == k.up
    <3>2. IsSeq(s) /\ IsSeq(t) /\ Len(s) = 0 /\ Len(t) = 0
      BY <3>1
    <3> HIDE DEF s, t
    <3>3. IsSeq(s \o t) /\ Len(s \o t) = Len(s) + Len(t)
      BY <3>2, ConcatFacts
    <3>4. IsSeq(s \o t) /\ Len(s \o t) = 0
      BY <3>2, <3>3
    <3> QED BY <3>4 DEF s, t
  <2> HIDE DEF T
  <2>2. PICK f : f = <<>>
    OBVIOUS
  <2>3. Numbered(T, f, 0, 0, L)
    BY <2>1 DEF Numbered
  <2>4. Stream(T, 0, 0, L)
    BY <1>8, <2>1, <2>3 DEF Stream
  <2>5. k.asked = 0 /\ Len(k.did) = 0
    BY <1>1 DEF Silent, d
  <2>6. SaidInOrder(k.did, L)
    BY <2>5 DEF SaidInOrder
  <2> QED BY <2>4, <2>5, <2>6 DEF RawFlow, T
<1> QED BY <1>6, <1>7, <1>8 DEF Sound, Silent

(* The name of a socket leads to a process or nowhere (bind, unlink).        *)
SocketInv == DOMAIN socket = job.addrs /\ \A a \in job.addrs : socket[a] \in Procs \union {None}

(* A socket gets its name, loses it, or loses its process.                   *)
LEMMA SocketHolds == ASSUME SocketInv, Next PROVE SocketInv'
<1>0. job' = job
  BY JobStays
<1>1. ASSUME NEW p \in Procs, BindUnix(p) \/ BindNetwork(p) \/ CloseListenSockets(p) PROVE SocketInv'
  <2>1. \/ socket' = socket
        \/ \E v \in {p, None, socket[Addr(p)]} : socket' = [socket EXCEPT ![Addr(p)] = v]
    BY <1>1 DEF BindUnix, BindNetwork, CloseListenSockets
  <2> QED BY <1>0, <2>1 DEF SocketInv
<1>2. ASSUME NEW p \in Procs, Crash(p) PROVE SocketInv'
  <2>1. socket' = [a \in job.addrs |-> IF socket[a] = p /\ ~IsUnix(a) THEN None ELSE socket[a]]
    BY <1>2 DEF Crash
  <2> QED BY <1>0, <2>1 DEF SocketInv
<1>3. ASSUME socket' = socket PROVE SocketInv'
  BY <1>0, <1>3 DEF SocketInv
<1>4. ASSUME NEW p \in Procs, Process(p) \/ Stop(p), ~(BindUnix(p) \/ BindNetwork(p) \/ CloseListenSockets(p))
      PROVE  socket' = socket
  BY <1>4 DEF Process, Start, Check, TakeOver, WritePid, Exit, FlushThread, TakeFirst, WriteOut, Stop,
              startVars
<1>5. ASSUME NEW c \in Conns, Accept(c) \/ Leave(c) \/ ReadSome(c) PROVE socket' = socket
  BY <1>5 DEF Accept, Leave, ReadSome, startVars
<1>6. ASSUME NEW c \in Conns, Handle(c) PROVE socket' = socket
  BY <1>6 DEF Handle, Quit, Refuse, BatchStart, BatchDone, Stats, Help, Queue, ShowPending,
              PendingAt, Show, RefuseUpdate, Update, Forget, FlushAll, FlushNothing,
              FlushWaits, FlushReturns, startVars
<1>7. ASSUME NEW c \in Conns, Raw(c) PROVE socket' = socket
  BY <1>7 DEF Raw, RawConnect, RawSend, RawLeave, rawUnchanged, startVars
<1>8. ASSUME Tool PROVE socket' = socket
  BY <1>8 DEF Tool, rrdc_connect, ToolFails, UpdatesItself, Send, ReadsFile, GotAnswer, GotNothing,
              ToolExits, toolUnchanged, startVars
<1> QED BY <1>1, <1>2, <1>3, <1>4, <1>5, <1>6, <1>7, <1>8 DEF Next, Server, Signals, Connection

(* Three sequences, one after the other.                                     *)
LEMMA ConcatThree ==
    ASSUME NEW s, IsSeq(s), NEW t, IsSeq(t), NEW u, IsSeq(u) PROVE (s \o t) \o u = s \o (t \o u)
<1> DEFINE st == s \o t
           tu == t \o u
           a == st \o u
           b == s \o tu
           x == Len(s)
           y == Len(t)
           z == Len(u)
<1>1. x \in Nat /\ y \in Nat /\ z \in Nat
  BY SeqFacts
<1>2. IsSeq(st) /\ Len(st) = x + y /\ (\A i \in 1 .. x : st[i] = s[i]) /\ \A i \in 1 .. y : st[x + i] = t[i]
  BY ConcatFacts
<1>3. IsSeq(tu) /\ Len(tu) = y + z /\ (\A i \in 1 .. y : tu[i] = t[i]) /\ \A i \in 1 .. z : tu[y + i] = u[i]
  BY ConcatFacts
<1> HIDE DEF st, tu
<1>4. /\ IsSeq(a) /\ Len(a) = Len(st) + z
      /\ (\A i \in 1 .. Len(st) : a[i] = st[i]) /\ \A i \in 1 .. z : a[Len(st) + i] = u[i]
  <2>1. IsSeq(st)
    BY <1>2
  <2>2. IsSeq(a) /\ Len(a) = Len(st) + Len(u)
    BY <2>1, ConcatFacts
  <2>3. \A i \in 1 .. Len(st) : a[i] = st[i]
    BY <2>1, ConcatFacts
  <2>4. \A i \in 1 .. Len(u) : a[Len(st) + i] = u[i]
    BY <2>1, ConcatFacts
  <2> HIDE DEF a
  <2> QED BY <2>2, <2>3, <2>4
<1>5. /\ IsSeq(b) /\ Len(b) = x + Len(tu)
      /\ (\A i \in 1 .. x : b[i] = s[i]) /\ \A i \in 1 .. Len(tu) : b[x + i] = tu[i]
  <2>1. IsSeq(tu)
    BY <1>3
  <2>2. IsSeq(b) /\ Len(b) = Len(s) + Len(tu)
    BY <2>1, ConcatFacts
  <2>3. \A i \in 1 .. Len(s) : b[i] = s[i]
    BY <2>1, ConcatFacts
  <2>4. \A i \in 1 .. Len(tu) : b[Len(s) + i] = tu[i]
    BY <2>1, ConcatFacts
  <2> HIDE DEF b
  <2> QED BY <2>2, <2>3, <2>4
<1> HIDE DEF a, b, x, y, z
<1>6. Len(a) = x + y + z /\ Len(b) = x + y + z
  BY <1>1, <1>2, <1>3, <1>4, <1>5
<1>7. ASSUME NEW i \in 1 .. x + y + z PROVE a[i] = b[i]
  <2>1. CASE i <= x
    <3>1. i \in 1 .. x /\ i \in 1 .. Len(st)
      BY <1>1, <1>2, <2>1
    <3> QED BY <1>2, <1>4, <1>5, <3>1
  <2>2. CASE x < i /\ i <= x + y
    <3>1. PICK j \in 1 .. y : i = x + j
      <4>1. i - x \in 1 .. y /\ i = x + (i - x)
        BY <1>1, <2>2
      <4> QED BY <4>1
    <3>2. i \in 1 .. Len(st) /\ j \in 1 .. Len(tu)
      BY <1>1, <1>2, <1>3, <2>2, <3>1
    <3>3. a[i] = t[j]
      BY <1>2, <1>4, <3>1, <3>2
    <3>4. b[i] = t[j]
      BY <1>3, <1>5, <3>1, <3>2
    <3> QED BY <3>3, <3>4
  <2>3. CASE x + y < i
    <3>1. PICK j \in 1 .. z : i = (x + y) + j
      <4>1. i - (x + y) \in 1 .. z /\ i = (x + y) + (i - (x + y))
        BY <1>1, <2>3
      <4> QED BY <4>1
    <3>2. y + j \in 1 .. Len(tu) /\ i = x + (y + j)
      BY <1>1, <1>3, <3>1
    <3>3. a[i] = u[j]
      BY <1>2, <1>4, <3>1
    <3>4. b[i] = tu[y + j] /\ tu[y + j] = u[j]
      BY <1>3, <1>5, <3>1, <3>2
    <3> QED BY <3>3, <3>4
  <2> QED BY <1>1, <2>1, <2>2, <2>3
<1>8. a = b
  BY <1>4, <1>5, <1>6, <1>7, SameElements
<1> QED BY <1>8 DEF a, b, st, tu

(* A line goes out on a connection.                                          *)
Says(k, m, line) ==
    /\ DOMAIN m = Fields /\ m.up = k.up \o Pieces(line)
    /\ m.st = k.st /\ m.proc = k.proc /\ m.rbuf = k.rbuf /\ m.dn = k.dn /\ m.batch = k.batch
    /\ m.cmds = k.cmds /\ m.wbuf = k.wbuf /\ m.wait = k.wait /\ m.did = k.did /\ m.sent = k.sent
(* It goes behind what is on its way.                                        *)
LEMMA SaysSound ==
    ASSUME NEW k, Sound(k), NEW line, line.size \in Nat \ {0}, IsSeq(line.vals), NEW m, Says(k, m, line)
    PROVE  Sound(m) /\ m.rbuf \o m.up = (k.rbuf \o k.up) \o Pieces(line)
<1> DEFINE P == Pieces(line)
<1>1. Piecewise(P)
  <2>1. IsSeq(P) /\ Len(P) = line.size /\ \A i \in 1 .. line.size : P[i].line = line
    BY PiecesFacts
  <2> HIDE DEF P
  <2> QED BY <2>1 DEF Piecewise
<1> HIDE DEF P
<1>2. Piecewise(k.up) /\ Piecewise(k.rbuf)
  BY DEF Sound, Flow
<1>3. m.up = k.up \o P
  BY DEF Says, P
<1>4. Piecewise(m.up)
  BY <1>1, <1>2, <1>3, PiecewiseConcat
<1>5. Flow(m)
  BY <1>4 DEF Says, Sound, Flow
<1>6. Talk(m)
  BY DEF Says, Sound, Talk
<1>7. Sound(m)
  BY <1>5, <1>6 DEF Says, Sound
<1>8. (k.rbuf \o k.up) \o P = k.rbuf \o (k.up \o P)
  <2> DEFINE s == k.rbuf
             t == k.up
  <2>1. IsSeq(s) /\ IsSeq(t) /\ IsSeq(P)
    BY <1>1, <1>2 DEF Piecewise
  <2> HIDE DEF s, t
  <2>2. (s \o t) \o P = s \o (t \o P)
    BY <2>1, ConcatThree
  <2> QED BY <2>2 DEF s, t
<1>9. m.rbuf = k.rbuf
  BY DEF Says
<1> QED BY <1>3, <1>7, <1>8, <1>9 DEF P

(* One connection changes, and is sound after that; the others go on.        *)
LEMMA OneMoves ==
    ASSUME ConnsInv, job' = job, NEW c \in Conns, NEW k, Sound(k), c \in Raws => RawFlow(k, job.raw[c].lines),
           conn'[c] = k, \A d \in Conns : d # c => Goes(conn[d], conn'[d])
    PROVE  ConnsInv'
<1> SUFFICES ASSUME NEW d \in Conns
             PROVE  Sound(conn'[d]) /\ (d \in Raws => RawFlow(conn'[d], job.raw[d].lines))
  BY DEF ConnsInv, Raws
<1>1. CASE d = c
  BY <1>1
<1>2. CASE d # c
  BY <1>2 DEF ConnsInv, Goes
<1> QED BY <1>1, <1>2

(* A connection to a socket that somebody serves.                            *)
LEMMA OpenedSilent ==
    ASSUME SocketInv, NEW a \in job.addrs, Reachable(a) PROVE Silent(Opened(a))
<1>1. socket[a] \in Procs
  BY DEF SocketInv, Reachable
<1> QED BY <1>1 DEF Silent, Opened, Idle, Fields

(* Clients that pipeline (rawclient).                                        *)
LEMMA RawGoes ==
    ASSUME ConnShape, ConnsInv, SocketInv, job \in Jobs, NEW c \in Conns, Raw(c) PROVE ConnsInv'
<1> DEFINE k == conn[c]
           L == job.raw[c].lines
<1>0. job' = job
  BY DEF Raw, RawConnect, RawSend, RawLeave, rawUnchanged
<1>1. c \in Raws /\ Sound(k) /\ RawFlow(k, L)
  BY DEF Raw, RawConnect, RawSend, RawLeave, ConnsInv
<1>2. /\ job.raw[c].addr \in job.addrs /\ Len(L) \in Nat
      /\ \A i \in 1 .. Len(L) : L[i].size \in Nat \ {0} /\ L[i].vals \in Seq(Int)
  BY <1>1, RrdProtocolAssumption DEF Raws
<1>3. ASSUME NEW m, Sound(m), RawFlow(m, L), Change(c, m) PROVE ConnsInv'
  <2>1. conn' = [conn EXCEPT ![c] = m]
    BY <1>3 DEF Change
  <2>2. conn'[c] = m /\ \A d \in Conns : d # c => Goes(conn[d], conn'[d])
    BY <2>1, SoundGoes DEF ConnShape, ConnsInv
  <2> QED BY <1>0, <1>3, <2>2, OneMoves
<1>4. ASSUME RawConnect(c) PROVE ConnsInv'
  <2> DEFINE m == Opened(job.raw[c].addr)
  <2>1. Reachable(job.raw[c].addr) /\ Change(c, m)
    BY <1>4 DEF RawConnect
  <2>2. Silent(m)
    BY <1>2, <2>1, OpenedSilent
  <2> HIDE DEF m
  <2>3. Sound(m) /\ RawFlow(m, L)
    BY <1>2, <2>2, SilentSound
  <2> QED BY <1>3, <2>1, <2>3
<1>5. ASSUME RawSend(c) PROVE ConnsInv'
  <2> DEFINE next == k.asked + 1
             line == L[next]
             m == [k EXCEPT !.up = @ \o Pieces(line), !.asked = next]
  <2>1. /\ next <= Len(L) /\ (k.asked > 0 => L[k.asked].cmd # "endless") /\ Change(c, m)
    BY <1>5 DEF RawSend
  <2>2. k.asked \in Nat /\ Stream(k.rbuf \o k.up, Len(k.did), k.asked, L) /\ SaidInOrder(k.did, L)
    BY <1>1 DEF RawFlow, Stream
  <2>3. next \in 1 .. Len(L)
    BY <1>2, <2>1, <2>2
  <2>4. line.size \in Nat \ {0} /\ IsSeq(line.vals)
    BY <1>2, <2>3 DEF IsSeq
  <2>5. Stream((k.rbuf \o k.up) \o Pieces(line), Len(k.did), next, L)
    <3> DEFINE T == k.rbuf \o k.up
               n == Len(k.did)
               asked == k.asked
    <3>1. Stream(T, n, asked, L) /\ asked + 1 <= Len(L) /\ L[asked + 1].size \in Nat \ {0}
          /\ (asked > 0 => L[asked].cmd # "endless")
      BY <2>1, <2>2, <2>4
    <3> HIDE DEF T, n, asked, L
    <3>2. Stream(T \o Pieces(L[asked + 1]), n, asked + 1, L)
      BY <3>1, StreamSent
    <3> QED BY <3>2 DEF T, n, asked
  <2>6. Says(k, m, line) /\ m.asked = next
    <3>1. DOMAIN k = Fields
      BY <1>1 DEF Sound
    <3> HIDE DEF k, line, next
    <3> QED BY <3>1 DEF Says, Fields
  <2> HIDE DEF m
  <2>7. Sound(m) /\ m.rbuf \o m.up = (k.rbuf \o k.up) \o Pieces(line)
    <3> HIDE DEF k, line
    <3> QED BY <1>1, <2>4, <2>6, SaysSound
  <2>8. m.did = k.did
    BY <2>6 DEF Says
  <2>9. RawFlow(m, L)
    BY <2>2, <2>5, <2>6, <2>7, <2>8 DEF RawFlow
  <2> QED BY <1>3, <2>1, <2>7, <2>9
<1>6. ASSUME RawLeave(c) PROVE ConnsInv'
  <2> DEFINE m == [k EXCEPT !.hup = TRUE]
  <2>1. Change(c, m)
    BY <1>6 DEF RawLeave
  <2>2. Beside(k, m)
    BY <1>1 DEF Sound, Beside, Fields
  <2> HIDE DEF m
  <2>3. Goes(k, m)
    BY <1>1, <2>2, BesideGoes
  <2> QED BY <1>1, <1>3, <2>1, <2>3 DEF Goes
<1> QED BY <1>4, <1>5, <1>6 DEF Raw

(* The library hangs up.                                                     *)
LEMMA HungGoes ==
    ASSUME ConnShape, ConnsInv
    PROVE  DOMAIN Hung(conn) = Conns /\ \A c \in Conns : Goes(conn[c], Hung(conn)[c])
<1>1. CASE lib.sd = None
  BY <1>1, SoundGoes DEF ConnShape, ConnsInv, Hung
<1>2. CASE lib.sd # None
  <2> DEFINE h == [conn EXCEPT ![lib.sd].hup = TRUE]
  <2>1. Hung(conn) = h
    BY <1>2 DEF Hung
  <2>2. DOMAIN h = Conns
    BY DEF ConnShape
  <2>3. \A c \in Conns : Beside(conn[c], h[c])
    BY DEF ConnShape, Beside, Fields
  <2> HIDE DEF h
  <2>4. \A c \in Conns : Goes(conn[c], h[c])
    BY <2>3, BesideGoes DEF ConnsInv
  <2> QED BY <2>1, <2>2, <2>4
<1> QED BY <1>1, <1>2

(* The address that is named for a command is one of the job's.              *)
LEMMA NamedAddress ==
    ASSUME job \in Jobs, Len(results) + 1 \in 1 .. Len(job.tool), Named # None PROVE Named \in job.addrs
BY RrdProtocolAssumption DEF Named, Cmd

(* The request that the library sends is a line.                             *)
LEMMA RequestIsLine ==
    ASSUME job \in Jobs, Len(results) + 1 \in 1 .. Len(job.tool)
    PROVE  Request.size \in Nat \ {0} /\ IsSeq(Request.vals)
<1>1. Cmd.tool \in {"update", "flushcached", "fetch", "stats"} /\ Cmd.vals \in Seq(Int)
  BY RrdProtocolAssumption DEF Cmd
<1>2. Request.size = 1 /\ (Request.vals = Cmd.vals \/ Request.vals = <<>>)
  BY <1>1 DEF Request
<1> QED BY <1>1, <1>2, NothingIsSeq DEF IsSeq

(* The library and the tool.                                                 *)
LEMMA ToolGoes ==
    ASSUME LInv, ConnsInv, SocketInv, job \in Jobs, AtWork => Len(results) + 1 \in 1 .. Len(job.tool), Tool
    PROVE  ConnsInv'
<1>0. job' = job /\ ConnShape
  BY JobStays DEF Next, LInv, Shape
<1>1. ASSUME AllGo PROVE ConnsInv'
  BY <1>0, <1>1, ConnsGoOn
<1>2. ASSUME conn' = conn PROVE ConnsInv'
  BY <1>0, <1>1, <1>2, NoneGoes
<1>3. ASSUME conn' = Hung(conn) PROVE ConnsInv'
  BY <1>0, <1>1, <1>3, HungGoes DEF AllGo
<1>4. ASSUME rrdc_connect PROVE ConnsInv'
  <2>1. CASE conn' = conn \/ conn' = Hung(conn)
    BY <1>2, <1>3, <2>1
  <2>2. ASSUME NEW c \in Conns, Named # None, Reachable(Named), IsFresh(c),
               conn' = [Hung(conn) EXCEPT ![c] = Opened(Named)]
        PROVE  ConnsInv'
    <3>1. Named \in job.addrs
      <4>1. Len(results) + 1 \in 1 .. Len(job.tool)
        <5>0. results \in Seq(Outcomes)
          BY DEF LInv, Shape
        <5>1. Len(results) \in Nat
          BY <5>0
        <5>2. Len(job.tool) \in Nat
          BY RrdProtocolAssumption
        <5>3. Len(results) < Len(job.tool)
          BY <1>4 DEF rrdc_connect
        <5> QED BY <5>1, <5>2, <5>3
      <4> QED BY <2>2, <4>1, NamedAddress
    <3> DEFINE m == Opened(Named)
               h == Hung(conn)
    <3>2. Silent(m)
      BY <2>2, <3>1, OpenedSilent
    <3>3. DOMAIN h = Conns /\ \A d \in Conns : Goes(conn[d], h[d])
      BY <1>0, HungGoes
    <3>4. conn' = [h EXCEPT ![c] = m]
      BY <2>2
    <3>5. c \notin Raws
      BY <2>2 DEF IsFresh
    <3> HIDE DEF m, h
    <3>6. Sound(m)
      BY <3>2, SilentSound
    <3>7. conn'[c] = m /\ \A d \in Conns : d # c => Goes(conn[d], conn'[d])
      BY <3>3, <3>4
    <3> QED BY <1>0, <3>5, <3>6, <3>7, OneMoves
  <2> QED BY <1>4, <2>1, <2>2 DEF rrdc_connect
<1>5. ASSUME ToolFails \/ UpdatesItself \/ ReadsFile PROVE conn' = conn
  BY <1>5 DEF ToolFails, UpdatesItself, ReadsFile
<1>6. ASSUME Send PROVE ConnsInv'
  <2>1. CASE conn' = conn
    BY <1>2, <2>1
  <2>2. CASE Change(lib.sd, [conn[lib.sd] EXCEPT !.up = @ \o Pieces(Request), !.asked = @ + 1])
    <3>1. lib.sd \in Conns /\ lib.sd \notin Raws /\ AtWork
      BY <1>6 DEF Send, rrdc_is_connected, LInv, LibraryInv, Carries, AtWork
    <3>2. PICK c \in Conns : c = lib.sd
      BY <3>1
    <3> DEFINE k == conn[c]
               line == Request
               m == [k EXCEPT !.up = @ \o Pieces(line), !.asked = @ + 1]
    <3>3. line.size \in Nat \ {0} /\ IsSeq(line.vals)
      BY <3>1, RequestIsLine
    <3> HIDE DEF line
    <3>4. Says(k, m, line) /\ Sound(k)
      <4>1. DOMAIN k = Fields /\ Sound(k)
        BY DEF ConnsInv, Sound
      <4> HIDE DEF k
      <4> QED BY <4>1 DEF Says, Fields
    <3>5. conn' = [conn EXCEPT ![c] = m]
      BY <2>2, <3>2 DEF line, Change
    <3> HIDE DEF m
    <3>6. Sound(m)
      <4> HIDE DEF k
      <4> QED BY <3>3, <3>4, SaysSound
    <3>7. conn'[c] = m /\ \A d \in Conns : d # c => Goes(conn[d], conn'[d])
      BY <1>0, <3>5, SoundGoes DEF ConnShape, ConnsInv
    <3> QED BY <1>0, <3>1, <3>2, <3>6, <3>7, OneMoves
  <2> QED BY <1>6, <2>1, <2>2 DEF Send
<1>7. ASSUME GotAnswer PROVE ConnsInv'
  <2>1. lib.sd \in Conns
    BY <1>7 DEF GotAnswer, LInv, LibraryInv, AtWork, Carries
  <2>2. PICK c \in Conns : c = lib.sd
    BY <2>1
  <2> DEFINE k == conn[c]
             m == [k EXCEPT !.dn = SubSeq(k.dn, AnswerLength(k.dn) + 1, Len(k.dn))]
  <2>3. k.dn # <<>> /\ Sound(k)
    BY <1>7, <2>2 DEF GotAnswer, ConnsInv
  <2>4. Goes(k, m)
    <3> HIDE DEF k
    <3> QED BY <2>3, AnswerReadGoes
  <2>5. Change(c, m)
    BY <1>7, <2>2 DEF GotAnswer, Change
  <2> HIDE DEF m
  <2>6. AllGo
    BY <1>0, <2>4, <2>5, OneGoes
  <2> QED BY <1>1, <2>6
<1>8. ASSUME GotNothing \/ ToolExits PROVE conn' = Hung(conn)
  BY <1>8 DEF GotNothing, ToolExits
<1> QED BY <1>2, <1>3, <1>4, <1>5, <1>6, <1>7, <1>8 DEF Tool

(* The tool works off its commands and then stops.                           *)
ToolInv ==
    /\ Len(results) <= Len(job.tool)
    /\ AtWork => Len(results) + 1 \in 1 .. Len(job.tool)
(* It never has more results than commands.                                  *)
LEMMA ToolHolds == ASSUME LInv, ToolInv, job \in Jobs, Next PROVE ToolInv'
<1>0. /\ job' = job /\ Len(job.tool) \in Nat /\ Len(results) \in Nat /\ results \in Seq(Outcomes)
      /\ lib \in LibTypes
  BY JobStays, RrdProtocolAssumption DEF LInv, Shape
<1>1. ASSUME lib' = lib, results' = results PROVE ToolInv'
  BY <1>0, <1>1 DEF ToolInv, AtWork
<1>2. ASSUME NEW out, NEW l, l \in {lib, [lib EXCEPT !.sd = None, !.sd_path = None]},
             Finish(out, l), AtWork
      PROVE  ToolInv'
  <2>1. DOMAIN l = DOMAIN lib /\ "pc" \in DOMAIN lib
    BY <1>0, <1>2 DEF LibTypes
  <2>2. lib' = [l EXCEPT !.pc = "next"] /\ results' = Append(results, Result(out))
    BY <1>2 DEF Finish
  <2>3. lib'.pc = "next"
    BY <2>1, <2>2
  <2>4. Len(results') = Len(results) + 1
    BY <1>0, <2>2
  <2> QED BY <1>0, <1>2, <2>3, <2>4 DEF ToolInv, AtWork
<1>3. ASSUME rrdc_connect PROVE ToolInv'
  <2>1. results' = results /\ Len(results) < Len(job.tool)
    BY <1>3 DEF rrdc_connect
  <2> QED BY <1>0, <2>1 DEF ToolInv
<1>4. ASSUME ToolFails \/ UpdatesItself \/ ReadsFile PROVE ToolInv'
  <2>1. AtWork /\ \E out : Finish(out, lib)
    BY <1>4 DEF ToolFails, UpdatesItself, ReadsFile, ReadsItself, AtWork
  <2> QED BY <1>2, <2>1
<1>5. ASSUME Send PROVE ToolInv'
  <2>1. AtWork
    BY <1>5 DEF Send, AtWork
  <2>2. CASE results' = results
    BY <1>0, <2>1, <2>2 DEF ToolInv
  <2>3. CASE results' = Append(results, Result("killed")) /\ lib' = [lib EXCEPT !.pc = "dead"]
    <3>1. lib'.pc = "dead"
      BY <1>0, <2>3 DEF LibTypes
    <3>2. Len(results') = Len(results) + 1
      BY <1>0, <2>3
    <3> QED BY <1>0, <2>1, <3>1, <3>2 DEF ToolInv, AtWork
  <2> QED BY <1>5, <2>2, <2>3 DEF Send
<1>6. ASSUME GotAnswer PROVE ToolInv'
  <2>1. AtWork
    BY <1>6 DEF GotAnswer, AtWork
  <2>2. (\E out : Finish(out, lib)) \/ results' = results
    BY <1>6 DEF GotAnswer, UpdateAnswered, StatsAnswered, FlushAnswered, FlushcachedAnswered, ReadsItself
  <2>3. CASE results' = results
    BY <1>0, <2>1, <2>3 DEF ToolInv
  <2> QED BY <1>2, <2>1, <2>2, <2>3
<1>7. ASSUME GotNothing PROVE ToolInv'
  BY <1>2, <1>7 DEF GotNothing, AtWork
<1>8. ASSUME ToolExits PROVE ToolInv'
  <2>1. results' = results /\ lib' = [LibInit EXCEPT !.pc = lib.pc] /\ ~AtWork
    BY <1>8 DEF ToolExits, AtWork
  <2>2. lib'.pc = lib.pc
    BY <2>1 DEF LibInit
  <2> QED BY <1>0, <2>1, <2>2 DEF ToolInv, AtWork
<1>9. ASSUME NEW c \in Conns, Raw(c) PROVE lib' = lib /\ results' = results
  BY <1>9 DEF Raw, RawConnect, RawSend, RawLeave, rawUnchanged, libVars
<1> QED BY <1>1, <1>3, <1>4, <1>5, <1>6, <1>7, <1>8, <1>9 DEF Next, Tool, libVars

-----------------------------------------------------------------------------
(* The invariant: what is queued is pending, sockets lead to processes, and  *)
(* on each connection the daemon takes the lines of its client in their      *)
(* order and owes an answer to none but the last one it took.                *)
TInv == CacheInv /\ SocketInv /\ ConnsInv /\ ToolInv

(* At the beginning nothing is cached, bound, connected or done.             *)
LEMMA AnswersInit == ClientInit => TInv
<1> SUFFICES ASSUME ClientInit PROVE TInv
  OBVIOUS
<1>1. /\ job \in Jobs /\ conn = [c \in Conns |-> Idle] /\ lib = LibInit /\ results = <<>>
      /\ cache = [p \in Procs |-> <<>>] /\ queue = [p \in Procs |-> <<>>]
      /\ socket = [a \in job.addrs |-> None]
  BY DEF ClientInit, Init
<1>2. CacheInv
  <2>1. PICK e : e = <<>>
    OBVIOUS
  <2>2. ItemsOK(e)
    <3>1. DOMAIN e = {}
      BY <2>1
    <3> QED BY <3>1, FS_EmptySet DEF ItemsOK
  <2>3. QueueOK(e, e)
    <3>1. IsSeq(e) /\ Len(e) = 0
      BY <2>1, NothingIsSeq
    <3> QED BY <3>1 DEF QueueOK, Distinct, Elems
  <2>4. \A p \in Procs : cache[p] = e /\ queue[p] = e
    BY <1>1, <2>1
  <2>5. DOMAIN cache = Procs /\ DOMAIN queue = Procs
    BY <1>1
  <2> QED BY <2>2, <2>3, <2>4, <2>5 DEF CacheInv
<1>3. SocketInv
  BY <1>1 DEF SocketInv
<1>4. ConnsInv
  <2> SUFFICES ASSUME NEW c \in Conns
               PROVE  Sound(conn[c]) /\ (c \in Raws => RawFlow(conn[c], job.raw[c].lines))
    BY DEF ConnsInv
  <2>1. Silent(conn[c])
    BY <1>1 DEF Silent, Idle, Fields
  <2>2. c \in Raws => Len(job.raw[c].lines) \in Nat
    BY <1>1, RrdProtocolAssumption DEF Raws
  <2> QED BY <2>1, <2>2, SilentSound
<1>5. ToolInv
  <2>1. Len(results) = 0 /\ ~AtWork
    BY <1>1 DEF LibInit, AtWork
  <2>2. Len(job.tool) \in Nat
    BY <1>1, RrdProtocolAssumption
  <2> QED BY <2>1, <2>2 DEF ToolInv
<1> QED BY <1>2, <1>3, <1>4, <1>5 DEF TInv

(* Every step of a daemon, of a client or of the tool keeps it.              *)
LEMMA AnswersStep == IInv /\ LInv /\ TInv /\ [Next]_vars => TInv'
<1> SUFFICES ASSUME IInv, LInv, TInv, [Next]_vars PROVE TInv'
  OBVIOUS
<1>0. CacheInv /\ SocketInv /\ ConnsInv /\ ToolInv /\ job \in Jobs /\ ConnShape
  BY DEF TInv, IInv, Types, LInv, Shape
<1>1. CASE Next
  <2>1. CacheInv' /\ SocketInv' /\ ToolInv' /\ job' = job
    BY <1>0, <1>1, CacheHolds, SocketHolds, ToolHolds, JobStays
  <2>2. CASE Server \/ Signals
    <3>1. AllGo
      BY <1>0, <2>2, ProcessGoes, ConnectionGoes DEF Server, Signals
    <3>2. ConnsInv'
      BY <1>0, <2>1, <3>1, ConnsGoOn
    <3> QED BY <2>1, <3>2 DEF TInv
  <2>3. CASE \E c \in Conns : Raw(c)
    <3>1. ConnsInv'
      BY <1>0, <2>3, RawGoes
    <3> QED BY <2>1, <3>1 DEF TInv
  <2>4. CASE Tool
    <3>1. ConnsInv'
      BY <1>0, <2>4, ToolGoes DEF ToolInv
    <3> QED BY <2>1, <3>1 DEF TInv
  <2> QED BY <1>1, <2>2, <2>3, <2>4 DEF Next
<1>2. CASE UNCHANGED vars
  <2>1. UNCHANGED <<job, socket, cache, queue, conn, lib, results>>
    BY <1>2 DEF vars, serverVars
  <2> QED BY <1>0, <2>1 DEF TInv, CacheInv, SocketInv, ConnsInv, Raws, ToolInv, AtWork
<1> QED BY <1>1, <1>2

(* All three invariants at once.                                             *)
LEMMA AnswersHold == Spec => [](IInv /\ LInv /\ TInv)
<1>1. ClientInit => IInv /\ LInv /\ TInv
  BY NobodyClaims, InitHolds, AnswersInit DEF ClientInit
<1>2. IInv /\ LInv /\ TInv /\ [Next]_vars => (IInv /\ LInv /\ TInv)'
  BY NextHolds, LibraryNext, AnswersStep
<1> QED BY <1>1, <1>2, PTL DEF Spec

(* Each line that a client has sent gets its answer, in order: however the   *)
(* lines are pipelined and cut up on their way, whatever a batch holds back, *)
(* who is woken, forgotten, stopped or crashes meanwhile (next_cmd,          *)
(* handle_request, send_response, count_lines, connection_thread_main).      *)
THEOREM EachLineAnswered == Spec => []RepliesMatchRequests
<1>1. TInv => RepliesMatchRequests
  <2> SUFFICES ASSUME TInv, NEW c \in Conns
               PROVE  LET s == conn[c].sent
                          did == conn[c].did
                      IN  /\ s # <<>> => s[1].kind = "status"
                          /\ \A i \in Statuses(s) : FramedAt(s, i)
                          /\ {s[i].of : i \in Statuses(s)} = Owed(did)
                          /\ \A i, j \in Statuses(s) : i < j => s[i].of < s[j].of
                          /\ c \in Raws => \A i \in DOMAIN did : did[i].line = job.raw[c].lines[i]
    BY DEF RepliesMatchRequests
  <2>1. Speech(conn[c].did, conn[c].sent, conn[c].dn)
    BY DEF TInv, ConnsInv, Sound, Talk
  <2>2. FramesOK(conn[c].sent) /\ AnswersOK(conn[c].did, conn[c].sent) /\ DidOK(conn[c].did)
    BY <2>1 DEF Speech
  <2>3. c \in Raws => SaidInOrder(conn[c].did, job.raw[c].lines)
    BY DEF TInv, ConnsInv, RawFlow
  <2>4. DOMAIN conn[c].did = 1 .. Len(conn[c].did)
    BY <2>2, SeqFacts DEF DidOK
  <2> QED BY <2>2, <2>3, <2>4 DEF FramesOK, AnswersOK, SaidInOrder
<1> QED BY <1>1, AnswersHold, PTL

(* The answer to the dot lists the commands of its batch that failed, all of *)
(* them and no others (batch_start, handle_request, batch_done).             *)
THEOREM FailuresReported == Spec => []BatchReportsFailures
<1>1. TInv => BatchReportsFailures
  <2> SUFFICES ASSUME TInv, NEW c \in Conns, NEW i \in Statuses(conn[c].sent),
                      Ends(conn[c].did, conn[c].sent[i].of)
               PROVE  LET s == conn[c].sent
                          did == conn[c].did
                      IN  /\ {s[i + j].n : j \in 1 .. s[i].n} = Failures(did, Opening(did, s[i].of), s[i].of)
                          /\ \A j, h \in 1 .. s[i].n : j < h => s[i + j].n < s[i + h].n
    BY DEF BatchReportsFailures
  <2> DEFINE s == conn[c].sent
             did == conn[c].did
             k == s[i].of
             b == Opening(did, k)
  <2>1. DidOK(did) /\ BatchesOK(did) /\ AnswersOK(did, s) /\ ReportsOK(did, s)
    BY DEF TInv, ConnsInv, Sound, Talk, Speech
  <2>2. k \in 1 .. Len(did)
    BY <2>1, SeqFacts DEF AnswersOK, Owed, DidOK
  <2>3. InBatch(did, k)
    BY <2>1, <2>2 DEF BatchesOK
  <2>4. b \in 1 .. k - 1 /\ OpenFrom(did, b, k)
    <3>1. \E j \in 1 .. k - 1 : OpenFrom(did, j, k)
      BY <2>3 DEF InBatch
    <3> HIDE DEF did, k
    <3> QED BY <3>1 DEF Opening
  <2> HIDE DEF b
  <2>5. Lists(s, i, s[i].n, Failures(did, b, k))
    BY <2>1, <2>4 DEF ReportsOK
  <2> QED BY <2>5 DEF Lists, b
<1> QED BY <1>1, AnswersHold, PTL

(* A read buffer never holds more than it can, a path is queued once and     *)
(* only while values of it are pending, and a thread that waits for a write  *)
(* has a connection to answer (connection_thread_main, enqueue_cache_item,   *)
(* flush_file).                                                              *)
THEOREM ProtocolTypes == Spec => []TypeOK
<1>1. IInv /\ LInv /\ TInv => TypeOK
  <2> SUFFICES ASSUME IInv, LInv, TInv PROVE TypeOK
    OBVIOUS
  <2>1. job \in Jobs /\ \A p \in Procs : phase[p] \in Phases
    BY DEF IInv, Types
  <2>2. ASSUME NEW p \in Procs PROVE IsInjective(queue[p]) /\ \A f \in Range(queue[p]) : Pending(p, f)
    <3>1. QueueOK(queue[p], cache[p])
      BY DEF TInv, CacheInv
    <3>2. DOMAIN queue[p] = 1 .. Len(queue[p])
      BY <3>1, SeqFacts DEF QueueOK, Distinct
    <3>3. IsInjective(queue[p])
      BY <3>1, <3>2 DEF QueueOK, Distinct, IsInjective
    <3>4. Range(queue[p]) = Elems(queue[p])
      BY <3>2 DEF Range, Elems
    <3> QED BY <3>1, <3>3, <3>4 DEF QueueOK, Pending, Cached
  <2>3. ASSUME NEW c \in Conns PROVE ConnOK(conn[c])
    BY DEF TInv, ConnsInv, Sound, Talk, Flow, ConnOK
  <2>4. lib.pc \in {"next", "ready", "reply", "dead"} /\ (lib.pc = "reply" => lib.sd # None)
    BY DEF LInv, Shape, LibTypes, LibraryInv, AtWork
  <2>5. Len(results) <= Len(job.tool)
    BY DEF TInv, ToolInv
  <2> QED BY <2>1, <2>2, <2>3, <2>4, <2>5 DEF TypeOK, Phases
<1> QED BY <1>1, AnswersHold, PTL
=============================================================================
