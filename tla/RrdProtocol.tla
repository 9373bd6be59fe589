---------------------------- MODULE RrdProtocol ----------------------------
(* rrdcached as its clients meet it: the pid file and the sockets, the read  *)
(* buffer of a connection and the command lines in it, permissions and       *)
(* contexts, BATCH, and the answers with their counts of lines.              *)
(*                                                                           *)
(* The cache is the one of Rrdcached, held coarsely: one queue thread, no    *)
(* journal, and a command is one step except for the wait of FLUSH.  A line  *)
(* is a record [cmd, path, vals, size] that travels in `size' pieces; a line *)
(* of cmd "endless" has no end.  A value is its time stamp; 0 is a value     *)
(* without one and -1 a field that cannot be read.  A path is a directory    *)
(* ("" when it is relative), whether "../" leads out of it, and a name.      *)
EXTENDS Integers, Sequences, FiniteSets, SequencesExt

CONSTANTS
    Procs,       \* processes of rrdcached; each is started at most once
    Conns,       \* connections, 1 .. n
    Jobs,        \* what happens in a behaviour, one record for each
    RbufSize,    \* pieces that the read buffer of a connection holds
    Stale,       \* the pid of a daemon that is no more
    None         \* no process, file, path, address or connection

(* What a job says of its processes and its clients; one pid file at most    *)
(* was left behind.  A line takes at least one piece.  rrdtool update has    *)
(* values to write (rrd_update), and escapes them, so that each can be read  *)
(* (buffer_add_string).                                                      *)
ASSUME RrdProtocolAssumption ==
    /\ {None, Stale} \cap Procs = {} /\ None # Stale /\ None \notin Conns
    /\ RbufSize \in Nat
    /\ \A j \in Jobs :
          /\ \A p \in j.starts : j.addr[p] \in j.addrs
          /\ \A a, b \in j.stale : a = b
          /\ j.env \in j.addrs \union {None}
          /\ \A c \in DOMAIN j.raw :
                /\ j.raw[c].addr \in j.addrs /\ Len(j.raw[c].lines) \in Nat
                /\ \A i \in 1 .. Len(j.raw[c].lines) :
                      j.raw[c].lines[i].size \in Nat \ {0} /\ j.raw[c].lines[i].vals \in Seq(Int)
          /\ Len(j.tool) \in Nat
          /\ \A i \in 1 .. Len(j.tool) :
                /\ j.tool[i].tool \in {"update", "flushcached", "fetch", "stats"}
                /\ j.tool[i].daemon \in j.addrs \union {None} /\ j.tool[i].vals \in Seq(Int)
                /\ j.tool[i].tool = "update" => j.tool[i].vals \in Seq(Nat) \ {<<>>}

VARIABLES
    job,         \* the job of this behaviour
    phase,       \* of a process: how far it has got
    pidFile,     \* of an address: the inode its pid file leads to, or None
    pidIn,       \* of an inode: the pid in it, or None when it is empty
    fd,          \* of a process: the inode it has open
    socket,      \* of an address: the process whose socket its name leads to
    cache,       \* of a process: the items by path
    queue,       \* of a process: the paths to be written
    writing,     \* of a process: the file and the values its queue thread has taken
    disk,        \* of a file: the time stamps in it
    conn,        \* of a connection: both ends and the thread that serves it
    budget,      \* crashes and stops that may still happen
    raced        \* history: addresses where two processes set out to take over one pid file
serverVars == <<job, phase, pidFile, pidIn, fd, socket, cache, queue, writing, disk, conn, budget, raced>>

(* An inode is named after the process that created it, or was left behind.  *)
Inodes == Procs \union {Stale}
Addr(p) == job.addr[p]
IsUnix(a) == a \in job.unix
Alive(p) == phase[p] \notin {"off", "gone", "dead"}
Serving(p) == phase[p] = "serve"

(* A connection: how far it has got; its address and process; how many lines *)
(* its client has sent, the pieces on their way to the daemon, whether the   *)
(* client has gone, the lines on their way back; the thread's                *)
(* read buffer, batch and its commands, write buffer, and the file whose     *)
(* write it waits for.  History: what became of the lines it took (ok, err,  *)
(* or none when nothing was answered), the lines sent, the values accepted   *)
(* from each command, and those a FLUSH waits for.                           *)
Idle == [st |-> "new", addr |-> None, proc |-> None, asked |-> 0, up |-> <<>>, hup |-> FALSE, dn |-> <<>>,
         rbuf |-> <<>>, batch |-> FALSE, cmds |-> 0, wbuf |-> <<>>, wait |-> None, woken |-> FALSE,
         did |-> <<>>, sent |-> <<>>, took |-> <<>>, due |-> <<>>]

(* A queue thread that waits has taken nothing.                              *)
Nothing == [file |-> None, vals |-> <<>>]

-----------------------------------------------------------------------------
(* Starting and leaving.                                                     *)

Init ==
    /\ job \in Jobs
    /\ phase = [p \in Procs |-> "off"]
    /\ pidFile = [a \in job.addrs |-> IF a \in job.stale THEN Stale ELSE None]
    /\ pidIn = [i \in Inodes |-> IF i = Stale THEN Stale ELSE None]
    /\ fd = [p \in Procs |-> None]
    /\ socket = [a \in job.addrs |-> None]
    /\ cache = [p \in Procs |-> <<>>]
    /\ queue = [p \in Procs |-> <<>>]
    /\ writing = [p \in Procs |-> Nothing]
    /\ disk = [f \in job.files |-> <<>>]
    /\ conn = [c \in Conns |-> Idle]
    /\ budget = [crash |-> job.crashes, stop |-> job.stops]
    /\ raced = {}

Enter(p, ph) == phase' = [phase EXCEPT ![p] = ph]
startVars == <<pidFile, pidIn, fd, socket, phase, raced>>
cacheVars == <<cache, queue, writing, disk>>

(* daemonize creates the pid file, or goes to look at the one that is there. *)
CreatesAnyway(p) == TRUE
CreatesPidFile(p) == pidFile[Addr(p)] = None
Start(p) ==
    /\ p \in job.starts /\ phase[p] = "off"
    /\ \A q \in job.after[p] : phase[q] \in {"gone", "dead"}
    /\ IF CreatesPidFile(p)
       THEN /\ pidFile' = [pidFile EXCEPT ![Addr(p)] = p]
            /\ fd' = [fd EXCEPT ![p] = p]
            /\ Enter(p, "bind")
       ELSE Enter(p, "check") /\ UNCHANGED <<pidFile, fd>>
    /\ UNCHANGED <<job, pidIn, socket, cacheVars, conn, budget, raced>>

(* check_pidfile: an unreadable or empty file, or a live process, refuses.   *)
Check(p) ==
    /\ phase[p] = "check"
    /\ LET i == pidFile[Addr(p)]
           ok == i # None /\ pidIn[i] # None /\ (pidIn[i] \in Procs => ~Alive(pidIn[i]))
       IN  /\ Enter(p, IF ok THEN "take" ELSE "gone")
           /\ fd' = [fd EXCEPT ![p] = IF ok THEN i ELSE None]
           /\ raced' = raced \union {Addr(p) : q \in {q \in Procs : ok /\ phase[q] = "take" /\ fd[q] = i}}
    /\ UNCHANGED <<job, pidFile, pidIn, socket, cacheVars, conn, budget>>

(* ... and a stale one is emptied.                                           *)
TakeOver(p) ==
    /\ phase[p] = "take"
    /\ pidIn' = [pidIn EXCEPT ![fd[p]] = None]
    /\ Enter(p, "bind")
    /\ UNCHANGED <<job, pidFile, fd, socket, cacheVars, conn, budget, raced>>

(* The name of a Unix socket is unlinked first, whoever's it is.             *)
BindUnix(p) ==
    /\ phase[p] = "bind" /\ IsUnix(Addr(p))
    /\ socket' = [socket EXCEPT ![Addr(p)] = p]
    /\ Enter(p, "write")
    /\ UNCHANGED <<job, pidFile, pidIn, fd, cacheVars, conn, budget, raced>>

(* The port of a network socket may be taken; then the pid file goes, too.   *)
BindNetwork(p) ==
    /\ phase[p] = "bind" /\ ~IsUnix(Addr(p))
    /\ IF socket[Addr(p)] = None
       THEN socket' = [socket EXCEPT ![Addr(p)] = p] /\ Enter(p, "write") /\ UNCHANGED pidFile
       ELSE pidFile' = [pidFile EXCEPT ![Addr(p)] = None] /\ Enter(p, "gone") /\ UNCHANGED socket
    /\ UNCHANGED <<job, pidIn, fd, cacheVars, conn, budget, raced>>

WritePid(p) ==
    /\ phase[p] = "write"
    /\ pidIn' = [pidIn EXCEPT ![fd[p]] = p]
    /\ Enter(p, "serve")
    /\ UNCHANGED <<job, pidFile, fd, socket, cacheVars, conn, budget, raced>>

Reset(k) == IF k.st \in {"backlog", "open"} THEN [k EXCEPT !.st = "closed", !.wait = None] ELSE k

(* A crash may come after a command was worked off and before its answer is  *)
(* sent.                                                                     *)
LastAnswer(k) == CHOOSE n \in DOMAIN k.dn : k.dn[n].of = Len(k.did) /\ k.dn[n].kind = "status"
Unsent(k) ==
    IF k.st = "open" /\ \E n \in DOMAIN k.dn : k.dn[n].of = Len(k.did) /\ k.dn[n].kind = "status"
    THEN [k EXCEPT !.dn = SubSeq(@, 1, LastAnswer(k) - 1),
                   !.sent = SubSeq(@, 1, Len(@) - (Len(k.dn) - LastAnswer(k) + 1)),
                   !.did[Len(k.did)].is = "none"]
    ELSE k

(* The port of a network socket is free when its process ends; the name of a *)
(* Unix one stays and leads nowhere.                                         *)
Crash(p) ==
    /\ budget.crash > 0 /\ Alive(p)
    /\ budget' = [budget EXCEPT !.crash = @ - 1]
    /\ Enter(p, "dead")
    /\ socket' = [a \in job.addrs |-> IF socket[a] = p /\ ~IsUnix(a) THEN None ELSE socket[a]]
    /\ \E silent \in SUBSET {c \in Conns : conn[c].proc = p} :
          conn' = [c \in Conns |-> IF conn[c].proc # p THEN conn[c]
                                   ELSE Reset(IF c \in silent THEN Unsent(conn[c]) ELSE conn[c])]
    /\ UNCHANGED <<job, pidFile, pidIn, fd, cacheVars, raced>>

(* A signal.  Then listen_thread_main closes its socket and unlinks the name, *)
(* whoever's it is by now.                                                   *)
Stop(p) ==
    /\ budget.stop > 0 /\ Serving(p)
    /\ budget' = [budget EXCEPT !.stop = @ - 1]
    /\ Enter(p, "stop")
    /\ UNCHANGED <<job, pidFile, pidIn, fd, socket, cacheVars, conn, raced>>

CloseListenSockets(p) ==
    /\ phase[p] = "stop"
    /\ Enter(p, "drain")
    /\ socket' = [socket EXCEPT ![Addr(p)] = IF IsUnix(Addr(p)) \/ @ = p THEN None ELSE @]
    /\ conn' = [c \in Conns |-> IF conn[c].proc = p /\ conn[c].st = "backlog" THEN Reset(conn[c]) ELSE conn[c]]
    /\ UNCHANGED <<job, pidFile, pidIn, fd, cacheVars, budget, raced>>

-----------------------------------------------------------------------------
(* The cache.                                                                *)

(* The file that a path leads to, with cwd for what is relative.             *)
Real(path, cwd) ==
    [dir |-> IF path.up THEN "else" ELSE IF path.dir = "" THEN cwd ELSE path.dir,
     up |-> FALSE, name |-> path.name]
Exists(path, cwd) == Real(path, cwd) \in job.files

get_abs_path(path) == IF path.dir = "" THEN [path EXCEPT !.dir = "base"] ELSE path

(* With -B a path must lie under the base directory and not leave it.        *)
check_file_access(path) == job.baseOnly => ~path.up /\ path.dir = "base"

Cached(p, f) == f \in DOMAIN cache[p]
Pending(p, f) == Cached(p, f) /\ cache[p][f].vals # <<>>
Put(items, f, item) == [g \in DOMAIN items \union {f} |-> IF g = f THEN item ELSE items[g]]
Without(items, fs) == [g \in DOMAIN items \ fs |-> items[g]]
Unqueued(q, f) == IF Contains(q, f) THEN RemoveAt(q, CHOOSE i \in DOMAIN q : q[i] = f) ELSE q
AtHead(q, f) == <<f>> \o Unqueued(q, f)
AtTail(q, f) == IF Contains(q, f) THEN q ELSE Append(q, f)

(* Values are taken until one cannot be read, or is not younger than the one *)
(* before.                                                                   *)
Taken(stamp, vals) ==
    LET forward(i) == vals[i] # -1 /\ vals[i] > (IF i = 1 THEN stamp ELSE vals[i - 1])
        n == Cardinality({m \in 1 .. Len(vals) : \A i \in 1 .. m : forward(i)})
    IN  [stamp |-> IF n = 0 THEN stamp ELSE vals[n],
         took |-> SubSeq(vals, 1, n),
         end |-> IF n = Len(vals) THEN "all" ELSE IF vals[n + 1] = -1 THEN "cut" ELSE "refused"]

(* rrd_update_r writes up to the first value that is not younger than the    *)
(* last one in the file.                                                     *)
LastOn(f) == IF disk[f] = <<>> THEN 0 ELSE Last(disk[f])
Written(f, vals) == [disk EXCEPT ![f] = @ \o Taken(LastOn(f), vals).took]

(* pthread_cond_broadcast of an item.                                        *)
WokenAll(cs, p, f) ==
    [c \in Conns |-> IF cs[c].proc = p /\ cs[c].wait # None THEN [cs[c] EXCEPT !.woken = TRUE] ELSE cs[c]]
Woken(cs, p, f) ==
    [c \in Conns |-> IF cs[c].proc = p /\ cs[c].wait = f THEN [cs[c] EXCEPT !.woken = TRUE] ELSE cs[c]]

(* The queue thread takes the values of the first item ...                   *)
TakeFirst(p) ==
    /\ Alive(p) /\ queue[p] # <<>> /\ writing[p].file = None
    /\ LET f == Head(queue[p]) IN
       /\ writing' = [writing EXCEPT ![p] = [file |-> f, vals |-> cache[p][f].vals]]
       /\ cache' = [cache EXCEPT ![p][f].vals = <<>>]
       /\ queue' = [queue EXCEPT ![p] = Tail(@)]
    /\ UNCHANGED <<job, startVars, disk, conn, budget>>

(* ... writes them, and wakes who waits for the file if it is still cached.  *)
AnnouncedAgain(cs, p, f) == IF Pending(p, f) THEN Woken(cs, p, f) ELSE cs
Announced(cs, p, f) == IF Cached(p, f) THEN Woken(cs, p, f) ELSE cs
WriteOut(p) ==
    /\ Alive(p) /\ writing[p].file # None
    /\ disk' = Written(Real(writing[p].file, "base"), writing[p].vals)
    /\ conn' = Announced(conn, p, writing[p].file)
    /\ writing' = [writing EXCEPT ![p] = Nothing]
    /\ UNCHANGED <<job, startVars, cache, queue, budget>>

(* When all connections have gone, what is cached is written and the name of *)
(* the pid file removed, whoever's it is by now.                             *)
Exit(p) ==
    /\ phase[p] = "drain" /\ writing[p].file = None /\ queue[p] = <<>>
    /\ \A f \in DOMAIN cache[p] : ~Pending(p, f)
    /\ \A c \in Conns : conn[c].proc = p => conn[c].st = "closed"
    /\ Enter(p, "gone")
    /\ pidFile' = [pidFile EXCEPT ![Addr(p)] = None]
    /\ UNCHANGED <<job, pidIn, fd, socket, cacheVars, conn, budget, raced>>

(* flush_old_values: items with values that are old enough are queued, and   *)
(* idle ones purged; FLUSHALL and a shutdown take every item as old.  A file *)
(* is not purged while it is written: that takes less than the interval of   *)
(* idleness, which begins when the values are taken.                         *)
Purged(p, idle) ==
    {f \in idle : Cached(p, f) /\ ~Pending(p, f) /\ writing[p].file # f}
FlushOldValues(p, old, idle) ==
    /\ queue' = [queue EXCEPT ![p] = @ \o SetToSeq({f \in old : Pending(p, f)} \ Range(@))]
    /\ cache' = [cache EXCEPT ![p] = Without(@, Purged(p, idle))]

FlushThread(p) ==
    /\ Alive(p) /\ DOMAIN cache[p] # {}
    /\ \/ /\ phase[p] \in {"stop", "drain"}
          /\ FlushOldValues(p, DOMAIN cache[p], {})
       \/ /\ job.ages /\ Serving(p)
          /\ \E f \in DOMAIN cache[p] : FlushOldValues(p, {f}, {f})
    /\ <<cache, queue>>' # <<cache, queue>>
    /\ UNCHANGED <<job, startVars, writing, disk, conn, budget>>

-----------------------------------------------------------------------------
(* A connection.                                                             *)

(* The line at the front of the read buffer, if all of it is there.          *)
HasLine(k) == \E i \in DOMAIN k.rbuf : k.rbuf[i].last
LineEnd(k) == CHOOSE i \in DOMAIN k.rbuf : k.rbuf[i].last /\ \A j \in 1 .. i - 1 : ~k.rbuf[j].last
Pieces(line) ==
    [i \in 1 .. line.size |-> [line |-> line, last |-> line.cmd # "endless" /\ i = line.size]]

(* The thread is at poll(2): it has no whole line and waits for none.        *)
Polling(k) == k.st = "open" /\ k.wait = None /\ ~HasLine(k)
Closed(k) == [k EXCEPT !.st = "closed", !.wait = None]
Change(c, k) == conn' = [conn EXCEPT ![c] = k]

Accept(c) ==
    /\ conn[c].st = "backlog" /\ Serving(conn[c].proc)
    /\ Change(c, [conn[c] EXCEPT !.st = "open"])
    /\ UNCHANGED <<job, startVars, cacheVars, budget>>

(* A Unix socket reports POLLHUP when the client is gone, before what it     *)
(* sent is read.                                                             *)
HungUp(k) == k.hup /\ (IsUnix(k.addr) \/ k.up = <<>>)
(* read(2) into a full buffer returns 0, like the end of the file.           *)
WholeBuffer(k) == RbufSize
Room(k) == RbufSize - Len(k.rbuf)
Leave(c) ==
    /\ LET k == conn[c] IN
       /\ Polling(k)
       /\ \/ ~Serving(k.proc)
          \/ HungUp(k)
          \/ k.up # <<>> /\ Room(k) = 0
       /\ Change(c, Closed(k))
    /\ UNCHANGED <<job, startVars, cacheVars, budget>>

ReadSome(c) ==
    /\ LET k == conn[c] IN
       /\ Polling(k) /\ Serving(k.proc) /\ ~HungUp(k)
       /\ \E n \in 1 .. Len(k.up) :
             /\ n <= Room(k)
             /\ Change(c, [k EXCEPT !.rbuf = @ \o SubSeq(k.up, 1, n), !.up = SubSeq(k.up, n + 1, Len(k.up))])
    /\ UNCHANGED <<job, startVars, cacheVars, budget>>

(* The commands, where they may be used, and who may use them.               *)
Commands == {"UPDATE", "WROTE", "FLUSH", "FLUSHALL", "PENDING", "FORGET", "QUEUE", "STATS", "HELP",
             "BATCH", ".", "QUIT"}
BatchCommands == {"UPDATE", "FLUSH", "FORGET", ".", "QUIT"}
ClientCommands == Commands \ {"WROTE", "."}
socket_permission_check(a, cmd) ==
    \/ cmd \in {"QUIT", "HELP"}
    \/ (IF cmd = "." THEN "BATCH" ELSE cmd) \in job.perms[a]
command_check_context(batch, cmd) == cmd \in (IF batch THEN BatchCommands ELSE ClientCommands)
Admitted(k, cmd) ==
    /\ cmd \in Commands
    /\ socket_permission_check(k.addr, cmd)
    /\ command_check_context(k.batch, cmd)

(* The line at the front, and the connection after it has been taken.  In a  *)
(* batch the commands are counted, the refused ones and the final dot too.   *)
TheLine(k) == k.rbuf[1].line
CountedAdmitted(k) == IF k.batch /\ Admitted(k, TheLine(k).cmd) THEN k.cmds + 1 ELSE k.cmds
Counted(k) == IF k.batch THEN k.cmds + 1 ELSE k.cmds
EmptyBuffer(k) == <<>>
RestOfBuffer(k) == SubSeq(k.rbuf, LineEnd(k) + 1, Len(k.rbuf))
Took(k) == Append(k.did, [line |-> TheLine(k), is |-> "none"])
TakeLine(k) ==
    [k EXCEPT !.rbuf = RestOfBuffer(k), !.cmds = Counted(k), !.did = Took(k)]
HasCommand(c) == conn[c].st = "open" /\ conn[c].wait = None /\ HasLine(conn[c])
Gets(c, cmd) ==
    HasCommand(c) /\ TheLine(conn[c]).cmd = cmd /\ Admitted(conn[c], cmd)

(* Lines of an answer, each with the number of the command it is about.      *)
Line(k, kind, n) == [kind |-> kind, n |-> n, of |-> Len(k.did)]
Info(k, count) == [i \in 1 .. count |-> Line(k, "info", 0)]

(* In a batch only errors are kept, with the number of the command; else the *)
(* status line says how many lines follow, and -1 for an error.              *)
StatusOf(k, ok, lines) == IF ok THEN Len(lines) ELSE -1
Follow(k, ok, lines) == IF ok THEN lines ELSE <<>>
SentLines(k, ok, lines) == <<Line(k, "status", StatusOf(k, ok, lines))>> \o Follow(k, ok, lines)
Marked(k, ok) == [k EXCEPT !.did[Len(k.did)].is = IF ok THEN "ok" ELSE "err"]
Answered(k, ok, info) ==
    IF k.batch
    THEN IF ok THEN k ELSE [k EXCEPT !.wbuf = Append(@, Line(k, "error", k.cmds))]
    ELSE [k EXCEPT !.wbuf = <<>>,
                   !.dn = @ \o SentLines(k, ok, k.wbuf \o info),
                   !.sent = @ \o SentLines(k, ok, k.wbuf \o info)]

(* Writing to a client that is gone fails, at once on a Unix socket and at   *)
(* the second try on a network one; the connection is closed.                *)
send_response(k, ok, info) ==
    IF k.batch \/ ~k.hup THEN {Marked(Answered(k, ok, info), ok)}
    ELSE {Closed(k)} \union (IF IsUnix(k.addr) THEN {} ELSE {Marked(Answered(k, ok, info), ok)})
Reply(c, k, ok, info) == \E answered \in send_response(k, ok, info) : Change(c, answered)

(* A line that cannot be parsed ends the connection, as QUIT does.           *)
Quit(c) ==
    /\ HasCommand(c)
    /\ Gets(c, "QUIT") \/ TheLine(conn[c]).cmd = "broken"
    /\ Change(c, Closed(TakeLine(conn[c])))
    /\ UNCHANGED <<job, startVars, cacheVars, budget>>

(* An unknown command, one that the socket does not permit, or one that has  *)
(* no place inside or outside of a batch.                                    *)
Refuse(c) ==
    /\ HasCommand(c)
    /\ TheLine(conn[c]).cmd # "broken" /\ ~Admitted(conn[c], TheLine(conn[c]).cmd)
    /\ Reply(c, TakeLine(conn[c]), FALSE, <<>>)
    /\ UNCHANGED <<job, startVars, cacheVars, budget>>

(* BATCH answers before the batch begins; the dot ends it and sends what it  *)
(* has kept.                                                                 *)
BatchStart(c) ==
    /\ Gets(c, "BATCH")
    /\ \E k \in send_response(TakeLine(conn[c]), TRUE, <<>>) :
          Change(c, IF k.st = "open" THEN [k EXCEPT !.batch = TRUE, !.cmds = 0] ELSE k)
    /\ UNCHANGED <<job, startVars, cacheVars, budget>>

BatchDone(c) ==
    /\ Gets(c, ".")
    /\ Reply(c, [TakeLine(conn[c]) EXCEPT !.batch = FALSE, !.cmds = 0], TRUE, <<>>)
    /\ UNCHANGED <<job, startVars, cacheVars, budget>>

(* The commands that only look.  PENDING asks nobody for access.             *)
Show(c, cmd, ok, count) ==
    /\ Gets(c, cmd)
    /\ Reply(c, TakeLine(conn[c]), ok, Info(TakeLine(conn[c]), count))
    /\ UNCHANGED <<job, startVars, cacheVars, budget>>

StatsLines == 9
HelpLines == 10
Stats(c) == Show(c, "STATS", TRUE, StatsLines)
Help(c) == Show(c, "HELP", TRUE, HelpLines)
Queue(c) == Show(c, "QUEUE", TRUE, Len(queue[conn[c].proc]))
PendingAt(c, f) ==
    \/ Cached(conn[c].proc, f) /\ Show(c, "PENDING", TRUE, Len(cache[conn[c].proc][f].vals))
    \/ ~Cached(conn[c].proc, f) /\ Show(c, "PENDING", FALSE, 0)
ShowPending(c) ==
    /\ Gets(c, "PENDING")
    /\ LET path == TheLine(conn[c]).path IN
       IF path = None THEN Show(c, "PENDING", FALSE, 0) ELSE PendingAt(c, get_abs_path(path))

(* UPDATE.  The values before a bad one stay, and are not queued then.       *)
NewItem == [vals |-> <<>>, stamp |-> 0]
Item(p, f) == IF Cached(p, f) THEN cache[p][f] ELSE NewItem
Allowed(line) == line.path # None /\ check_file_access(get_abs_path(line.path))
MayUpdate(p, line) ==
    /\ Allowed(line)
    /\ Cached(p, get_abs_path(line.path)) \/ Exists(get_abs_path(line.path), "base")

RefuseUpdate(c) ==
    /\ Gets(c, "UPDATE") /\ ~MayUpdate(conn[c].proc, TheLine(conn[c]))
    /\ Reply(c, TakeLine(conn[c]), FALSE, <<>>)
    /\ UNCHANGED <<job, startVars, cacheVars, budget>>

AcceptsSome(t) == t.took # <<>>
Accepts(t) == t.end # "refused" /\ t.took # <<>>
Update(c) ==
    /\ Gets(c, "UPDATE") /\ MayUpdate(conn[c].proc, TheLine(conn[c]))
    /\ LET k == conn[c]
           p == k.proc
           f == get_abs_path(TheLine(k).path)
           t == Taken(Item(p, f).stamp, TheLine(k).vals)
           item == [vals |-> Item(p, f).vals \o t.took, stamp |-> t.stamp]
       IN  /\ cache' = [cache EXCEPT ![p] = Put(@, f, item)]
           /\ \/ UNCHANGED queue
              \/ /\ t.end # "refused" /\ item.vals # <<>>
                 /\ queue' = [queue EXCEPT ![p] = AtTail(@, f)]
           /\ Reply(c, [TakeLine(k) EXCEPT !.took = Append(@, [of |-> Len(k.did) + 1, vals |-> t.took])],
                    Accepts(t), <<>>)
    /\ UNCHANGED <<job, startVars, writing, disk, budget>>

(* FLUSH of a file that is not cached, or has no values left to write.       *)
FlushNothing(c) ==
    /\ Gets(c, "FLUSH")
    /\ LET k == conn[c]
           f == get_abs_path(TheLine(k).path)
       IN  \/ ~Allowed(TheLine(k)) /\ Reply(c, TakeLine(k), FALSE, <<>>)
           \/ /\ Allowed(TheLine(k)) /\ ~Pending(k.proc, f)
              /\ Reply(c, TakeLine(k), Cached(k.proc, f) \/ Exists(f, "base"), <<>>)
    /\ UNCHANGED <<job, startVars, cacheVars, budget>>

(* FLUSH puts the file first and waits.  due: what it waits for, when no     *)
(* write of the file is going on that could wake it too soon.                *)
FlushWaits(c) ==
    /\ Gets(c, "FLUSH") /\ Allowed(TheLine(conn[c]))
    /\ LET k == conn[c]
           p == k.proc
           f == get_abs_path(TheLine(k).path)
           busy == writing[p].file = f
       IN  /\ Pending(p, f)
           /\ queue' = [queue EXCEPT ![p] = AtHead(@, f)]
           /\ Change(c, [TakeLine(k) EXCEPT !.wait = f, !.woken = FALSE,
                                            !.due = IF busy THEN <<>> ELSE cache[p][f].vals])
    /\ UNCHANGED <<job, startVars, cache, writing, disk, budget>>

FlushReturns(c) ==
    /\ conn[c].wait # None /\ conn[c].woken
    /\ Reply(c, [conn[c] EXCEPT !.wait = None, !.woken = FALSE, !.due = <<>>], TRUE, <<>>)
    /\ UNCHANGED <<job, startVars, cacheVars, budget>>

(* FORGET frees the item and wakes who waits for it.                         *)
Forgotten(cs, p, f) ==
    [d \in Conns |-> IF cs[d].wait = f THEN [Woken(cs, p, f)[d] EXCEPT !.due = <<>>] ELSE cs[d]]
Forget(c) ==
    /\ Gets(c, "FORGET")
    /\ LET k == conn[c]
           p == k.proc
           f == get_abs_path(TheLine(k).path)
       IN  IF Allowed(TheLine(k)) /\ Cached(p, f)
           THEN /\ cache' = [cache EXCEPT ![p] = Without(@, {f})]
                /\ queue' = [queue EXCEPT ![p] = Unqueued(@, f)]
                /\ \E answered \in send_response(TakeLine(k), TRUE, <<>>) :
                      conn' = [Forgotten(conn, p, f) EXCEPT ![c] = answered]
           ELSE Reply(c, TakeLine(k), FALSE, <<>>) /\ UNCHANGED <<cache, queue>>
    /\ UNCHANGED <<job, startVars, writing, disk, budget>>

FlushAll(c) ==
    /\ Gets(c, "FLUSHALL")
    /\ LET p == conn[c].proc IN
       \E idle \in {{}} \union (IF job.ages THEN {DOMAIN cache[p]} ELSE {}) :
          FlushOldValues(p, DOMAIN cache[p], idle)
    /\ Reply(c, TakeLine(conn[c]), TRUE, <<>>)
    /\ UNCHANGED <<job, startVars, writing, disk, budget>>

-----------------------------------------------------------------------------

Handle(c) ==
    \/ Quit(c) \/ Refuse(c) \/ BatchStart(c) \/ BatchDone(c)
    \/ Stats(c) \/ Help(c) \/ Queue(c) \/ ShowPending(c)
    \/ RefuseUpdate(c) \/ Update(c) \/ FlushNothing(c) \/ FlushWaits(c) \/ FlushReturns(c)
    \/ Forget(c) \/ FlushAll(c)
Connection(c) == Leave(c) \/ ReadSome(c) \/ Handle(c)

Process(p) ==
    \/ Start(p) \/ Check(p) \/ TakeOver(p) \/ BindUnix(p) \/ BindNetwork(p) \/ WritePid(p)
    \/ CloseListenSockets(p) \/ Exit(p) \/ FlushThread(p)
    \/ TakeFirst(p) \/ WriteOut(p)
Signals == \E p \in Procs : Crash(p) \/ Stop(p)
Server == (\E p \in Procs : Process(p)) \/ (\E c \in Conns : Accept(c) \/ Connection(c))

=============================================================================
