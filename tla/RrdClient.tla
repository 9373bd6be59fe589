----------------------------- MODULE RrdClient -----------------------------
(* The clients of rrdcached: connections that pipeline lines (raw), and one  *)
(* run of rrdtool that works off commands with the library rrd_client.c and  *)
(* its one connection, which it keeps from command to command.               *)
(*                                                                           *)
(* A command of the tool is [tool, daemon, paths, vals, template, long]:     *)
(* update, flushcached, stats, or fetch, which stands for every tool that    *)
(* flushes a file and then reads it; daemon is the option --daemon.          *)
EXTENDS RrdProtocol

VARIABLES
    lib,         \* the library and the tool: see LibInit
    results      \* what became of the tool's commands, in order
vars == <<serverVars, lib, results>>
libVars == <<lib, results>>

Raws == DOMAIN job.raw
LibInit ==
    [sd |-> None,        \* the connection, rrd_client.c's sd and sh
     sd_path |-> None,   \* and the address it goes to
     pc |-> "next",      \* next, ready, reply, or dead
     failed |-> FALSE,   \* rrdc_connect could not connect
     file |-> 1]         \* flushcached: which of its files

-----------------------------------------------------------------------------
(* Connections that pipeline.                                                *)

Reachable(a) == socket[a] # None /\ phase[socket[a]] \in {"write", "serve", "stop"}
Opened(a) == [Idle EXCEPT !.st = "backlog", !.addr = a, !.proc = socket[a]]
rawUnchanged == UNCHANGED <<job, startVars, cacheVars, budget, libVars>>

RawConnect(c) ==
    /\ c \in Raws /\ conn[c].st = "new" /\ Reachable(job.raw[c].addr)
    /\ Change(c, Opened(job.raw[c].addr))
    /\ rawUnchanged

(* An endless line keeps its client busy.                                    *)
RawSend(c) ==
    /\ c \in Raws /\ conn[c].st \in {"backlog", "open"} /\ ~conn[c].hup
    /\ LET next == conn[c].asked + 1 IN
       /\ next <= Len(job.raw[c].lines)
       /\ conn[c].asked > 0 => job.raw[c].lines[conn[c].asked].cmd # "endless"
       /\ Change(c, [conn[c] EXCEPT !.up = @ \o Pieces(job.raw[c].lines[next]), !.asked = next])
    /\ rawUnchanged

RawLeave(c) ==
    /\ c \in Raws /\ job.raw[c].leaves /\ conn[c].st \in {"backlog", "open"} /\ ~conn[c].hup
    /\ Change(c, [conn[c] EXCEPT !.hup = TRUE])
    /\ rawUnchanged

-----------------------------------------------------------------------------
(* The library.                                                              *)

Cmd == job.tool[Len(results) + 1]
Named == IF Cmd.daemon # None THEN Cmd.daemon ELSE job.env

(* rrdc_connect keeps a connection to the same address, else closes it and   *)
(* opens another, of which there are no more than Conns.                     *)
Hung(cs) == IF lib.sd = None THEN cs ELSE [cs EXCEPT ![lib.sd].hup = TRUE]
IsFresh(c) ==
    /\ c \in Conns \ Raws /\ conn[c].st = "new"
    /\ \A d \in Conns \ Raws : conn[d].st = "new" => c <= d
rrdc_connect ==
    /\ lib.pc = "next" /\ Len(results) < Len(job.tool)
    /\ \/ /\ Named = None \/ (lib.sd # None /\ lib.sd_path = Named)
          /\ lib' = [lib EXCEPT !.pc = "ready", !.failed = FALSE, !.file = 1]
          /\ UNCHANGED conn
       \/ /\ Named # None /\ ~(lib.sd # None /\ lib.sd_path = Named) /\ Reachable(Named)
          /\ \E c \in Conns :
                /\ IsFresh(c)
                /\ conn' = [Hung(conn) EXCEPT ![c] = Opened(Named)]
                /\ lib' = [LibInit EXCEPT !.pc = "ready", !.sd = c, !.sd_path = Named]
       \/ /\ Named # None /\ ~(lib.sd # None /\ lib.sd_path = Named) /\ ~Reachable(Named)
          /\ conn' = Hung(conn)
          /\ lib' = [LibInit EXCEPT !.pc = "ready", !.failed = TRUE]
    /\ UNCHANGED <<job, startVars, cacheVars, budget, results>>

(* Without --daemon a kept connection counts only if the environment names a *)
(* daemon.                                                                   *)
connected_at_all == lib.sd # None /\ (Cmd.daemon = None \/ Cmd.daemon = lib.sd_path)
rrdc_is_connected ==
    lib.sd # None /\ (IF Cmd.daemon = None THEN job.env # None ELSE Cmd.daemon = lib.sd_path)

(* A path for a local daemon is made absolute; a remote one takes only       *)
(* relative paths.                                                           *)
get_path(path) ==
    IF IsUnix(lib.sd_path)
    THEN IF Exists(path, "cwd") THEN Real(path, "cwd") ELSE None
    ELSE IF path.dir = "" THEN path ELSE None

Path == Cmd.paths[lib.file]
Request ==
    CASE Cmd.tool = "update" -> [cmd |-> "UPDATE", path |-> get_path(Path), vals |-> Cmd.vals, size |-> 1]
      [] Cmd.tool \in {"flushcached", "fetch"} ->
            [cmd |-> "FLUSH", path |-> get_path(Path), vals |-> <<>>, size |-> 1]
      [] Cmd.tool = "stats" -> [cmd |-> "STATS", path |-> None, vals |-> <<>>, size |-> 1]
Sendable == Cmd.tool = "stats" \/ (get_path(Path) # None /\ ~Cmd.long)

Result(out) ==
    [out |-> out, conn |-> IF lib.pc = "reply" THEN lib.sd ELSE None,
     no |-> IF lib.pc = "reply" THEN conn[lib.sd].asked ELSE 0, err |-> lib.failed]
Finish(out, l) ==
    /\ results' = Append(results, Result(out))
    /\ lib' = [l EXCEPT !.pc = "next"]
toolUnchanged == UNCHANGED <<job, startVars, cache, queue, writing, budget>>

(* update and the others insist on a daemon that was named; update refuses a *)
(* template with one, and writes the file itself when none was named.        *)
ToolFails ==
    /\ lib.pc = "ready"
    /\ \/ lib.failed /\ Cmd.tool # "fetch"
       \/ ~lib.failed /\ ~rrdc_is_connected /\ Cmd.tool \in {"flushcached", "stats"}
       \/ rrdc_is_connected /\ Cmd.tool = "update" /\ Cmd.template
       \/ rrdc_is_connected /\ ~Cmd.template /\ ~Sendable
    /\ Finish("error", lib)
    /\ UNCHANGED <<conn, disk>> /\ toolUnchanged

UpdatesItself ==
    /\ lib.pc = "ready" /\ Cmd.tool = "update" /\ ~lib.failed /\ ~rrdc_is_connected
    /\ IF Exists(Path, "cwd")
       THEN disk' = Written(Real(Path, "cwd"), Cmd.vals) /\ Finish("local", lib)
       ELSE UNCHANGED disk /\ Finish("error", lib)
    /\ UNCHANGED conn /\ toolUnchanged

(* A request to a daemon that has closed a Unix socket kills the tool: it    *)
(* does not ignore SIGPIPE.                                                  *)
Send ==
    /\ lib.pc = "ready" /\ rrdc_is_connected /\ Sendable /\ ~(Cmd.tool = "update" /\ Cmd.template)
    /\ IF conn[lib.sd].st = "closed" /\ IsUnix(lib.sd_path)
       THEN /\ results' = Append(results, Result("killed"))
            /\ lib' = [lib EXCEPT !.pc = "dead"]
            /\ UNCHANGED conn
       ELSE /\ lib' = [lib EXCEPT !.pc = "reply"]
            /\ Change(lib.sd, [conn[lib.sd] EXCEPT !.up = @ \o Pieces(Request), !.asked = @ + 1])
            /\ UNCHANGED results
    /\ UNCHANGED disk /\ toolUnchanged

(* The tool that reads does so after the flush, or without one when there is *)
(* no daemon or none that answers.                                           *)
ReadsItself(l) == Finish(IF Exists(Path, "cwd") THEN "read" ELSE "error", l)
ReadsFile ==
    /\ lib.pc = "ready" /\ Cmd.tool = "fetch" /\ ~rrdc_is_connected
    /\ ReadsItself(lib)
    /\ UNCHANGED <<conn, disk>> /\ toolUnchanged

(* response_read takes the status line and as many lines as it announces.    *)
AnswerLength(dn) == 1 + (IF dn[1].n > 0 THEN dn[1].n ELSE 0)
UpdateAnswered(n) == Cmd.tool = "update" /\ Finish(IF n < 0 THEN "refused" ELSE "ok", lib)
StatsAnswered(n) ==
    Cmd.tool = "stats" /\ Finish(IF n < 0 THEN "refused" ELSE IF n > 0 THEN "ok" ELSE "error", lib)
FlushAnswered(n) ==
    /\ Cmd.tool = "fetch"
    /\ IF n < 0 THEN Finish("refused", lib) ELSE ReadsItself(lib)
FlushcachedAnswered(n) ==
    /\ Cmd.tool = "flushcached"
    /\ IF n < 0 \/ lib.file = Len(Cmd.paths) THEN Finish(IF n < 0 THEN "refused" ELSE "ok", lib)
       ELSE lib' = [lib EXCEPT !.pc = "ready", !.file = @ + 1] /\ UNCHANGED results
GotAnswer ==
    /\ lib.pc = "reply" /\ conn[lib.sd].dn # <<>>
    /\ LET dn == conn[lib.sd].dn IN
       /\ conn' = [conn EXCEPT ![lib.sd].dn = SubSeq(dn, AnswerLength(dn) + 1, Len(dn))]
       /\ \/ UpdateAnswered(dn[1].n) \/ StatsAnswered(dn[1].n)
          \/ FlushAnswered(dn[1].n) \/ FlushcachedAnswered(dn[1].n)
    /\ UNCHANGED disk /\ toolUnchanged

(* The end of the file instead: the connection is dropped, the request is    *)
(* not repeated.                                                             *)
GotNothing ==
    /\ lib.pc = "reply" /\ conn[lib.sd].st = "closed" /\ conn[lib.sd].dn = <<>>
    /\ Finish("lost", [lib EXCEPT !.sd = None, !.sd_path = None])
    /\ conn' = Hung(conn)
    /\ UNCHANGED disk /\ toolUnchanged

ToolExits ==
    /\ lib.sd # None /\ (lib.pc = "dead" \/ (lib.pc = "next" /\ Len(results) = Len(job.tool)))
    /\ conn' = Hung(conn)
    /\ lib' = [LibInit EXCEPT !.pc = lib.pc]
    /\ UNCHANGED <<disk, results>> /\ toolUnchanged

Tool == rrdc_connect \/ ToolFails \/ UpdatesItself \/ Send \/ ReadsFile \/ GotAnswer \/ GotNothing \/ ToolExits
Raw(c) == RawConnect(c) \/ RawSend(c) \/ RawLeave(c)

-----------------------------------------------------------------------------

ClientInit == Init /\ lib = LibInit /\ results = <<>>
Next ==
    \/ (Server \/ Signals) /\ UNCHANGED libVars
    \/ \E c \in Conns : Raw(c)
    \/ Tool

(* Threads are scheduled and disks answer; nobody has to send, to leave, to  *)
(* crash or to be stopped.                                                   *)
Threads ==
    /\ \A p \in Procs : WF_vars(TakeFirst(p) /\ UNCHANGED libVars) /\ WF_vars(WriteOut(p) /\ UNCHANGED libVars)
                           /\ WF_vars(WritePid(p) /\ UNCHANGED libVars)
    /\ \A c \in Conns : WF_vars(Accept(c) /\ UNCHANGED libVars) /\ WF_vars(Connection(c) /\ UNCHANGED libVars)
    /\ WF_vars(GotAnswer \/ GotNothing)
Spec == ClientInit /\ [][Next]_vars
FairSpec == Spec /\ Threads

-----------------------------------------------------------------------------
(* Properties.                                                               *)

(* TypeOK: the read buffer of a connection holds no more than it may, and    *)
(* what is queued is pending (connection_thread_main, enqueue_cache_item).   *)
ConnOK(k) ==
    /\ k.st \in {"new", "backlog", "open", "closed"}
    /\ Len(k.rbuf) <= RbufSize
    /\ k.wait # None => k.st = "open"
TypeOK ==
    /\ job \in Jobs
    /\ \A p \in Procs :
          /\ phase[p] \in {"off", "check", "take", "bind", "write", "serve", "stop", "drain", "gone", "dead"}
          /\ IsInjective(queue[p]) /\ \A f \in Range(queue[p]) : Pending(p, f)
    /\ \A c \in Conns : ConnOK(conn[c])
    /\ lib.pc \in {"next", "ready", "reply", "dead"} /\ (lib.pc = "reply" => lib.sd # None)
    /\ Len(results) <= Len(job.tool)

(* OneDaemon: of the processes started for one address at most one goes on,  *)
(* whatever crashed or left before, unless two of them looked at the same    *)
(* stale pid file before either emptied it (daemonize, check_pidfile).       *)
Holds(p) == phase[p] \in {"bind", "write", "serve", "stop", "drain"}
OneDaemon ==
    \A p, q \in Procs : Holds(p) /\ Holds(q) /\ Addr(p) = Addr(q) /\ p # q => Addr(p) \in raced

(* The lines a connection has carried (did), and whether the k-th was handled *)
(* inside of a batch, by what became of the lines before it.                 *)
Opens(did, j) == did[j].line.cmd = "BATCH" /\ did[j].is = "ok"
Ends(did, j) == did[j].line.cmd = "." /\ did[j].is = "ok"
OpenFrom(did, j, k) == Opens(did, j) /\ \A i \in j + 1 .. k - 1 : ~Ends(did, i)
InBatch(did, k) == \E j \in 1 .. k - 1 : OpenFrom(did, j, k)

(* RepliesMatchRequests: the daemon works off the lines a client has sent    *)
(* one by one, and a client that reads a status line, as many lines as it    *)
(* announces and then the next status line finds one answer for each of      *)
(* them, in their order, except inside of a batch, whatever it pipelined and *)
(* however the lines were cut up on the way (send_response, count_lines,     *)
(* next_cmd).                                                                *)
Owed(did) == {k \in DOMAIN did : did[k].is # "none" /\ (InBatch(did, k) => Ends(did, k))}
Statuses(s) == {i \in DOMAIN s : s[i].kind = "status"}
FramedAt(s, i) ==
    LET n == IF s[i].n > 0 THEN s[i].n ELSE 0 IN
    /\ i + n <= Len(s)
    /\ \A j \in i + 1 .. i + n : s[j].kind # "status"
    /\ i + n < Len(s) => s[i + n + 1].kind = "status"
RepliesMatchRequests ==
    \A c \in Conns :
        LET s == conn[c].sent
            did == conn[c].did
        IN  /\ s # <<>> => s[1].kind = "status"
            /\ \A i \in Statuses(s) : FramedAt(s, i)
            /\ {s[i].of : i \in Statuses(s)} = Owed(did)
            /\ \A i, j \in Statuses(s) : i < j => s[i].of < s[j].of
            /\ c \in Raws => \A i \in DOMAIN did : did[i].line = job.raw[c].lines[i]

(* BatchReportsFailures: the answer to the dot lists exactly the commands of *)
(* the batch that failed, by their numbers in the batch and in order, and    *)
(* nothing from before it (rrdcached.pod, BATCH; handle_request, batch_done). *)
Opening(did, k) == CHOOSE j \in 1 .. k - 1 : OpenFrom(did, j, k)
Failures(did, b, k) == {m \in 1 .. k - b - 1 : did[b + m].is = "err"}
BatchReportsFailures ==
    \A c \in Conns :
        LET s == conn[c].sent
            did == conn[c].did
        IN  \A i \in Statuses(s) : Ends(did, s[i].of) =>
                /\ {s[i + j].n : j \in 1 .. s[i].n} = Failures(did, Opening(did, s[i].of), s[i].of)
                /\ \A j, h \in 1 .. s[i].n : j < h => s[i + j].n < s[i + h].n

(* FlushedIsWritten: when a FLUSH that found no write of its file going on   *)
(* is woken, the values it waits for are in the file, if the file was not    *)
(* ahead of them and nobody forgot them (flush_file, queue_thread_main).     *)
Wakes(k, m) == m.wait # None /\ m.woken /\ ~k.woken
FlushedIsWritten ==
    [][\A c \in Conns :
          LET due == conn'[c].due
              f == Real(conn'[c].wait, "base")
          IN  Wakes(conn[c], conn'[c]) /\ due # <<>> /\ due[1] > LastOn(f) =>
                 Range(due) \subseteq Range(disk'[f])]_vars

(* OutcomesAreTrue: what the tool says of an update is what became of it:    *)
(* all of its values were taken, and once, when it says so; not all of them  *)
(* when the daemon refused; a part, from the front, when the answer was      *)
(* lost (rrdc_update, response_read).                                        *)
Takings(c, no) == {n \in DOMAIN conn[c].took : conn[c].took[n].of = no}
OutcomeTrue(r, cmd) ==
    r.conn # None /\ cmd.tool = "update" =>
        LET taken == Takings(r.conn, r.no)
            vals(n) == conn[r.conn].took[n].vals
        IN  /\ \A n, m \in taken : n = m
            /\ r.out \in {"ok", "refused", "lost"}
            /\ r.out = "ok" => \E n \in taken : vals(n) = cmd.vals
            /\ r.out = "refused" => \A n \in taken : IsStrictPrefix(vals(n), cmd.vals)
            /\ r.out = "lost" => \A n \in taken : IsPrefix(vals(n), cmd.vals)
OutcomesAreTrue == \A i \in DOMAIN results : OutcomeTrue(results[i], job.tool[i])

(* NamedDaemonOnly: a command goes to the daemon that it, or else the        *)
(* environment, names, and to none when nobody names one, whatever           *)
(* connection the library has kept; one that could not ask the daemon it was *)
(* to ask says so (rrdc_connect, rrdc_is_connected, rrdc_flush_if_daemon).   *)
WasNamed(cmd) == IF cmd.daemon # None THEN cmd.daemon ELSE job.env
NamedDaemonOnly ==
    \A i \in DOMAIN results :
        LET r == results[i]
            named == WasNamed(job.tool[i])
        IN  /\ r.conn # None => conn[r.conn].addr = named
            /\ r.conn = None /\ named # None => r.out \in {"error", "killed"} \/ r.err

(* RequestsAnswered: while no daemon is told to stop, the tool never waits   *)
(* for ever for an answer, whatever other clients flush and forget, and if   *)
(* the daemon dies (flush_file, queue_thread_main, connection_thread_main).  *)
RequestsAnswered == job.stops = 0 /\ lib.pc = "reply" ~> lib.pc # "reply"

=============================================================================
