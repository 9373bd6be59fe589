------------------------------- MODULE Rrdcached -------------------------------
(***************************************************************************)
(* rrdcached (rrd_daemon.c): the threads of the daemon around its cache.   *)
(*                                                                         *)
(*   - a connection thread for each client (connection_thread_main), which *)
(*     reads a buffer of commands and runs their handlers;                 *)
(*   - the queue threads (queue_thread_main), here Writers, which take the *)
(*     head of the update queue and write its values to the RRD file;      *)
(*   - the flush thread (flush_thread_main), which queues old values and   *)
(*     rotates the journal every config_flush_interval;                    *)
(*   - the main thread (listen_thread_main, cleanup), which accepts        *)
(*     connections and, after a signal, waits for the others and exits;    *)
(*   - the journal, which is replayed when the daemon starts again.        *)
(*                                                                         *)
(* What runs under one hold of cache_lock is one action.  A value is       *)
(* abstracted to its time stamp, a file to a member of Files, the linked   *)
(* list of the queue to the sequence that CacheQueue shows it implements.  *)
(***************************************************************************)
EXTENDS Integers, Sequences, FiniteSets

CONSTANTS
    Files,              \* the RRD files clients name
    Existing,           \* those that exist on disk
    Writers,            \* the queue threads (option -t)
    Conns,              \* connection threads that may run at the same time
    Ops,                \* the commands the clients use
    Batches,            \* the stamps one UPDATE may carry
    Journaling,         \* option -j is given
    FlushAtShutdown,    \* option -F is given, or there is no journal
    WriteInterval,      \* option -w
    WriteJitter,        \* option -z
    FlushInterval,      \* option -f
    NoFile

CONSTANTS   \* bounds
    MaxCmds,            \* commands read from the clients
    MaxPipeline,        \* commands in one read buffer
    MaxClock,           \* the clock stops here
    MaxRotateDelay,     \* time between flush_old_values and journal_rotate
    MaxSignals, MaxRestarts, MaxWriteErrors, MaxJournalErrors

Signals == {"TERM", "USR1", "USR2"}

ASSUME RrdcachedAssumption ==
    /\ IsFiniteSet(Files) /\ IsFiniteSet(Conns) /\ Existing \subseteq Files /\ NoFile \notin Files
    /\ Writers # {}
    /\ Ops \subseteq {"UPDATE", "FLUSH", "FORGET", "FLUSHALL", "QUIT"}
    /\ Batches \subseteq Seq(Nat)
    /\ Journaling \in BOOLEAN /\ FlushAtShutdown \in BOOLEAN
    /\ ~Journaling => FlushAtShutdown
    /\ WriteInterval \in Nat \ {0} /\ FlushInterval \in Nat \ {0}
    /\ WriteJitter \in Nat
    /\ {MaxCmds, MaxPipeline, MaxClock, MaxRotateDelay, MaxSignals, MaxRestarts,
        MaxWriteErrors, MaxJournalErrors} \subseteq Nat

VARIABLES
    \* cache_tree and the cache items, queue and flags of the process
    tree, vals, last_update_stamp, last_flush_time,
    queue, state, flush_at_shutdown,
    leaked,             \* a thread returned without releasing cache_lock
    \* the threads
    wpc, wfile, wvals,  \* writers: where each is, its file, its unwritten values
    fpc, next_flush,    \* the flush thread
    cpc, inbuf, cnow,   \* connections: where, commands read, time of the read
    mpc, connection_threads_num,
    \* files: the journal sets, and the stamps stored in each RRD file
    jdead,              \* set being removed
    jold, jcur,         \* journal_old, journal_cur
    jdurable,           \* entries of jcur that are certain to be on disk
    jopen,              \* journal_fh # NULL
    disk,
    clock,
    bounds,             \* how often each bounded event has happened
    \* history
    ledger,             \* stamps accepted by UPDATE and not forgotten
    unlogged            \* cached stamps that journal_write dropped

cache   == <<tree, vals, last_update_stamp, last_flush_time, queue>>
writers == <<wpc, wfile, wvals>>
flusher == <<fpc, next_flush>>
conns   == <<cpc, inbuf, cnow, connection_threads_num>>
journal == <<jdead, jold, jcur, jdurable, jopen>>
process == <<state, flush_at_shutdown, leaked, mpc>>
history == <<ledger, unlogged>>

vars == <<cache, process, writers, flusher, conns, journal, disk, clock,
          bounds, history>>

WQ == INSTANCE WriteQueue WITH Items <- Files, queue <- queue,
                               ready <- {f \in Files : vals[f] # <<>>}

-------------------------------------------------------------------------------
(* Helpers.                                                                *)

Command(c) == Head(inbuf[c])

Commands ==
    LET Has(op) == {op} \cap Ops
    IN  [op : Has("UPDATE"), file : Files, stamps : Batches]
        \cup [op : Has("FLUSH") \cup Has("FORGET"), file : Files]
        \cup [op : Has("FLUSHALL") \cup Has("QUIT")]

Buffers == UNION {[1 .. n -> Commands] : n \in 1 .. MaxPipeline}

Entry(op, f, ss) == [op |-> op, file |-> f, stamps |-> ss]

LastOf(q, default) == IF q = <<>> THEN default ELSE q[Len(q)]

Increasing(q) == \A i, j \in 1 .. Len(q) : i < j => q[i] < q[j]

\* The sequences that list each member of S once: the key order of the tree
\* is one of them.
Orderings(S) == {q \in [1 .. Cardinality(S) -> S] : WQ!ElementsOf(q) = S}

\* The values of ss that the loop of handle_request_update stores: it stops at
\* the first stamp that does not move forward.
Taken(ss, last) ==
    LET forward(i) == ss[i] > (IF i = 1 THEN last ELSE ss[i - 1])
        k == Cardinality({n \in 1 .. Len(ss) : \A i \in 1 .. n : forward(i)})
    IN  SubSeq(ss, 1, k)

\* rrd_random () % config_write_jitter
Jitters == IF WriteJitter > 0 THEN 0 .. WriteJitter - 1 ELSE {0}

SignalledNone(n) == {wpc}

\* n times pthread_cond_signal (&queue_cond): what wpc may become.
Signalled(n) ==
    LET waiting == {w \in Writers : wpc[w] = "wait"}
        Woken(S) == [w \in Writers |-> IF w \in S THEN "woken" ELSE wpc[w]]
    IN  {Woken(S) : S \in {T \in SUBSET waiting :
            \/ Cardinality(T) = n
            \/ (T = waiting /\ Cardinality(T) < n)}}

\* pthread_cond_broadcast (&queue_cond)
NobodyWoken == wpc
AllWoken == [w \in Writers |-> IF wpc[w] = "wait" THEN "woken" ELSE wpc[w]]

\* wipe_ci_values
not_wiped(f) == vals
wiped(f) == [vals EXCEPT ![f] = <<>>]

\* pthread_cond_broadcast (&ci->flushed) for the items of the files in S.
FlushedOne(S) ==
    LET waiting == {c \in Conns : cpc[c] = "flushwait" /\ Command(c).file \in S}
    IN  IF waiting = {} THEN cpc
        ELSE [cpc EXCEPT ![CHOOSE c \in waiting : TRUE] = "flushed"]

Flushed(S) ==
    [c \in Conns |->
        IF cpc[c] = "flushwait" /\ Command(c).file \in S THEN "flushed" ELSE cpc[c]]

\* The thread goes on with the next command of its buffer, or reads again.
AfterCommand(c) == IF Len(inbuf[c]) > 1 THEN "cmd" ELSE "poll"

\* out_close: the connection thread ends; pcs is cpc after earlier wake-ups.
CloseAfter(c, pcs) ==
    /\ cpc' = [pcs EXCEPT ![c] = "none"]
    /\ inbuf' = [inbuf EXCEPT ![c] = <<>>]
    /\ cnow' = [cnow EXCEPT ![c] = 0]
    /\ connection_threads_num' = connection_threads_num - 1

Close(c) == CloseAfter(c, cpc)

\* send_response; when the client is gone it fails and the thread ends.
RespondAfter(c, pcs) ==
    \/ /\ inbuf' = [inbuf EXCEPT ![c] = Tail(@)]
       /\ cpc' = [pcs EXCEPT ![c] = AfterCommand(c)]
       /\ UNCHANGED <<cnow, connection_threads_num>>
    \/ CloseAfter(c, pcs)

Respond(c) == RespondAfter(c, cpc)

\* journal_fh is tested without journal_lock: NULL also while journal_rotate
\* is between two files.
journal_write(e) ==
    /\ jcur' = IF jopen THEN Append(jcur, e) ELSE jcur
    /\ UNCHANGED <<jdead, jold, jdurable, jopen>>

Alive == mpc \notin {"exited", "down", "aborted"}

Count(event) == bounds' = [bounds EXCEPT ![event] = @ + 1]

ToQueueAgain(abs_timeout) ==
    {f \in tree : vals[f] # <<>> /\ last_flush_time[f] <= abs_timeout}

\* flush_old_values (max_age), with abs_timeout computed by the caller.
ToQueue(abs_timeout) ==
    {f \in tree \ WQ!ElementsOf(queue) :
        /\ vals[f] # <<>>
        /\ last_flush_time[f] <= abs_timeout \/ state # "RUNNING"}

ToPurge ==
    {f \in tree \ WQ!ElementsOf(queue) :
        vals[f] = <<>> /\ clock - last_flush_time[f] >= FlushInterval}

flush_old_values(abs_timeout) ==
    /\ \E q \in Orderings(ToQueue(abs_timeout)) : queue' = queue \o q
    /\ tree' = tree \ ToPurge
    /\ last_update_stamp' =
          [f \in Files |-> IF f \in ToPurge THEN 0 ELSE last_update_stamp[f]]
    /\ last_flush_time' =
          [f \in Files |-> IF f \in ToPurge THEN 0 ELSE last_flush_time[f]]
    /\ wpc' \in Signalled(Cardinality(ToQueue(abs_timeout)))
    /\ UNCHANGED <<vals, wfile, wvals>>

\* abs_timeout for max_age -1 and for max_age config_write_interval.
FlushAll == clock + 2 * WriteJitter + 1

NotFlushedLong == clock - FlushInterval
NotWrittenLong == clock - WriteInterval

-------------------------------------------------------------------------------
(* Start and replay.                                                       *)

FreshItem == [here |-> FALSE, vals |-> <<>>, last |-> 0]

ReplayEntryForgetful(items, e) ==
    IF e.op = "wrote" THEN items
    ELSE [items EXCEPT ![e.file] = [here |-> e.op = "update", vals |-> e.stamps,
                                    last |-> LastOf(e.stamps, 0)]]

\* One line of the journal, applied to the items (handle_request without a
\* socket: update, wrote and forget).
ReplayEntry(items, e) ==
    LET it == items[e.file]
        t  == Taken(e.stamps, it.last)
    IN  IF e.op = "update" /\ e.file \in Existing
        THEN [items EXCEPT ![e.file] = [here |-> TRUE, vals |-> it.vals \o t,
                                        last |-> LastOf(t, it.last)]]
        ELSE IF e.op = "wrote"
        THEN [items EXCEPT ![e.file] = [here |-> it.here, vals |-> <<>>,
                                        last |-> it.last]]
        ELSE IF e.op = "forget" THEN [items EXCEPT ![e.file] = FreshItem]
        ELSE items

Replay(entries) ==
    LET after[k \in 0 .. Len(entries)] ==
            IF k = 0 THEN [f \in Files |-> FreshItem]
            ELSE ReplayEntry(after[k - 1], entries[k])
    IN  after[Len(entries)]

\* main: the cache after the replay of the entries found, queue and threads.
Start(entries, journal_ok) ==
    LET items == Replay(entries)
        flush == FlushAtShutdown \/ ~journal_ok
        full  == {f \in Files : items[f].vals # <<>>}
    IN  /\ tree' = {f \in Files : items[f].here}
        /\ vals' = [f \in Files |-> items[f].vals]
        /\ last_update_stamp' = [f \in Files |-> items[f].last]
        /\ \E j \in [Files -> Jitters] : last_flush_time' =
               [f \in Files |-> IF items[f].here THEN clock + j[f] ELSE 0]
        /\ queue' \in IF Journaling /\ flush THEN Orderings(full) ELSE {<<>>}
        /\ state' = "RUNNING"
        /\ flush_at_shutdown' = flush
        /\ jopen' = (Journaling /\ journal_ok)
        /\ next_flush' = clock + FlushInterval
        /\ mpc' = "listen"
        /\ fpc' = "loop"
        /\ wpc' = [w \in Writers |-> "loop"]

Restart ==
    /\ ~Alive
    /\ bounds.restarts < MaxRestarts
    /\ \E ok \in BOOLEAN :
          /\ ok \/ (Journaling /\ bounds.jerrors < MaxJournalErrors)
          /\ Start(jcur, ok)
          /\ bounds' = [bounds EXCEPT !.restarts = @ + 1,
                                      !.jerrors = IF ok THEN @ ELSE @ + 1]
    /\ UNCHANGED <<leaked, wfile, wvals, conns, jdead, jold, jcur, jdurable,
                   disk, clock, history>>

\* The memory of the process is gone; `kept' is what its journal files hold.
Gone(how, kept) ==
    /\ mpc' = how
    /\ tree' = {} /\ queue' = <<>>
    /\ vals' = [f \in Files |-> <<>>]
    /\ last_update_stamp' = [f \in Files |-> 0]
    /\ last_flush_time' = [f \in Files |-> 0]
    /\ state' = "SHUTDOWN" /\ leaked' = FALSE
    /\ wpc' = [w \in Writers |-> "exit"]
    /\ wfile' = [w \in Writers |-> NoFile]
    /\ wvals' = [w \in Writers |-> <<>>]
    /\ fpc' = "done" /\ next_flush' = 0
    /\ cpc' = [c \in Conns |-> "none"]
    /\ inbuf' = [c \in Conns |-> <<>>]
    /\ cnow' = [c \in Conns |-> 0]
    /\ connection_threads_num' = 0
    /\ jdead' = <<>> /\ jold' = <<>> /\ jcur' = kept /\ jdurable' = Len(kept)
    /\ jopen' = FALSE
    /\ unlogged' = [f \in Files |-> {}]
    /\ UNCHANGED <<flush_at_shutdown, disk, clock, ledger>>

\* After a crash: of jdead what follows the first d entries, unlinked already,
\* all of jold, and of the open file the k entries that stdio had written out.
KeptAfterCrash(d, k) ==
    SubSeq(jdead, d + 1, Len(jdead)) \o jold \o SubSeq(jcur, 1, k)

Dies(how) ==
    \E d \in 0 .. Len(jdead), k \in jdurable .. Len(jcur) :
        Gone(how, KeptAfterCrash(d, k))

Crash ==
    /\ Alive
    /\ bounds.restarts < MaxRestarts
    /\ Dies("down")
    /\ UNCHANGED bounds

-------------------------------------------------------------------------------
(* Connection threads.                                                     *)

\* listen_thread_main accepts and creates the thread ...
Accept(c) ==
    /\ mpc = "listen" /\ state = "RUNNING"
    /\ cpc[c] = "none"
    /\ bounds.cmds < MaxCmds
    /\ cpc' = [cpc EXCEPT ![c] = "starting"]
    /\ UNCHANGED <<cache, process, writers, flusher, inbuf, cnow,
                   connection_threads_num, journal, disk, clock, bounds, history>>

ConnStartUncounted(c) ==
    /\ cpc[c] = "starting"
    /\ cpc' = [cpc EXCEPT ![c] = "poll"]
    /\ UNCHANGED <<cache, process, writers, flusher, inbuf, cnow,
                   connection_threads_num, journal, disk, clock, bounds, history>>

\* ... which counts itself.
ConnStart(c) ==
    /\ cpc[c] = "starting"
    /\ cpc' = [cpc EXCEPT ![c] = "poll"]
    /\ connection_threads_num' = connection_threads_num + 1
    /\ cnow' = [cnow EXCEPT ![c] = clock]
    /\ UNCHANGED <<cache, process, writers, flusher, inbuf, journal, disk,
                   clock, bounds, history>>

\* poll and read: a buffer of complete commands.  `now' is the time of the
\* read, or inside a BATCH that of an earlier one.
ConnRead(c) ==
    /\ cpc[c] = "poll" /\ state = "RUNNING"
    /\ \E buf \in Buffers :
          /\ bounds.cmds + Len(buf) <= MaxCmds
          /\ inbuf' = [inbuf EXCEPT ![c] = buf]
          /\ bounds' = [bounds EXCEPT !.cmds = @ + Len(buf)]
    /\ \E now \in {clock, cnow[c]} : cnow' = [cnow EXCEPT ![c] = now]
    /\ cpc' = [cpc EXCEPT ![c] = "cmd"]
    /\ UNCHANGED <<cache, process, writers, flusher, connection_threads_num,
                   journal, disk, clock, history>>

\* The client hangs up, or the daemon is no longer RUNNING.
ConnClose(c) ==
    /\ cpc[c] = "poll"
    /\ Close(c)
    /\ UNCHANGED <<cache, process, writers, flusher, journal, disk, clock,
                   bounds, history>>

QuitCommand(c) ==
    /\ cpc[c] = "cmd" /\ Command(c).op = "QUIT"
    /\ Close(c)
    /\ UNCHANGED <<cache, process, writers, flusher, journal, disk, clock,
                   bounds, history>>

\* The second half of handle_request_update, with cache_lock held and the item
\* of f in the tree: journal, append, enqueue, answer.  An error half-way
\* keeps the values already stored and skips the enqueueing.
StoreValues(c, f, flush_time) ==
    LET ss  == Command(c).stamps
        t   == Taken(ss, last_update_stamp[f])
        due == /\ t = ss
               /\ cnow[c] - flush_time >= WriteInterval
               /\ f \notin WQ!ElementsOf(queue)
               /\ vals[f] \o t # <<>>
    IN  /\ journal_write(Entry("update", f, ss))
        /\ tree' = tree \cup {f}
        /\ vals' = [vals EXCEPT ![f] = @ \o t]
        /\ last_update_stamp' = [last_update_stamp EXCEPT ![f] = LastOf(t, @)]
        /\ last_flush_time' = [last_flush_time EXCEPT ![f] = flush_time]
        /\ queue' = IF due THEN Append(queue, f) ELSE queue
        /\ wpc' \in Signalled(IF due THEN 1 ELSE 0)
        /\ ledger' = [ledger EXCEPT ![f] = @ \o t]
        /\ unlogged' = [unlogged EXCEPT ![f] =
              IF jopen THEN @ ELSE @ \cup WQ!ElementsOf(t)]
        /\ Respond(c)
        /\ UNCHANGED <<process, wfile, wvals, flusher, disk, clock, bounds>>

UpdateHit(c) ==
    /\ cpc[c] = "cmd" /\ Command(c).op = "UPDATE" /\ ~leaked
    /\ Command(c).file \in tree
    /\ StoreValues(c, Command(c).file, last_flush_time[Command(c).file])

\* No entry: the lock is released to stat the file.
UpdateMiss(c) ==
    /\ cpc[c] = "cmd" /\ Command(c).op = "UPDATE" /\ ~leaked
    /\ Command(c).file \notin tree
    /\ cpc' = [cpc EXCEPT ![c] = "stat"]
    /\ UNCHANGED <<cache, process, writers, flusher, inbuf, cnow,
                   connection_threads_num, journal, disk, clock, bounds, history>>

UpdateNoFile(c) ==
    /\ cpc[c] = "stat" /\ Command(c).file \notin Existing
    /\ Respond(c)
    /\ UNCHANGED <<cache, process, writers, flusher, journal, disk, clock,
                   bounds, history>>

\* The lock is taken again; another UPDATE may have added the entry.
UpdateInsert(c) ==
    LET f == Command(c).file
    IN  /\ cpc[c] = "stat" /\ f \in Existing /\ ~leaked
        /\ state # "SHUTDOWN"
        /\ IF f \in tree
           THEN StoreValues(c, f, last_flush_time[f])
           ELSE \E j \in Jitters : StoreValues(c, f, cnow[c] + j)

\* "state may have changed while we were unlocked": return -1, with the lock.
UpdateAtShutdown(c) ==
    LET f == Command(c).file
    IN  /\ cpc[c] = "stat" /\ f \in Existing /\ ~leaked
        /\ state = "SHUTDOWN"
        /\ leaked' = TRUE
        /\ tree' = tree \cup {f}
        /\ \E j \in Jitters : last_flush_time' =
              IF f \in tree THEN last_flush_time
              ELSE [last_flush_time EXCEPT ![f] = cnow[c] + j]
        /\ Close(c)
        /\ UNCHANGED <<vals, last_update_stamp, queue, state, flush_at_shutdown,
                       mpc, writers, flusher, journal, disk, clock, bounds, history>>

\* flush_file finds no entry, or no values: it answers at once.
FlushNothing(c) ==
    /\ cpc[c] = "cmd" /\ Command(c).op = "FLUSH" /\ ~leaked
    /\ Command(c).file \in tree => vals[Command(c).file] = <<>>
    /\ Respond(c)
    /\ UNCHANGED <<cache, process, writers, flusher, journal, disk, clock,
                   bounds, history>>

\* flush_file puts the item at the head and waits on ci->flushed.
FlushWait(c) ==
    LET f == Command(c).file
    IN  /\ cpc[c] = "cmd" /\ Command(c).op = "FLUSH" /\ ~leaked
        /\ f \in tree /\ vals[f] # <<>>
        /\ queue' = WQ!AtHead(queue, f)
        /\ wpc' \in Signalled(IF queue # <<>> /\ Head(queue) = f THEN 0 ELSE 1)
        /\ cpc' = [cpc EXCEPT ![c] = "flushwait"]
        /\ UNCHANGED <<tree, vals, last_update_stamp, last_flush_time, process,
                       wfile, wvals, flusher, inbuf, cnow, connection_threads_num,
                       journal, disk, clock, bounds, history>>

\* Woken, flush_file takes the lock again and returns.
FlushReturn(c) ==
    /\ cpc[c] = "flushed" /\ ~leaked
    /\ Respond(c)
    /\ UNCHANGED <<cache, process, writers, flusher, journal, disk, clock, bounds, history>>

FlushAllCommand(c) ==
    /\ cpc[c] = "cmd" /\ Command(c).op = "FLUSHALL" /\ ~leaked
    /\ flush_old_values(FlushAll)
    /\ RespondAfter(c, Flushed(ToPurge))
    /\ UNCHANGED <<process, flusher, journal, disk, clock, bounds, history>>

ForgetNothing(c) ==
    /\ cpc[c] = "cmd" /\ Command(c).op = "FORGET" /\ ~leaked
    /\ Command(c).file \notin tree
    /\ Respond(c)
    /\ UNCHANGED <<cache, process, writers, flusher, journal, disk, clock,
                   bounds, history>>

\* g_tree_remove frees the item: out of the queue, its FLUSH waiters woken.
ForgetRemove(c) ==
    LET f == Command(c).file
    IN  /\ cpc[c] = "cmd" /\ Command(c).op = "FORGET" /\ ~leaked
        /\ f \in tree
        /\ tree' = tree \ {f}
        /\ queue' = WQ!Without(queue, f)
        /\ vals' = wiped(f)
        /\ last_update_stamp' = [last_update_stamp EXCEPT ![f] = 0]
        /\ last_flush_time' = [last_flush_time EXCEPT ![f] = 0]
        /\ cpc' = [Flushed({f}) EXCEPT ![c] = "forget"]
        /\ ledger' = [ledger EXCEPT ![f] = SubSeq(@, 1, Len(@) - Len(vals[f]))]
        /\ unlogged' = [unlogged EXCEPT ![f] = {}]
        /\ UNCHANGED <<process, writers, flusher, inbuf, cnow,
                       connection_threads_num, journal, disk, clock, bounds>>

\* The journal learns of it only after the lock is released.
ForgetJournal(c) ==
    /\ cpc[c] = "forget"
    /\ journal_write(Entry("forget", Command(c).file, <<>>))
    /\ Respond(c)
    /\ UNCHANGED <<cache, process, writers, flusher, disk, clock, bounds, history>>

-------------------------------------------------------------------------------
(* Queue threads.                                                          *)

GoOnWhileUp == state # "SHUTDOWN"

\* The condition of the loop of queue_thread_main.
GoOn == state # "SHUTDOWN" \/ (queue # <<>> /\ flush_at_shutdown)

\* wipe_ci_values and remove_from_queue on the head; the lock is released.
\* A thread woken from its wait does not test the loop condition again.
WriterTake(w) ==
    /\ ~leaked
    /\ wpc[w] = "woken" \/ (wpc[w] = "loop" /\ GoOn)
    /\ queue # <<>>
    /\ LET f == Head(queue)
       IN  /\ wfile' = [wfile EXCEPT ![w] = f]
           /\ wvals' = [wvals EXCEPT ![w] = vals[f]]
           /\ vals' = wiped(f)
           /\ unlogged' = [unlogged EXCEPT ![f] = {}]
           /\ \E j \in Jitters :
                 last_flush_time' = [last_flush_time EXCEPT ![f] = clock + j]
    /\ queue' = Tail(queue)
    /\ wpc' = [wpc EXCEPT ![w] = "write"]
    /\ UNCHANGED <<tree, last_update_stamp, process, flusher, conns, journal,
                   disk, clock, bounds, ledger>>

\* pthread_cond_wait (&queue_cond), or `continue' after a wait in vain.
WriterWait(w) ==
    /\ ~leaked
    /\ queue = <<>>
    /\ \/ wpc[w] = "loop" /\ GoOn /\ wpc' = [wpc EXCEPT ![w] = "wait"]
       \/ wpc[w] = "woken" /\ wpc' = [wpc EXCEPT ![w] = "loop"]
    /\ UNCHANGED <<cache, process, wfile, wvals, flusher, conns, journal, disk,
                   clock, bounds, history>>

WriterExit(w) ==
    /\ ~leaked
    /\ wpc[w] = "loop" /\ ~GoOn
    /\ wpc' = [wpc EXCEPT ![w] = "exit"]
    /\ UNCHANGED <<cache, process, wfile, wvals, flusher, conns, journal, disk,
                   clock, bounds, history>>

\* rrd_update_r, one value at a time: a stamp that does not move forward makes
\* it return -1, without the values that follow.
WriterWrite(w) ==
    LET f == wfile[w]
        v == Head(wvals[w])
        ok == v > LastOf(disk[f], 0)
    IN  /\ wpc[w] = "write" /\ wvals[w] # <<>>
        /\ disk' = IF ok THEN [disk EXCEPT ![f] = Append(@, v)] ELSE disk
        /\ wvals' = [wvals EXCEPT ![w] = IF ok THEN Tail(@) ELSE <<>>]
        /\ UNCHANGED <<cache, process, wpc, wfile, flusher, conns, journal, clock,
                       bounds, history>>

\* rrd_update_r cannot open or lock the file, or cannot use a reading.
WriterFail(w) ==
    /\ wpc[w] = "write" /\ wvals[w] # <<>>
    /\ bounds.werrors < MaxWriteErrors
    /\ Count("werrors")
    /\ wvals' = [wvals EXCEPT ![w] = <<>>]
    /\ UNCHANGED <<cache, process, wpc, wfile, flusher, conns, journal, disk,
                   clock, history>>

\* The journal is told "wrote", whatever rrd_update_r returned.
WriterWrote(w) ==
    /\ wpc[w] = "write" /\ wvals[w] = <<>>
    /\ journal_write(Entry("wrote", wfile[w], <<>>))
    /\ wpc' = [wpc EXCEPT ![w] = "notify"]
    /\ UNCHANGED <<cache, process, wfile, wvals, flusher, conns, disk, clock,
                   bounds, history>>

\* The item is looked up again; who waits on it is woken.
WriterNotify(w) ==
    /\ wpc[w] = "notify" /\ ~leaked
    /\ cpc' = Flushed({wfile[w]} \cap tree)
    /\ wpc' = [wpc EXCEPT ![w] = "loop"]
    /\ wfile' = [wfile EXCEPT ![w] = NoFile]
    /\ UNCHANGED <<cache, process, wvals, flusher, inbuf, cnow,
                   connection_threads_num, journal, disk, clock, bounds, history>>

-------------------------------------------------------------------------------
(* The flush thread.                                                       *)

FlushTimer ==
    /\ fpc = "loop" /\ state = "RUNNING" /\ ~leaked
    /\ clock >= next_flush
    /\ next_flush' = clock + FlushInterval
    /\ flush_old_values(NotWrittenLong)
    /\ cpc' = Flushed(ToPurge)
    /\ fpc' = "rotate"
    /\ UNCHANGED <<process, inbuf, cnow, connection_threads_num, journal, disk,
                   clock, bounds, history>>

\* journal_rotate: close the journal and shift the sets ...
JournalRotate ==
    /\ fpc = "rotate"
    /\ IF Journaling
       THEN /\ jdead' = jold /\ jold' = jcur /\ jcur' = <<>> /\ jdurable' = 0
            /\ jopen' = FALSE
            /\ fpc' = "reopen"
       ELSE UNCHANGED journal /\ fpc' = "loop"
    /\ UNCHANGED <<cache, process, writers, next_flush, conns, disk, clock,
                   bounds, history>>

\* ... journal_new_file, which may fail ("JOURNALING DISABLED") ...
JournalNewFile ==
    /\ fpc = "reopen"
    /\ fpc' = "unlink"
    /\ \/ /\ jopen' = TRUE
          /\ UNCHANGED <<flush_at_shutdown, bounds>>
       \/ /\ bounds.jerrors < MaxJournalErrors
          /\ Count("jerrors")
          /\ flush_at_shutdown' = TRUE
          /\ UNCHANGED jopen
    /\ UNCHANGED <<cache, state, leaked, mpc, writers, next_flush, conns, jdead,
                   jold, jcur, jdurable, disk, clock, history>>

\* ... and journal_set_remove, after journal_lock is released.
JournalUnlink ==
    /\ fpc = "unlink"
    /\ jdead' = <<>>
    /\ fpc' = "loop"
    /\ UNCHANGED <<cache, process, writers, next_flush, conns, jold, jcur,
                   jdurable, jopen, disk, clock, bounds, history>>

FlushShutdown ==
    /\ fpc = "loop" /\ state # "RUNNING" /\ ~leaked
    /\ IF flush_at_shutdown
       THEN flush_old_values(FlushAll) /\ cpc' = Flushed(ToPurge)
       ELSE UNCHANGED <<cache, writers, cpc>>
    /\ state' = "SHUTDOWN"
    /\ fpc' = "done"
    /\ UNCHANGED <<flush_at_shutdown, leaked, mpc, next_flush, inbuf, cnow,
                   connection_threads_num, journal, disk, clock, bounds, history>>

-------------------------------------------------------------------------------
(* The main thread, signals and time.                                      *)

MainGoes(from, to) == mpc = from /\ mpc' = to

\* The accept loop ends; listen_thread_main waits for the connections.
ListenStop ==
    /\ MainGoes("listen", "waitconns") /\ state # "RUNNING"
    /\ UNCHANGED <<cache, state, flush_at_shutdown, leaked, writers, flusher,
                   conns, journal, disk, clock, bounds, history>>

\* cleanup: join the flush thread ...
ConnectionsDone ==
    /\ MainGoes("waitconns", "joinflush") /\ connection_threads_num <= 0
    /\ UNCHANGED <<cache, state, flush_at_shutdown, leaked, writers, flusher,
                   conns, journal, disk, clock, bounds, history>>

\* ... wake and join the queue threads ...
FlushThreadJoined ==
    /\ MainGoes("joinflush", "joinqueue") /\ fpc = "done"
    /\ wpc' = AllWoken
    /\ UNCHANGED <<cache, state, flush_at_shutdown, leaked, wfile, wvals, flusher,
                   conns, journal, disk, clock, bounds, history>>

QueueThreadsJoined == mpc = "joinqueue" /\ \A w \in Writers : wpc[w] = "exit"

\* ... assert (cache_queue_head == NULL) ...
AssertFails ==
    /\ QueueThreadsJoined
    /\ flush_at_shutdown /\ queue # <<>>
    /\ Dies("aborted")
    /\ UNCHANGED bounds

\* ... take both locks and leave: journal_done removes the journals only when
\* everything is supposed to be flushed.
Exit ==
    /\ QueueThreadsJoined /\ ~leaked
    /\ flush_at_shutdown => queue = <<>>
    /\ Gone("exited", IF flush_at_shutdown THEN <<>> ELSE jold \o jcur)
    /\ UNCHANGED bounds

\* A signal handler: not held up by any lock.
Signal(sig) ==
    /\ Alive
    /\ bounds.signals < MaxSignals
    /\ Count("signals")
    /\ state' = "FLUSHING"
    /\ flush_at_shutdown' =
          (sig = "USR1" \/ (sig # "USR2" /\ flush_at_shutdown))
    /\ wpc' = AllWoken
    /\ UNCHANGED <<cache, leaked, mpc, wfile, wvals, flusher, conns, journal, disk,
                   clock, history>>

\* journal_rotate follows flush_old_values within MaxRotateDelay.
Tick ==
    /\ clock < MaxClock
    /\ fpc \notin {"loop", "done"} =>
          clock < next_flush - FlushInterval + MaxRotateDelay
    /\ clock' = clock + 1
    /\ UNCHANGED <<cache, process, writers, flusher, conns, journal, disk, bounds,
                   history>>

-------------------------------------------------------------------------------
Init ==
    /\ tree = {} /\ queue = <<>>
    /\ vals = [f \in Files |-> <<>>]
    /\ last_update_stamp = [f \in Files |-> 0]
    /\ last_flush_time = [f \in Files |-> 0]
    /\ state = "RUNNING" /\ flush_at_shutdown = FlushAtShutdown
    /\ leaked = FALSE /\ mpc = "listen"
    /\ wpc = [w \in Writers |-> "loop"]
    /\ wfile = [w \in Writers |-> NoFile]
    /\ wvals = [w \in Writers |-> <<>>]
    /\ fpc = "loop" /\ next_flush = FlushInterval
    /\ cpc = [c \in Conns |-> "none"]
    /\ inbuf = [c \in Conns |-> <<>>]
    /\ cnow = [c \in Conns |-> 0]
    /\ connection_threads_num = 0
    /\ jdead = <<>> /\ jold = <<>> /\ jcur = <<>> /\ jdurable = 0
    /\ jopen = Journaling
    /\ disk = [f \in Files |-> <<>>]
    /\ clock = 0
    /\ bounds = [cmds |-> 0, signals |-> 0, restarts |-> 0, werrors |-> 0,
                 jerrors |-> 0]
    /\ ledger = [f \in Files |-> <<>>]
    /\ unlogged = [f \in Files |-> {}]

\* What connection thread c does once it has a command.
Handle(c) ==
    \/ UpdateHit(c) \/ UpdateMiss(c) \/ UpdateNoFile(c)
    \/ UpdateInsert(c) \/ UpdateAtShutdown(c)
    \/ FlushNothing(c) \/ FlushWait(c) \/ FlushReturn(c)
    \/ FlushAllCommand(c)
    \/ ForgetNothing(c) \/ ForgetRemove(c) \/ ForgetJournal(c)
    \/ QuitCommand(c)

Connection(c) ==
    Accept(c) \/ ConnStart(c) \/ ConnRead(c) \/ ConnClose(c) \/ Handle(c)

Writer(w) ==
    \/ WriterTake(w) \/ WriterWait(w) \/ WriterExit(w)
    \/ WriterWrite(w) \/ WriterFail(w) \/ WriterWrote(w) \/ WriterNotify(w)

FlushThread ==
    \/ FlushTimer \/ FlushShutdown
    \/ JournalRotate \/ JournalNewFile \/ JournalUnlink

Main ==
    ListenStop \/ ConnectionsDone \/ FlushThreadJoined \/ AssertFails \/ Exit

Environment ==
    (\E sig \in Signals : Signal(sig)) \/ Tick \/ Crash \/ Restart

Next ==
    \/ \E c \in Conns : Connection(c)
    \/ \E w \in Writers : Writer(w)
    \/ FlushThread
    \/ Main
    \/ Environment

Spec == Init /\ [][Next]_vars

\* The scheduler runs every thread that can run.  Clients and signals owe
\* nothing; a connection thread notices within its 500 ms poll that the daemon
\* is no longer RUNNING.
Fairness ==
    /\ \A w \in Writers : WF_vars(Writer(w))
    /\ \A c \in Conns : /\ WF_vars(ConnStart(c) \/ Handle(c))
                         /\ WF_vars(state # "RUNNING" /\ ConnClose(c))
    /\ WF_vars(FlushThread)
    /\ WF_vars(Main)

FairSpec == Spec /\ Fairness

-------------------------------------------------------------------------------
(* Properties.                                                             *)

Entries ==
    [op : {"update", "wrote", "forget"}, file : Files, stamps : Seq(Nat)]

TypeOK ==
    /\ tree \subseteq Existing
    /\ vals \in [Files -> Seq(Nat)]
    /\ last_update_stamp \in [Files -> Nat]
    /\ last_flush_time \in [Files -> Nat]
    /\ queue \in Seq(Files)
    /\ state \in {"RUNNING", "FLUSHING", "SHUTDOWN"}
    /\ flush_at_shutdown \in BOOLEAN /\ leaked \in BOOLEAN
    /\ wpc \in [Writers -> {"loop", "wait", "woken", "write", "notify", "exit"}]
    /\ wfile \in [Writers -> Files \cup {NoFile}]
    /\ wvals \in [Writers -> Seq(Nat)]
    /\ fpc \in {"loop", "rotate", "reopen", "unlink", "done"}
    /\ next_flush \in Nat
    /\ cpc \in [Conns -> {"none", "starting", "poll", "cmd", "stat", "flushwait",
                         "flushed", "forget"}]
    /\ inbuf \in [Conns -> Seq(Commands)]
    /\ cnow \in [Conns -> Nat]
    /\ mpc \in {"listen", "waitconns", "joinflush", "joinqueue", "exited",
                "aborted", "down"}
    /\ connection_threads_num \in Nat
    /\ jdead \in Seq(Entries) /\ jold \in Seq(Entries) /\ jcur \in Seq(Entries)
    /\ jdurable \in 0 .. Len(jcur)
    /\ jopen \in BOOLEAN
    /\ disk \in [Files -> Seq(Nat)]
    /\ clock \in 0 .. MaxClock
    /\ bounds \in [cmds : 0 .. MaxCmds, signals : 0 .. MaxSignals,
                   restarts : 0 .. MaxRestarts, werrors : 0 .. MaxWriteErrors,
                   jerrors : 0 .. MaxJournalErrors]
    /\ ledger \in [Files -> Seq(Nat)]
    /\ unlogged \in [Files -> SUBSET Nat]

\* Whatever order UPDATE, FLUSH, FLUSHALL, FORGET, the flush thread and the
\* writers run in, a queued item is queued once, is in the tree and holds
\* values: the assert (ci->values_num > 0) of queue_thread_main.
QueueOK ==
    /\ \A i, j \in 1 .. Len(queue) : queue[i] = queue[j] => i = j
    /\ \A f \in WQ!ElementsOf(queue) : f \in tree /\ vals[f] # <<>>

\* flush_file waits without testing a condition, so a wake-up it misses is
\* lost for good.  None is: while a client waits, its item is queued, or a
\* writer has it and will broadcast.
WaiterServed ==
    \A c \in Conns : cpc[c] = "flushwait" =>
        LET f == Command(c).file
        IN  /\ f \in tree
            /\ \/ f \in WQ!ElementsOf(queue)
               \/ \E w \in Writers : wfile[w] = f

\* enqueue_cache_item signals one thread and signal handlers broadcast without
\* the lock; still the queue is never left to sleeping writers.
NoSleepingWriters ==
    queue # <<>> /\ (\A w \in Writers : wpc[w] # "exit")
        => \E w \in Writers : wpc[w] # "wait"

\* With one writer thread, as long as nothing fails: a file whose stamps were
\* accepted in increasing order is, at every moment, on disk, with the writer
\* and in the cache in exactly the order of acceptance, nothing lost, nothing
\* twice.  (Stamps go backwards when FORGET or the purge of an idle item lets
\* last_update_stamp start again from zero.)
TheWriter == CHOOSE w \in Writers : TRUE

LedgerExact ==
    Writers = {TheWriter} /\ Alive /\ bounds.restarts = 0 /\ bounds.werrors = 0 =>
        \A f \in Files : Increasing(ledger[f]) =>
            ledger[f] = disk[f]
                        \o (IF wfile[TheWriter] = f THEN wvals[TheWriter] ELSE <<>>)
                        \o vals[f]

\* journal_rotate deletes the updates of two intervals ago.  A cached value
\* that was journaled and that the remaining journal files do not hold is at
\* least in the queue, as long as the flush interval leaves room for the write
\* interval, the jitter and the delay of the rotation.  (read_options warns when
\* -f is less than twice -w, or -z more than -w.)
RotatesInTime ==
    \A j \in Jitters : WriteInterval + j + MaxRotateDelay <= FlushInterval

InJournal(f, v) ==
    \E i \in 1 .. Len(jold \o jcur) :
        LET e == (jold \o jcur)[i]
        IN  e.op = "update" /\ e.file = f /\ v \in WQ!ElementsOf(e.stamps)

RotationSafe ==
    Journaling /\ RotatesInTime =>
        \A f \in Files : \A v \in WQ!ElementsOf(vals[f]) \ unlogged[f] :
            f \in WQ!ElementsOf(queue) \/ InJournal(f, v)

\* What a restart rebuilds from the journal is what the cache holds: a cached
\* value whose update was journaled is replayed, unless a later entry says that
\* the file was written or forgotten -- provided that the updates journaled for
\* the file since it was last forgotten came in the order of their stamps.  The
\* daemon does not see to that: FORGET empties the item before it writes to the
\* journal, and an UPDATE is journaled before its stamps are compared, so that
\* one the cache refused can be replayed once the entries it came after are gone.
InOrder(f) ==
    LET entries == jold \o jcur
    IN  \A i, k \in 1 .. Len(entries) :
            /\ i < k
            /\ \A n \in i .. k :
                  entries[n].file = f => entries[n].op \in {"update", "wrote"}
            /\ entries[i].op = "update" /\ entries[i].file = f
            /\ entries[k].op = "update" /\ entries[k].file = f
            => \A x \in WQ!ElementsOf(entries[i].stamps),
                  y \in WQ!ElementsOf(entries[k].stamps) : x < y

StillPending(f, v) ==
    LET entries == jold \o jcur
    IN  \E i \in 1 .. Len(entries) :
            /\ entries[i].op = "update" /\ entries[i].file = f
            /\ v \in WQ!ElementsOf(Taken(entries[i].stamps, 0))
            /\ \A k \in i + 1 .. Len(entries) :
                  entries[k].file = f => entries[k].op = "update"

ReplayRestoresCache ==
    LET items == Replay(jold \o jcur)
    IN  \A f \in Files : InOrder(f) =>
            \A v \in WQ!ElementsOf(vals[f]) \ unlogged[f] :
                StillPending(f, v) => v \in WQ!ElementsOf(items[f].vals)

\* A client that waits for a FLUSH gets its answer.
FlushAnswered ==
    \A c \in Conns : cpc[c] = "flushwait" ~> cpc[c] # "flushwait"

\* No client is in the middle of a command.
Quiet == \A c \in Conns : cpc[c] \in {"none", "starting", "poll"}

\* When no command is being handled between the signal and the final flush, the
\* daemon stops, however the flush thread, the writers and main find out.
QuietShutdownCompletes == state = "FLUSHING" /\ Quiet ~> mpc = "exited"

\* ... and when it is to flush at shutdown, what is cached reaches the disk.
QuietShutdownFlushes ==
    \A f \in Files, v \in UNION {WQ!ElementsOf(b) : b \in Batches} :
        state = "FLUSHING" /\ flush_at_shutdown /\ Quiet
        /\ v \in WQ!ElementsOf(vals[f]) ~> v \in WQ!ElementsOf(disk[f])

-------------------------------------------------------------------------------
(* What the documentation says and the code does not keep.                *)

\* doc/rrdcached.pod, option -j: "no information is lost; all pending updates
\* will be replayed from the journal next time the daemon starts up."
NoInformationLost ==
    [][Exit /\ ~flush_at_shutdown =>
          \A f \in Files : Increasing(ledger[f]) =>
              WQ!ElementsOf(ledger[f]) \ unlogged[f]
                  \subseteq WQ!ElementsOf(disk[f])
                            \cup WQ!ElementsOf(Replay(jcur')[f].vals)
      ]_vars

\* doc/rrdcached.pod, SIGINT and SIGTERM: "The daemon exits normally on receipt
\* of either of these signals."
SignalledDaemonExits == state # "RUNNING" ~> mpc = "exited"
===============================================================================
