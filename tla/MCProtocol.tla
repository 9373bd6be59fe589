----------------------------- MODULE MCProtocol -----------------------------
(* Instances of RrdClient for model checking.                                *)
EXTENDS RrdClient

P(dir, name) == [dir |-> dir, up |-> FALSE, name |-> name]
A == P("base", "a")
B == P("base", "b")
Climbing == [A EXCEPT !.up = TRUE]
Files == {A, B, P("cwd", "a"), P("else", "a")}

(* Lines of a client that writes them itself.                                *)
L(cmd, path, vals) == [cmd |-> cmd, path |-> path, vals |-> vals, size |-> 1]
Plain(cmd) == L(cmd, None, <<>>)
On(cmd, path) == L(cmd, path, <<>>)
U(path, vals) == L("UPDATE", path, vals)
Sized(line, n) == [line EXCEPT !.size = n]

(* Commands of the tool.                                                     *)
C(tool, daemon, path, vals) ==
    [tool |-> tool, daemon |-> daemon, paths |-> <<path>>, vals |-> vals, template |-> FALSE, long |-> FALSE]

Everything == Commands
Raw1(addr, leaves, lines) == [addr |-> addr, leaves |-> leaves, lines |-> lines]
Quiet ==
    [addrs |-> {"unix", "port"}, unix |-> {"unix"}, addr |-> [p \in Procs |-> "unix"],
     starts |-> {1}, after |-> [p \in Procs |-> {}], stale |-> {}, crashes |-> 0, stops |-> 0,
     files |-> Files, baseOnly |-> FALSE, ages |-> FALSE,
     perms |-> [a \in {"unix", "port"} |-> Everything],
     raw |-> <<>>, env |-> None, tool |-> <<>>]
Pipelined(lines) == [Quiet EXCEPT !.raw = <<Raw1("unix", FALSE, lines)>>]
Two(one, other) == [Quiet EXCEPT !.raw = <<Raw1("unix", FALSE, one), Raw1("unix", FALSE, other)>>]
Left(addr, lines) ==
    [Quiet EXCEPT !.raw = <<Raw1(addr, TRUE, lines)>>, !.addr = [p \in Procs |-> addr]]
Run(env, tool) == [Quiet EXCEPT !.env = env, !.tool = tool]

(* Answers of all lengths, in one buffer and in several.                     *)
Looks == Pipelined(<<Plain("STATS"), On("PENDING", A), U(P("", "a"), <<1, 2>>), On("PENDING", A),
                     Plain("QUEUE"), On("FLUSH", A), On("PENDING", A), Plain("HELP"), Plain("nonsense"),
                     Plain("QUIT"), Plain("STATS")>>)
Batches == Pipelined(<<U(A, <<1>>), Plain("BATCH"), U(A, <<2, 2, 3>>), Plain("nonsense"), Plain("STATS"),
                       On("FORGET", B), U(A, <<4>>), On("FLUSH", A), Plain("BATCH"), Plain("."), Plain("."),
                       On("QUEUE", None), Plain("BATCH"), U(B, <<0>>), Plain("."), Plain("BATCH"), Plain("QUIT")>>)
Denied == [Pipelined(<<Plain("BATCH"), Plain("."), U(A, <<1>>), On("PENDING", A), Plain("WROTE"), On("FLUSH", A)>>)
             EXCEPT !.perms["unix"] = {"FLUSH", "PENDING", "WROTE"}]
Cut == Pipelined(<<Sized(U(A, <<1, -1>>), 3), Sized(U(A, <<-1>>), 2), Sized(U(A, <<2>>), 4),
                   On("UPDATE", None), Plain("FLUSH"), Plain("PENDING"), Plain("broken"), Plain("STATS")>>)
Endless == Pipelined(<<Plain("STATS"), Sized(Plain("endless"), 6)>>)
Confined == [Pipelined(<<U(Climbing, <<1>>), U(P("else", "a"), <<1>>), U(P("", "a"), <<1>>), On("FLUSH", Climbing),
                         On("FORGET", Climbing), On("PENDING", A)>>) EXCEPT !.baseOnly = TRUE]
TwoNames == Pipelined(<<U(Climbing, <<3>>), U(P("else", "a"), <<1, 2>>), On("FLUSH", P("else", "a")),
                        On("FLUSH", Climbing), On("FLUSH", P("base", "none")), U(P("base", "none"), <<1>>)>>)
LeftEarly == {Left(a, <<Plain("BATCH"), U(A, <<1>>), U(B, <<1>>), Plain("."), U(A, <<2>>), On("FLUSH", A)>>)
                : a \in {"unix", "port"}}

(* Two clients of one daemon.                                                *)
Flushers == Two(<<U(A, <<1>>), On("FLUSH", A), U(A, <<3>>), On("FLUSH", A)>>, <<U(A, <<2>>), On("FLUSH", A)>>)
Forgetters == [Two(<<U(A, <<1>>), U(B, <<1>>), On("FLUSH", A)>>,
                   <<Plain("FLUSHALL"), On("FORGET", A), U(A, <<2>>), Plain("QUEUE")>>) EXCEPT !.ages = TRUE]
Stopped == [Two(<<U(A, <<1>>), On("FLUSH", A)>>, <<Plain("BATCH"), U(B, <<1>>)>>) EXCEPT !.stops = 1]

(* The tool, with one daemon, with a second one after a crash, between two   *)
(* addresses, and without any.                                               *)
OneRun == Run("unix", <<C("update", None, P("", "a"), <<1, 2>>), C("fetch", None, P("", "a"), <<>>),
                        C("update", None, P("", "a"), <<2>>), C("update", None, A, <<3, 3>>),
                        [C("flushcached", None, A, <<>>) EXCEPT !.paths = <<A, P("", "a"), P("", "c"), B>>],
                        [C("flushcached", None, A, <<>>) EXCEPT !.paths = <<A, B>>],
                        C("stats", None, A, <<>>)>>)
Meddled == [Run("unix", <<C("update", None, A, <<1, 3>>), C("fetch", "unix", A, <<>>)>>)
              EXCEPT !.raw = <<Raw1("unix", FALSE, <<U(A, <<2>>), On("FLUSH", A), On("FORGET", A)>>)>>]
Restarted(addr) ==
    [Run(addr, <<C("update", None, P("", "a"), <<1>>), C("update", None, P("", "a"), <<2>>),
                 C("update", None, P("", "a"), <<2>>), C("fetch", None, P("", "a"), <<>>)>>)
       EXCEPT !.starts = {1, 2}, !.after = <<{}, {1}, {}>>, !.crashes = 1, !.stops = 1,
              !.addr = [p \in Procs |-> addr]]
Between == [Run(None, <<C("update", "unix", P("cwd", "a"), <<1>>), C("update", None, P("", "a"), <<2>>),
                        C("update", "port", P("", "a"), <<3>>), C("fetch", "port", P("", "a"), <<>>),
                        C("fetch", None, P("", "a"), <<>>), C("update", "port", P("cwd", "a"), <<4>>),
                        C("stats", None, A, <<>>)>>)
              EXCEPT !.starts = {1, 2}, !.addr = <<"unix", "port", "unix">>]
Odd == Run("unix", <<[C("update", None, A, <<1>>) EXCEPT !.template = TRUE],
                     [C("update", None, A, <<1>>) EXCEPT !.long = TRUE],
                     C("update", "port", A, <<1>>), C("fetch", "port", P("", "c"), <<>>),
                     C("flushcached", "port", A, <<>>)>>)
Alone == Run(None, <<C("update", None, P("", "a"), <<1>>), C("update", None, P("", "c"), <<1>>),
                     [C("update", None, P("", "a"), <<2>>) EXCEPT !.template = TRUE],
                     C("flushcached", None, A, <<>>), C("fetch", None, P("", "a"), <<>>)>>)

(* Daemons that start, crash and leave while others start.                   *)
Starts(a, stale, crashes, stops) ==
    [Quiet EXCEPT !.starts = Procs, !.addr = [p \in Procs |-> a], !.stale = stale,
                  !.crashes = crashes, !.stops = stops]

MCJobs == {Looks, Batches, Denied, Cut, Endless, Confined, TwoNames, Flushers, Forgetters, Stopped,
           OneRun, Meddled, Restarted("unix"), Restarted("port"), Between, Odd, Alone,
           Starts("unix", {}, 1, 1), Starts("unix", {"unix"}, 1, 2), Starts("port", {"port"}, 1, 1)}
          \union LeftEarly

=============================================================================
