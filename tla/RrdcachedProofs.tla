---------------------------- MODULE RrdcachedProofs ----------------------------
(***************************************************************************)
(* For every number of files, writers and connections, every mix of        *)
(* commands, signals, crashes and restarts: the queue of rrdcached holds   *)
(* only live items with values, each once (QueueOK); a client that waits   *)
(* in flush_file is never forgotten (WaiterServed); the queue is never     *)
(* left to writers that all sleep (NoSleepingWriters).  And what became of *)
(* the values that clients sent: while nothing fails and one thread        *)
(* writes, every accepted value is in one place and in its turn            *)
(* (LedgerExact); journal_rotate never deletes the last record of a value  *)
(* that nobody is going to write (RotationSafe); the replay rebuilds what  *)
(* the journal says is pending (ReplayRestoresCache).                      *)
(***************************************************************************)
EXTENDS Rrdcached, NaturalLemmas, SequenceTheorems, FiniteSetTheorems, TLAPS

NoDup(q) == \A i, j \in 1 .. Len(q) : q[i] = q[j] => i = j

Elems(q) == WQ!ElementsOf(q)

Busy == {"cmd", "stat", "flushwait", "flushed", "forget"}

\* Connection threads that have counted themselves.
Counted(pcs) == {c \in Conns : pcs[c] \notin {"none", "starting"}}

ConnPCs == {"none", "starting", "poll"} \cup Busy

\* The invariant, by the part of the state it is about.  Connections: a thread
\* that handles a command has it in its buffer, and every thread is counted.
ConnInv ==
    /\ cpc \in [Conns -> ConnPCs]
    /\ inbuf \in [Conns -> Seq(Commands)]
    /\ cnow \in [Conns -> Nat]
    /\ \A c \in Conns :
          /\ cpc[c] \in Busy => inbuf[c] # <<>>
          /\ cpc[c] = "stat" => Command(c).op = "UPDATE"
          /\ cpc[c] \in {"flushwait", "flushed"} => Command(c).op = "FLUSH"
          /\ cpc[c] = "forget" => Command(c).op = "FORGET"
    /\ connection_threads_num = Cardinality(Counted(cpc))

\* Writers: one that has a file is writing it or about to say so.
WriterInv ==
    /\ wpc \in [Writers -> {"loop", "wait", "woken", "write", "notify", "exit"}]
    /\ wfile \in [Writers -> Files \cup {NoFile}]
    /\ wvals \in [Writers -> Seq(Nat)]
    /\ \A w \in Writers : wfile[w] # NoFile <=> wpc[w] \in {"write", "notify"}

CacheInv ==
    /\ tree \subseteq Existing
    /\ vals \in [Files -> Seq(Nat)]
    /\ last_update_stamp \in [Files -> Nat]
    /\ last_flush_time \in [Files -> Nat]
    /\ queue \in Seq(Files)
    /\ NoDup(queue)
    /\ \A f \in Elems(queue) : f \in tree /\ vals[f] # <<>>

JournalInv ==
    /\ jdead \in Seq(Entries) /\ jold \in Seq(Entries) /\ jcur \in Seq(Entries)
    /\ jdurable \in 0 .. Len(jcur)
    /\ jopen \in BOOLEAN

ProcessInv ==
    /\ state \in {"RUNNING", "FLUSHING", "SHUTDOWN"}
    /\ flush_at_shutdown \in BOOLEAN
    /\ leaked \in BOOLEAN
    /\ mpc \in {"listen", "waitconns", "joinflush", "joinqueue", "exited",
                "aborted", "down"}
    /\ fpc \in {"loop", "rotate", "reopen", "unlink", "done"}
    /\ next_flush \in Nat
    /\ ~Alive => /\ \A c \in Conns : cpc[c] = "none"
                 /\ \A w \in Writers : wpc[w] = "exit"
                 /\ fpc = "done"

WorldInv ==
    /\ disk \in [Files -> Seq(Nat)]
    /\ clock \in 0 .. MaxClock
    /\ bounds \in [cmds : 0 .. MaxCmds, signals : 0 .. MaxSignals,
                   restarts : 0 .. MaxRestarts, werrors : 0 .. MaxWriteErrors,
                   jerrors : 0 .. MaxJournalErrors]

HistoryInv ==
    /\ ledger \in [Files -> Seq(Nat)]
    /\ unlogged \in [Files -> SUBSET Nat]

IInv ==
    /\ ConnInv /\ WriterInv /\ CacheInv /\ JournalInv
    /\ ProcessInv /\ WorldInv /\ HistoryInv
    /\ WaiterServed /\ NoSleepingWriters

-------------------------------------------------------------------------------
(* Numbers, sequences and sets.                                            *)

\* The bounds on the environment are natural numbers.
LEMMA BoundsAreNumbers ==
    /\ MaxCmds \in Nat /\ MaxRestarts \in Nat /\ MaxSignals \in Nat
    /\ MaxWriteErrors \in Nat /\ MaxJournalErrors \in Nat
BY RrdcachedAssumption

\* What is left of a queue after remove_from_queue.
LEMMA WithoutProperties ==
    ASSUME NEW q \in Seq(Files), NoDup(q), NEW f
    PROVE  LET r == WQ!Without(q, f)
           IN  r \in Seq(Files) /\ NoDup(r) /\ Elems(r) = Elems(q) \ {f}
<1> DEFINE r == WQ!Without(q, f)
<1>0. CASE f \notin Elems(q)
  BY <1>0 DEF WQ!Without, Elems
<1>1. CASE f \in Elems(q)
  <2>1. PICK k \in 1 .. Len(q) : q[k] = f
    BY <1>1 DEF Elems, WQ!ElementsOf
  <2>2. (CHOOSE i \in 1 .. Len(q) : q[i] = f) = k
    BY <2>1 DEF NoDup
  <2>3. r = [i \in 1 .. Len(q) - 1 |-> IF i < k THEN q[i] ELSE q[i + 1]]
    BY <1>1, <2>2 DEF WQ!Without, Elems
  <2>4. Len(q) - 1 \in Nat /\ Len(q) \in Nat
    BY <2>1
  <2>5. \A i \in 1 .. Len(q) - 1 : (IF i < k THEN q[i] ELSE q[i + 1]) \in Files
    BY <2>4
  <2>6. r \in Seq(Files) /\ Len(r) = Len(q) - 1
    BY <2>3, <2>4, <2>5
  <2>7. NoDup(r)
    BY <2>3, <2>4, <2>6 DEF NoDup
  <2>8. \A i \in 1 .. Len(q) - 1 : r[i] = IF i < k THEN q[i] ELSE q[i + 1]
    BY <2>3
  <2>9. \A i \in 1 .. Len(q) - 1 : r[i] \in Elems(q) \ {f}
    BY <2>1, <2>8, <2>4 DEF Elems, WQ!ElementsOf, NoDup
  <2>10. ASSUME NEW j \in 1 .. Len(q), q[j] # f
         PROVE  \E i \in 1 .. Len(q) - 1 : q[j] = r[i]
    <3>1. CASE j < k
      <4>1. j \in 1 .. Len(q) - 1 /\ q[j] = r[j]
        BY <3>1, <2>4, <2>8
      <4> QED BY <4>1
    <3>2. CASE j > k
      <4>1. j - 1 \in 1 .. Len(q) - 1 /\ q[j] = r[j - 1]
        BY <3>2, <2>4, <2>8
      <4> QED BY <4>1
    <3> QED BY <3>1, <3>2, <2>1, <2>10
  <2> HIDE DEF r
  <2>11. \A x \in Elems(q) \ {f} : \E i \in 1 .. Len(q) - 1 : x = r[i]
    BY <2>10 DEF Elems, WQ!ElementsOf
  <2>12. Elems(r) = Elems(q) \ {f}
    BY <2>9, <2>11, <2>6 DEF Elems, WQ!ElementsOf
  <2> QED BY <2>6, <2>7, <2>12 DEF r
<1> QED BY <1>0, <1>1

\* The queue after enqueue_cache_item (ci, HEAD).
LEMMA AtHeadProperties ==
    ASSUME NEW q \in Seq(Files), NoDup(q), NEW f \in Files
    PROVE  LET r == WQ!AtHead(q, f)
           IN  r \in Seq(Files) /\ NoDup(r) /\ Elems(r) = Elems(q) \cup {f}
<1> DEFINE t == WQ!Without(q, f)
           r == WQ!AtHead(q, f)
<1>1. t \in Seq(Files) /\ NoDup(t) /\ Elems(t) = Elems(q) \ {f}
  BY WithoutProperties
<1>2. <<f>> \in Seq(Files) /\ Len(<<f>>) = 1 /\ <<f>>[1] = f
  OBVIOUS
<1>3. r = <<f>> \o t
  BY DEF WQ!AtHead
<1> HIDE DEF t, r
<1>4. /\ r \in Seq(Files) /\ Len(r) = Len(t) + 1 /\ Len(t) \in Nat
      /\ \A i \in 1 .. Len(r) : r[i] = IF i = 1 THEN f ELSE t[i - 1]
  BY <1>1, <1>2, <1>3, ConcatProperties
<1>5. \A i \in 1 .. Len(t) : t[i] # f
  BY <1>1 DEF Elems, WQ!ElementsOf
<1>6. NoDup(r)
  <2> SUFFICES ASSUME NEW i \in 1 .. Len(r), NEW j \in 1 .. Len(r), r[i] = r[j]
               PROVE  i = j
    BY DEF NoDup
  <2>0. \A k \in 1 .. Len(r) : k # 1 => k - 1 \in 1 .. Len(t) /\ r[k] = t[k - 1] /\ r[k] # f
    <3> SUFFICES ASSUME NEW k \in 1 .. Len(r), k # 1
                 PROVE  k - 1 \in 1 .. Len(t) /\ r[k] = t[k - 1] /\ r[k] # f
      OBVIOUS
    <3>1. k - 1 \in 1 .. Len(t) /\ r[k] = t[k - 1]
      BY <1>4
    <3> QED BY <1>5, <3>1
  <2>00. 1 \in 1 .. Len(r) /\ r[1] = f
    BY <1>4
  <2>1. CASE i = 1
    BY <2>1, <2>0, <2>00
  <2>2. CASE j = 1
    BY <2>2, <2>0, <2>00
  <2>3. CASE i # 1 /\ j # 1
    <3>1. i - 1 \in 1 .. Len(t) /\ j - 1 \in 1 .. Len(t) /\ t[i - 1] = t[j - 1]
      BY <2>3, <1>4
    <3> QED BY <3>1, <1>1 DEF NoDup
  <2> QED BY <2>1, <2>2, <2>3
<1>7. Elems(r) = Elems(t) \cup {f}
  <2>1. \A i \in 1 .. Len(r) : r[i] \in Elems(t) \cup {f}
    BY <1>4 DEF Elems, WQ!ElementsOf
  <2>2. \A i \in 1 .. Len(t) : i + 1 \in 1 .. Len(r) /\ r[i + 1] = t[i]
    BY <1>4
  <2>3. 1 \in 1 .. Len(r) /\ r[1] = f
    BY <1>4
  <2> QED BY <2>1, <2>2, <2>3 DEF Elems, WQ!ElementsOf
<1> QED BY <1>1, <1>4, <1>6, <1>7 DEF r

\* Two queues without repetition and with nothing in common, one after the other.
LEMMA ConcatNoDup ==
    ASSUME NEW p \in Seq(Files), NEW q \in Seq(Files), NoDup(p), NoDup(q),
           Elems(p) \cap Elems(q) = {}
    PROVE  /\ p \o q \in Seq(Files) /\ NoDup(p \o q)
           /\ Elems(p \o q) = Elems(p) \cup Elems(q)
<1> DEFINE r == p \o q
<1>1. /\ r \in Seq(Files) /\ Len(r) = Len(p) + Len(q)
      /\ Len(p) \in Nat /\ Len(q) \in Nat
      /\ \A i \in 1 .. Len(r) : r[i] = IF i <= Len(p) THEN p[i] ELSE q[i - Len(p)]
  BY ConcatProperties
<1> HIDE DEF r
<1>2. \A i \in 1 .. Len(p), j \in 1 .. Len(q) : p[i] # q[j]
  BY DEF Elems, WQ!ElementsOf
<1>3. NoDup(r)
  <2> SUFFICES ASSUME NEW i \in 1 .. Len(r), NEW j \in 1 .. Len(r), r[i] = r[j]
               PROVE  i = j
    BY DEF NoDup
  <2>1. CASE i <= Len(p) /\ j <= Len(p)
    <3>1. i \in 1 .. Len(p) /\ j \in 1 .. Len(p) /\ p[i] = p[j]
      BY <2>1, <1>1
    <3> QED BY <3>1 DEF NoDup
  <2> DEFINE a == i - Len(p)
             b == j - Len(p)
  <2>2. i > Len(p) => a \in 1 .. Len(q) /\ r[i] = q[a] /\ i = a + Len(p)
    <3>1. i > Len(p) => a \in 1 .. Len(q) /\ i = a + Len(p)
      BY <1>1
    <3>2. i > Len(p) => r[i] = q[a]
      BY <1>1
    <3> QED BY <3>1, <3>2
  <2>3. j > Len(p) => b \in 1 .. Len(q) /\ r[j] = q[b] /\ j = b + Len(p)
    <3>1. j > Len(p) => b \in 1 .. Len(q) /\ j = b + Len(p)
      BY <1>1
    <3>2. j > Len(p) => r[j] = q[b]
      BY <1>1
    <3> QED BY <3>1, <3>2
  <2> HIDE DEF a, b
  <2>4. CASE i > Len(p) /\ j > Len(p)
    <3>1. a = b
      BY <2>2, <2>3, <2>4 DEF NoDup
    <3> QED BY <3>1, <2>2, <2>3, <2>4
  <2>5. CASE i <= Len(p) /\ j > Len(p)
    BY <2>3, <2>5, <1>1, <1>2
  <2>6. CASE i > Len(p) /\ j <= Len(p)
    BY <2>2, <2>6, <1>1, <1>2
  <2>7. i \in Int /\ j \in Int /\ Len(p) \in Int
    BY <1>1
  <2> QED BY <2>1, <2>4, <2>5, <2>6, <2>7
<1>4. Elems(r) = Elems(p) \cup Elems(q)
  <2>1. \A i \in 1 .. Len(r) : r[i] \in Elems(p) \cup Elems(q)
    <3> SUFFICES ASSUME NEW i \in 1 .. Len(r)
                 PROVE  r[i] \in Elems(p) \cup Elems(q)
      OBVIOUS
    <3>1. CASE i <= Len(p)
      BY <3>1, <1>1 DEF Elems, WQ!ElementsOf
    <3>2. CASE i > Len(p)
      <4>1. i - Len(p) \in 1 .. Len(q) /\ r[i] = q[i - Len(p)]
        BY <3>2, <1>1
      <4> QED BY <4>1 DEF Elems, WQ!ElementsOf
    <3> QED BY <3>1, <3>2, <1>1
  <2>2. \A i \in 1 .. Len(p) : i \in 1 .. Len(r) /\ r[i] = p[i]
    BY <1>1
  <2>3. \A i \in 1 .. Len(q) : i + Len(p) \in 1 .. Len(r) /\ r[i + Len(p)] = q[i]
    BY <1>1
  <2>4. \A x \in Elems(p) : x \in Elems(r)
    BY <2>2 DEF Elems, WQ!ElementsOf
  <2>5. \A x \in Elems(q) : x \in Elems(r)
    BY <2>3 DEF Elems, WQ!ElementsOf
  <2>6. \A x \in Elems(r) : x \in Elems(p) \cup Elems(q)
    BY <2>1 DEF Elems, WQ!ElementsOf
  <2> QED BY <2>4, <2>5, <2>6
<1> QED BY <1>1, <1>3, <1>4 DEF r

\* A file put behind the queue that does not hold it.
LEMMA AppendNoDup ==
    ASSUME NEW q \in Seq(Files), NoDup(q), NEW f \in Files, f \notin Elems(q)
    PROVE  /\ Append(q, f) \in Seq(Files) /\ NoDup(Append(q, f))
           /\ Elems(Append(q, f)) = Elems(q) \cup {f}
<1>1. /\ Append(q, f) \in Seq(Files) /\ Len(Append(q, f)) = Len(q) + 1
      /\ Len(q) \in Nat
      /\ \A i \in 1 .. Len(q) + 1 :
            Append(q, f)[i] = IF i <= Len(q) THEN q[i] ELSE f
  OBVIOUS
<1>2. NoDup(Append(q, f))
  BY <1>1 DEF NoDup, Elems, WQ!ElementsOf
<1>3. \A i \in 1 .. Len(q) : i \in 1 .. Len(q) + 1 /\ Append(q, f)[i] = q[i]
  BY <1>1
<1>4. Len(q) + 1 \in 1 .. Len(q) + 1 /\ Append(q, f)[Len(q) + 1] = f
  BY <1>1
<1>5. \A i \in 1 .. Len(q) + 1 : Append(q, f)[i] \in Elems(q) \cup {f}
  BY <1>1 DEF Elems, WQ!ElementsOf
<1>6. Elems(Append(q, f)) = Elems(q) \cup {f}
  BY <1>1, <1>3, <1>4, <1>5 DEF Elems, WQ!ElementsOf
<1> QED BY <1>1, <1>2, <1>6

\* The queue without its head.
LEMMA TailNoDup ==
    ASSUME NEW q \in Seq(Files), NoDup(q), q # <<>>
    PROVE  /\ Tail(q) \in Seq(Files) /\ NoDup(Tail(q))
           /\ Head(q) \in Elems(q)
           /\ Elems(Tail(q)) = Elems(q) \ {Head(q)}
<1>1. /\ Tail(q) \in Seq(Files) /\ Len(Tail(q)) = Len(q) - 1
      /\ \A i \in 1 .. Len(Tail(q)) : Tail(q)[i] = q[i + 1]
  BY HeadTailProperties
<1>2. Len(q) \in Nat /\ 1 \in 1 .. Len(q) /\ Head(q) = q[1]
  OBVIOUS
<1>3. NoDup(Tail(q))
  BY <1>1, <1>2 DEF NoDup
<1>4. \A i \in 1 .. Len(Tail(q)) : Tail(q)[i] \in Elems(q) \ {Head(q)}
  BY <1>1, <1>2 DEF Elems, WQ!ElementsOf, NoDup
<1>5. \A i \in 1 .. Len(q) : q[i] # Head(q) =>
          i - 1 \in 1 .. Len(Tail(q)) /\ Tail(q)[i - 1] = q[i]
  BY <1>1, <1>2
<1>6. Elems(Tail(q)) = Elems(q) \ {Head(q)}
  BY <1>4, <1>5 DEF Elems, WQ!ElementsOf
<1> QED BY <1>1, <1>2, <1>3, <1>6 DEF Elems, WQ!ElementsOf

\* g_tree_foreach visits every file once.
LEMMA OrderingsProperties ==
    ASSUME NEW S \in SUBSET Files, NEW q \in Orderings(S)
    PROVE  /\ q \in Seq(Files) /\ NoDup(q) /\ Elems(q) = S
           /\ S # {} => Cardinality(S) \in Nat /\ Cardinality(S) >= 1
<1> DEFINE n == Cardinality(S)
<1>1. IsFiniteSet(S)
  BY RrdcachedAssumption, FS_Subset
<1>2. n \in Nat /\ (n = 0 <=> S = {})
  BY <1>1, FS_CardinalityType, FS_EmptySet
<1> HIDE DEF n
<1>3. q \in [1 .. n -> S] /\ WQ!ElementsOf(q) = S
  BY DEF Orderings, n
<1>4. q \in Seq(Files) /\ Len(q) = n
  BY <1>2, <1>3
<1>5. q \in Surjection(1 .. n, S)
  BY <1>3, <1>4 DEF WQ!ElementsOf, Surjection
<1>6. IsFiniteSet(1 .. n) /\ Cardinality(1 .. n) = n
  BY <1>2, FS_Interval
<1>7. q \in Injection(1 .. n, S)
  BY <1>1, <1>5, <1>6, FS_SurjSameCardinalityImpliesInj DEF n
<1>8. NoDup(q)
  BY <1>4, <1>7 DEF NoDup, Injection, IsInjective
<1> QED BY <1>2, <1>3, <1>4, <1>8 DEF Elems, n

-------------------------------------------------------------------------------
(* Commands, values and the replay of the journal.                         *)

\* What a command carries follows from its name.
LEMMA CommandFields ==
    ASSUME NEW m \in Commands
    PROVE  /\ m.op = "UPDATE" => m.file \in Files /\ m.stamps \in Seq(Nat)
           /\ m.op \in {"FLUSH", "FORGET"} => m.file \in Files
BY RrdcachedAssumption DEF Commands

\* handle_request_update stores a prefix of the values it is given.
LEMMA TakenType ==
    ASSUME NEW ss \in Seq(Nat), NEW last
    PROVE  Taken(ss, last) \in Seq(Nat)
<1> DEFINE forward(i) == ss[i] > (IF i = 1 THEN last ELSE ss[i - 1])
           S == {n \in 1 .. Len(ss) : \A i \in 1 .. n : forward(i)}
           k == Cardinality(S)
<1>1. Len(ss) \in Nat
  OBVIOUS
<1>2. IsFiniteSet(1 .. Len(ss)) /\ Cardinality(1 .. Len(ss)) = Len(ss)
  <2>1. \A n \in Nat : IsFiniteSet(1 .. n) /\ Cardinality(1 .. n) = n
    BY FS_Interval
  <2> QED BY <1>1, <2>1
<1>3. S \in SUBSET (1 .. Len(ss))
  OBVIOUS
<1> HIDE DEF S
<1>4. k \in Nat /\ k <= Len(ss)
  BY <1>2, <1>3, FS_Subset, FS_CardinalityType
<1> HIDE DEF k
<1>5. SubSeq(ss, 1, k) \in Seq(Nat)
  BY <1>1, <1>4
<1> QED BY <1>5 DEF Taken, k, S, forward

\* The last stamp, or the one before.
LEMMA LastOfType ==
    ASSUME NEW q \in Seq(Nat), NEW default \in Nat
    PROVE  LastOf(q, default) \in Nat
BY DEF LastOf

ItemType == [here : BOOLEAN, vals : Seq(Nat), last : Nat]

\* Items such as a replay may leave: only existing files, and no values
\* without an entry in the tree.
ItemsOK(items) ==
    /\ items \in [Files -> ItemType]
    /\ \A f \in Files : /\ items[f].here => f \in Existing
                        /\ ~items[f].here => items[f].vals = <<>>

\* One line of the journal keeps the items well formed.
LEMMA ReplayEntryOK ==
    ASSUME NEW items, ItemsOK(items), NEW e \in Entries
    PROVE  ItemsOK(ReplayEntry(items, e))
<1> DEFINE it == items[e.file]
           t == Taken(e.stamps, it.last)
<1>1. e.file \in Files /\ e.stamps \in Seq(Nat)
  BY DEF Entries
<1>2. it \in ItemType
  BY <1>1 DEF ItemsOK
<1>3. t \in Seq(Nat)
  BY <1>1, TakenType
<1> HIDE DEF t
<1>4. LastOf(t, it.last) \in Nat
  BY <1>2, <1>3, LastOfType DEF ItemType
<1>5. it.vals \o t \in Seq(Nat)
  BY <1>2, <1>3 DEF ItemType
<1>6. CASE e.op = "update" /\ e.file \in Existing
  <2> DEFINE new == [here |-> TRUE, vals |-> it.vals \o t, last |-> LastOf(t, it.last)]
  <2>1. new \in ItemType /\ new.here
    BY <1>4, <1>5 DEF ItemType
  <2>2. ReplayEntry(items, e) = [items EXCEPT ![e.file] = new]
    BY <1>6 DEF ReplayEntry, t
  <2> HIDE DEF new
  <2> QED BY <2>1, <2>2, <1>6, <1>1 DEF ItemsOK
<1>7. CASE ~(e.op = "update" /\ e.file \in Existing) /\ e.op = "wrote"
  <2> DEFINE new == [here |-> it.here, vals |-> <<>>, last |-> it.last]
  <2>1. /\ new \in ItemType /\ new.vals = <<>> /\ new.here = it.here
    BY <1>2 DEF ItemType
  <2>2. ReplayEntry(items, e) = [items EXCEPT ![e.file] = new]
    BY <1>7, <1>1 DEF ReplayEntry, ItemsOK
  <2> HIDE DEF new
  <2> QED BY <2>1, <2>2, <1>1 DEF ItemsOK
<1>8. CASE ~(e.op = "update" /\ e.file \in Existing) /\ e.op = "forget"
  <2>1. FreshItem \in ItemType /\ FreshItem.vals = <<>> /\ ~FreshItem.here
    BY DEF FreshItem, ItemType
  <2>2. ReplayEntry(items, e) = [items EXCEPT ![e.file] = FreshItem]
    BY <1>8 DEF ReplayEntry
  <2> QED BY <2>1, <2>2, <1>1 DEF ItemsOK
<1>9. CASE ~(e.op = "update" /\ e.file \in Existing) /\ e.op \notin {"wrote", "forget"}
  BY <1>9 DEF ReplayEntry
<1> QED BY <1>6, <1>7, <1>8, <1>9

\* The recursion that Replay uses has a solution, by the least length for which
\* it has none.
LEMMA ReplayDefined ==
    ASSUME NEW entries \in Seq(Entries)
    PROVE  \A n \in 0 .. Len(entries) : \E g : g = [k \in 0 .. n |->
              IF k = 0 THEN [f \in Files |-> FreshItem]
              ELSE ReplayEntry(g[k - 1], entries[k])]
<1> DEFINE start == [f \in Files |-> FreshItem]
           Solves(g, n) == g = [k \in 0 .. n |-> IF k = 0 THEN start
                                  ELSE ReplayEntry(g[k - 1], entries[k])]
           Bad == {n \in 0 .. Len(entries) : ~\E g : Solves(g, n)}
<1>1. SUFFICES ASSUME Bad # {} PROVE FALSE
  BY <1>1
<1>2. Len(entries) \in Nat /\ Bad \in SUBSET Nat
  OBVIOUS
<1>3. PICK n \in Bad : \A m \in Bad : n <= m
  BY <1>1, <1>2, Least
<1>4. CASE n = 0
  <2> DEFINE g == [k \in 0 .. 0 |-> start]
  <2>1. Solves(g, 0)
    BY DEF Solves
  <2> QED BY <2>1, <1>4
<1>5. CASE n # 0
  <2>0. n \in 0 .. Len(entries)
    OBVIOUS
  <2>1. n - 1 \in 0 .. Len(entries) /\ n - 1 \notin Bad /\ n \in Nat
    <3> HIDE DEF Bad
    <3> QED BY <2>0, <1>2, <1>3, <1>5
  <2>2. PICK h : Solves(h, n - 1)
    BY <2>1
  <2> DEFINE g == [k \in 0 .. n |-> IF k = 0 THEN start
                                   ELSE ReplayEntry(h[k - 1], entries[k])]
  <2>3. ASSUME NEW k \in 0 .. n - 1 PROVE g[k] = h[k]
    <3> HIDE DEF start
    <3>1. h[k] = IF k = 0 THEN start ELSE ReplayEntry(h[k - 1], entries[k])
      BY <2>2, <2>1
    <3>2. g[k] = IF k = 0 THEN start ELSE ReplayEntry(h[k - 1], entries[k])
      BY <2>1
    <3> QED BY <3>1, <3>2
  <2>4. \A k \in 0 .. n : k # 0 => k - 1 \in 0 .. n - 1
    BY <2>1
  <2> DEFINE G == [k \in 0 .. n |-> IF k = 0 THEN start
                                   ELSE ReplayEntry(g[k - 1], entries[k])]
  <2>5. \A k \in 0 .. n : g[k] = G[k]
    <3> HIDE DEF start
    <3> QED BY <2>3, <2>4
  <2>6. g = G
    <3> HIDE DEF start
    <3> QED BY <2>5
  <2>7. Solves(g, n)
    BY <2>6
  <2> QED BY <2>7, <1>3
<1> QED BY <1>4, <1>5

\* The items after each line of the journal.
LEMMA ReplaySteps ==
    ASSUME NEW entries \in Seq(Entries)
    PROVE  \E g : /\ Replay(entries) = g[Len(entries)]
                  /\ g[0] = [f \in Files |-> FreshItem]
                  /\ \A k \in 1 .. Len(entries) :
                        g[k] = ReplayEntry(g[k - 1], entries[k])
                  /\ \A k \in 0 .. Len(entries) : ItemsOK(g[k])
<1> DEFINE start == [f \in Files |-> FreshItem]
           g == CHOOSE x : x = [k \in 0 .. Len(entries) |-> IF k = 0 THEN start
                                  ELSE ReplayEntry(x[k - 1], entries[k])]
           Bad == {n \in 0 .. Len(entries) : ~ItemsOK(g[n])}
<1>1. Len(entries) \in Nat /\ Len(entries) \in 0 .. Len(entries)
  OBVIOUS
<1>2. g = [k \in 0 .. Len(entries) |-> IF k = 0 THEN start
                                       ELSE ReplayEntry(g[k - 1], entries[k])]
  BY <1>1, ReplayDefined
<1>3. Replay(entries) = g[Len(entries)]
  BY DEF Replay
<1> HIDE DEF g
<1>4. ItemsOK(start)
  BY DEF ItemsOK, FreshItem, ItemType
<1> HIDE DEF start
<1>5. g[0] = start
  BY <1>1, <1>2
<1>6. \A k \in 1 .. Len(entries) : g[k] = ReplayEntry(g[k - 1], entries[k])
  BY <1>1, <1>2
<1>7. Bad = {}
  <2> SUFFICES ASSUME Bad # {} PROVE FALSE
    OBVIOUS
  <2>0. Bad \in SUBSET Nat
    BY <1>1
  <2>1. PICK n \in Bad : \A m \in Bad : n <= m
    <3> HIDE DEF Bad
    <3> QED BY <2>0, Least
  <2>2. n # 0
    BY <2>1, <1>4, <1>5
  <2>3. n \in 1 .. Len(entries) /\ n - 1 \in 0 .. Len(entries) /\ n - 1 \notin Bad
    BY <2>1, <2>2, <1>1
  <2>4. ItemsOK(g[n - 1]) /\ entries[n] \in Entries
    BY <2>3
  <2>5. ItemsOK(g[n])
    BY <2>3, <2>4, <1>6, ReplayEntryOK
  <2> QED BY <2>5, <2>1
<1>8. \A k \in 0 .. Len(entries) : ItemsOK(g[k])
  BY <1>7
<1> QED BY <1>3, <1>5, <1>6, <1>8 DEF start

\* Whatever the journal holds, the daemon starts from well-formed items.
LEMMA ReplayOK ==
    ASSUME NEW entries \in Seq(Entries)
    PROVE  ItemsOK(Replay(entries))
<1>1. Len(entries) \in 0 .. Len(entries)
  BY LenProperties
<1> QED BY <1>1, ReplaySteps

-------------------------------------------------------------------------------
(* The parts that several actions share.                                   *)

\* Cardinality of the counted connections when one of them moves.
LEMMA CountedMoves ==
    ASSUME NEW S \in SUBSET Conns, NEW c \in Conns
    PROVE  /\ Cardinality(S) \in Nat
           /\ c \notin S => Cardinality(S \cup {c}) = Cardinality(S) + 1
           /\ c \in S => Cardinality(S \ {c}) = Cardinality(S) - 1
<1>1. IsFiniteSet(S)
  BY RrdcachedAssumption, FS_Subset
<1> QED BY <1>1, FS_CardinalityType, FS_AddElement, FS_RemoveElement

\* cpc, but that some clients that waited in flush_file were woken.
WokenFrom(pcs) ==
    /\ pcs \in [Conns -> ConnPCs]
    /\ \A d \in Conns : pcs[d] = cpc[d]
                       \/ (cpc[d] = "flushwait" /\ pcs[d] = "flushed")

\* Waking clients leaves a proper cpc; who is not woken waits for another file.
LEMMA FlushedWakes ==
    ASSUME ConnInv, NEW S
    PROVE  /\ WokenFrom(Flushed(S)) /\ WokenFrom(cpc)
           /\ \A d \in Conns : Flushed(S)[d] = "flushwait" =>
                 cpc[d] = "flushwait" /\ Command(d).file \notin S
BY DEF ConnInv, WokenFrom, Flushed, ConnPCs, Busy

\* A wake-up alone.
LEMMA ConnWoken ==
    ASSUME ConnInv, WokenFrom(cpc'), UNCHANGED <<inbuf, cnow, connection_threads_num>>
    PROVE  ConnInv'
<1>1. Counted(cpc') = Counted(cpc)
  BY DEF Counted, WokenFrom
<1> QED BY <1>1 DEF ConnInv, WokenFrom, Command, Busy, Counted

\* A thread goes from one step of its command to the next.
LEMMA ConnStep ==
    ASSUME ConnInv, NEW c \in Conns, NEW x \in Busy, cpc[c] \in Busy,
           NEW pcs, WokenFrom(pcs), cpc' = [pcs EXCEPT ![c] = x],
           UNCHANGED <<inbuf, cnow, connection_threads_num>>,
           x = "stat" => Command(c).op = "UPDATE",
           x \in {"flushwait", "flushed"} => Command(c).op = "FLUSH",
           x = "forget" => Command(c).op = "FORGET"
    PROVE  ConnInv'
<1>1. cpc' \in [Conns -> ConnPCs]
  BY DEF WokenFrom, ConnPCs
<1>2. \A d \in Conns : cpc'[d] = IF d = c THEN x ELSE pcs[d]
  BY DEF WokenFrom
<1>3. Counted(cpc') = Counted(cpc)
  BY <1>2 DEF Counted, WokenFrom, Busy
<1>4. connection_threads_num' = Cardinality(Counted(cpc'))
  BY <1>3 DEF ConnInv
<1> QED BY <1>1, <1>2, <1>4 DEF ConnInv, WokenFrom, Command, Busy, Counted

\* A thread ends.
LEMMA ConnCloses ==
    ASSUME ConnInv, NEW c \in Conns, c \in Counted(cpc),
           NEW pcs, WokenFrom(pcs), CloseAfter(c, pcs)
    PROVE  /\ ConnInv'
           /\ \A d \in Conns : cpc'[d] = "flushwait" =>
                 d # c /\ pcs[d] = "flushwait" /\ inbuf'[d] = inbuf[d]
<1>1. \A d \in Conns : cpc'[d] = IF d = c THEN "none" ELSE pcs[d]
  BY DEF CloseAfter, WokenFrom
<1>2. cpc' \in [Conns -> ConnPCs]
  BY DEF CloseAfter, WokenFrom, ConnPCs
<1>3. inbuf' \in [Conns -> Seq(Commands)] /\ cnow' \in [Conns -> Nat]
  BY DEF CloseAfter, ConnInv
<1>4. \A d \in Conns : d # c => inbuf'[d] = inbuf[d]
  BY DEF CloseAfter, ConnInv
<1>5. Counted(cpc') = Counted(cpc) \ {c}
  BY <1>1 DEF Counted, WokenFrom
<1>6. connection_threads_num' = Cardinality(Counted(cpc'))
  BY <1>5, CountedMoves DEF ConnInv, CloseAfter, Counted
<1>7. ConnInv'
  BY <1>1, <1>2, <1>3, <1>4, <1>6 DEF ConnInv, WokenFrom, Command, Busy, Counted
<1> QED BY <1>1, <1>4, <1>7

\* What follows the first of several commands.
LEMMA TailOfMany ==
    ASSUME NEW S, NEW q \in Seq(S), q # <<>>
    PROVE  Tail(q) \in Seq(S) /\ (Len(q) > 1 => Tail(q) # <<>>)
<1>1. Tail(q) \in Seq(S) /\ Len(Tail(q)) = Len(q) - 1 /\ Len(q) \in Nat
  BY HeadTailProperties, LenProperties
<1> DEFINE t == Tail(q)
<1> HIDE DEF t
<1>2. t = <<>> => Len(t) = 0
  BY EmptySeq
<1>3. Len(t) = Len(q) - 1
  BY <1>1 DEF t
<1>4. Len(q) > 1 => t # <<>>
  BY <1>1, <1>2, <1>3
<1> QED BY <1>1, <1>4 DEF t

\* A thread answers its command and goes on, or ends.
LEMMA ConnResponds ==
    ASSUME ConnInv, NEW c \in Conns, cpc[c] \in Busy,
           NEW pcs, WokenFrom(pcs), RespondAfter(c, pcs)
    PROVE  /\ ConnInv'
           /\ \A d \in Conns : cpc'[d] = "flushwait" =>
                 d # c /\ pcs[d] = "flushwait" /\ inbuf'[d] = inbuf[d]
<1>0. c \in Counted(cpc)
  BY DEF Counted, Busy
<1>1. CASE CloseAfter(c, pcs)
  BY <1>0, <1>1, ConnCloses
<1>2. CASE /\ inbuf' = [inbuf EXCEPT ![c] = Tail(@)]
           /\ cpc' = [pcs EXCEPT ![c] = AfterCommand(c)]
           /\ UNCHANGED <<cnow, connection_threads_num>>
  <2>1. inbuf[c] \in Seq(Commands) /\ inbuf[c] # <<>>
    BY DEF ConnInv
  <2>2. /\ Tail(inbuf[c]) \in Seq(Commands)
        /\ Len(inbuf[c]) > 1 => Tail(inbuf[c]) # <<>>
    BY <2>1, TailOfMany
  <2>3. AfterCommand(c) \in {"cmd", "poll"}
    BY DEF AfterCommand
  <2>4. \A d \in Conns : cpc'[d] = IF d = c THEN AfterCommand(c) ELSE pcs[d]
    BY <1>2 DEF WokenFrom
  <2>5. cpc' \in [Conns -> ConnPCs]
    BY <1>2, <2>3 DEF WokenFrom, ConnPCs, Busy
  <2>6. \A d \in Conns : inbuf'[d] = IF d = c THEN Tail(inbuf[c]) ELSE inbuf[d]
    BY <1>2 DEF ConnInv
  <2>7. inbuf' \in [Conns -> Seq(Commands)]
    BY <1>2, <2>2 DEF ConnInv
  <2>8. Counted(cpc') = Counted(cpc)
    BY <2>3, <2>4, <1>0 DEF Counted, WokenFrom
  <2>9. \A d \in Conns :
          /\ cpc'[d] \in Busy => inbuf'[d] # <<>>
          /\ cpc'[d] \in Busy /\ d # c => inbuf'[d] = inbuf[d]
                                         /\ (cpc'[d] = cpc[d] \/
                                              (cpc[d] = "flushwait" /\ cpc'[d] = "flushed"))
    BY <2>2, <2>4, <2>6, <2>3 DEF AfterCommand, ConnInv, WokenFrom, Busy
  <2>10. ConnInv'
    <3>1. \A d \in Conns : d # c =>
            /\ cpc'[d] = "stat" => Head(inbuf'[d]).op = "UPDATE"
            /\ cpc'[d] \in {"flushwait", "flushed"} => Head(inbuf'[d]).op = "FLUSH"
            /\ cpc'[d] = "forget" => Head(inbuf'[d]).op = "FORGET"
      BY <2>9 DEF ConnInv, Command, Busy
    <3>2. cpc'[c] \in {"cmd", "poll"}
      BY <2>3, <2>4
    <3> QED BY <1>2, <2>5, <2>7, <2>8, <2>9, <3>1, <3>2 DEF ConnInv, Command, Counted
  <2> QED BY <2>3, <2>4, <2>6, <2>10
<1> QED BY <1>1, <1>2 DEF RespondAfter

\* A line is written to the journal, or dropped.
LEMMA JournalWritten ==
    ASSUME JournalInv, NEW e \in Entries, journal_write(e)
    PROVE  JournalInv'
<1>1. Append(jcur, e) \in Seq(Entries) /\ Len(Append(jcur, e)) = Len(jcur) + 1
  BY DEF JournalInv
<1>2. Len(jcur) \in Nat
  BY DEF JournalInv
<1> QED BY <1>1, <1>2 DEF JournalInv, journal_write

\* Signalling queue_cond: nobody falls asleep, and if it is signalled at least
\* once somebody is not asleep.
LEMMA SignalledWakes ==
    ASSUME WriterInv, NEW n \in Nat, wpc' \in Signalled(n), UNCHANGED <<wfile, wvals>>
    PROVE  /\ WriterInv'
           /\ \A w \in Writers : wpc'[w] = "wait" => wpc[w] = "wait"
           /\ \A w \in Writers : wpc[w] = "exit" => wpc'[w] = "exit"
           /\ n >= 1 => \E w \in Writers : wpc'[w] # "wait"
<1> DEFINE waiting == {w \in Writers : wpc[w] = "wait"}
<1>1. PICK T \in SUBSET waiting :
        /\ wpc' = [w \in Writers |-> IF w \in T THEN "woken" ELSE wpc[w]]
        /\ Cardinality(T) = n \/ (T = waiting /\ Cardinality(T) < n)
  BY DEF Signalled
<1>2. \A w \in Writers : wpc'[w] = IF w \in T THEN "woken" ELSE wpc[w]
  BY <1>1
<1>3. WriterInv'
  BY <1>1, <1>2 DEF WriterInv
<1>4. ASSUME n >= 1 PROVE \E w \in Writers : wpc'[w] # "wait"
  <2>1. CASE T = {}
    <3>1. waiting = {}
      BY <1>1, <1>4, <2>1, FS_EmptySet
    <3> QED BY <3>1, <1>2, RrdcachedAssumption
  <2>2. CASE T # {}
    BY <2>2, <1>2
  <2> QED BY <2>1, <2>2
<1> QED BY <1>2, <1>3, <1>4

\* A broadcast on queue_cond.
LEMMA BroadcastWakes ==
    ASSUME WriterInv, wpc' = AllWoken, UNCHANGED <<wfile, wvals>>
    PROVE  /\ WriterInv'
           /\ \A w \in Writers : wpc'[w] = "wait" => wpc[w] = "wait"
           /\ \A w \in Writers : wpc[w] = "exit" => wpc'[w] = "exit"
BY DEF WriterInv, AllWoken

\* When the queue does not become non-empty behind sleeping writers.
LEMMA NobodySleepsOn ==
    ASSUME NoSleepingWriters,
           \A w \in Writers : wpc'[w] = "wait" => wpc[w] = "wait",
           \A w \in Writers : wpc[w] = "exit" => wpc'[w] = "exit",
           \/ queue # <<>> \/ queue' = <<>> \/ \E w \in Writers : wpc'[w] # "wait"
    PROVE  NoSleepingWriters'
BY DEF NoSleepingWriters

\* The command at hand, and the file it names.
LEMMA CommandOf ==
    ASSUME ConnInv, NEW c \in Conns, cpc[c] \in Busy
    PROVE  /\ Command(c) \in Commands
           /\ Command(c).op = "UPDATE" =>
                 Command(c).file \in Files /\ Command(c).stamps \in Seq(Nat)
           /\ Command(c).op \in {"FLUSH", "FORGET"} => Command(c).file \in Files
<1>1. inbuf[c] \in Seq(Commands) /\ inbuf[c] # <<>>
  BY DEF ConnInv
<1>2. Command(c) \in Commands
  BY <1>1 DEF Command
<1> QED BY <1>2, CommandFields

\* Waiting clients when the tree and the queue only grow and nobody new waits.
LEMMA StillServed ==
    ASSUME WaiterServed, tree \subseteq tree', Elems(queue) \subseteq Elems(queue'),
           \A w \in Writers : wfile[w] # NoFile => wfile'[w] = wfile[w],
           ConnInv,
           \A d \in Conns : cpc'[d] = "flushwait" =>
              cpc[d] = "flushwait" /\ inbuf'[d] = inbuf[d]
    PROVE  WaiterServed'
<1> SUFFICES ASSUME NEW d \in Conns, cpc'[d] = "flushwait"
             PROVE  LET f == Head(inbuf'[d])
                    IN  /\ f.file \in tree'
                        /\ \/ f.file \in WQ!ElementsOf(queue')
                           \/ \E w \in Writers : wfile'[w] = f.file
  BY DEF WaiterServed, Command, WQ!ElementsOf
<1>1. cpc[d] = "flushwait" /\ Head(inbuf'[d]) = Command(d)
  BY DEF Command
<1>2. Command(d).file \in Files
  BY <1>1, CommandOf DEF ConnInv, Busy
<1>3. Command(d).file # NoFile
  BY <1>2, RrdcachedAssumption
<1> QED BY <1>1, <1>3 DEF WaiterServed, Elems

\* journal, append, enqueue and answer: the second half of UPDATE.
LEMMA StoreValuesKeeps ==
    ASSUME IInv, NEW c \in Conns, cpc[c] \in {"cmd", "stat"},
           Command(c).op = "UPDATE", NEW f, f = Command(c).file, f \in Existing,
           NEW ft \in Nat, StoreValues(c, f, ft)
    PROVE  IInv'
<1> DEFINE ss  == Command(c).stamps
           t   == Taken(ss, last_update_stamp[f])
           due == /\ t = ss
                  /\ cnow[c] - ft >= WriteInterval
                  /\ f \notin WQ!ElementsOf(queue)
                  /\ vals[f] \o t # <<>>
<1> USE DEF IInv
<1>1. f \in Files /\ ss \in Seq(Nat)
  BY CommandOf DEF Busy
<1>2. t \in Seq(Nat)
  BY <1>1, TakenType
<1>3. /\ journal_write(Entry("update", f, ss))
      /\ tree' = tree \cup {f}
      /\ vals' = [vals EXCEPT ![f] = @ \o t]
      /\ last_update_stamp' = [last_update_stamp EXCEPT ![f] = LastOf(t, @)]
      /\ last_flush_time' = [last_flush_time EXCEPT ![f] = ft]
      /\ queue' = IF due THEN Append(queue, f) ELSE queue
      /\ wpc' \in Signalled(IF due THEN 1 ELSE 0)
      /\ ledger' = [ledger EXCEPT ![f] = @ \o t]
      /\ unlogged' = [unlogged EXCEPT ![f] =
              IF jopen THEN @ ELSE @ \cup WQ!ElementsOf(t)]
      /\ Respond(c)
      /\ UNCHANGED <<process, wfile, wvals, flusher, disk, clock, bounds>>
  BY DEF StoreValues
<1> HIDE DEF t
<1>4. JournalInv'
  <2>1. Entry("update", f, ss) \in Entries
    BY <1>1 DEF Entry, Entries
  <2> QED BY <2>1, <1>3, JournalWritten
<1>5. /\ ConnInv'
      /\ \A d \in Conns : cpc'[d] = "flushwait" =>
            cpc[d] = "flushwait" /\ inbuf'[d] = inbuf[d]
  BY <1>3, ConnResponds, FlushedWakes DEF Respond, Busy
<1>6. vals[f] \o t \in Seq(Nat) /\ (vals[f] # <<>> => vals[f] \o t # <<>>)
  <2>1. vals[f] \in Seq(Nat)
    BY <1>1 DEF CacheInv
  <2> QED BY <2>1, <1>2, ConcatProperties, ConcatEqualIffEmpty
<1>7. CacheInv' /\ Elems(queue) \subseteq Elems(queue')
  <2>1. last_update_stamp' \in [Files -> Nat] /\ last_flush_time' \in [Files -> Nat]
    BY <1>1, <1>2, <1>3, LastOfType DEF CacheInv
  <2>2. vals' \in [Files -> Seq(Nat)] /\ tree' \subseteq Existing
    BY <1>3, <1>6 DEF CacheInv
  <2>3. \A g \in Files : vals'[g] = IF g = f THEN vals[f] \o t ELSE vals[g]
    BY <1>3 DEF CacheInv
  <2>4. CASE due
    <3>1. queue' = Append(queue, f) /\ f \notin Elems(queue) /\ vals'[f] # <<>>
      BY <2>3, <2>4, <1>1, <1>3 DEF Elems
    <3> HIDE DEF due
    <3>2. /\ queue' \in Seq(Files) /\ NoDup(queue')
          /\ Elems(queue') = Elems(queue) \cup {f}
      BY <3>1, <1>1, AppendNoDup DEF CacheInv
    <3>3. \A g \in Elems(queue) : g \in Files
      BY DEF CacheInv, Elems, WQ!ElementsOf
    <3>4. \A g \in Elems(queue') : g \in tree' /\ vals'[g] # <<>>
      BY <2>3, <3>1, <3>2, <3>3, <1>1, <1>3, <1>6 DEF CacheInv
    <3> QED BY <2>1, <2>2, <3>2, <3>4 DEF CacheInv
  <2>5. CASE ~due
    <3>1. queue' = queue
      BY <2>5, <1>3
    <3> HIDE DEF due
    <3>2. \A g \in Elems(queue) : g \in Files
      BY DEF CacheInv, Elems, WQ!ElementsOf
    <3>3. \A g \in Elems(queue') : g \in tree' /\ vals'[g] # <<>>
      BY <2>3, <3>1, <3>2, <1>3, <1>6 DEF CacheInv
    <3> QED BY <2>1, <2>2, <3>1, <3>3 DEF CacheInv
  <2> QED BY <2>4, <2>5
<1> DEFINE n == IF due THEN 1 ELSE 0
<1>8. n \in Nat /\ (due => n >= 1) /\ (~due => queue' = queue) /\ wpc' \in Signalled(n)
  BY <1>3
<1> HIDE DEF n, due
<1>9. /\ WriterInv'
      /\ \A w \in Writers : wpc'[w] = "wait" => wpc[w] = "wait"
      /\ \A w \in Writers : wpc[w] = "exit" => wpc'[w] = "exit"
      /\ n >= 1 => \E w \in Writers : wpc'[w] # "wait"
  BY <1>3, <1>8, SignalledWakes
<1>10. NoSleepingWriters'
  BY <1>8, <1>9, NobodySleepsOn
<1>11. WaiterServed'
  BY <1>3, <1>5, <1>7, StillServed
<1>12. Alive /\ Alive'
  BY <1>3 DEF ProcessInv, Alive, process
<1>13. ProcessInv' /\ WorldInv'
  BY <1>3, <1>12 DEF ProcessInv, WorldInv, process, flusher
<1>14. HistoryInv'
  <2>1. ledger[f] \o t \in Seq(Nat)
    BY <1>1, <1>2, ConcatProperties DEF HistoryInv
  <2>2. \A x \in WQ!ElementsOf(t) : x \in Nat
    BY <1>2 DEF WQ!ElementsOf
  <2> QED BY <2>1, <2>2, <1>3 DEF HistoryInv
<1> QED BY <1>4, <1>5, <1>7, <1>9, <1>10, <1>11, <1>13, <1>14

\* Waiting clients, file by file.
LEMMA ServedStep ==
    ASSUME WaiterServed,
           \A d \in Conns : cpc'[d] = "flushwait" =>
              /\ cpc[d] = "flushwait" /\ inbuf'[d] = inbuf[d]
              /\ Command(d).file \in tree => Command(d).file \in tree'
              /\ \/ Command(d).file \in Elems(queue)
                 \/ \E w \in Writers : wfile[w] = Command(d).file
                 => \/ Command(d).file \in Elems(queue')
                    \/ \E w \in Writers : wfile'[w] = Command(d).file
    PROVE  WaiterServed'
<1> SUFFICES ASSUME NEW d \in Conns, cpc'[d] = "flushwait"
             PROVE  LET f == Head(inbuf'[d]).file
                    IN  /\ f \in tree'
                        /\ \/ f \in WQ!ElementsOf(queue')
                           \/ \E w \in Writers : wfile'[w] = f
  BY DEF WaiterServed, Command, WQ!ElementsOf
<1>1. cpc[d] = "flushwait" /\ Head(inbuf'[d]) = Command(d)
  BY DEF Command
<1> QED BY <1>1 DEF WaiterServed, Elems

\* flush_old_values: what is due goes behind the queue, idle items go away.
LEMMA FlushOldKeeps ==
    ASSUME CacheInv, WriterInv, NoSleepingWriters, NEW abs, flush_old_values(abs)
    PROVE  /\ CacheInv' /\ WriterInv' /\ NoSleepingWriters'
           /\ tree' = tree \ ToPurge
           /\ Elems(queue) \subseteq Elems(queue')
           /\ UNCHANGED wfile
           /\ \A w \in Writers : wpc[w] = "exit" => wpc'[w] = "exit"
<1> DEFINE S == ToQueue(abs)
           P == ToPurge
<1>1. PICK q \in Orderings(S) : queue' = queue \o q
  BY DEF flush_old_values
<1>2. /\ tree' = tree \ P
      /\ last_update_stamp' = [f \in Files |-> IF f \in P THEN 0 ELSE last_update_stamp[f]]
      /\ last_flush_time' = [f \in Files |-> IF f \in P THEN 0 ELSE last_flush_time[f]]
      /\ wpc' \in Signalled(Cardinality(S))
      /\ UNCHANGED <<vals, wfile, wvals>>
  BY DEF flush_old_values
<1>3. /\ S \in SUBSET Files
      /\ \A f \in S : f \in tree /\ f \notin Elems(queue) /\ vals[f] # <<>>
  BY RrdcachedAssumption DEF ToQueue, CacheInv, Elems
<1>4. \A f \in P : f \notin Elems(queue) /\ vals[f] = <<>>
  BY DEF ToPurge, Elems
<1> HIDE DEF S, P
<1>5. /\ q \in Seq(Files) /\ NoDup(q) /\ Elems(q) = S
      /\ S # {} => Cardinality(S) >= 1
  BY <1>3, OrderingsProperties
<1>6. Cardinality(S) \in Nat
  BY <1>3, RrdcachedAssumption, FS_Subset, FS_CardinalityType
<1>7. /\ queue' \in Seq(Files) /\ NoDup(queue')
      /\ Elems(queue') = Elems(queue) \cup S
  BY <1>1, <1>3, <1>5, ConcatNoDup DEF CacheInv
<1>8. CacheInv'
  <2>1. \A f \in Elems(queue') : f \in tree' /\ vals'[f] # <<>>
    BY <1>2, <1>3, <1>4, <1>7 DEF CacheInv
  <2> QED BY <2>1, <1>2, <1>7 DEF CacheInv
<1>9. /\ WriterInv'
      /\ \A w \in Writers : wpc'[w] = "wait" => wpc[w] = "wait"
      /\ \A w \in Writers : wpc[w] = "exit" => wpc'[w] = "exit"
      /\ Cardinality(S) >= 1 => \E w \in Writers : wpc'[w] # "wait"
  BY <1>2, <1>6, SignalledWakes
<1>10. S = {} => queue' = queue
  <2>1. S = {} => q = <<>>
    BY <1>5, EmptySeq DEF Elems, WQ!ElementsOf
  <2> QED BY <2>1, <1>1, ConcatEmptySeq DEF CacheInv
<1>11. NoSleepingWriters'
  BY <1>5, <1>9, <1>10, NobodySleepsOn
<1> QED BY <1>2, <1>7, <1>8, <1>9, <1>11 DEF P

\* The process is gone: nothing is left that could be inconsistent.
LEMMA GoneKeeps ==
    ASSUME IInv, NEW how \in {"exited", "aborted", "down"}, NEW kept \in Seq(Entries),
           Gone(how, kept), UNCHANGED bounds
    PROVE  IInv'
<1> USE DEF Gone
<1>1. ConnInv'
  <2>1. Counted(cpc') = {}
    BY DEF Counted
  <2>2. <<>> \in Seq(Commands)
    OBVIOUS
  <2> QED BY <2>1, <2>2, FS_EmptySet DEF ConnInv, ConnPCs, Busy, Counted
<1>2. WriterInv'
  BY DEF WriterInv
<1>3. CacheInv'
  <2>1. <<>> \in Seq(Files) /\ NoDup(<<>>) /\ Elems(<<>>) = {}
    BY DEF NoDup, Elems, WQ!ElementsOf
  <2> QED BY <2>1 DEF CacheInv, NoDup, Elems, WQ!ElementsOf
<1>4. JournalInv'
  <2>1. <<>> \in Seq(Entries) /\ Len(kept) \in 0 .. Len(kept)
    OBVIOUS
  <2> QED BY <2>1 DEF JournalInv
<1>5. ProcessInv' /\ WorldInv' /\ HistoryInv'
  BY DEF IInv, ProcessInv, WorldInv, HistoryInv
<1>6. WaiterServed'
  BY DEF WaiterServed
<1>7. NoSleepingWriters'
  BY DEF NoSleepingWriters
<1> QED BY <1>1, <1>2, <1>3, <1>4, <1>5, <1>6, <1>7 DEF IInv

\* What a crash leaves of the journal is a journal.
LEMMA DiesKeeps ==
    ASSUME IInv, NEW how \in {"aborted", "down"}, Dies(how), UNCHANGED bounds
    PROVE  IInv'
<1>1. PICK d \in 0 .. Len(jdead), k \in jdurable .. Len(jcur) :
        Gone(how, KeptAfterCrash(d, k))
  BY DEF Dies
<1>2. SubSeq(jdead, d + 1, Len(jdead)) \in Seq(Entries)
  BY SubSeqProperties DEF IInv, JournalInv
<1>3. SubSeq(jcur, 1, k) \in Seq(Entries)
  BY SubSeqProperties DEF IInv, JournalInv
<1>4. KeptAfterCrash(d, k) \in Seq(Entries)
  BY <1>2, <1>3, ConcatProperties DEF KeptAfterCrash, IInv, JournalInv
<1> QED BY <1>1, <1>4, GoneKeeps

\* main after journal_init: the replayed cache and the new threads.
LEMMA RestartKeeps ==
    ASSUME IInv, Restart
    PROVE  IInv'
<1> USE DEF IInv
<1>1. PICK ok \in BOOLEAN :
        /\ ok \/ (Journaling /\ bounds.jerrors < MaxJournalErrors)
        /\ Start(jcur, ok)
        /\ bounds' = [bounds EXCEPT !.restarts = @ + 1,
                                    !.jerrors = IF ok THEN @ ELSE @ + 1]
  BY DEF Restart
<1>2. /\ ~Alive /\ bounds.restarts < MaxRestarts
      /\ UNCHANGED <<leaked, wfile, wvals, conns, jdead, jold, jcur, jdurable,
                     disk, clock, history>>
  BY DEF Restart
<1> DEFINE items == Replay(jcur)
           full == {f \in Files : items[f].vals # <<>>}
           flush == FlushAtShutdown \/ ~ok
<1>3. ItemsOK(items)
  BY ReplayOK DEF JournalInv
<1>4. /\ tree' = {f \in Files : items[f].here}
      /\ vals' = [f \in Files |-> items[f].vals]
      /\ last_update_stamp' = [f \in Files |-> items[f].last]
      /\ \E j \in [Files -> Jitters] : last_flush_time' =
             [f \in Files |-> IF items[f].here THEN clock + j[f] ELSE 0]
      /\ queue' \in IF Journaling /\ flush THEN Orderings(full) ELSE {<<>>}
      /\ state' = "RUNNING"
      /\ flush_at_shutdown' = flush
      /\ jopen' = (Journaling /\ ok)
      /\ next_flush' = clock + FlushInterval
      /\ mpc' = "listen"
      /\ fpc' = "loop"
      /\ wpc' = [w \in Writers |-> "loop"]
  BY <1>1 DEF Start
<1> HIDE DEF items
<1>5. CacheInv'
  <2>1. tree' \subseteq Existing /\ vals' \in [Files -> Seq(Nat)]
        /\ last_update_stamp' \in [Files -> Nat]
    BY <1>3, <1>4 DEF ItemsOK, ItemType
  <2>2. last_flush_time' \in [Files -> Nat]
    <3>1. Jitters \subseteq Nat /\ clock \in Nat
      BY RrdcachedAssumption DEF Jitters, WorldInv
    <3>2. PICK j \in [Files -> Jitters] : last_flush_time' =
             [f \in Files |-> IF items[f].here THEN clock + j[f] ELSE 0]
      BY <1>4
    <3>3. \A f \in Files : j[f] \in Nat
      BY <3>1, <3>2
    <3> QED BY <3>1, <3>2, <3>3
  <2>3. CASE queue' = <<>>
    <3>1. queue' \in Seq(Files) /\ NoDup(queue') /\ Elems(queue') = {}
      BY <2>3 DEF NoDup, Elems, WQ!ElementsOf
    <3> QED BY <2>1, <2>2, <3>1 DEF CacheInv
  <2>4. CASE queue' \in Orderings(full)
    <3>0. full \in SUBSET Files
      OBVIOUS
    <3>1. queue' \in Seq(Files) /\ NoDup(queue') /\ Elems(queue') = full
      <4> HIDE DEF full
      <4> QED BY <2>4, <3>0, OrderingsProperties
    <3>2. \A f \in Elems(queue') : f \in tree' /\ vals'[f] # <<>>
      BY <3>1, <1>3, <1>4 DEF ItemsOK
    <3> QED BY <2>1, <2>2, <3>1, <3>2 DEF CacheInv
  <2> QED BY <2>3, <2>4, <1>4
<1>6. WriterInv'
  BY <1>2, <1>4 DEF WriterInv, ProcessInv
<1>7. ConnInv'
  BY <1>2 DEF ConnInv, conns, Command, Counted
<1>8. JournalInv'
  BY <1>2, <1>4, RrdcachedAssumption DEF JournalInv
<1>9. WorldInv'
  <2>1. /\ bounds.restarts + 1 \in 0 .. MaxRestarts
        /\ ~ok => bounds.jerrors + 1 \in 0 .. MaxJournalErrors
    <3>1. bounds.restarts \in 0 .. MaxRestarts /\ bounds.jerrors \in 0 .. MaxJournalErrors
      BY DEF WorldInv
    <3> QED BY <1>1, <1>2, <3>1, BoundsAreNumbers
  <2> DEFINE je == IF ok THEN bounds.jerrors ELSE bounds.jerrors + 1
  <2>2. je \in 0 .. MaxJournalErrors
    BY <2>1 DEF WorldInv
  <2>3. bounds' = [bounds EXCEPT !.restarts = @ + 1, !.jerrors = je]
    BY <1>1 DEF WorldInv
  <2> HIDE DEF je
  <2> QED BY <2>1, <2>2, <2>3, <1>2 DEF WorldInv
<1>10. ProcessInv' /\ HistoryInv'
  <2>1. next_flush' \in Nat
    BY <1>4, RrdcachedAssumption DEF WorldInv
  <2>2. flush_at_shutdown' \in BOOLEAN
    BY <1>4, RrdcachedAssumption
  <2> QED BY <1>2, <1>4, <2>1, <2>2 DEF ProcessInv, HistoryInv, history, conns, Alive
<1>11. WaiterServed' /\ NoSleepingWriters'
  BY <1>2, <1>4, RrdcachedAssumption DEF WaiterServed, NoSleepingWriters, ProcessInv, conns
<1> QED BY <1>5, <1>6, <1>7, <1>8, <1>9, <1>10, <1>11

-------------------------------------------------------------------------------
(* The steps of the connection threads.                                    *)

\* A step that leaves the journal alone.
LEMMA JournalSame == ASSUME JournalInv, UNCHANGED journal PROVE JournalInv'
BY DEF JournalInv, journal

\* A step that leaves the history alone.
LEMMA HistorySame == ASSUME HistoryInv, UNCHANGED history PROVE HistoryInv'
BY DEF HistoryInv, history

\* A step that leaves cache and writers alone and lets nobody start to wait.
LEMMA OnlyThreads ==
    ASSUME IInv, UNCHANGED <<cache, wfile>>,
           \A w \in Writers : wpc'[w] = "wait" => wpc[w] = "wait" \/ queue = <<>>,
           \A w \in Writers : wpc[w] = "exit" => wpc'[w] = "exit",
           \A d \in Conns : cpc'[d] = "flushwait" =>
              cpc[d] = "flushwait" /\ inbuf'[d] = inbuf[d]
    PROVE  CacheInv' /\ WaiterServed' /\ NoSleepingWriters'
<1> USE DEF IInv
<1>1. CacheInv'
  BY DEF CacheInv, cache
<1>2. WaiterServed'
  BY StillServed DEF cache
<1>3. NoSleepingWriters'
  BY DEF NoSleepingWriters, cache
<1> QED BY <1>1, <1>2, <1>3

\* A step that leaves cache, writers and process alone and lets nobody wait.
LEMMA OnlyConnections ==
    ASSUME IInv, Alive, ConnInv', JournalInv', WorldInv', HistoryInv',
           UNCHANGED <<cache, process, writers, flusher>>,
           \A d \in Conns : cpc'[d] = "flushwait" =>
              cpc[d] = "flushwait" /\ inbuf'[d] = inbuf[d]
    PROVE  IInv'
<1> USE DEF IInv
<1>1. CacheInv' /\ WaiterServed' /\ NoSleepingWriters'
  BY OnlyThreads DEF writers
<1>2. WriterInv'
  BY DEF WriterInv, writers
<1>3. ProcessInv'
  BY DEF ProcessInv, process, flusher, Alive
<1> QED BY <1>1, <1>2, <1>3

\* A thread that handles a command belongs to a daemon that runs.
LEMMA BusyAlive ==
    ASSUME ProcessInv, NEW c \in Conns, cpc[c] # "none"
    PROVE  Alive
BY DEF ProcessInv

\* An answer without any other effect on the cache.
LEMMA OnlyResponds ==
    ASSUME IInv, NEW c \in Conns, cpc[c] \in Busy, Respond(c), JournalInv', HistoryInv',
           UNCHANGED <<cache, process, writers, flusher, disk, clock, bounds>>
    PROVE  IInv'
<1>1. /\ ConnInv'
      /\ \A d \in Conns : cpc'[d] = "flushwait" =>
            cpc[d] = "flushwait" /\ inbuf'[d] = inbuf[d]
  BY ConnResponds, FlushedWakes DEF IInv, Respond
<1>2. Alive
  BY BusyAlive DEF IInv, Busy
<1>3. WorldInv'
  BY DEF IInv, WorldInv
<1> QED BY <1>1, <1>2, <1>3, OnlyConnections

\* Coming and going of connections, and the reading of commands.
LEMMA SessionKeeps ==
    ASSUME IInv, NEW c \in Conns,
           Accept(c) \/ ConnStart(c) \/ ConnRead(c) \/ ConnClose(c) \/ QuitCommand(c)
    PROVE  IInv'
<1> USE DEF IInv
<1>0. UNCHANGED <<cache, process, writers, flusher, journal, disk, clock, history>>
  BY DEF Accept, ConnStart, ConnRead, ConnClose, QuitCommand
<1>1. JournalInv' /\ HistoryInv'
  BY <1>0, JournalSame, HistorySame
<1>2. CASE Accept(c)
  <2>1. /\ cpc[c] = "none" /\ cpc' = [cpc EXCEPT ![c] = "starting"] /\ mpc = "listen"
        /\ UNCHANGED <<inbuf, cnow, connection_threads_num, bounds>>
    BY <1>2 DEF Accept
  <2>2. Counted(cpc') = Counted(cpc)
    BY <2>1 DEF Counted, ConnInv
  <2>3. ConnInv'
    <3>1. cpc' \in [Conns -> ConnPCs]
      BY <2>1 DEF ConnInv, ConnPCs
    <3>2. \A d \in Conns : cpc'[d] = IF d = c THEN "starting" ELSE cpc[d]
      BY <2>1 DEF ConnInv
    <3>3. connection_threads_num' = Cardinality(Counted(cpc'))
      BY <2>1, <2>2 DEF ConnInv
    <3> QED BY <2>1, <3>1, <3>2, <3>3 DEF ConnInv, Command, Busy, Counted
  <2>4. \A d \in Conns : cpc'[d] = "flushwait" =>
          cpc[d] = "flushwait" /\ inbuf'[d] = inbuf[d]
    BY <2>1 DEF ConnInv
  <2>5. Alive /\ WorldInv'
    BY <2>1, <1>0 DEF Alive, WorldInv
  <2> QED BY <1>0, <1>1, <2>3, <2>4, <2>5, OnlyConnections
<1>3. CASE ConnStart(c)
  <2>1. /\ cpc[c] = "starting" /\ cpc' = [cpc EXCEPT ![c] = "poll"]
        /\ connection_threads_num' = connection_threads_num + 1
        /\ cnow' = [cnow EXCEPT ![c] = clock]
        /\ UNCHANGED <<inbuf, bounds>>
    BY <1>3 DEF ConnStart
  <2>2. Counted(cpc') = Counted(cpc) \cup {c} /\ c \notin Counted(cpc)
    BY <2>1 DEF Counted, ConnInv
  <2>3. connection_threads_num' = Cardinality(Counted(cpc'))
    <3>1. Counted(cpc) \in SUBSET Conns
      BY DEF Counted
    <3> QED BY <2>1, <2>2, <3>1, CountedMoves DEF ConnInv
  <2>4. ConnInv'
    <3>1. cpc' \in [Conns -> ConnPCs] /\ cnow' \in [Conns -> Nat]
      BY <2>1 DEF ConnInv, ConnPCs, WorldInv
    <3>2. \A d \in Conns : cpc'[d] = IF d = c THEN "poll" ELSE cpc[d]
      BY <2>1 DEF ConnInv
    <3> QED BY <2>1, <2>3, <3>1, <3>2 DEF ConnInv, Command, Busy, Counted
  <2>5. \A d \in Conns : cpc'[d] = "flushwait" =>
          cpc[d] = "flushwait" /\ inbuf'[d] = inbuf[d]
    BY <2>1 DEF ConnInv
  <2>6. Alive /\ WorldInv'
    BY <2>1, <1>0, BusyAlive DEF WorldInv
  <2> QED BY <1>0, <1>1, <2>4, <2>5, <2>6, OnlyConnections
<1>4. CASE ConnRead(c)
  <2>1. PICK buf \in Buffers : /\ bounds.cmds + Len(buf) <= MaxCmds
                               /\ inbuf' = [inbuf EXCEPT ![c] = buf]
                               /\ bounds' = [bounds EXCEPT !.cmds = @ + Len(buf)]
    BY <1>4 DEF ConnRead
  <2>2. /\ cpc[c] = "poll" /\ cpc' = [cpc EXCEPT ![c] = "cmd"]
        /\ \E now \in {clock, cnow[c]} : cnow' = [cnow EXCEPT ![c] = now]
        /\ UNCHANGED connection_threads_num
    BY <1>4 DEF ConnRead
  <2>3. buf \in Seq(Commands) /\ buf # <<>> /\ Len(buf) \in Nat
    <3>1. PICK n \in 1 .. MaxPipeline : buf \in [1 .. n -> Commands]
      BY DEF Buffers
    <3>2. n \in Nat /\ n >= 1
      BY RrdcachedAssumption
    <3> HIDE DEF Commands
    <3>3. buf \in Seq(Commands) /\ Len(buf) = n
      BY <3>1, <3>2
    <3> QED BY <3>2, <3>3
  <2>4. Counted(cpc') = Counted(cpc)
    BY <2>2 DEF Counted, ConnInv
  <2>5. ConnInv'
    <3>1. cpc' \in [Conns -> ConnPCs]
      BY <2>2 DEF ConnInv, ConnPCs, Busy
    <3>2. cnow' \in [Conns -> Nat]
      BY <2>2 DEF ConnInv, WorldInv
    <3>3. inbuf' \in [Conns -> Seq(Commands)]
      BY <2>1, <2>3 DEF ConnInv
    <3>4. \A d \in Conns : /\ cpc'[d] = IF d = c THEN "cmd" ELSE cpc[d]
                           /\ inbuf'[d] = IF d = c THEN buf ELSE inbuf[d]
      BY <2>1, <2>2 DEF ConnInv
    <3>5. connection_threads_num' = Cardinality(Counted(cpc'))
      BY <2>2, <2>4 DEF ConnInv
    <3>6. ASSUME NEW d \in Conns
          PROVE  /\ cpc'[d] \in Busy => inbuf'[d] # <<>>
                 /\ cpc'[d] = "stat" => Command(d)'.op = "UPDATE"
                 /\ cpc'[d] \in {"flushwait", "flushed"} => Command(d)'.op = "FLUSH"
                 /\ cpc'[d] = "forget" => Command(d)'.op = "FORGET"
      <4>1. CASE d = c
        BY <4>1, <2>3, <3>4
      <4>2. CASE d # c
        <5>1. cpc'[d] = cpc[d] /\ inbuf'[d] = inbuf[d]
          BY <4>2, <3>4
        <5> QED BY <5>1 DEF ConnInv, Command
      <4> QED BY <4>1, <4>2
    <3> QED BY <3>1, <3>2, <3>3, <3>5, <3>6 DEF ConnInv
  <2>6. \A d \in Conns : cpc'[d] = "flushwait" =>
          cpc[d] = "flushwait" /\ inbuf'[d] = inbuf[d]
    BY <2>1, <2>2 DEF ConnInv
  <2>7. WorldInv'
    <3>0. bounds.cmds \in Nat /\ MaxCmds \in Nat
      BY BoundsAreNumbers DEF WorldInv
    <3>1. bounds.cmds + Len(buf) \in 0 .. MaxCmds
      BY <2>1, <2>3, <3>0
    <3> QED BY <2>1, <3>1, <1>0 DEF WorldInv
  <2>8. Alive
    BY <2>2, BusyAlive
  <2> QED BY <1>0, <1>1, <2>5, <2>6, <2>7, <2>8, OnlyConnections
<1>5. CASE ConnClose(c) \/ QuitCommand(c)
  <2>1. cpc[c] \in {"poll", "cmd"} /\ Close(c) /\ UNCHANGED bounds
    BY <1>5 DEF ConnClose, QuitCommand
  <2>2. c \in Counted(cpc)
    BY <2>1 DEF Counted
  <2>3. /\ ConnInv'
        /\ \A d \in Conns : cpc'[d] = "flushwait" =>
              cpc[d] = "flushwait" /\ inbuf'[d] = inbuf[d]
    BY <2>1, <2>2, ConnCloses, FlushedWakes DEF Close
  <2>4. Alive /\ WorldInv'
    BY <2>1, <1>0, BusyAlive DEF WorldInv
  <2> QED BY <1>0, <1>1, <2>3, <2>4, OnlyConnections
<1> QED BY <1>2, <1>3, <1>4, <1>5

\* The branches of UPDATE.
LEMMA UpdateKeeps ==
    ASSUME IInv, NEW c \in Conns,
           \/ UpdateHit(c) \/ UpdateMiss(c) \/ UpdateNoFile(c)
           \/ UpdateInsert(c) \/ UpdateAtShutdown(c)
    PROVE  IInv'
<1> USE DEF IInv
<1>0. cpc[c] \in Busy /\ Command(c).op = "UPDATE" /\ Command(c).file \in Files
  <2>1. cpc[c] \in Busy /\ Command(c).op = "UPDATE"
    BY DEF UpdateHit, UpdateMiss, UpdateNoFile, UpdateInsert, UpdateAtShutdown,
           ConnInv, Busy
  <2> QED BY <2>1, CommandOf
<1> DEFINE f == Command(c).file
<1>1. CASE UpdateHit(c)
  <2>1. f \in tree /\ cpc[c] = "cmd" /\ StoreValues(c, f, last_flush_time[f])
    BY <1>1 DEF UpdateHit
  <2>2. f \in Existing /\ last_flush_time[f] \in Nat
    BY <1>0, <2>1 DEF CacheInv
  <2> HIDE DEF f
  <2>3. f = Command(c).file
    BY DEF f
  <2> QED BY <1>0, <2>1, <2>2, <2>3, StoreValuesKeeps
<1>2. CASE UpdateMiss(c)
  <2>1. /\ cpc[c] = "cmd" /\ cpc' = [cpc EXCEPT ![c] = "stat"]
        /\ UNCHANGED <<cache, process, writers, flusher, inbuf, cnow,
                       connection_threads_num, journal, disk, clock, bounds, history>>
    BY <1>2 DEF UpdateMiss
  <2>2. ConnInv'
    <3>1. WokenFrom(cpc)
      BY FlushedWakes
    <3>2. "stat" \in Busy
      BY DEF Busy
    <3> QED BY <1>0, <2>1, <3>1, <3>2, ConnStep
  <2>3. \A d \in Conns : cpc'[d] = "flushwait" =>
          cpc[d] = "flushwait" /\ inbuf'[d] = inbuf[d]
    BY <2>1 DEF ConnInv
  <2>4. JournalInv' /\ HistoryInv' /\ WorldInv' /\ Alive
    BY <2>1, JournalSame, HistorySame, BusyAlive DEF WorldInv
  <2> QED BY <2>1, <2>2, <2>3, <2>4, OnlyConnections
<1>3. CASE UpdateNoFile(c)
  <2>1. /\ Respond(c)
        /\ UNCHANGED <<cache, process, writers, flusher, journal, disk, clock,
                       bounds, history>>
    BY <1>3 DEF UpdateNoFile
  <2> QED BY <1>0, <2>1, JournalSame, HistorySame, OnlyResponds
<1>4. CASE UpdateInsert(c)
  <2>1. PICK ft \in Nat : StoreValues(c, f, ft)
    <3>1. CASE f \in tree
      <4>1. StoreValues(c, f, last_flush_time[f])
        BY <1>4, <3>1 DEF UpdateInsert
      <4>2. last_flush_time[f] \in Nat
        BY <1>0 DEF CacheInv
      <4> QED BY <4>1, <4>2
    <3>2. CASE f \notin tree
      <4>1. PICK j \in Jitters : StoreValues(c, f, cnow[c] + j)
        BY <1>4, <3>2 DEF UpdateInsert
      <4>2. cnow[c] + j \in Nat
        BY RrdcachedAssumption DEF Jitters, ConnInv
      <4> QED BY <4>1, <4>2
    <3> QED BY <3>1, <3>2
  <2>2. cpc[c] = "stat" /\ f \in Existing
    BY <1>4 DEF UpdateInsert
  <2> HIDE DEF f
  <2>3. f = Command(c).file
    BY DEF f
  <2> QED BY <1>0, <2>1, <2>2, <2>3, StoreValuesKeeps
<1>5. CASE UpdateAtShutdown(c)
  <2>1. /\ cpc[c] = "stat" /\ f \in Existing
        /\ leaked' = TRUE /\ tree' = tree \cup {f}
        /\ Close(c)
        /\ UNCHANGED <<vals, last_update_stamp, queue, state, flush_at_shutdown,
                       mpc, writers, flusher, journal, disk, clock, bounds, history>>
    BY <1>5 DEF UpdateAtShutdown
  <2>2. last_flush_time' \in [Files -> Nat]
    <3>1. PICK j \in Jitters : last_flush_time' =
              IF f \in tree THEN last_flush_time
              ELSE [last_flush_time EXCEPT ![f] = cnow[c] + j]
      BY <1>5 DEF UpdateAtShutdown
    <3>2. cnow[c] + j \in Nat
      BY RrdcachedAssumption DEF Jitters, ConnInv
    <3> QED BY <3>1, <3>2 DEF CacheInv
  <2>3. CacheInv'
    BY <2>1, <2>2 DEF CacheInv, Elems
  <2>4. /\ ConnInv'
        /\ \A d \in Conns : cpc'[d] = "flushwait" =>
              cpc[d] = "flushwait" /\ inbuf'[d] = inbuf[d]
    <3>1. c \in Counted(cpc)
      BY <1>0 DEF Counted, Busy
    <3> QED BY <2>1, <3>1, ConnCloses, FlushedWakes DEF Close
  <2>5. WaiterServed'
    <3>1. tree \subseteq tree' /\ Elems(queue) \subseteq Elems(queue')
      BY <2>1
    <3>2. UNCHANGED wfile
      BY <2>1 DEF writers
    <3> QED BY <2>4, <3>1, <3>2, StillServed
  <2>6. NoSleepingWriters' /\ WriterInv'
    BY <2>1 DEF NoSleepingWriters, WriterInv, writers
  <2>7. Alive /\ Alive'
    BY <2>1, BusyAlive DEF Alive
  <2>8. ProcessInv'
    BY <2>1, <2>7 DEF ProcessInv, flusher
  <2>9. JournalInv' /\ HistoryInv' /\ WorldInv'
    BY <2>1, JournalSame, HistorySame DEF WorldInv
  <2> QED BY <2>3, <2>4, <2>5, <2>6, <2>8, <2>9
<1> QED BY <1>1, <1>2, <1>3, <1>4, <1>5

\* flush_old_values together with the wake-up of who waits on a purged item.
LEMMA FlushOldServes ==
    ASSUME IInv, NEW abs, flush_old_values(abs),
           \A d \in Conns : cpc'[d] = "flushwait" =>
              Flushed(ToPurge)[d] = "flushwait" /\ inbuf'[d] = inbuf[d]
    PROVE  WaiterServed'
<1>1. /\ tree' = tree \ ToPurge /\ Elems(queue) \subseteq Elems(queue')
      /\ UNCHANGED wfile
  BY FlushOldKeeps DEF IInv
<1>2. \A d \in Conns : cpc'[d] = "flushwait" =>
        cpc[d] = "flushwait" /\ inbuf'[d] = inbuf[d] /\ Command(d).file \notin ToPurge
  BY FlushedWakes DEF IInv
<1> QED BY <1>1, <1>2, ServedStep DEF IInv

\* FLUSH and FLUSHALL.
LEMMA FlushKeeps ==
    ASSUME IInv, NEW c \in Conns,
           FlushNothing(c) \/ FlushWait(c) \/ FlushReturn(c) \/ FlushAllCommand(c)
    PROVE  IInv'
<1> USE DEF IInv
<1>0. cpc[c] \in Busy /\ Alive
  <2>1. cpc[c] \in Busy
    BY DEF FlushNothing, FlushWait, FlushReturn, FlushAllCommand, Busy
  <2> QED BY <2>1, BusyAlive DEF Busy
<1>1. CASE FlushNothing(c)
  <2>1. /\ Respond(c)
        /\ UNCHANGED <<cache, process, writers, flusher, journal, disk, clock,
                       bounds, history>>
    BY <1>1 DEF FlushNothing
  <2> QED BY <1>0, <2>1, JournalSame, HistorySame, OnlyResponds
<1>2. CASE FlushReturn(c)
  <2>1. /\ Respond(c)
        /\ UNCHANGED <<cache, process, writers, flusher, journal, disk, clock, bounds, history>>
    BY <1>2 DEF FlushReturn
  <2>2. JournalInv' /\ HistoryInv'
    BY <2>1, JournalSame, HistorySame
  <2> QED BY <1>0, <2>1, <2>2, OnlyResponds
<1>3. CASE FlushWait(c)
  <2> DEFINE f == Command(c).file
             n == IF queue # <<>> /\ Head(queue) = f THEN 0 ELSE 1
  <2>1. /\ cpc[c] = "cmd" /\ Command(c).op = "FLUSH"
        /\ f \in tree /\ vals[f] # <<>>
        /\ queue' = WQ!AtHead(queue, f)
        /\ wpc' \in Signalled(n)
        /\ cpc' = [cpc EXCEPT ![c] = "flushwait"]
        /\ UNCHANGED <<tree, vals, last_update_stamp, last_flush_time, process,
                       wfile, wvals, flusher, inbuf, cnow, connection_threads_num,
                       journal, disk, clock, bounds, history>>
    BY <1>3 DEF FlushWait
  <2>2. f \in Files
    BY <1>0, <2>1, CommandOf
  <2>3. n \in Nat /\ (queue = <<>> => n >= 1)
    OBVIOUS
  <2> HIDE DEF n
  <2>4. /\ queue' \in Seq(Files) /\ NoDup(queue')
        /\ Elems(queue') = Elems(queue) \cup {f}
    BY <2>1, <2>2, AtHeadProperties DEF CacheInv
  <2>5. CacheInv'
    BY <2>1, <2>4 DEF CacheInv
  <2>6. /\ WriterInv'
        /\ \A w \in Writers : wpc'[w] = "wait" => wpc[w] = "wait"
        /\ \A w \in Writers : wpc[w] = "exit" => wpc'[w] = "exit"
        /\ n >= 1 => \E w \in Writers : wpc'[w] # "wait"
    BY <2>1, <2>3, SignalledWakes
  <2>7. NoSleepingWriters'
    BY <2>3, <2>6, NobodySleepsOn
  <2>8. ConnInv'
    <3>1. WokenFrom(cpc) /\ "flushwait" \in Busy
      BY FlushedWakes DEF Busy
    <3> QED BY <1>0, <2>1, <3>1, ConnStep
  <2>9. WaiterServed'
    <3> SUFFICES ASSUME NEW d \in Conns, cpc'[d] = "flushwait"
                 PROVE  LET g == Head(inbuf'[d]).file
                        IN  /\ g \in tree'
                            /\ \/ g \in WQ!ElementsOf(queue')
                               \/ \E w \in Writers : wfile'[w] = g
      BY DEF WaiterServed, Command, WQ!ElementsOf
    <3>1. inbuf'[d] = inbuf[d] /\ tree' = tree /\ wfile' = wfile
      BY <2>1
    <3>2. CASE d = c
      BY <2>1, <2>4, <3>1, <3>2 DEF Elems, Command
    <3>3. CASE d # c
      <4>1. cpc[d] = "flushwait"
        BY <2>1, <3>3 DEF ConnInv
      <4> QED BY <2>4, <3>1, <4>1 DEF WaiterServed, Elems, Command
    <3> QED BY <3>2, <3>3
  <2>10. ProcessInv'
    <3>1. Alive'
      BY <1>0, <2>1 DEF Alive, process
    <3> QED BY <2>1, <3>1 DEF ProcessInv, process, flusher
  <2>11. HistoryInv'
    BY <2>1, HistorySame
  <2>12. JournalInv' /\ WorldInv'
    BY <2>1, JournalSame DEF WorldInv
  <2> QED BY <2>5, <2>6, <2>7, <2>8, <2>9, <2>10, <2>11, <2>12
<1>4. CASE FlushAllCommand(c)
  <2>1. /\ flush_old_values(FlushAll)
        /\ RespondAfter(c, Flushed(ToPurge))
        /\ UNCHANGED <<process, flusher, journal, disk, clock, bounds, history>>
    BY <1>4 DEF FlushAllCommand
  <2>2. CacheInv' /\ WriterInv' /\ NoSleepingWriters'
    BY <2>1, FlushOldKeeps
  <2>3. /\ ConnInv'
        /\ \A d \in Conns : cpc'[d] = "flushwait" =>
              Flushed(ToPurge)[d] = "flushwait" /\ inbuf'[d] = inbuf[d]
    BY <1>0, <2>1, ConnResponds, FlushedWakes
  <2>4. WaiterServed'
    BY <2>1, <2>3, FlushOldServes
  <2>5. ProcessInv'
    <3>1. Alive'
      BY <1>0, <2>1 DEF Alive, process
    <3> QED BY <2>1, <3>1 DEF ProcessInv, process, flusher
  <2>6. JournalInv' /\ HistoryInv' /\ WorldInv'
    BY <2>1, JournalSame, HistorySame DEF WorldInv
  <2> QED BY <2>2, <2>3, <2>4, <2>5, <2>6
<1> QED BY <1>1, <1>2, <1>3, <1>4

\* The two steps of FORGET.
LEMMA ForgetKeeps ==
    ASSUME IInv, NEW c \in Conns,
           ForgetNothing(c) \/ ForgetRemove(c) \/ ForgetJournal(c)
    PROVE  IInv'
<1> USE DEF IInv
<1>0. /\ cpc[c] \in Busy /\ Alive /\ Command(c).op = "FORGET"
      /\ Command(c).file \in Files
  <2>1. cpc[c] \in Busy /\ Command(c).op = "FORGET"
    BY DEF ForgetNothing, ForgetRemove, ForgetJournal, Busy, ConnInv
  <2> QED BY <2>1, BusyAlive, CommandOf DEF Busy
<1>1. CASE ForgetNothing(c)
  <2>1. /\ Respond(c)
        /\ UNCHANGED <<cache, process, writers, flusher, journal, disk, clock,
                       bounds, history>>
    BY <1>1 DEF ForgetNothing
  <2> QED BY <1>0, <2>1, JournalSame, HistorySame, OnlyResponds
<1>2. CASE ForgetJournal(c)
  <2>1. /\ Respond(c)
        /\ journal_write(Entry("forget", Command(c).file, <<>>))
        /\ UNCHANGED <<cache, process, writers, flusher, disk, clock, bounds, history>>
    BY <1>2 DEF ForgetJournal
  <2>2. Entry("forget", Command(c).file, <<>>) \in Entries
    BY <1>0 DEF Entry, Entries
  <2>3. JournalInv'
    BY <2>1, <2>2, JournalWritten
  <2> QED BY <1>0, <2>1, <2>3, HistorySame, OnlyResponds
<1>3. CASE ForgetRemove(c)
  <2> DEFINE f == Command(c).file
  <2>1. /\ cpc[c] = "cmd" /\ f \in tree
        /\ tree' = tree \ {f}
        /\ queue' = WQ!Without(queue, f)
        /\ vals' = [vals EXCEPT ![f] = <<>>]
        /\ last_update_stamp' = [last_update_stamp EXCEPT ![f] = 0]
        /\ last_flush_time' = [last_flush_time EXCEPT ![f] = 0]
        /\ cpc' = [Flushed({f}) EXCEPT ![c] = "forget"]
        /\ ledger' = [ledger EXCEPT ![f] = SubSeq(@, 1, Len(@) - Len(vals[f]))]
        /\ unlogged' = [unlogged EXCEPT ![f] = {}]
        /\ UNCHANGED <<process, writers, flusher, inbuf, cnow,
                       connection_threads_num, journal, disk, clock, bounds>>
    BY <1>3 DEF ForgetRemove, wiped
  <2>2. /\ queue' \in Seq(Files) /\ NoDup(queue')
        /\ Elems(queue') = Elems(queue) \ {f}
    BY <2>1, WithoutProperties DEF CacheInv
  <2>3. CacheInv'
    <3>1. vals' \in [Files -> Seq(Nat)] /\ \A g \in Files : g # f => vals'[g] = vals[g]
      <4>1. <<>> \in Seq(Nat)
        OBVIOUS
      <4> QED BY <2>1, <4>1 DEF CacheInv
    <3>2. last_update_stamp' \in [Files -> Nat] /\ last_flush_time' \in [Files -> Nat]
      BY <2>1 DEF CacheInv
    <3>3. \A g \in Elems(queue') : g \in Files /\ g \in tree' /\ vals'[g] # <<>>
      <4>1. \A g \in Elems(queue) : g \in Files
        BY DEF CacheInv, Elems, WQ!ElementsOf
      <4> QED BY <4>1, <2>1, <2>2, <3>1 DEF CacheInv
    <3> QED BY <2>1, <2>2, <3>1, <3>2, <3>3 DEF CacheInv
  <2>4. ConnInv'
    <3>1. WokenFrom(Flushed({f})) /\ "forget" \in Busy
      BY FlushedWakes DEF Busy
    <3> QED BY <1>0, <2>1, <3>1, ConnStep
  <2>5. \A d \in Conns : cpc'[d] = "flushwait" =>
          cpc[d] = "flushwait" /\ inbuf'[d] = inbuf[d] /\ Command(d).file # f
    <3>1. \A d \in Conns : cpc'[d] = "flushwait" => Flushed({f})[d] = "flushwait"
      BY <2>1 DEF Flushed
    <3> HIDE DEF f
    <3> QED BY <2>1, <3>1, FlushedWakes
  <2>6. WaiterServed'
    <3>1. UNCHANGED wfile
      BY <2>1 DEF writers
    <3> HIDE DEF f
    <3> QED BY <2>1, <2>2, <2>5, <3>1, ServedStep
  <2>7. NoSleepingWriters' /\ WriterInv'
    <3>1. queue = <<>> => queue' = <<>>
      BY <2>1 DEF WQ!Without, WQ!ElementsOf
    <3> QED BY <2>1, <3>1 DEF NoSleepingWriters, WriterInv, writers
  <2>8. ProcessInv'
    <3>1. Alive'
      BY <1>0, <2>1 DEF Alive, process
    <3> QED BY <2>1, <3>1 DEF ProcessInv, process, flusher
  <2>9. HistoryInv'
    <3>1. SubSeq(ledger[f], 1, Len(ledger[f]) - Len(vals[f])) \in Seq(Nat)
      <4>1. ledger[f] \in Seq(Nat) /\ vals[f] \in Seq(Nat)
        BY <1>0 DEF HistoryInv, CacheInv
      <4>2. Len(ledger[f]) \in Nat /\ Len(vals[f]) \in Nat
        BY <4>1
      <4>3. \A i \in 1 .. Len(ledger[f]) - Len(vals[f]) : ledger[f][i] \in Nat
        BY <4>1, <4>2
      <4> QED BY <4>1, <4>2, <4>3
    <3> QED BY <2>1, <3>1 DEF HistoryInv
  <2>10. JournalInv' /\ WorldInv'
    BY <2>1, JournalSame DEF WorldInv
  <2> QED BY <2>3, <2>4, <2>6, <2>7, <2>8, <2>9, <2>10
<1> QED BY <1>1, <1>2, <1>3

-------------------------------------------------------------------------------
(* The steps of the other threads.                                         *)

\* The queue threads.
LEMMA WriterKeeps ==
    ASSUME IInv, NEW w \in Writers, Writer(w)
    PROVE  IInv'
<1> USE DEF IInv
<1>0. Alive
  BY DEF Writer, WriterTake, WriterWait, WriterExit, WriterWrite, WriterFail,
         WriterWrote, WriterNotify, ProcessInv
<1>1. CASE WriterTake(w)
  <2> DEFINE f == Head(queue)
  <2>1. /\ wpc[w] \in {"woken", "loop"} /\ queue # <<>>
        /\ wfile' = [wfile EXCEPT ![w] = f]
        /\ wvals' = [wvals EXCEPT ![w] = vals[f]]
        /\ vals' = [vals EXCEPT ![f] = <<>>]
        /\ unlogged' = [unlogged EXCEPT ![f] = {}]
        /\ \E j \in Jitters :
              last_flush_time' = [last_flush_time EXCEPT ![f] = clock + j]
        /\ queue' = Tail(queue)
        /\ wpc' = [wpc EXCEPT ![w] = "write"]
        /\ UNCHANGED <<tree, last_update_stamp, process, flusher, conns, journal,
                       disk, clock, bounds, ledger>>
    BY <1>1 DEF WriterTake, wiped
  <2>2. /\ queue' \in Seq(Files) /\ NoDup(queue') /\ f \in Elems(queue)
        /\ Elems(queue') = Elems(queue) \ {f}
    BY <2>1, TailNoDup DEF CacheInv
  <2>3. f \in Files /\ f # NoFile
    <3>1. \A g \in Elems(queue) : g \in Files
      BY DEF CacheInv, Elems, WQ!ElementsOf
    <3> QED BY <2>2, <3>1, RrdcachedAssumption
  <2> HIDE DEF f
  <2>4. wfile[w] = NoFile
    BY <2>1 DEF WriterInv
  <2>5. WriterInv'
    <3>1. vals[f] \in Seq(Nat)
      BY <2>3 DEF CacheInv
    <3>2. \A x \in Writers : /\ wpc'[x] = IF x = w THEN "write" ELSE wpc[x]
                             /\ wfile'[x] = IF x = w THEN f ELSE wfile[x]
      BY <2>1 DEF WriterInv
    <3>3. wvals' \in [Writers -> Seq(Nat)] /\ wfile' \in [Writers -> Files \cup {NoFile}]
      BY <2>1, <2>3, <3>1 DEF WriterInv
    <3>4. wpc' \in [Writers -> {"loop", "wait", "woken", "write", "notify", "exit"}]
      BY <2>1 DEF WriterInv
    <3> QED BY <2>3, <3>2, <3>3, <3>4 DEF WriterInv
  <2>6. CacheInv'
    <3>1. vals' \in [Files -> Seq(Nat)] /\ \A g \in Files : g # f => vals'[g] = vals[g]
      <4>1. <<>> \in Seq(Nat)
        OBVIOUS
      <4> QED BY <2>1, <4>1 DEF CacheInv
    <3>2. last_flush_time' \in [Files -> Nat]
      <4>1. PICK j \in Jitters :
              last_flush_time' = [last_flush_time EXCEPT ![f] = clock + j]
        BY <2>1
      <4>2. clock + j \in Nat
        BY RrdcachedAssumption DEF Jitters, WorldInv
      <4> QED BY <4>1, <4>2 DEF CacheInv
    <3>3. \A g \in Elems(queue') : g \in tree' /\ vals'[g] # <<>>
      <4>1. \A g \in Elems(queue) : g \in Files
        BY DEF CacheInv, Elems, WQ!ElementsOf
      <4> QED BY <4>1, <2>1, <2>2, <3>1 DEF CacheInv
    <3> QED BY <2>1, <2>2, <3>1, <3>2, <3>3 DEF CacheInv
  <2>7. WaiterServed'
    <3>1. \A x \in Writers : wfile[x] # NoFile => wfile'[x] = wfile[x]
      BY <2>1, <2>4 DEF WriterInv
    <3>2. wfile'[w] = f
      BY <2>1 DEF WriterInv
    <3>3. \A d \in Conns : cpc[d] = "flushwait" => Command(d).file # NoFile
      BY CommandOf, RrdcachedAssumption DEF ConnInv, Busy
    <3> QED BY <2>1, <2>2, <3>1, <3>2, <3>3, ServedStep DEF conns
  <2>8. NoSleepingWriters'
    BY <2>1 DEF NoSleepingWriters, WriterInv
  <2>9. ConnInv' /\ HistoryInv'
    BY <2>1 DEF ConnInv, conns, Command, Counted, HistoryInv
  <2>10. ProcessInv' /\ WorldInv' /\ JournalInv'
    BY <1>0, <2>1, JournalSame
       DEF ProcessInv, WorldInv, process, flusher, conns, Alive
  <2> QED BY <2>5, <2>6, <2>7, <2>8, <2>9, <2>10
<1>a. UNCHANGED conns => ConnInv'
  BY DEF ConnInv, conns, Command, Counted
<1>b. UNCHANGED conns => \A d \in Conns : cpc'[d] = "flushwait" =>
        cpc[d] = "flushwait" /\ inbuf'[d] = inbuf[d]
  BY DEF conns
<1>2. CASE WriterWait(w) \/ WriterExit(w)
  <2>1. /\ UNCHANGED <<cache, process, wfile, wvals, flusher, conns, journal, disk,
                       clock, bounds, history>>
        /\ wpc[w] \in {"loop", "woken"}
        /\ \E x \in {"wait", "loop", "exit"} :
              wpc' = [wpc EXCEPT ![w] = x] /\ (x = "wait" => queue = <<>>)
    BY <1>2 DEF WriterWait, WriterExit
  <2>2. WriterInv'
    BY <2>1 DEF WriterInv
  <2>3. ProcessInv'
    BY <1>0, <2>1 DEF ProcessInv, process, flusher, conns, Alive
  <2>4. WorldInv' /\ JournalInv' /\ HistoryInv'
    BY <2>1, JournalSame, HistorySame DEF WorldInv
  <2>5. /\ \A x \in Writers : wpc'[x] = "wait" => wpc[x] = "wait" \/ queue = <<>>
        /\ \A x \in Writers : wpc[x] = "exit" => wpc'[x] = "exit"
    BY <2>1 DEF WriterInv
  <2> QED BY <1>a, <1>b, <2>1, <2>2, <2>3, <2>4, <2>5, OnlyThreads
<1>3. CASE WriterWrite(w) \/ WriterFail(w)
  <2>1. /\ UNCHANGED <<cache, process, wpc, wfile, flusher, conns, journal, clock,
                       history>>
        /\ wpc[w] = "write" /\ wvals[w] # <<>>
        /\ \E q \in {Tail(wvals[w]), <<>>} : wvals' = [wvals EXCEPT ![w] = q]
    BY <1>3 DEF WriterWrite, WriterFail
  <2>2. Tail(wvals[w]) \in Seq(Nat) /\ Head(wvals[w]) \in Nat
    BY <2>1, HeadTailProperties DEF WriterInv
  <2>3. WriterInv'
    <3>1. PICK q \in {Tail(wvals[w]), <<>>} : wvals' = [wvals EXCEPT ![w] = q]
      BY <2>1
    <3>2. q \in Seq(Nat)
      <4>1. <<>> \in Seq(Nat)
        OBVIOUS
      <4> QED BY <2>2, <3>1, <4>1
    <3>3. wvals' \in [Writers -> Seq(Nat)]
      BY <3>1, <3>2 DEF WriterInv
    <3> QED BY <2>1, <3>3 DEF WriterInv
  <2>4. ProcessInv' /\ JournalInv' /\ HistoryInv'
    BY <1>0, <2>1, JournalSame, HistorySame DEF ProcessInv, process, flusher, conns, Alive
  <2>5. WorldInv'
    <3>1. CASE WriterWrite(w)
      <4>1. wfile[w] \in Files
        BY <2>1 DEF WriterInv
      <4>2. Append(disk[wfile[w]], Head(wvals[w])) \in Seq(Nat)
        BY <2>2, <4>1 DEF WorldInv
      <4> QED BY <3>1, <4>1, <4>2 DEF WriterWrite, WorldInv
    <3>2. CASE WriterFail(w)
      <4>1. bounds.werrors + 1 \in 0 .. MaxWriteErrors
        BY <3>2, RrdcachedAssumption DEF WriterFail, WorldInv
      <4> QED BY <3>2, <4>1 DEF WriterFail, WorldInv, Count
    <3> QED BY <1>3, <3>1, <3>2
  <2> QED BY <1>a, <1>b, <2>1, <2>3, <2>4, <2>5, OnlyThreads
<1>4. CASE WriterWrote(w)
  <2>1. /\ wpc[w] = "write"
        /\ journal_write(Entry("wrote", wfile[w], <<>>))
        /\ wpc' = [wpc EXCEPT ![w] = "notify"]
        /\ UNCHANGED <<cache, process, wfile, wvals, flusher, conns, disk, clock,
                       bounds, history>>
    BY <1>4 DEF WriterWrote
  <2>2. Entry("wrote", wfile[w], <<>>) \in Entries
    BY <2>1 DEF Entry, Entries, WriterInv
  <2>3. JournalInv' /\ WriterInv'
    BY <2>1, <2>2, JournalWritten DEF WriterInv
  <2>4. ProcessInv' /\ HistoryInv' /\ WorldInv'
    BY <1>0, <2>1, HistorySame DEF ProcessInv, WorldInv, process, flusher, conns, Alive
  <2>5. /\ \A x \in Writers : wpc'[x] = "wait" => wpc[x] = "wait" \/ queue = <<>>
        /\ \A x \in Writers : wpc[x] = "exit" => wpc'[x] = "exit"
    BY <2>1 DEF WriterInv
  <2> QED BY <1>a, <1>b, <2>1, <2>3, <2>4, <2>5, OnlyThreads
<1>5. CASE WriterNotify(w)
  <2>1. /\ wpc[w] = "notify"
        /\ cpc' = Flushed({wfile[w]} \cap tree)
        /\ wpc' = [wpc EXCEPT ![w] = "loop"]
        /\ wfile' = [wfile EXCEPT ![w] = NoFile]
        /\ UNCHANGED <<cache, process, wvals, flusher, inbuf, cnow,
                       connection_threads_num, journal, disk, clock, bounds, history>>
    BY <1>5 DEF WriterNotify
  <2>2. WriterInv'
    BY <2>1 DEF WriterInv
  <2>3. ConnInv'
    BY <2>1, FlushedWakes, ConnWoken
  <2>4. WaiterServed'
    <3>1. \A d \in Conns : cpc'[d] = "flushwait" =>
            /\ cpc[d] = "flushwait" /\ inbuf'[d] = inbuf[d]
            /\ Command(d).file \notin {wfile[w]} \cap tree
      BY <2>1, FlushedWakes
    <3>2. \A d \in Conns : cpc'[d] = "flushwait" => Command(d).file # wfile[w]
      BY <3>1 DEF WaiterServed
    <3>3. \A x \in Writers : x # w => wfile'[x] = wfile[x]
      BY <2>1 DEF WriterInv
    <3>4. UNCHANGED <<tree, queue>>
      BY <2>1 DEF cache
    <3> QED BY <3>1, <3>2, <3>3, <3>4, ServedStep
  <2>5. CacheInv' /\ NoSleepingWriters'
    BY <2>1 DEF CacheInv, NoSleepingWriters, WriterInv, cache
  <2>6. ProcessInv'
    <3>1. Alive'
      BY <1>0, <2>1 DEF Alive, process
    <3> QED BY <2>1, <3>1 DEF ProcessInv, process, flusher
  <2>7. JournalInv' /\ HistoryInv' /\ WorldInv'
    BY <2>1, JournalSame, HistorySame DEF WorldInv
  <2> QED BY <2>2, <2>3, <2>4, <2>5, <2>6, <2>7
<1> QED BY <1>1, <1>2, <1>3, <1>4, <1>5 DEF Writer

\* The flush thread, with the rotation of the journal.
LEMMA FlushThreadKeeps ==
    ASSUME IInv, FlushThread
    PROVE  IInv'
<1> USE DEF IInv
<1>0. Alive
  BY DEF FlushThread, FlushTimer, FlushShutdown, JournalRotate, JournalNewFile,
         JournalUnlink, ProcessInv
<1>1. ASSUME NEW abs, flush_old_values(abs), cpc' = Flushed(ToPurge), ProcessInv',
             UNCHANGED <<inbuf, cnow, connection_threads_num, journal, disk, clock,
                         bounds, history>>
      PROVE  IInv'
  <2>1. CacheInv' /\ WriterInv' /\ NoSleepingWriters'
    BY <1>1, FlushOldKeeps
  <2>2. ConnInv'
    BY <1>1, FlushedWakes, ConnWoken
  <2>3. WaiterServed'
    BY <1>1, FlushOldServes
  <2>4. JournalInv' /\ HistoryInv' /\ WorldInv'
    BY <1>1, JournalSame, HistorySame DEF WorldInv
  <2> QED BY <1>1, <2>1, <2>2, <2>3, <2>4
<1>a. UNCHANGED conns => ConnInv'
  BY DEF ConnInv, conns, Command, Counted
<1>2. CASE FlushTimer
  <2>1. /\ flush_old_values(NotWrittenLong) /\ cpc' = Flushed(ToPurge)
        /\ next_flush' = clock + FlushInterval /\ fpc' = "rotate"
        /\ UNCHANGED <<process, inbuf, cnow, connection_threads_num, journal, disk,
                       clock, bounds, history>>
    BY <1>2 DEF FlushTimer
  <2>2. ProcessInv'
    BY <1>0, <2>1, RrdcachedAssumption DEF ProcessInv, WorldInv, process, Alive
  <2> QED BY <1>1, <2>1, <2>2
<1>3. CASE FlushShutdown
  <2>1. /\ state' = "SHUTDOWN" /\ fpc' = "done"
        /\ UNCHANGED <<flush_at_shutdown, leaked, mpc, next_flush, inbuf, cnow,
                       connection_threads_num, journal, disk, clock, bounds, history>>
    BY <1>3 DEF FlushShutdown
  <2>2. ProcessInv'
    BY <1>0, <2>1 DEF ProcessInv, Alive
  <2>3. CASE flush_old_values(FlushAll) /\ cpc' = Flushed(ToPurge)
    BY <1>1, <2>1, <2>2, <2>3
  <2>4. CASE UNCHANGED <<cache, writers, cpc>>
    <3>1. WriterInv' /\ JournalInv' /\ WorldInv' /\ HistoryInv'
      BY <2>1, <2>4, JournalSame, HistorySame DEF WriterInv, WorldInv, writers
    <3> QED BY <1>a, <2>1, <2>2, <2>4, <3>1, OnlyThreads DEF writers, conns
  <2> QED BY <1>3, <2>3, <2>4 DEF FlushShutdown
<1>4. CASE JournalRotate \/ JournalNewFile \/ JournalUnlink
  <2>1. UNCHANGED <<cache, writers, conns, state, leaked, mpc, next_flush, disk,
                    clock, history>>
    BY <1>4 DEF JournalRotate, JournalNewFile, JournalUnlink, process
  <2>2. WriterInv' /\ HistoryInv'
    BY <2>1, HistorySame DEF WriterInv, writers
  <2>3. ProcessInv'
    BY <1>0, <1>4, <2>1
       DEF JournalRotate, JournalNewFile, JournalUnlink, ProcessInv, process, conns, Alive
  <2>4. JournalInv'
    <3>1. <<>> \in Seq(Entries) /\ Len(<<>>) = 0
      OBVIOUS
    <3>2. CASE JournalRotate
      <4>1. CASE Journaling
        <5>1. /\ jdead' = jold /\ jold' = jcur /\ jcur' = <<>>
              /\ jdurable' = 0 /\ jopen' = FALSE
          BY <3>2, <4>1 DEF JournalRotate
        <5>2. jdurable' \in 0 .. Len(jcur')
          BY <3>1, <5>1
        <5> QED BY <3>1, <5>1, <5>2 DEF JournalInv
      <4>2. CASE ~Journaling
        <5>1. UNCHANGED journal
          BY <3>2, <4>2 DEF JournalRotate
        <5> QED BY <5>1, JournalSame
      <4> QED BY <4>1, <4>2
    <3>3. CASE JournalNewFile
      <4>1. UNCHANGED <<jdead, jold, jcur, jdurable>> /\ jopen' \in {TRUE, jopen}
        BY <3>3 DEF JournalNewFile
      <4> QED BY <4>1 DEF JournalInv
    <3>4. CASE JournalUnlink
      <4>1. UNCHANGED <<jold, jcur, jdurable, jopen>> /\ jdead' = <<>>
        BY <3>4 DEF JournalUnlink
      <4> QED BY <3>1, <4>1 DEF JournalInv
    <3> QED BY <1>4, <3>2, <3>3, <3>4
  <2>5. WorldInv'
    <3>1. CASE UNCHANGED bounds
      BY <2>1, <3>1 DEF WorldInv
    <3>2. CASE bounds.jerrors < MaxJournalErrors /\ Count("jerrors")
      <4>1. bounds.jerrors + 1 \in 0 .. MaxJournalErrors
        BY <3>2, RrdcachedAssumption DEF WorldInv
      <4> QED BY <2>1, <3>2, <4>1 DEF WorldInv, Count
    <3> QED BY <1>4, <3>1, <3>2 DEF JournalRotate, JournalNewFile, JournalUnlink
  <2>6. CacheInv' /\ WaiterServed' /\ NoSleepingWriters'
    BY <2>1, OnlyThreads DEF writers, conns
  <2> QED BY <1>a, <2>1, <2>2, <2>3, <2>4, <2>5, <2>6
<1> QED BY <1>2, <1>3, <1>4 DEF FlushThread

\* The main thread's steps.
LEMMA MainKeeps ==
    ASSUME IInv, Main
    PROVE  IInv'
<1> USE DEF IInv
<1>a. UNCHANGED conns => ConnInv' /\ \A d \in Conns : cpc'[d] = "flushwait" =>
        cpc[d] = "flushwait" /\ inbuf'[d] = inbuf[d]
  BY DEF ConnInv, conns, Command, Counted
<1>1. CASE ListenStop \/ ConnectionsDone \/ FlushThreadJoined
  <2>1. /\ mpc \in {"listen", "waitconns", "joinflush"}
        /\ mpc' \in {"waitconns", "joinflush", "joinqueue"}
        /\ UNCHANGED <<cache, state, flush_at_shutdown, leaked, wfile, wvals, flusher,
                       conns, journal, disk, clock, bounds, history>>
        /\ wpc' = wpc \/ wpc' = AllWoken
    BY <1>1 DEF ListenStop, ConnectionsDone, FlushThreadJoined, MainGoes, writers
  <2>2. /\ WriterInv'
        /\ \A w \in Writers : wpc'[w] = "wait" => wpc[w] = "wait"
        /\ \A w \in Writers : wpc[w] = "exit" => wpc'[w] = "exit"
    BY <2>1, BroadcastWakes DEF WriterInv
  <2>3. CacheInv' /\ WaiterServed' /\ NoSleepingWriters'
    BY <1>a, <2>1, <2>2, OnlyThreads
  <2>4. Alive /\ Alive'
    BY <2>1 DEF Alive
  <2>5. ProcessInv'
    BY <2>1, <2>4 DEF ProcessInv, flusher
  <2>6. JournalInv' /\ HistoryInv' /\ WorldInv'
    BY <2>1, JournalSame, HistorySame DEF WorldInv
  <2> QED BY <1>a, <2>1, <2>2, <2>3, <2>5, <2>6
<1>2. CASE AssertFails
  BY <1>2, DiesKeeps DEF AssertFails
<1>3. CASE Exit
  <2>1. (IF flush_at_shutdown THEN <<>> ELSE jold \o jcur) \in Seq(Entries)
    BY ConcatProperties DEF JournalInv
  <2> QED BY <1>3, <2>1, GoneKeeps DEF Exit
<1> QED BY <1>1, <1>2, <1>3 DEF Main

\* Signals, time, crashes and restarts.
LEMMA EnvironmentKeeps ==
    ASSUME IInv, Environment
    PROVE  IInv'
<1> USE DEF IInv
<1>a. UNCHANGED conns => ConnInv' /\ \A d \in Conns : cpc'[d] = "flushwait" =>
        cpc[d] = "flushwait" /\ inbuf'[d] = inbuf[d]
  BY DEF ConnInv, conns, Command, Counted
<1>1. ASSUME NEW sig \in Signals, Signal(sig) PROVE IInv'
  <2>1. /\ Alive /\ bounds.signals < MaxSignals /\ Count("signals")
        /\ state' = "FLUSHING" /\ wpc' = AllWoken
        /\ flush_at_shutdown' = (sig = "USR1" \/ (sig # "USR2" /\ flush_at_shutdown))
        /\ UNCHANGED <<cache, leaked, mpc, wfile, wvals, flusher, conns, journal,
                       disk, clock, history>>
    BY <1>1 DEF Signal
  <2>2. /\ WriterInv'
        /\ \A w \in Writers : wpc'[w] = "wait" => wpc[w] = "wait"
        /\ \A w \in Writers : wpc[w] = "exit" => wpc'[w] = "exit"
    BY <2>1, BroadcastWakes
  <2>3. CacheInv' /\ WaiterServed' /\ NoSleepingWriters'
    BY <1>a, <2>1, <2>2, OnlyThreads
  <2>4. flush_at_shutdown' \in BOOLEAN
    BY <2>1 DEF ProcessInv
  <2>5. ProcessInv'
    BY <2>1, <2>4 DEF ProcessInv, flusher, Alive
  <2>6. WorldInv'
    <3>1. bounds.signals + 1 \in 0 .. MaxSignals
      BY <2>1, RrdcachedAssumption DEF WorldInv
    <3> QED BY <2>1, <3>1 DEF WorldInv, Count
  <2>7. JournalInv' /\ HistoryInv'
    BY <2>1, JournalSame, HistorySame
  <2> QED BY <1>a, <2>1, <2>2, <2>3, <2>5, <2>6, <2>7
<1>2. CASE Tick
  <2>1. /\ clock < MaxClock /\ clock' = clock + 1
        /\ UNCHANGED <<cache, process, writers, flusher, conns, journal, disk,
                       bounds, history>>
    BY <1>2 DEF Tick
  <2>2. WorldInv'
    BY <2>1, RrdcachedAssumption DEF WorldInv
  <2>3. WriterInv' /\ JournalInv' /\ HistoryInv'
    BY <2>1, JournalSame, HistorySame DEF WriterInv, writers
  <2>4. ProcessInv'
    BY <2>1 DEF ProcessInv, process, flusher, conns, writers, Alive
  <2>5. CacheInv' /\ WaiterServed' /\ NoSleepingWriters'
    BY <1>a, <2>1, OnlyThreads DEF writers
  <2> QED BY <1>a, <2>1, <2>2, <2>3, <2>4, <2>5
<1>3. CASE Crash
  BY <1>3, DiesKeeps DEF Crash
<1>4. CASE Restart
  BY <1>4, RestartKeeps
<1> QED BY <1>1, <1>2, <1>3, <1>4 DEF Environment

-------------------------------------------------------------------------------
(* The invariant and what follows from it.                                 *)

\* The daemon starts in a state of the invariant.
LEMMA InitIInv == Init => IInv
<1> SUFFICES ASSUME Init PROVE IInv
  OBVIOUS
<1> USE RrdcachedAssumption DEF Init
<1>1. ConnInv
  <2>1. Cardinality(Counted(cpc)) = 0
    <3>1. Counted(cpc) = {}
      BY DEF Counted
    <3> QED BY <3>1, FS_EmptySet
  <2>2. <<>> \in Seq(Commands)
    OBVIOUS
  <2>3. inbuf \in [Conns -> Seq(Commands)]
    <3> HIDE DEF Commands
    <3> QED BY <2>2
  <2> QED BY <2>1, <2>3 DEF ConnInv, ConnPCs, Busy
<1>2. WriterInv
  BY DEF WriterInv
<1>3. CacheInv
  <2>1. NoDup(queue) /\ Elems(queue) = {}
    BY DEF NoDup, Elems, WQ!ElementsOf
  <2> QED BY <2>1 DEF CacheInv
<1>4. JournalInv /\ HistoryInv
  BY DEF JournalInv, HistoryInv
<1>5. ProcessInv
  BY DEF ProcessInv, Alive
<1>6. WorldInv
  BY DEF WorldInv
<1>7. WaiterServed /\ NoSleepingWriters
  BY DEF WaiterServed, NoSleepingWriters
<1> QED BY <1>1, <1>2, <1>3, <1>4, <1>5, <1>6, <1>7 DEF IInv

\* Every step of every thread, and of the world around, preserves it.
LEMMA NextIInv == IInv /\ [Next]_vars => IInv'
<1> SUFFICES ASSUME IInv, [Next]_vars PROVE IInv'
  OBVIOUS
<1>1. ASSUME NEW c \in Conns, Connection(c) PROVE IInv'
  BY <1>1, SessionKeeps, UpdateKeeps, FlushKeeps, ForgetKeeps DEF Connection, Handle
<1>2. ASSUME NEW w \in Writers, Writer(w) PROVE IInv'
  BY <1>2, WriterKeeps
<1>3. CASE UNCHANGED vars
  <2>1. UNCHANGED <<cache, process, writers, flusher, conns, journal, disk, clock,
                    bounds, history>>
    BY <1>3 DEF vars
  <2>2. WriterInv' /\ JournalInv' /\ HistoryInv' /\ WorldInv' /\ ConnInv'
    BY <2>1, JournalSame, HistorySame
       DEF IInv, WriterInv, WorldInv, writers, ConnInv, conns, Command, Counted
  <2>3. ProcessInv'
    BY <2>1 DEF IInv, ProcessInv, process, flusher, conns, writers, Alive
  <2>4. CacheInv' /\ WaiterServed' /\ NoSleepingWriters'
    BY <2>1, OnlyThreads DEF writers, conns
  <2> QED BY <2>2, <2>3, <2>4 DEF IInv
<1> QED BY <1>1, <1>2, <1>3, FlushThreadKeeps, MainKeeps, EnvironmentKeeps DEF Next

\* The invariant gives the properties: every thread that counted itself is a
\* thread, so the count is a natural number.
LEMMA IInvImplies == IInv => TypeOK /\ QueueOK
<1> SUFFICES ASSUME IInv PROVE TypeOK /\ QueueOK
  OBVIOUS
<1> USE DEF IInv
<1>1. connection_threads_num \in Nat
  <2>1. Counted(cpc) \in SUBSET Conns
    BY DEF Counted
  <2>2. IsFiniteSet(Counted(cpc))
    BY <2>1, RrdcachedAssumption, FS_Subset
  <2> QED BY <2>2, FS_CardinalityType DEF ConnInv
<1>2. TypeOK
  BY <1>1 DEF TypeOK, ConnInv, WriterInv, CacheInv, JournalInv, ProcessInv, WorldInv,
              HistoryInv, ConnPCs, Busy
<1>3. QueueOK
  BY DEF QueueOK, CacheInv, NoDup, Elems
<1> QED BY <1>2, <1>3

\* The inductive invariant holds throughout.
LEMMA Inductive == Spec => []IInv
BY InitIInv, NextIInv, PTL DEF Spec

\* Every variable keeps its type; in particular the count of connection
\* threads never goes below zero, and the journal files stay well formed
\* whatever crash they went through.
THEOREM TypeCorrect == Spec => []TypeOK
BY Inductive, IInvImplies, PTL

\* A queued item is queued once, is in the tree and holds values.
THEOREM QueueCorrect == Spec => []QueueOK
BY Inductive, IInvImplies, PTL

\* No client in flush_file is left without somebody to wake it.
THEOREM WaitersServed == Spec => []WaiterServed
<1>1. IInv => WaiterServed
  BY DEF IInv
<1> QED BY <1>1, Inductive, PTL

\* Signal, broadcast and signal handler never leave a queue to sleeping writers.
THEOREM WritersAwake == Spec => []NoSleepingWriters
<1>1. IInv => NoSleepingWriters
  BY DEF IInv
<1> QED BY <1>1, Inductive, PTL
-------------------------------------------------------------------------------
(* The queue as WriteQueue has it.                                         *)

Ready == {f \in Files : vals[f] # <<>>}

\* flush_old_values queues all the old files in one hold of the lock, which is
\* one PutAtTail of WriteQueue after another, with files that are not queued.
PutOldAtTail ==
    /\ \E S \in SUBSET (Ready \ Elems(queue)) :
          \E q \in Orderings(S) : queue' = queue \o q
    /\ UNCHANGED vals

QueueStep == WQ!Next \/ PutOldAtTail \/ UNCHANGED WQ!wqvars

\* What flush_old_values does to the queue.
LEMMA FlushOldQueueStep ==
    ASSUME IInv, NEW abs, flush_old_values(abs)
    PROVE  PutOldAtTail
<1>1. PICK q \in Orderings(ToQueue(abs)) : queue' = queue \o q
  BY DEF flush_old_values
<1>2. ToQueue(abs) \in SUBSET (Ready \ Elems(queue))
  BY RrdcachedAssumption DEF ToQueue, Ready, IInv, CacheInv, Elems
<1>3. vals' = vals
  BY DEF flush_old_values
<1> QED BY <1>1, <1>2, <1>3 DEF PutOldAtTail

\* The values of an update arrive, and the file is queued if it is time.
LEMMA StoreQueueStep ==
    ASSUME IInv, NEW c \in Conns, NEW f \in Files, NEW t, cpc[c] \in Busy,
           Command(c).op = "UPDATE", Command(c).file = f, StoreValues(c, f, t)
    PROVE  QueueStep
<1> DEFINE stored == Taken(Command(c).stamps, last_update_stamp[f])
<1>1. /\ vals \in [Files -> Seq(Nat)] /\ queue \in Seq(Files)
      /\ Command(c).stamps \in Seq(Nat)
  BY CommandOf DEF IInv, CacheInv
<1>2. stored \in Seq(Nat)
  BY <1>1, TakenType
<1> HIDE DEF stored
<1>3. /\ vals' = [vals EXCEPT ![f] = @ \o stored]
      /\ \/ queue' = queue
         \/ /\ queue' = Append(queue, f) /\ f \notin WQ!ElementsOf(queue)
            /\ vals[f] \o stored # <<>>
  BY DEF StoreValues, stored
<1>4. vals' \in [Files -> Seq(Nat)] /\ vals'[f] = vals[f] \o stored
      /\ \A g \in Files : g # f => vals'[g] = vals[g]
  BY <1>1, <1>2, <1>3
<1>5. vals[f] # <<>> => vals'[f] # <<>>
  BY <1>1, <1>2, <1>4
<1>6. CASE vals'[f] = <<>>
  BY <1>3, <1>4, <1>5, <1>6 DEF QueueStep, WQ!wqvars
<1>7. CASE vals'[f] # <<>>
  <2>1. Ready' = Ready \cup {f}
    BY <1>4, <1>5, <1>7 DEF Ready
  <2>2. queue' \in {queue, WQ!AtTail(queue, f)}
    BY <1>3 DEF WQ!AtTail
  <2>3. WQ!Submit(f)
    BY <2>1, <2>2 DEF WQ!Submit, Ready
  <2> QED BY <2>3 DEF QueueStep, WQ!Next
<1> QED BY <1>6, <1>7

\* A file loses its values and its place.
LEMMA WipedReady ==
    ASSUME IInv, NEW f \in Files, vals' = wiped(f)
    PROVE  Ready' = Ready \ {f}
BY DEF IInv, CacheInv, wiped, Ready

\* No step that leaves queue and values alone is of interest.
LEMMA QueueSame == UNCHANGED <<queue, vals>> => QueueStep
BY DEF QueueStep, WQ!wqvars

\* The steps of the connections, ...
LEMMA ConnectionQueueStep ==
    ASSUME IInv, NEW c \in Conns, Connection(c)
    PROVE  QueueStep
<1>1. ASSUME Accept(c) \/ ConnStart(c) \/ ConnRead(c) \/ ConnClose(c)
             \/ QuitCommand(c) \/ UpdateMiss(c) \/ UpdateNoFile(c) \/ UpdateAtShutdown(c)
             \/ FlushNothing(c) \/ FlushReturn(c) \/ ForgetNothing(c) \/ ForgetJournal(c)
      PROVE  QueueStep
  <2>1. UNCHANGED <<queue, vals>>
    BY <1>1 DEF Accept, ConnStart, ConnRead, ConnClose, QuitCommand, UpdateMiss,
       UpdateNoFile, UpdateAtShutdown, FlushNothing, FlushReturn, ForgetNothing,
       ForgetJournal, cache
  <2> QED BY <2>1, QueueSame
<1>2. CASE UpdateHit(c)
  <2>1. cpc[c] \in Busy /\ Command(c).op = "UPDATE"
    BY <1>2 DEF UpdateHit, Busy
  <2>2. Command(c).file \in Files
    BY <2>1, CommandOf DEF IInv
  <2> QED BY <1>2, <2>1, <2>2, StoreQueueStep DEF UpdateHit
<1>3. CASE UpdateInsert(c)
  <2>1. cpc[c] \in Busy /\ Command(c).op = "UPDATE"
    BY <1>3 DEF UpdateInsert, Busy, IInv, ConnInv
  <2>2. Command(c).file \in Files
    BY <2>1, CommandOf DEF IInv
  <2>3. \E t : StoreValues(c, Command(c).file, t)
    BY <1>3 DEF UpdateInsert
  <2> QED BY <2>1, <2>2, <2>3, StoreQueueStep
<1>4. CASE FlushWait(c)
  <2>1. Command(c).file \in tree /\ tree \subseteq Files
    BY <1>4, RrdcachedAssumption DEF FlushWait, IInv, CacheInv
  <2>2. PICK f \in Files : f = Command(c).file
    BY <2>1
  <2>3. vals[f] # <<>> /\ queue' = WQ!AtHead(queue, f) /\ vals' = vals
    BY <1>4, <2>2 DEF FlushWait
  <2>4. WQ!PutAtHead(f)
    BY <2>3 DEF WQ!PutAtHead
  <2> QED BY <2>4 DEF QueueStep, WQ!Next
<1>5. CASE FlushAllCommand(c)
  BY <1>5, FlushOldQueueStep DEF FlushAllCommand, QueueStep
<1>6. CASE ForgetRemove(c)
  <2>1. Command(c).file \in tree /\ tree \subseteq Files
    BY <1>6, RrdcachedAssumption DEF ForgetRemove, IInv, CacheInv
  <2>2. PICK f \in Files : f = Command(c).file
    BY <2>1
  <2>3. queue' = WQ!Without(queue, f) /\ vals' = wiped(f)
    BY <1>6, <2>2 DEF ForgetRemove
  <2>4. Ready' = Ready \ {f}
    BY <2>3, WipedReady
  <2>5. WQ!Discard(f)
    BY <2>3, <2>4 DEF WQ!Discard, Ready
  <2> QED BY <2>5 DEF QueueStep, WQ!Next
<1> QED BY <1>1, <1>2, <1>3, <1>4, <1>5, <1>6 DEF Connection, Handle

\* ... of the writers, ...
LEMMA WriterQueueStep ==
    ASSUME IInv, NEW w \in Writers, Writer(w)
    PROVE  QueueStep
<1>1. CASE WriterTake(w)
  <2> DEFINE f == Head(queue)
  <2>1. queue # <<>> /\ vals' = wiped(f) /\ queue' = Tail(queue)
    BY <1>1 DEF WriterTake
  <2>2. f \in Files
    BY <2>1 DEF IInv, CacheInv
  <2>3. Ready' = Ready \ {f}
    BY <2>1, <2>2, WipedReady
  <2>4. WQ!Take
    BY <2>1, <2>3 DEF WQ!Take, Ready
  <2> QED BY <2>4 DEF QueueStep, WQ!Next
<1>2. CASE ~WriterTake(w)
  <2>1. UNCHANGED <<queue, vals>>
    BY <1>2 DEF Writer, WriterWait, WriterExit, WriterWrite, WriterFail, WriterWrote,
       WriterNotify, cache
  <2> QED BY <2>1, QueueSame
<1> QED BY <1>1, <1>2

\* ... of the flush thread, of the main thread and of what surrounds them.
LEMMA ProcessQueueStep ==
    ASSUME IInv, FlushThread \/ Main \/ Environment, Alive, Alive'
    PROVE  QueueStep
<1>1. CASE FlushTimer
  BY <1>1, FlushOldQueueStep DEF FlushTimer, QueueStep
<1>2. CASE FlushShutdown
  <2>1. flush_old_values(FlushAll) \/ UNCHANGED <<queue, vals>>
    BY <1>2 DEF FlushShutdown, cache
  <2> QED BY <2>1, FlushOldQueueStep, QueueSame DEF QueueStep
<1>3. ASSUME JournalRotate \/ JournalNewFile \/ JournalUnlink \/ ListenStop
             \/ ConnectionsDone \/ FlushThreadJoined \/ Tick
             \/ \E sig \in Signals : Signal(sig)
      PROVE  QueueStep
  <2>1. UNCHANGED <<queue, vals>>
    BY <1>3 DEF JournalRotate, JournalNewFile, JournalUnlink, ListenStop,
       ConnectionsDone, FlushThreadJoined, Tick, Signal, cache
  <2> QED BY <2>1, QueueSame
<1>4. ~AssertFails /\ ~Exit /\ ~Crash /\ ~Restart
  BY DEF AssertFails, Exit, Crash, Restart, Dies, Gone, Alive
<1> QED BY <1>1, <1>2, <1>3, <1>4 DEF FlushThread, Main, Environment

\* From start to end of a process, whatever its threads do to the list of files
\* to be written, it is handled as WriteQueue promises: FLUSH goes first, what is
\* new or old goes last and never twice, a writer takes the first, and only FORGET
\* takes another out.  (A process that starts may find its journal's files queued.)
THEOREM QueueDiscipline ==
    /\ Init => WQ!Init
    /\ Spec => [][Alive /\ Alive' => QueueStep]_vars
<1>1. Init => WQ!Init
  BY DEF Init, WQ!Init
<1>2. IInv /\ [Next]_vars => [Alive /\ Alive' => QueueStep]_vars
  BY ConnectionQueueStep, WriterQueueStep, ProcessQueueStep DEF Next
<1>3. Spec => [][Alive /\ Alive' => QueueStep]_vars
  BY <1>2, Inductive, PTL DEF Spec
<1> QED BY <1>1, <1>3


-------------------------------------------------------------------------------
(* Sequences of stamps.                                                    *)

\* What is left of a sequence when what was put behind it is cut off.
LEMMA CutOff ==
    ASSUME NEW p \in Seq(Nat), NEW q \in Seq(Nat)
    PROVE  SubSeq(p \o q, 1, Len(p \o q) - Len(q)) = p
<1> DEFINE r == p \o q
           s == SubSeq(r, 1, Len(r) - Len(q))
<1>1. /\ r \in Seq(Nat) /\ Len(r) = Len(p) + Len(q)
      /\ Len(p) \in Nat /\ Len(q) \in Nat
      /\ \A i \in 1 .. Len(p) : r[i] = p[i]
  BY ConcatProperties
<1> HIDE DEF r
<1>2. Len(r) - Len(q) = Len(p)
  BY <1>1
<1>3. \A i \in 1 .. Len(p) : r[i] \in Nat
  BY <1>1
<1>4. s = SubSeq(r, 1, Len(p))
  BY <1>2
<1>5. /\ s \in Seq(Nat)
      /\ Len(s) = IF 1 <= Len(p) THEN Len(p) - 1 + 1 ELSE 0
      /\ \A i \in 1 .. Len(p) - 1 + 1 : s[i] = r[1 + i - 1]
  BY <1>1, <1>3, <1>4, SubSeqProperties
<1> HIDE DEF s
<1>6. Len(s) = Len(p)
  BY <1>1, <1>5
<1>7. \A i \in 1 .. Len(s) : s[i] = p[i]
  BY <1>1, <1>5, <1>6
<1> QED BY <1>5, <1>6, <1>7, SeqEqual DEF s, r

\* Three sequences one after the other.
LEMMA Regrouped ==
    ASSUME NEW p \in Seq(Nat), NEW q \in Seq(Nat), NEW r \in Seq(Nat)
    PROVE  (p \o q) \o r = p \o (q \o r)
BY ConcatAssociative

\* The front of an increasing sequence increases.
LEMMA IncreasingFront ==
    ASSUME NEW p \in Seq(Nat), NEW q \in Seq(Nat), Increasing(p \o q)
    PROVE  Increasing(p)
<1>1. /\ Len(p \o q) = Len(p) + Len(q) /\ Len(p) \in Nat /\ Len(q) \in Nat
      /\ \A i \in 1 .. Len(p) : (p \o q)[i] = p[i]
  BY ConcatProperties
<1>2. \A i \in 1 .. Len(p) : i \in 1 .. Len(p \o q)
  BY <1>1
<1> QED BY <1>1, <1>2 DEF Increasing

Positive(q) == \A i \in 1 .. Len(q) : q[i] > 0

\* In an increasing sequence of stamps above zero, each is later than the last
\* of those before it, what rrd_update_r asks of the next value; and it can
\* move from the second part to the first.
LEMMA NextIsLater ==
    ASSUME NEW d \in Seq(Nat), NEW q \in Seq(Nat), q # <<>>
    PROVE  /\ Positive(d \o q) /\ Increasing(d \o q) => Head(q) > LastOf(d, 0)
           /\ d \o q = Append(d, Head(q)) \o Tail(q)
           /\ Head(q) \in Nat /\ Tail(q) \in Seq(Nat)
<1> DEFINE v == Head(q)
           r == Tail(q)
           s == d \o q
<1>1. /\ Len(q) \in Nat /\ Len(q) >= 1 /\ v = q[1] /\ v \in Nat
      /\ r \in Seq(Nat) /\ Len(r) = Len(q) - 1
      /\ \A i \in 1 .. Len(r) : r[i] = q[i + 1]
  BY HeadTailProperties, EmptySeq
<1>2. /\ s \in Seq(Nat) /\ Len(s) = Len(d) + Len(q) /\ Len(d) \in Nat
      /\ \A i \in 1 .. Len(d) + Len(q) :
            s[i] = IF i <= Len(d) THEN d[i] ELSE q[i - Len(d)]
  BY ConcatProperties, LenProperties
<1> HIDE DEF v, r, s
<1>3. Len(d) + 1 \in 1 .. Len(s) /\ s[Len(d) + 1] = v
  <2>1. /\ Len(d) + 1 \in 1 .. Len(d) + Len(q)
        /\ ~(Len(d) + 1 <= Len(d)) /\ Len(d) + 1 - Len(d) = 1
    BY <1>1, <1>2
  <2>2. s[Len(d) + 1] = q[Len(d) + 1 - Len(d)]
    BY <1>2, <2>1
  <2> QED BY <1>1, <1>2, <2>1, <2>2
<1>4. ASSUME Positive(s), Increasing(s) PROVE v > LastOf(d, 0)
  <2>1. CASE d # <<>>
    <3>1. Len(d) \in 1 .. Len(s) /\ Len(d) >= 1
      BY <1>1, <1>2, <2>1, EmptySeq
    <3>2. s[Len(d)] = d[Len(d)]
      BY <1>2, <3>1
    <3>3. s[Len(d)] < s[Len(d) + 1]
      BY <1>2, <1>3, <1>4, <3>1 DEF Increasing
    <3> QED BY <1>3, <2>1, <3>2, <3>3 DEF LastOf
  <2>2. CASE d = <<>>
    BY <1>3, <1>4, <2>2 DEF LastOf, Positive
  <2> QED BY <2>1, <2>2
<1>5. s = Append(d, v) \o r
  <2> DEFINE a == Append(d, v)
  <2>1. /\ a \in Seq(Nat) /\ Len(a) = Len(d) + 1
        /\ \A i \in 1 .. Len(d) : a[i] = d[i]
        /\ a[Len(d) + 1] = v
    BY <1>1, AppendProperties
  <2> HIDE DEF a
  <2>2. /\ a \o r \in Seq(Nat) /\ Len(a \o r) = Len(a) + Len(r)
        /\ \A i \in 1 .. Len(a) + Len(r) :
              (a \o r)[i] = IF i <= Len(a) THEN a[i] ELSE r[i - Len(a)]
    BY <1>1, <2>1, ConcatProperties
  <2>3. Len(s) = Len(a \o r)
    BY <1>1, <1>2, <2>1, <2>2
  <2>4. \A i \in 1 .. Len(s) : s[i] = (a \o r)[i]
    <3> SUFFICES ASSUME NEW i \in 1 .. Len(s) PROVE s[i] = (a \o r)[i]
      OBVIOUS
    <3>0. /\ i \in 1 .. Len(d) + Len(q) /\ i \in 1 .. Len(a) + Len(r)
          /\ Len(a) = Len(d) + 1 /\ Len(d) \in Nat /\ i \in Int
          /\ Len(q) = Len(r) + 1
      BY <1>1, <1>2, <2>1, <2>2, <2>3
    <3>1. CASE i <= Len(d)
      <4>1. i \in 1 .. Len(d) /\ i <= Len(a)
        BY <3>0, <3>1
      <4> QED BY <1>2, <2>1, <2>2, <3>0, <3>1, <4>1
    <3>2. CASE i = Len(d) + 1
      <4>1. i <= Len(a) /\ a[i] = v /\ s[i] = v
        BY <1>3, <2>1, <3>0, <3>2
      <4> QED BY <2>2, <3>0, <4>1
    <3>3. CASE i > Len(d) + 1
      <4>1. /\ i - Len(a) \in 1 .. Len(r) /\ i - Len(a) + 1 = i - Len(d)
            /\ ~(i <= Len(d)) /\ ~(i <= Len(a))
        BY <3>0, <3>3
      <4>2. (a \o r)[i] = r[i - Len(a)] /\ s[i] = q[i - Len(d)]
        BY <1>2, <2>2, <3>0, <4>1
      <4> QED BY <1>1, <4>1, <4>2
    <3> QED BY <3>0, <3>1, <3>2, <3>3
  <2> QED BY <1>2, <2>2, <2>3, <2>4, SeqEqual DEF a
<1> QED BY <1>1, <1>4, <1>5 DEF v, r, s

-------------------------------------------------------------------------------
(* What handle_request_update takes of the values it is given.             *)

\* A set of numbers up to n that holds with each also those below it.
LEMMA InitialSegment ==
    ASSUME NEW n \in Nat, NEW S \in SUBSET (1 .. n),
           \A i \in S : \A j \in 1 .. i : j \in S
    PROVE  Cardinality(S) \in 0 .. n /\ S = 1 .. Cardinality(S)
<1> DEFINE Out == {i \in 1 .. n + 1 : i \notin S}
<1>1. n + 1 \in Out /\ Out \in SUBSET Nat
  OBVIOUS
<1>2. PICK m \in Out : \A y \in Out : m <= y
  <2> HIDE DEF Out
  <2> QED BY <1>1, Least
<1>3. S = 1 .. m - 1
  <2>1. m \in 1 .. n + 1 /\ m \notin S
    BY <1>2
  <2>2. \A i \in 1 .. m - 1 : i \in S
    BY <1>2, <2>1
  <2>3. \A i \in S : i < m
    <3> SUFFICES ASSUME NEW i \in S, i >= m PROVE FALSE
      BY <2>1
    <3>1. m \in 1 .. i
      BY <2>1
    <3> QED BY <2>1, <3>1
  <2>4. \A i \in S : i \in 1 .. m - 1
    BY <2>1, <2>3
  <2> QED BY <2>2, <2>4
<1>4. m - 1 \in 0 .. n
  BY <1>2
<1>5. Cardinality(1 .. m - 1) = m - 1
  <2>1. \A k \in Nat : Cardinality(1 .. k) = k
    BY FS_Interval
  <2> QED BY <2>1, <1>4
<1> QED BY <1>3, <1>4, <1>5

\* What is taken is a front of what is given, and above zero.
LEMMA TakenProperties ==
    ASSUME NEW ss \in Seq(Nat), NEW last \in Nat
    PROVE  LET t == Taken(ss, last)
           IN  /\ t \in Seq(Nat) /\ Positive(t)
               /\ Elems(t) \subseteq Elems(ss)
<1> DEFINE forward(i) == ss[i] > (IF i = 1 THEN last ELSE ss[i - 1])
           S == {n \in 1 .. Len(ss) : \A i \in 1 .. n : forward(i)}
           k == Cardinality(S)
           t == Taken(ss, last)
<1>1. Len(ss) \in Nat
  OBVIOUS
<1>2. \A i \in S : \A j \in 1 .. i : j \in S
  <2> HIDE DEF forward
  <2> QED BY <1>1
<1>3. k \in 0 .. Len(ss) /\ S = 1 .. k
  <2> HIDE DEF S
  <2>1. S \in SUBSET (1 .. Len(ss))
    BY DEF S
  <2> QED BY <1>1, <1>2, <2>1, InitialSegment
<1>4. t = SubSeq(ss, 1, k)
  BY DEF Taken
<1>5. \A i \in 1 .. k : forward(i) /\ ss[i] \in Nat /\ i \in 1 .. Len(ss)
  <2>1. \A i \in 1 .. k : i \in S
    BY <1>3
  <2>2. \A i \in S : forward(i)
    <3> HIDE DEF forward
    <3>1. \A i \in S : i \in 1 .. i
      OBVIOUS
    <3> QED BY <3>1
  <2> HIDE DEF S, forward
  <2>3. \A i \in 1 .. k : i \in 1 .. Len(ss)
    BY <1>1, <1>3
  <2> QED BY <2>1, <2>2, <2>3
<1> HIDE DEF k, S
<1>6. /\ t \in Seq(Nat) /\ Len(t) = k
      /\ \A i \in 1 .. k : t[i] = ss[i]
  <2>1. /\ t \in Seq(Nat)
        /\ Len(t) = IF 1 <= k THEN k - 1 + 1 ELSE 0
        /\ \A i \in 1 .. k - 1 + 1 : t[i] = ss[1 + i - 1]
    <3> HIDE DEF forward, t
    <3> QED BY <1>3, <1>4, <1>5, SubSeqProperties
  <2> HIDE DEF t, forward
  <2> QED BY <1>3, <2>1
<1> HIDE DEF t
<1>7. Positive(t)
  <2> SUFFICES ASSUME NEW i \in 1 .. k PROVE t[i] > 0
    BY <1>6 DEF Positive
  <2>1. ss[i] > (IF i = 1 THEN last ELSE ss[i - 1]) /\ t[i] = ss[i] /\ ss[i] \in Nat
    BY <1>5, <1>6
  <2>2. i # 1 => ss[i - 1] \in Nat
    BY <1>1, <1>3
  <2> QED BY <2>1, <2>2
<1>8. Elems(t) \subseteq Elems(ss)
  <2> HIDE DEF forward
  <2> QED BY <1>5, <1>6 DEF Elems, WQ!ElementsOf
<1> QED BY <1>6, <1>7, <1>8 DEF t

-------------------------------------------------------------------------------
(* Where the values are: LedgerExact.                                      *)

\* An item that is not in the tree holds no values, only a thread that writes
\* holds any, and what was accepted is above zero.
ItemsInv ==
    /\ \A f \in Files : f \notin tree => vals[f] = <<>>
    /\ \A w \in Writers : wpc[w] # "write" => wvals[w] = <<>>
    /\ \A f \in Files : Positive(ledger[f])

\* The accepted values that have left the cache, and those the writer has.
Settled(f) == SubSeq(ledger[f], 1, Len(ledger[f]) - Len(vals[f]))
Held(f) == IF wfile[TheWriter] = f THEN wvals[TheWriter] ELSE <<>>

\* LedgerExact is not inductive: rrd_update_r refuses values whose stamps do
\* not increase, and a later FORGET may take the stamps that were out of order
\* off the ledger.  It cannot take those that have left the cache, so the values
\* on disk are exact whenever the settled part of the ledger increases.
NothingFailed == Alive /\ bounds.restarts = 0 /\ bounds.werrors = 0

Accounted(f) ==
    /\ ledger[f] = Settled(f) \o vals[f]
    /\ Increasing(Settled(f)) => Settled(f) = disk[f] \o Held(f)

LedgerInv ==
    Writers = {TheWriter} /\ NothingFailed => \A f \in Files : Accounted(f)

\* The settled part is a sequence of stamps above zero.
LEMMA SettledType ==
    ASSUME IInv, ItemsInv, NEW f \in Files
    PROVE  Settled(f) \in Seq(Nat) /\ Positive(Settled(f))
<1> DEFINE q == ledger[f]
           n == Len(q) - Len(vals[f])
<1>1. /\ q \in Seq(Nat) /\ Len(q) \in Nat /\ Len(vals[f]) \in Nat
      /\ \A i \in 1 .. Len(q) : q[i] \in Nat /\ q[i] > 0
  BY DEF IInv, HistoryInv, CacheInv, ItemsInv, Positive
<1> HIDE DEF q
<1>2. n \in Int /\ \A i \in 1 .. n : i \in 1 .. Len(q)
  BY <1>1
<1> HIDE DEF n
<1>3. \A i \in 1 .. n : q[i] \in Nat /\ q[i] > 0
  BY <1>1, <1>2
<1> DEFINE s == SubSeq(q, 1, n)
<1>4. /\ s \in Seq(Nat)
      /\ Len(s) = IF 1 <= n THEN n - 1 + 1 ELSE 0
      /\ \A i \in 1 .. n - 1 + 1 : s[i] = q[1 + i - 1]
  BY <1>2, <1>3, SubSeqProperties
<1> HIDE DEF s
<1>5. \A i \in 1 .. Len(s) : i \in 1 .. n /\ s[i] = q[i]
  BY <1>2, <1>4
<1>6. Positive(s)
  BY <1>3, <1>5 DEF Positive
<1> QED BY <1>4, <1>6 DEF Settled, s, q, n

\* A step that moves no value.
ValuesStay ==
    /\ UNCHANGED <<vals, ledger, unlogged, disk, wvals>>
    /\ \A w \in Writers : wfile'[w] = wfile[w] \/ wvals[w] = <<>>
    /\ \A w \in Writers : wpc[w] = "write" => wpc'[w] = "write" \/ wvals[w] = <<>>
    /\ \A f \in Files : f \in tree => f \in tree' \/ vals[f] = <<>>
    /\ Alive' => Alive
    /\ bounds'.restarts = bounds.restarts /\ bounds'.werrors = bounds.werrors

LEMMA StayingKeeps ==
    ASSUME IInv, ItemsInv, LedgerInv, ValuesStay
    PROVE  ItemsInv' /\ LedgerInv'
<1>1. ItemsInv'
  BY DEF ItemsInv, ValuesStay
<1>2. TheWriter \in Writers
  BY RrdcachedAssumption DEF TheWriter
<1>3. \A f \in Files : Held(f)' = Held(f)
  BY <1>2 DEF Held, ValuesStay, TheWriter
<1>4. LedgerInv'
  BY <1>3 DEF LedgerInv, Accounted, Settled, NothingFailed, ValuesStay, TheWriter
<1> QED BY <1>1, <1>4

\* How a file is accounted for after a step.
LEMMA Resettled ==
    ASSUME NEW f, NEW p \in Seq(Nat), NEW v \in Seq(Nat),
           ledger'[f] = p \o v, vals'[f] = v,
           Increasing(p) => p = disk'[f] \o Held(f)'
    PROVE  Accounted(f)'
<1>1. Settled(f)' = SubSeq(p \o v, 1, Len(p \o v) - Len(v))
  BY DEF Settled
<1>2. Settled(f)' = p
  BY <1>1, CutOff
<1> QED BY <1>2 DEF Accounted

\* UPDATE puts the values behind those of the cache and of the ledger alike.
LEMMA StoreKeepsLedger ==
    ASSUME IInv, ItemsInv, LedgerInv, NEW c \in Conns, cpc[c] \in {"cmd", "stat"},
           Command(c).op = "UPDATE", NEW f, f = Command(c).file,
           NEW ft, StoreValues(c, f, ft)
    PROVE  ItemsInv' /\ LedgerInv'
<1> DEFINE t == Taken(Command(c).stamps, last_update_stamp[f])
<1>1. f \in Files /\ Command(c).stamps \in Seq(Nat)
  BY CommandOf DEF Busy, IInv
<1>2. t \in Seq(Nat) /\ Positive(t)
  <2>1. last_update_stamp[f] \in Nat
    BY <1>1 DEF IInv, CacheInv
  <2> QED BY <1>1, <2>1, TakenProperties
<1>3. /\ tree' = tree \cup {f}
      /\ vals' = [vals EXCEPT ![f] = @ \o t]
      /\ ledger' = [ledger EXCEPT ![f] = @ \o t]
      /\ wpc' \in Signalled(IF t = Command(c).stamps
                               /\ cnow[c] - ft >= WriteInterval
                               /\ f \notin WQ!ElementsOf(queue)
                               /\ vals[f] \o t # <<>> THEN 1 ELSE 0)
      /\ UNCHANGED <<process, wfile, wvals, disk, bounds>>
  BY DEF StoreValues
<1> HIDE DEF t
<1>4. \A w \in Writers : wpc[w] = "write" => wpc'[w] = "write"
  BY <1>3 DEF Signalled
<1>5. /\ \A g \in Files : vals'[g] = IF g = f THEN vals[f] \o t ELSE vals[g]
      /\ \A g \in Files : ledger'[g] = IF g = f THEN ledger[f] \o t ELSE ledger[g]
      /\ vals[f] \in Seq(Nat) /\ ledger[f] \in Seq(Nat)
  BY <1>1, <1>3 DEF IInv, CacheInv, HistoryInv
<1>6. ItemsInv'
  <2>1. Positive(ledger[f] \o t)
    <3>1. /\ Len(ledger[f] \o t) = Len(ledger[f]) + Len(t)
          /\ Len(ledger[f]) \in Nat /\ Len(t) \in Nat
          /\ \A i \in 1 .. Len(ledger[f]) + Len(t) : (ledger[f] \o t)[i] =
                IF i <= Len(ledger[f]) THEN ledger[f][i] ELSE t[i - Len(ledger[f])]
      BY <1>2, <1>5, ConcatProperties, LenProperties
    <3>2. Positive(ledger[f])
      BY <1>1 DEF ItemsInv
    <3> QED BY <1>2, <3>1, <3>2 DEF Positive
  <2>2. \A g \in Files : Positive(ledger'[g])
    BY <1>5, <2>1 DEF ItemsInv
  <2>3. \A g \in Files : g \notin tree' => vals'[g] = <<>>
    BY <1>3, <1>5 DEF ItemsInv
  <2>4. \A w \in Writers : wpc'[w] # "write" => wvals'[w] = <<>>
    BY <1>3, <1>4 DEF ItemsInv
  <2> QED BY <2>2, <2>3, <2>4 DEF ItemsInv, Positive
<1>7. LedgerInv'
  <2> SUFFICES ASSUME Writers = {TheWriter}, NothingFailed, NEW g \in Files
               PROVE  Accounted(g)'
    BY <1>3 DEF LedgerInv, NothingFailed, Alive, process, TheWriter
  <2>1. Accounted(g) /\ Settled(g) \in Seq(Nat)
    BY SettledType DEF LedgerInv
  <2>2. Held(g)' = Held(g)
    BY <1>3 DEF Held, TheWriter
  <2>3. CASE g = f
    <3>0. Settled(f) \in Seq(Nat) /\ vals[f] \in Seq(Nat) /\ t \in Seq(Nat)
      BY <1>2, <1>5, <2>1, <2>3
    <3>1. (Settled(f) \o vals[f]) \o t = Settled(f) \o (vals[f] \o t)
      BY <3>0, Regrouped
    <3>2. ledger[f] = Settled(f) \o vals[f]
      BY <2>1, <2>3 DEF Accounted
    <3>3. vals[f] \o t \in Seq(Nat) /\ vals'[f] = vals[f] \o t
      BY <1>1, <1>2, <1>5, ConcatProperties
    <3>4. ledger'[f] = Settled(f) \o (vals[f] \o t)
      BY <1>1, <1>5, <3>1, <3>2
    <3>5. Increasing(Settled(f)) => Settled(f) = disk'[f] \o Held(f)'
      BY <1>3, <2>1, <2>2, <2>3 DEF Accounted
    <3> DEFINE v == vals[f] \o t
               p == Settled(f)
    <3>6. v \in Seq(Nat) /\ p \in Seq(Nat) /\ ledger'[f] = p \o v /\ vals'[f] = v
      BY <2>1, <2>3, <3>3, <3>4
    <3> HIDE DEF v, p
    <3>7. Increasing(p) => p = disk'[f] \o Held(f)'
      BY <3>5 DEF p
    <3> QED BY <2>3, <3>6, <3>7, Resettled
  <2>4. CASE g # f
    BY <1>3, <1>5, <2>1, <2>2, <2>4 DEF Accounted, Settled
  <2> QED BY <2>3, <2>4
<1> QED BY <1>6, <1>7

\* FORGET takes off the ledger what it takes out of the cache.
LEMMA ForgetKeepsLedger ==
    ASSUME IInv, ItemsInv, LedgerInv, NEW c \in Conns, ForgetRemove(c)
    PROVE  ItemsInv' /\ LedgerInv'
<1> DEFINE f == Command(c).file
<1>1. f \in Files
  BY CommandOf DEF ForgetRemove, Busy, IInv
<1>2. /\ tree' = tree \ {f}
      /\ vals' = [vals EXCEPT ![f] = <<>>]
      /\ ledger' = [ledger EXCEPT ![f] = Settled(f)]
      /\ UNCHANGED <<process, writers, disk, bounds>>
  BY DEF ForgetRemove, wiped, Settled
<1> HIDE DEF f
<1>3. /\ \A g \in Files : vals'[g] = IF g = f THEN <<>> ELSE vals[g]
      /\ \A g \in Files : ledger'[g] = IF g = f THEN Settled(f) ELSE ledger[g]
  BY <1>1, <1>2 DEF IInv, CacheInv, HistoryInv
<1>4. Settled(f) \in Seq(Nat) /\ Positive(Settled(f))
  BY <1>1, SettledType
<1>5. ItemsInv'
  BY <1>2, <1>3, <1>4 DEF ItemsInv, writers
<1>6. LedgerInv'
  <2> SUFFICES ASSUME Writers = {TheWriter}, NothingFailed, NEW g \in Files
               PROVE  Accounted(g)'
    BY <1>2 DEF LedgerInv, NothingFailed, Alive, process, TheWriter
  <2>1. Accounted(g)
    BY DEF LedgerInv
  <2>2. Held(g)' = Held(g)
    BY <1>2 DEF Held, writers, TheWriter
  <2>3. CASE g = f
    <3>1. ledger'[f] = Settled(f) \o <<>> /\ <<>> \in Seq(Nat)
      BY <1>1, <1>3, <1>4, ConcatEmptySeq
    <3> QED BY <1>1, <1>2, <1>3, <1>4, <2>1, <2>2, <2>3, <3>1, Resettled DEF Accounted
  <2>4. CASE g # f
    BY <1>2, <1>3, <2>1, <2>2, <2>4 DEF Accounted, Settled
  <2> QED BY <2>3, <2>4
<1> QED BY <1>5, <1>6

\* The writer takes all the values of the file at the head of the queue.
LEMMA TakeKeepsLedger ==
    ASSUME IInv, ItemsInv, LedgerInv, NEW w \in Writers, WriterTake(w)
    PROVE  ItemsInv' /\ LedgerInv'
<1> DEFINE f == Head(queue)
<1>1. f \in Files
  BY HeadTailProperties DEF WriterTake, IInv, CacheInv
<1>2. /\ wpc[w] \in {"woken", "loop"}
      /\ wfile' = [wfile EXCEPT ![w] = f]
      /\ wvals' = [wvals EXCEPT ![w] = vals[f]]
      /\ vals' = [vals EXCEPT ![f] = <<>>]
      /\ wpc' = [wpc EXCEPT ![w] = "write"]
      /\ UNCHANGED <<tree, process, disk, bounds, ledger>>
  BY DEF WriterTake, wiped
<1> HIDE DEF f
<1>3. /\ \A g \in Files : vals'[g] = IF g = f THEN <<>> ELSE vals[g]
      /\ \A x \in Writers : wfile'[x] = IF x = w THEN f ELSE wfile[x]
      /\ \A x \in Writers : wvals'[x] = IF x = w THEN vals[f] ELSE wvals[x]
      /\ \A x \in Writers : wpc'[x] = IF x = w THEN "write" ELSE wpc[x]
      /\ vals[f] \in Seq(Nat)
  BY <1>1, <1>2 DEF IInv, CacheInv, WriterInv
<1>4. ItemsInv'
  BY <1>2, <1>3 DEF ItemsInv
<1>5. LedgerInv'
  <2> SUFFICES ASSUME Writers = {TheWriter}, NothingFailed, NEW g \in Files
               PROVE  Accounted(g)'
    BY <1>2 DEF LedgerInv, NothingFailed, Alive, process, TheWriter
  <2>1. Accounted(g) /\ Settled(g) \in Seq(Nat)
    BY SettledType DEF LedgerInv
  <2>2. w = TheWriter /\ wvals[w] = <<>>
    BY <1>2 DEF ItemsInv
  <2>3. /\ Held(g) = <<>>
        /\ Held(g)' = IF g = f THEN vals[f] ELSE <<>>
    BY <1>3, <2>2 DEF Held, TheWriter
  <2>4. disk[g] \in Seq(Nat)
    BY DEF IInv, WorldInv
  <2>5. CASE g = f
    <3> DEFINE p == ledger[g]
    <3>1. /\ p = Settled(g) \o vals[g] /\ p \in Seq(Nat)
          /\ vals[g] \in Seq(Nat)
      BY <2>1 DEF Accounted, IInv, HistoryInv, CacheInv
    <3>2. ASSUME Increasing(p) PROVE p = disk'[g] \o Held(g)'
      <4>1. Settled(g) = disk[g] \o <<>>
        BY <2>1, <2>3, <3>1, <3>2, IncreasingFront DEF Accounted
      <4>2. disk[g] \o <<>> = disk[g]
        BY <2>4, ConcatEmptySeq
      <4>3. Held(g)' = vals[g] /\ disk' = disk
        BY <1>2, <2>3, <2>5
      <4> QED BY <3>1, <4>1, <4>2, <4>3
    <3>3. ledger'[g] = p \o <<>> /\ <<>> \in Seq(Nat)
      BY <1>2, <3>1, ConcatEmptySeq
    <3>4. vals'[g] = <<>>
      BY <1>3, <2>5
    <3> QED BY <3>1, <3>2, <3>3, <3>4, Resettled
  <2>6. CASE g # f
    BY <1>2, <1>3, <2>1, <2>3, <2>6 DEF Accounted, Settled
  <2> QED BY <2>5, <2>6
<1> QED BY <1>4, <1>5

\* rrd_update_r takes the next value, unless the stamps are out of order.
LEMMA WriteKeepsLedger ==
    ASSUME IInv, ItemsInv, LedgerInv, NEW w \in Writers, WriterWrite(w)
    PROVE  ItemsInv' /\ LedgerInv'
<1> DEFINE f == wfile[w]
           v == Head(wvals[w])
           ok == v > LastOf(disk[f], 0)
<1>1. /\ wpc[w] = "write" /\ wvals[w] # <<>>
      /\ disk' = IF ok THEN [disk EXCEPT ![f] = Append(@, v)] ELSE disk
      /\ wvals' = [wvals EXCEPT ![w] = IF ok THEN Tail(@) ELSE <<>>]
      /\ UNCHANGED <<cache, process, wpc, wfile, bounds, history>>
  BY DEF WriterWrite
<1>2. wvals[w] \in Seq(Nat) /\ wvals \in [Writers -> Seq(Nat)]
  BY DEF IInv, WriterInv
<1>3. disk \in [Files -> Seq(Nat)]
  BY DEF IInv, WorldInv
<1>4. ItemsInv'
  BY <1>1, <1>2 DEF ItemsInv, cache, history
<1>5. LedgerInv'
  <2> SUFFICES ASSUME Writers = {TheWriter}, NothingFailed, NEW g \in Files
               PROVE  Accounted(g)'
    BY <1>1 DEF LedgerInv, NothingFailed, Alive, process, TheWriter
  <2>0. w = TheWriter
    OBVIOUS
  <2>1. Accounted(g) /\ Settled(g) \in Seq(Nat) /\ Positive(Settled(g))
    BY SettledType DEF LedgerInv
  <2>2. Settled(g)' = Settled(g) /\ ledger'[g] = ledger[g] /\ vals'[g] = vals[g]
    BY <1>1 DEF Settled, cache, history
  <2>3. CASE g = f
    <3>1. ASSUME Increasing(Settled(g)) PROVE Settled(g) = disk'[g] \o Held(g)'
      <4>1. Settled(g) = disk[g] \o wvals[w]
        BY <2>0, <2>1, <2>3, <3>1 DEF Accounted, Held
      <4>2. /\ v > LastOf(disk[g], 0)
            /\ disk[g] \o wvals[w] = Append(disk[g], v) \o Tail(wvals[w])
        BY <1>1, <1>2, <1>3, <2>1, <3>1, <4>1, NextIsLater
      <4>3. disk'[g] = Append(disk[g], v) /\ wvals'[w] = Tail(wvals[w])
        BY <1>1, <1>2, <1>3, <2>3, <4>2
      <4>4. Held(g)' = wvals'[w]
        BY <1>1, <2>0, <2>3 DEF Held, TheWriter
      <4> QED BY <4>1, <4>2, <4>3, <4>4
    <3> QED BY <2>1, <2>2, <3>1 DEF Accounted
  <2>4. CASE g # f
    <3>1. Held(g)' = <<>> /\ Held(g) = <<>> /\ disk'[g] = disk[g]
      BY <1>1, <1>3, <2>0, <2>4 DEF Held, TheWriter
    <3> QED BY <2>1, <2>2, <3>1 DEF Accounted
  <2> QED BY <2>3, <2>4
<1> QED BY <1>4, <1>5

\* A failure, an end or a start of the process, after which LedgerExact
\* promises nothing.
LEMMA FailureKeepsLedger ==
    ASSUME IInv, ItemsInv, LedgerInv, IInv',
           \/ \E w \in Writers : WriterFail(w)
           \/ Crash \/ AssertFails \/ Exit \/ Restart
    PROVE  ItemsInv' /\ LedgerInv'
<1>1. ASSUME NEW w \in Writers, WriterFail(w) PROVE ItemsInv' /\ LedgerInv'
  <2>1. /\ wpc[w] = "write" /\ Count("werrors")
        /\ wvals' = [wvals EXCEPT ![w] = <<>>]
        /\ UNCHANGED <<cache, process, wpc, wfile, history>>
    BY <1>1 DEF WriterFail
  <2>2. bounds.werrors \in Nat /\ bounds'.werrors = bounds.werrors + 1
    BY <2>1 DEF Count, IInv, WorldInv
  <2>3. ~NothingFailed'
    BY <2>2 DEF NothingFailed
  <2>4. ItemsInv'
    BY <2>1 DEF ItemsInv, cache, history, IInv, WriterInv
  <2> QED BY <2>3, <2>4 DEF LedgerInv
<1>2. CASE Crash \/ AssertFails \/ Exit
  <2>1. PICK how \in {"exited", "aborted", "down"} : \E kept : Gone(how, kept)
    BY <1>2 DEF Crash, AssertFails, Exit, Dies
  <2>2. ~NothingFailed'
    BY <2>1 DEF Gone, NothingFailed, Alive
  <2>3. ItemsInv'
    BY <2>1 DEF Gone, ItemsInv
  <2> QED BY <2>2, <2>3 DEF LedgerInv
<1>3. CASE Restart
  <2>1. PICK ok \in BOOLEAN :
          /\ Start(jcur, ok)
          /\ bounds' = [bounds EXCEPT !.restarts = @ + 1,
                                      !.jerrors = IF ok THEN @ ELSE @ + 1]
    BY <1>3 DEF Restart
  <2>2. ~Alive /\ UNCHANGED <<wvals, ledger>>
    BY <1>3 DEF Restart, history
  <2>3. bounds.restarts \in Nat /\ bounds'.restarts = bounds.restarts + 1
    BY <2>1 DEF IInv, WorldInv
  <2>4. ~NothingFailed'
    BY <2>3 DEF NothingFailed
  <2>5. ItemsOK(Replay(jcur))
    BY ReplayOK DEF IInv, JournalInv
  <2>6. \A f \in Files : f \notin tree' => vals'[f] = <<>>
    BY <2>1, <2>5 DEF Start, ItemsOK
  <2>7. \A w \in Writers : wvals'[w] = <<>>
    BY <2>2 DEF ItemsInv, IInv, ProcessInv
  <2>8. ItemsInv'
    BY <2>2, <2>6, <2>7 DEF ItemsInv
  <2> QED BY <2>4, <2>8 DEF LedgerInv
<1> QED BY <1>1, <1>2, <1>3

\* flush_old_values drops only items without values.
LEMMA FlushOldStays ==
    ASSUME NEW abs, flush_old_values(abs)
    PROVE  /\ UNCHANGED <<vals, wfile, wvals>>
           /\ \A w \in Writers : wpc[w] = "write" => wpc'[w] = "write"
           /\ \A f \in Files : f \in tree => f \in tree' \/ vals[f] = <<>>
BY DEF flush_old_values, Signalled, ToPurge

\* The other steps of the connections, ...
LEMMA ConnectionStays ==
    ASSUME IInv, NEW c \in Conns, Connection(c),
           ~UpdateHit(c), ~UpdateInsert(c), ~ForgetRemove(c)
    PROVE  ValuesStay
<1> USE DEF ValuesStay, Alive
<1>1. ASSUME Accept(c) \/ ConnStart(c) \/ ConnClose(c) \/ QuitCommand(c)
      PROVE  ValuesStay
  <2>1. UNCHANGED <<cache, process, writers, disk, bounds, history>>
    BY <1>1 DEF Accept, ConnStart, ConnClose, QuitCommand
  <2> QED BY <2>1 DEF cache, process, writers, history
<1>2. CASE ConnRead(c)
  <2>1. /\ UNCHANGED <<cache, process, writers, disk, history>>
        /\ \E n : bounds' = [bounds EXCEPT !.cmds = n]
    BY <1>2 DEF ConnRead
  <2>2. bounds'.restarts = bounds.restarts /\ bounds'.werrors = bounds.werrors
    BY <2>1 DEF IInv, WorldInv
  <2> QED BY <2>1, <2>2 DEF cache, process, writers, history
<1>3. ASSUME UpdateMiss(c) \/ UpdateNoFile(c) \/ FlushNothing(c) \/ FlushReturn(c)
             \/ ForgetNothing(c) \/ ForgetJournal(c)
      PROVE  ValuesStay
  <2>1. UNCHANGED <<cache, process, writers, disk, bounds, history>>
    BY <1>3 DEF UpdateMiss, UpdateNoFile, FlushNothing, FlushReturn, ForgetNothing,
               ForgetJournal
  <2> QED BY <2>1 DEF cache, process, writers, history
<1>4. CASE UpdateAtShutdown(c)
  <2>1. /\ tree \subseteq tree'
        /\ UNCHANGED <<vals, mpc, writers, disk, bounds, history>>
    BY <1>4 DEF UpdateAtShutdown
  <2> QED BY <2>1 DEF writers, history
<1>5. CASE FlushWait(c)
  <2>1. /\ UNCHANGED <<tree, vals, process, wfile, wvals, disk, bounds, history>>
        /\ \A w \in Writers : wpc[w] = "write" => wpc'[w] = "write"
    BY <1>5 DEF FlushWait, Signalled
  <2> QED BY <2>1 DEF process, history
<1>6. CASE FlushAllCommand(c)
  <2>1. flush_old_values(FlushAll) /\ UNCHANGED <<process, disk, bounds, history>>
    BY <1>6 DEF FlushAllCommand
  <2> QED BY <2>1, FlushOldStays DEF process, history
<1> QED BY <1>1, <1>2, <1>3, <1>4, <1>5, <1>6 DEF Connection, Handle

\* ... of the writers, ...
LEMMA WriterStays ==
    ASSUME IInv, NEW w \in Writers, Writer(w),
           ~WriterTake(w), ~WriterWrite(w), ~WriterFail(w), ItemsInv
    PROVE  ValuesStay
<1>1. /\ UNCHANGED <<cache, process, wvals, disk, bounds, history>>
      /\ \A x \in Writers : wpc[x] = "write" => wpc'[x] = "write" \/ wvals[x] = <<>>
  BY DEF Writer, WriterWait, WriterExit, WriterWrote, WriterNotify, IInv, WriterInv
<1>2. \A x \in Writers : wfile'[x] = wfile[x] \/ wvals[x] = <<>>
  BY DEF Writer, WriterWait, WriterExit, WriterWrote, WriterNotify, IInv, WriterInv,
         ItemsInv
<1> QED BY <1>1, <1>2 DEF ValuesStay, Alive, cache, process, history

\* ... of the flush thread, of the main thread, of signal handlers and the clock.
LEMMA ProcessStays ==
    ASSUME IInv,
           \/ FlushThread \/ ListenStop \/ ConnectionsDone \/ FlushThreadJoined
           \/ (\E sig \in Signals : Signal(sig)) \/ Tick
    PROVE  ValuesStay
<1> USE DEF ValuesStay, Alive
<1>1. CASE FlushTimer
  <2>1. flush_old_values(NotWrittenLong) /\ UNCHANGED <<process, disk, bounds, history>>
    BY <1>1 DEF FlushTimer
  <2> QED BY <2>1, FlushOldStays DEF process, history
<1>2. CASE FlushShutdown
  <2>1. UNCHANGED <<mpc, disk, bounds, history>>
    BY <1>2 DEF FlushShutdown
  <2>2. flush_old_values(FlushAll) \/ UNCHANGED <<cache, writers>>
    BY <1>2 DEF FlushShutdown
  <2> QED BY <2>1, <2>2, FlushOldStays DEF cache, writers, history
<1>3. CASE JournalRotate \/ JournalUnlink \/ Tick
  <2>1. UNCHANGED <<cache, process, writers, disk, bounds, history>>
    BY <1>3 DEF JournalRotate, JournalUnlink, Tick
  <2> QED BY <2>1 DEF cache, process, writers, history
<1>4. CASE JournalNewFile
  <2>1. /\ UNCHANGED <<cache, mpc, writers, disk, history>>
        /\ \E n : bounds' = bounds \/ bounds' = [bounds EXCEPT !.jerrors = n]
    BY <1>4 DEF JournalNewFile, Count
  <2>2. bounds'.restarts = bounds.restarts /\ bounds'.werrors = bounds.werrors
    BY <2>1 DEF IInv, WorldInv
  <2> QED BY <2>1, <2>2 DEF cache, writers, history
<1>5. CASE ListenStop \/ ConnectionsDone
  <2>1. /\ UNCHANGED <<cache, writers, disk, bounds, history>>
        /\ mpc \in {"listen", "waitconns"}
    BY <1>5 DEF ListenStop, ConnectionsDone, MainGoes
  <2> QED BY <2>1 DEF cache, writers, history
<1>6. CASE FlushThreadJoined
  <2>1. /\ UNCHANGED <<cache, wfile, wvals, disk, bounds, history>>
        /\ mpc = "joinflush"
        /\ \A w \in Writers : wpc[w] = "write" => wpc'[w] = "write"
    BY <1>6 DEF FlushThreadJoined, MainGoes, AllWoken
  <2> QED BY <2>1 DEF cache, history
<1>7. ASSUME NEW sig \in Signals, Signal(sig) PROVE ValuesStay
  <2>1. /\ UNCHANGED <<cache, mpc, wfile, wvals, disk, history>>
        /\ \E n : bounds' = [bounds EXCEPT !.signals = n]
        /\ \A w \in Writers : wpc[w] = "write" => wpc'[w] = "write"
    BY <1>7 DEF Signal, AllWoken, Count
  <2>2. bounds'.restarts = bounds.restarts /\ bounds'.werrors = bounds.werrors
    BY <2>1 DEF IInv, WorldInv
  <2> QED BY <2>1, <2>2 DEF cache, history
<1> QED BY <1>1, <1>2, <1>3, <1>4, <1>5, <1>6, <1>7 DEF FlushThread

\* The ledger's invariant is inductive.
LEMMA InitLedger == Init => ItemsInv /\ LedgerInv
<1> SUFFICES ASSUME Init PROVE ItemsInv /\ LedgerInv
  OBVIOUS
<1>1. ItemsInv
  BY DEF Init, ItemsInv, Positive
<1>2. ASSUME NEW f \in Files PROVE Accounted(f)
  <2>1. /\ ledger[f] = <<>> /\ vals[f] = <<>> /\ disk[f] = <<>>
        /\ Held(f) = <<>>
    <3>1. TheWriter \in Writers
      BY RrdcachedAssumption DEF TheWriter
    <3> QED BY <3>1 DEF Init, Held
  <2>2. Settled(f) = <<>>
    BY <2>1 DEF Settled
  <2>3. <<>> \o <<>> = <<>>
    <3>1. <<>> \in Seq(Nat)
      OBVIOUS
    <3> QED BY <3>1, ConcatEmptySeq
  <2> QED BY <2>1, <2>2, <2>3 DEF Accounted
<1> QED BY <1>1, <1>2 DEF LedgerInv

LEMMA NextLedger ==
    IInv /\ IInv' /\ ItemsInv /\ LedgerInv /\ [Next]_vars => ItemsInv' /\ LedgerInv'
<1> SUFFICES ASSUME IInv, IInv', ItemsInv, LedgerInv, [Next]_vars
             PROVE  ItemsInv' /\ LedgerInv'
  OBVIOUS
<1>1. ASSUME NEW c \in Conns, Connection(c) PROVE ItemsInv' /\ LedgerInv'
  <2>1. CASE UpdateHit(c) \/ UpdateInsert(c)
    <3>1. /\ cpc[c] \in {"cmd", "stat"} /\ Command(c).op = "UPDATE"
          /\ \E ft : StoreValues(c, Command(c).file, ft)
      BY <2>1 DEF UpdateHit, UpdateInsert, IInv, ConnInv
    <3> QED BY <3>1, StoreKeepsLedger
  <2>2. CASE ForgetRemove(c)
    BY <2>2, ForgetKeepsLedger
  <2> QED BY <1>1, <2>1, <2>2, ConnectionStays, StayingKeeps
<1>2. ASSUME NEW w \in Writers, Writer(w) PROVE ItemsInv' /\ LedgerInv'
  BY <1>2, TakeKeepsLedger, WriteKeepsLedger, FailureKeepsLedger, WriterStays, StayingKeeps
<1>3. CASE UNCHANGED vars
  <2>1. ValuesStay
    BY <1>3 DEF vars, ValuesStay, Alive, cache, process, writers, history
  <2> QED BY <2>1, StayingKeeps
<1>4. CASE Crash \/ AssertFails \/ Exit \/ Restart
  BY <1>4, FailureKeepsLedger
<1>5. ASSUME \/ FlushThread \/ ListenStop \/ ConnectionsDone \/ FlushThreadJoined
             \/ (\E sig \in Signals : Signal(sig)) \/ Tick
      PROVE  ItemsInv' /\ LedgerInv'
  BY <1>5, ProcessStays, StayingKeeps
<1> QED BY <1>1, <1>2, <1>3, <1>4, <1>5 DEF Next, Main, Environment

LEMMA LedgerInductive == Spec => [](IInv /\ ItemsInv /\ LedgerInv)
BY InitIInv, InitLedger, NextIInv, NextLedger, PTL DEF Spec

\* While nothing fails and one thread writes, every accepted value is on disk,
\* with the writer or in the cache, once, in the order in which the clients'
\* UPDATEs were accepted: handle_request_update, handle_request_forget,
\* queue_thread_main and rrd_update_r together lose, double and swap nothing.
THEOREM LedgerCorrect == Spec => []LedgerExact
<1>1. IInv /\ ItemsInv /\ LedgerInv => LedgerExact
  <2> SUFFICES ASSUME IInv, ItemsInv, LedgerInv,
                      Writers = {TheWriter}, NothingFailed,
                      NEW f \in Files, Increasing(ledger[f])
               PROVE  ledger[f] = disk[f] \o Held(f) \o vals[f]
    BY DEF LedgerExact, NothingFailed, Held
  <2>1. Accounted(f) /\ Settled(f) \in Seq(Nat) /\ vals[f] \in Seq(Nat)
    BY SettledType DEF LedgerInv, IInv, CacheInv
  <2>2. Increasing(Settled(f))
    BY <2>1, IncreasingFront DEF Accounted
  <2> QED BY <2>1, <2>2 DEF Accounted
<1> QED BY <1>1, LedgerInductive, PTL

-------------------------------------------------------------------------------
(* What the journal files hold: RotationSafe.                              *)

InEntries(es, f, v) ==
    \E i \in 1 .. Len(es) :
        es[i].op = "update" /\ es[i].file = f /\ v \in Elems(es[i].stamps)

\* No time the daemon notes lies in the future, but for the jitter; and the
\* journal is rotated within MaxRotateDelay of the flush before it.
TimeInv ==
    /\ \A c \in Conns : cnow[c] <= clock
    /\ \A f \in Files : \E j \in Jitters : last_flush_time[f] <= clock + j
    /\ fpc \in {"rotate", "reopen", "unlink"} =>
          clock <= next_flush - FlushInterval + MaxRotateDelay
    /\ ~Alive => jold = <<>>

\* RotationSafe says of a value in no queue only that some journal file holds it.
\* Which one it is decides whether the next rotation deletes it: what is only in
\* the old set is so old that the flush before the rotation queues its file.
Recorded(f, v) ==
    \/ f \in Elems(queue)
    \/ InEntries(jcur, f, v)
    \/ /\ fpc # "rotate"
       /\ InEntries(jold, f, v)
       /\ last_flush_time[f] <= next_flush - WriteInterval

RotationInv ==
    Journaling /\ RotatesInTime =>
        \A f \in Files : \A v \in Elems(vals[f]) \ unlogged[f] : Recorded(f, v)

\* The constants that are times.
LEMMA TimesAreNumbers ==
    /\ WriteInterval \in Nat /\ FlushInterval \in Nat /\ MaxRotateDelay \in Nat
    /\ Jitters \subseteq Nat /\ 0 \in Jitters
BY RrdcachedAssumption DEF Jitters

\* The journal grows at its end.
LEMMA StillInEntries ==
    ASSUME NEW es \in Seq(Entries), NEW e \in Entries, NEW f, NEW v
    PROVE  /\ InEntries(es, f, v) => InEntries(Append(es, e), f, v)
           /\ e.op = "update" /\ e.file = f /\ v \in Elems(e.stamps) =>
                 InEntries(Append(es, e), f, v)
<1> DEFINE r == Append(es, e)
<1>1. /\ Len(r) = Len(es) + 1 /\ r[Len(es) + 1] = e /\ Len(es) \in Nat
      /\ \A i \in 1 .. Len(es) : r[i] = es[i]
  BY AppendProperties, LenProperties
<1> HIDE DEF r
<1>2. /\ \A i \in 1 .. Len(es) : i \in 1 .. Len(r)
      /\ Len(es) + 1 \in 1 .. Len(r)
  BY <1>1
<1>3. InEntries(es, f, v) => InEntries(r, f, v)
  BY <1>1, <1>2 DEF InEntries
<1>4. e.op = "update" /\ e.file = f /\ v \in Elems(e.stamps) => InEntries(r, f, v)
  BY <1>1, <1>2 DEF InEntries
<1> QED BY <1>3, <1>4 DEF r

\* The two journal files one after the other.
LEMMA InEitherFile ==
    ASSUME NEW p \in Seq(Entries), NEW q \in Seq(Entries), NEW f, NEW v
    PROVE  InEntries(p \o q, f, v) <=> InEntries(p, f, v) \/ InEntries(q, f, v)
<1> DEFINE r == p \o q
<1>1. /\ Len(r) = Len(p) + Len(q) /\ Len(p) \in Nat /\ Len(q) \in Nat
      /\ \A i \in 1 .. Len(p) + Len(q) :
            r[i] = IF i <= Len(p) THEN p[i] ELSE q[i - Len(p)]
  BY ConcatProperties, LenProperties
<1> HIDE DEF r
<1>2. \A i \in 1 .. Len(p) : i \in 1 .. Len(r) /\ r[i] = p[i]
  BY <1>1
<1>3. \A i \in 1 .. Len(q) : i + Len(p) \in 1 .. Len(r) /\ r[i + Len(p)] = q[i]
  <2> SUFFICES ASSUME NEW i \in 1 .. Len(q)
               PROVE  i + Len(p) \in 1 .. Len(r) /\ r[i + Len(p)] = q[i]
    OBVIOUS
  <2>1. /\ i + Len(p) \in 1 .. Len(p) + Len(q) /\ ~(i + Len(p) <= Len(p))
        /\ i + Len(p) - Len(p) = i
    BY <1>1
  <2> QED BY <1>1, <2>1
<1>4. \A i \in 1 .. Len(r) :
          \/ i \in 1 .. Len(p) /\ r[i] = p[i]
          \/ i - Len(p) \in 1 .. Len(q) /\ r[i] = q[i - Len(p)]
  <2> SUFFICES ASSUME NEW i \in 1 .. Len(r)
               PROVE  \/ i \in 1 .. Len(p) /\ r[i] = p[i]
                      \/ i - Len(p) \in 1 .. Len(q) /\ r[i] = q[i - Len(p)]
    OBVIOUS
  <2>1. CASE i <= Len(p)
    BY <1>1, <2>1
  <2>2. CASE ~(i <= Len(p))
    BY <1>1, <2>2
  <2> QED BY <2>1, <2>2
<1>5. InEntries(p, f, v) \/ InEntries(q, f, v) => InEntries(r, f, v)
  BY <1>2, <1>3 DEF InEntries
<1>6. InEntries(r, f, v) => InEntries(p, f, v) \/ InEntries(q, f, v)
  BY <1>4 DEF InEntries
<1> QED BY <1>5, <1>6 DEF r

\* What the replay rebuilds comes from the journal.
LEMMA ReplayedIsRecorded ==
    ASSUME NEW entries \in Seq(Entries), NEW f \in Files,
           NEW v \in Elems(Replay(entries)[f].vals)
    PROVE  InEntries(entries, f, v)
<1>1. PICK g : /\ Replay(entries) = g[Len(entries)]
               /\ g[0] = [h \in Files |-> FreshItem]
               /\ \A k \in 1 .. Len(entries) :
                     g[k] = ReplayEntry(g[k - 1], entries[k])
               /\ \A k \in 0 .. Len(entries) : ItemsOK(g[k])
  BY ReplaySteps
<1> DEFINE Bad == {n \in 0 .. Len(entries) : v \in Elems(g[n][f].vals)}
<1>2. Len(entries) \in Nat /\ Bad \in SUBSET Nat
  BY LenProperties
<1>3. Len(entries) \in Bad
  BY <1>1, <1>2
<1>4. PICK n \in Bad : \A m \in Bad : n <= m
  <2> HIDE DEF Bad
  <2> QED BY <1>2, <1>3, Least
<1>5. n \in 0 .. Len(entries) /\ v \in Elems(g[n][f].vals)
  BY <1>4
<1>6. n # 0
  <2>1. Elems(g[0][f].vals) = {}
    BY <1>1 DEF FreshItem, Elems, WQ!ElementsOf
  <2> QED BY <1>5, <2>1
<1>7. n \in 1 .. Len(entries) /\ n - 1 \in 0 .. Len(entries) /\ n - 1 \notin Bad
  <2>1. n - 1 \in 0 .. Len(entries) /\ ~(n <= n - 1)
    BY <1>2, <1>5, <1>6
  <2> HIDE DEF Bad
  <2> QED BY <1>2, <1>4, <1>5, <1>6, <2>1
<1> DEFINE e == entries[n]
           it == g[n - 1][e.file]
           t == Taken(e.stamps, it.last)
<1>8. e \in Entries /\ e.file \in Files /\ e.stamps \in Seq(Nat)
  <2>1. e \in Entries
    BY <1>7, ElementOfSeq
  <2> HIDE DEF e
  <2> QED BY <2>1 DEF Entries
<1>9. g[n] = ReplayEntry(g[n - 1], e) /\ ItemsOK(g[n - 1])
  BY <1>1, <1>7
<1>10. v \notin Elems(g[n - 1][f].vals)
  BY <1>7
<1>11. it.vals \in Seq(Nat) /\ it.last \in Nat
  BY <1>8, <1>9 DEF ItemsOK, ItemType
<1>12. t \in Seq(Nat) /\ Elems(t) \subseteq Elems(e.stamps)
  BY <1>8, <1>11, TakenProperties
<1> HIDE DEF Bad, e, t
<1>13. /\ e.op = "update" /\ e.file = f /\ e.file \in Existing
       /\ g[n][f].vals = it.vals \o t
  <2> DEFINE new == [here |-> TRUE, vals |-> it.vals \o t, last |-> LastOf(t, it.last)]
             wiped_item == [here |-> it.here, vals |-> <<>>, last |-> it.last]
             upd == e.op = "update" /\ e.file \in Existing
  <2>1. g[n] = IF upd THEN [g[n - 1] EXCEPT ![e.file] = new]
               ELSE IF e.op = "wrote" THEN [g[n - 1] EXCEPT ![e.file] = wiped_item]
               ELSE IF e.op = "forget" THEN [g[n - 1] EXCEPT ![e.file] = FreshItem]
               ELSE g[n - 1]
    BY <1>9 DEF ReplayEntry, t
  <2>2. /\ new.vals = it.vals \o t
        /\ Elems(wiped_item.vals) = {} /\ Elems(FreshItem.vals) = {}
    BY DEF FreshItem, Elems, WQ!ElementsOf
  <2> HIDE DEF new, wiped_item, it
  <2>3. DOMAIN g[n - 1] = Files
    BY <1>9 DEF ItemsOK
  <2>4. CASE upd
    <3>1. g[n] = [g[n - 1] EXCEPT ![e.file] = new]
      BY <2>1, <2>4
    <3>2. e.file = f
      BY <1>5, <1>10, <3>1
    <3> QED BY <2>2, <2>3, <2>4, <3>1, <3>2
  <2>5. CASE ~upd
    BY <1>5, <1>8, <1>10, <2>1, <2>2, <2>3, <2>5
  <2> QED BY <2>4, <2>5
<1>14. v \in Elems(t)
  <2>1. /\ Len(it.vals \o t) = Len(it.vals) + Len(t)
        /\ Len(it.vals) \in Nat /\ Len(t) \in Nat
        /\ \A i \in 1 .. Len(it.vals) + Len(t) : (it.vals \o t)[i] =
              IF i <= Len(it.vals) THEN it.vals[i] ELSE t[i - Len(it.vals)]
    <3> HIDE DEF it
    <3> QED BY <1>11, <1>12, ConcatProperties, LenProperties
  <2>2. PICK i \in 1 .. Len(it.vals) + Len(t) : v = (it.vals \o t)[i]
    BY <1>5, <1>13, <2>1 DEF Elems, WQ!ElementsOf
  <2>3. ~(i <= Len(it.vals))
    <3>1. \A k \in 1 .. Len(it.vals) : it.vals[k] # v
      BY <1>10, <1>13 DEF Elems, WQ!ElementsOf
    <3> HIDE DEF it
    <3> QED BY <2>1, <2>2, <3>1
  <2>4. i - Len(it.vals) \in 1 .. Len(t) /\ v = t[i - Len(it.vals)]
    <3> HIDE DEF it
    <3> QED BY <2>1, <2>2, <2>3
  <2> HIDE DEF it
  <2> QED BY <2>4 DEF Elems, WQ!ElementsOf
<1> QED BY <1>7, <1>12, <1>13, <1>14 DEF InEntries, e


\* A step that takes no value out of what records it.
Steady ==
    /\ UNCHANGED <<vals, unlogged, jold, next_flush>>
    /\ \A f \in Files : vals[f] # <<>> => last_flush_time'[f] = last_flush_time[f]
    /\ Elems(queue) \subseteq Elems(queue')
    /\ jcur' = jcur \/ \E e \in Entries : jcur' = Append(jcur, e)
    /\ fpc' = "rotate" => fpc = "rotate"

\* A file with values is in an entry of the journal still, if the journal grew.
LEMMA JournalGrows ==
    ASSUME JournalInv, jcur' = jcur \/ \E e \in Entries : jcur' = Append(jcur, e),
           NEW f, NEW v, InEntries(jcur, f, v)
    PROVE  InEntries(jcur', f, v)
<1>1. jcur \in Seq(Entries)
  BY DEF JournalInv
<1>2. CASE jcur' = jcur
  BY <1>2 DEF InEntries
<1>3. ASSUME NEW e \in Entries, jcur' = Append(jcur, e) PROVE InEntries(jcur', f, v)
  BY <1>1, <1>3, StillInEntries
<1> QED BY <1>2, <1>3

LEMMA NoValues == Elems(<<>>) = {}
BY DEF Elems, WQ!ElementsOf

LEMMA RecordedStays ==
    ASSUME JournalInv, NEW f, NEW v, Recorded(f, v),
           UNCHANGED <<jold, next_flush>>, last_flush_time'[f] = last_flush_time[f],
           f \in Elems(queue) => f \in Elems(queue'),
           jcur' = jcur \/ \E e \in Entries : jcur' = Append(jcur, e),
           fpc' = "rotate" => fpc = "rotate"
    PROVE  Recorded(f, v)'
<1>1. CASE InEntries(jcur, f, v)
  <2>1. InEntries(jcur', f, v)
    BY <1>1, JournalGrows
  <2> QED BY <2>1 DEF Recorded, InEntries
<1>2. CASE InEntries(jold, f, v)
  <2>1. InEntries(jold', f, v)
    BY <1>2
  <2> QED BY <1>2, <2>1 DEF Recorded, InEntries
<1> QED BY <1>1, <1>2 DEF Recorded, Elems, WQ!ElementsOf

LEMMA SteadyKeeps ==
    ASSUME IInv, RotationInv, Steady
    PROVE  RotationInv'
<1> SUFFICES ASSUME Journaling, RotatesInTime, NEW f \in Files,
                    NEW v \in Elems(vals[f]) \ unlogged[f]
             PROVE  Recorded(f, v)'
  BY DEF RotationInv, Steady, Elems, WQ!ElementsOf
<1>1. Recorded(f, v) /\ vals[f] # <<>>
  BY NoValues DEF RotationInv
<1> QED BY <1>1, RecordedStays DEF Steady, IInv

\* The members of two sequences of stamps, one behind the other.
LEMMA MembersOfBoth ==
    ASSUME NEW p \in Seq(Nat), NEW q \in Seq(Nat), NEW v \in Elems(p \o q)
    PROVE  v \in Elems(p) \/ v \in Elems(q)
<1>1. /\ Len(p \o q) = Len(p) + Len(q) /\ Len(p) \in Nat /\ Len(q) \in Nat
      /\ \A i \in 1 .. Len(p) + Len(q) :
            (p \o q)[i] = IF i <= Len(p) THEN p[i] ELSE q[i - Len(p)]
  BY ConcatProperties, LenProperties
<1>2. PICK i \in 1 .. Len(p) + Len(q) : v = (p \o q)[i]
  BY <1>1 DEF Elems, WQ!ElementsOf
<1>3. CASE i <= Len(p)
  <2>1. i \in 1 .. Len(p) /\ v = p[i]
    BY <1>1, <1>2, <1>3
  <2> QED BY <2>1 DEF Elems, WQ!ElementsOf
<1>4. CASE ~(i <= Len(p))
  <2>1. i - Len(p) \in 1 .. Len(q) /\ v = q[i - Len(p)]
    BY <1>1, <1>2, <1>4
  <2> QED BY <2>1 DEF Elems, WQ!ElementsOf
<1> QED BY <1>3, <1>4

\* A member of a sequence is one of any sequence it is put behind or before.
LEMMA MemberOfFirst ==
    ASSUME NEW p \in Seq(Nat), NEW q \in Seq(Nat), NEW v \in Elems(p)
    PROVE  v \in Elems(p \o q)
<1>1. /\ Len(p \o q) = Len(p) + Len(q) /\ Len(p) \in Nat /\ Len(q) \in Nat
      /\ \A i \in 1 .. Len(p) : (p \o q)[i] = p[i]
  BY ConcatProperties, LenProperties
<1>2. PICK i \in 1 .. Len(p) : v = p[i]
  BY DEF Elems, WQ!ElementsOf
<1>3. i \in 1 .. Len(p \o q) /\ v = (p \o q)[i]
  BY <1>1, <1>2
<1> QED BY <1>3 DEF Elems, WQ!ElementsOf

LEMMA MemberOfSecond ==
    ASSUME NEW p \in Seq(Nat), NEW q \in Seq(Nat), NEW v \in Elems(q)
    PROVE  v \in Elems(p \o q)
<1>1. /\ Len(p \o q) = Len(p) + Len(q) /\ Len(p) \in Nat /\ Len(q) \in Nat
      /\ \A i \in 1 .. Len(p) + Len(q) :
            (p \o q)[i] = IF i <= Len(p) THEN p[i] ELSE q[i - Len(p)]
  BY ConcatProperties, LenProperties
<1>2. PICK i \in 1 .. Len(q) : v = q[i]
  BY DEF Elems, WQ!ElementsOf
<1>3. /\ Len(p) + i \in 1 .. Len(p) + Len(q) /\ ~(Len(p) + i <= Len(p))
      /\ Len(p) + i - Len(p) = i
  BY <1>1
<1>4. v = (p \o q)[Len(p) + i]
  BY <1>1, <1>2, <1>3
<1> QED BY <1>1, <1>3, <1>4 DEF Elems, WQ!ElementsOf

\* UPDATE journals the values before it stores them.
LEMMA StoreRecords ==
    ASSUME IInv, ItemsInv, RotationInv, NEW c \in Conns, cpc[c] \in {"cmd", "stat"},
           Command(c).op = "UPDATE", NEW f, f = Command(c).file,
           NEW ft, StoreValues(c, f, ft), f \in tree => ft = last_flush_time[f]
    PROVE  RotationInv'
<1> DEFINE ss == Command(c).stamps
           t  == Taken(ss, last_update_stamp[f])
<1>1. f \in Files /\ ss \in Seq(Nat)
  BY CommandOf DEF Busy, IInv
<1>2. t \in Seq(Nat) /\ Elems(t) \subseteq Elems(ss)
  <2>1. last_update_stamp[f] \in Nat
    BY <1>1 DEF IInv, CacheInv
  <2> QED BY <1>1, <2>1, TakenProperties
<1>3. /\ journal_write(Entry("update", f, ss))
      /\ vals' = [vals EXCEPT ![f] = @ \o t]
      /\ last_flush_time' = [last_flush_time EXCEPT ![f] = ft]
      /\ queue' = queue \/ (f \notin Elems(queue) /\ queue' = Append(queue, f))
      /\ unlogged' = [unlogged EXCEPT ![f] =
              IF jopen THEN @ ELSE @ \cup Elems(t)]
      /\ UNCHANGED <<fpc, next_flush>>
  BY DEF StoreValues, flusher, Elems
<1>4. Entry("update", f, ss) \in Entries
  BY <1>1 DEF Entry, Entries
<1> DEFINE e == Entry("update", f, ss)
<1>5. e.op = "update" /\ e.file = f /\ e.stamps = ss
  BY DEF Entry
<1>6. /\ jcur' = IF jopen THEN Append(jcur, e) ELSE jcur
      /\ UNCHANGED jold
  BY <1>3 DEF journal_write
<1> HIDE DEF t, e, ss
<1>7. \A g \in Files : g \in Elems(queue) => g \in Elems(queue')
  BY <1>1, <1>3, AppendNoDup DEF IInv, CacheInv
<1> SUFFICES ASSUME Journaling, RotatesInTime, NEW g \in Files,
                    NEW v \in Elems(vals'[g]), v \notin unlogged'[g]
             PROVE  Recorded(g, v)'
  BY DEF RotationInv, Elems, WQ!ElementsOf
<1>8. CASE v \in Elems(vals[g])
  <2>1. vals[g] # <<>> /\ g \in tree
    BY <1>8, NoValues DEF ItemsInv
  <2>2. last_flush_time'[g] = last_flush_time[g] /\ v \notin unlogged[g]
    BY <1>1, <1>3, <2>1 DEF IInv, CacheInv, HistoryInv
  <2>3. Recorded(g, v)
    BY <1>8, <2>2 DEF RotationInv
  <2>4. jcur' = jcur \/ \E x \in Entries : jcur' = Append(jcur, x)
    BY <1>4, <1>6 DEF e
  <2>5. fpc' = "rotate" => fpc = "rotate"
    BY <1>3
  <2>6. JournalInv /\ (g \in Elems(queue) => g \in Elems(queue'))
    BY <1>7 DEF IInv
  <2> QED BY <1>3, <1>6, <2>2, <2>3, <2>4, <2>5, <2>6, RecordedStays
<1>9. CASE v \notin Elems(vals[g])
  <2>1. g = f /\ v \in Elems(vals[f] \o t)
    BY <1>1, <1>3, <1>9 DEF IInv, CacheInv
  <2>2. v \in Elems(t) /\ v \in Elems(ss)
    BY <1>1, <1>2, <1>9, <2>1, MembersOfBoth DEF IInv, CacheInv
  <2>3. jopen
    BY <1>1, <1>3, <2>1, <2>2 DEF IInv, HistoryInv
  <2>4. InEntries(jcur', f, v)
    <3>1. jcur \in Seq(Entries)
      BY DEF IInv, JournalInv
    <3> QED BY <1>4, <1>5, <1>6, <2>2, <2>3, <3>1, StillInEntries DEF e
  <2> QED BY <2>1, <2>4 DEF Recorded, InEntries
<1> QED BY <1>8, <1>9

\* FORGET and the writer empty the item they take out of the queue.
LEMMA EmptiedNeedsNoRecord ==
    ASSUME IInv, RotationInv, NEW f \in Files,
           vals' = [vals EXCEPT ![f] = <<>>],
           unlogged' = [unlogged EXCEPT ![f] = {}],
           \A g \in Files : g # f => last_flush_time'[g] = last_flush_time[g],
           Elems(queue) \ {f} \subseteq Elems(queue'),
           UNCHANGED <<fpc, next_flush, jold, jcur>>
    PROVE  RotationInv'
<1> SUFFICES ASSUME Journaling, RotatesInTime, NEW g \in Files,
                    NEW v \in Elems(vals'[g]), v \notin unlogged'[g]
             PROVE  Recorded(g, v)'
  BY DEF RotationInv, Elems, WQ!ElementsOf
<1>1. g # f /\ vals'[g] = vals[g] /\ unlogged'[g] = unlogged[g]
  BY NoValues DEF IInv, CacheInv, HistoryInv
<1>2. Recorded(g, v)
  BY <1>1 DEF RotationInv
<1> QED BY <1>1, <1>2, RecordedStays DEF IInv

\* flush_old_values queues what is as old as it is told to.
LEMMA FlushOldQueues ==
    ASSUME IInv, NEW abs, flush_old_values(abs)
    PROVE  /\ ToQueue(abs) \subseteq Elems(queue')
           /\ Elems(queue) \subseteq Elems(queue')
           /\ \A f \in Files : vals[f] # <<>> => last_flush_time'[f] = last_flush_time[f]
<1>1. PICK q \in Orderings(ToQueue(abs)) : queue' = queue \o q
  BY DEF flush_old_values
<1>2. ToQueue(abs) \in SUBSET Files /\ \A f \in ToQueue(abs) : f \notin Elems(queue)
  BY RrdcachedAssumption DEF ToQueue, IInv, CacheInv, Elems
<1>3. q \in Seq(Files) /\ NoDup(q) /\ Elems(q) = ToQueue(abs)
  BY <1>2, OrderingsProperties
<1>4. queue \in Seq(Files) /\ NoDup(queue) /\ Elems(queue) \cap Elems(q) = {}
  BY <1>2, <1>3 DEF IInv, CacheInv
<1>5. Elems(queue \o q) = Elems(queue) \cup Elems(q)
  BY <1>3, <1>4, ConcatNoDup
<1>6. Elems(queue') = Elems(queue \o q)
  BY <1>1 DEF Elems, WQ!ElementsOf
<1>7. \A f \in Files : vals[f] # <<>> => last_flush_time'[f] = last_flush_time[f]
  BY DEF flush_old_values, ToPurge
<1> QED BY <1>3, <1>5, <1>6, <1>7

\* Before a rotation flush_thread_main queues every file with a value that only
\* the old set records.
LEMMA TimerRecords ==
    ASSUME IInv, ItemsInv, RotationInv, FlushTimer
    PROVE  RotationInv'
<1>1. /\ fpc = "loop" /\ state = "RUNNING" /\ clock >= next_flush
      /\ flush_old_values(NotWrittenLong)
      /\ UNCHANGED <<jold, jcur, vals, unlogged>>
  BY DEF FlushTimer, journal, history, flush_old_values
<1> SUFFICES ASSUME Journaling, RotatesInTime, NEW f \in Files,
                    NEW v \in Elems(vals[f]) \ unlogged[f]
             PROVE  Recorded(f, v)'
  BY <1>1 DEF RotationInv, Elems, WQ!ElementsOf
<1>2. Recorded(f, v) /\ vals[f] # <<>> /\ f \in tree
  BY NoValues DEF RotationInv, ItemsInv
<1>3. CASE f \in Elems(queue)
  BY <1>1, <1>3, FlushOldQueues DEF Recorded, Elems, WQ!ElementsOf
<1>4. CASE InEntries(jcur, f, v)
  BY <1>1, <1>4 DEF Recorded, InEntries
<1>5. CASE f \notin Elems(queue) /\ last_flush_time[f] <= next_flush - WriteInterval
  <2>1. /\ last_flush_time[f] \in Nat /\ next_flush \in Nat /\ clock \in Nat
        /\ WriteInterval \in Nat
    BY TimesAreNumbers DEF IInv, CacheInv, ProcessInv, WorldInv
  <2>2. last_flush_time[f] <= NotWrittenLong
    BY <1>1, <1>5, <2>1 DEF NotWrittenLong
  <2>3. f \in ToQueue(NotWrittenLong)
    BY <1>2, <1>5, <2>2 DEF ToQueue, Elems
  <2>4. f \in Elems(queue')
    BY <1>1, <2>3, FlushOldQueues
  <2> QED BY <2>4 DEF Recorded, Elems, WQ!ElementsOf
<1> QED BY <1>2, <1>3, <1>4, <1>5 DEF Recorded

\* The rotation makes the journal the old set.  It comes so soon after the flush
\* that what it holds will be old enough for the next flush.
LEMMA RotateRecords ==
    ASSUME IInv, TimeInv, RotationInv, JournalRotate
    PROVE  RotationInv'
<1> SUFFICES ASSUME Journaling, RotatesInTime, NEW f \in Files,
                    NEW v \in Elems(vals'[f]) \ unlogged'[f]
             PROVE  Recorded(f, v)'
  BY DEF RotationInv, Elems, WQ!ElementsOf
<1>1. /\ fpc = "rotate" /\ fpc' = "reopen" /\ jold' = jcur
      /\ UNCHANGED <<vals, unlogged, queue, last_flush_time, next_flush>>
  BY DEF JournalRotate, cache, history
<1>2. Recorded(f, v)
  BY <1>1 DEF RotationInv, Elems, WQ!ElementsOf
<1>3. CASE f \in Elems(queue)
  BY <1>1, <1>3 DEF Recorded, Elems, WQ!ElementsOf
<1>4. CASE InEntries(jcur, f, v)
  <2>1. PICK j \in Jitters : last_flush_time[f] <= clock + j
    BY DEF TimeInv
  <2>2. clock <= next_flush - FlushInterval + MaxRotateDelay
    BY <1>1 DEF TimeInv
  <2>3. WriteInterval + j + MaxRotateDelay <= FlushInterval
    BY DEF RotatesInTime
  <2>4. /\ last_flush_time[f] \in Nat /\ next_flush \in Nat /\ clock \in Nat
        /\ WriteInterval \in Nat /\ FlushInterval \in Nat /\ MaxRotateDelay \in Nat
        /\ j \in Nat
    BY TimesAreNumbers DEF IInv, CacheInv, ProcessInv, WorldInv
  <2>5. last_flush_time[f] <= next_flush - WriteInterval
    BY <2>1, <2>2, <2>3, <2>4
  <2>6. InEntries(jold', f, v)
    BY <1>1, <1>4
  <2>7. last_flush_time'[f] <= next_flush' - WriteInterval
    BY <1>1, <2>5
  <2> QED BY <1>1, <2>6, <2>7 DEF Recorded, InEntries
<1> QED BY <1>1, <1>2, <1>3, <1>4 DEF Recorded

\* A process that is gone holds no values; the next one holds what it replayed.
LEMMA RestartRecords ==
    ASSUME IInv, TimeInv, RotationInv,
           \/ \E how, kept : Gone(how, kept)
           \/ Restart
    PROVE  RotationInv'
<1>1. ASSUME NEW how, NEW kept, Gone(how, kept) PROVE RotationInv'
  <2>1. \A f \in Files : Elems(vals'[f]) = {}
    BY <1>1, NoValues DEF Gone
  <2> QED BY <2>1 DEF RotationInv, Elems, WQ!ElementsOf
<1>2. CASE Restart
  <2>1. /\ vals' = [f \in Files |-> Replay(jcur)[f].vals]
        /\ UNCHANGED jcur /\ jcur \in Seq(Entries)
    BY <1>2 DEF Restart, Start, IInv, JournalInv
  <2> SUFFICES ASSUME NEW f \in Files, NEW v \in Elems(vals'[f])
               PROVE  Recorded(f, v)'
    BY DEF RotationInv, Elems, WQ!ElementsOf
  <2>2. v \in Elems(Replay(jcur)[f].vals)
    BY <2>1
  <2>3. InEntries(jcur, f, v)
    BY <2>1, <2>2, ReplayedIsRecorded
  <2> QED BY <2>1, <2>3 DEF Recorded, InEntries
<1> QED BY <1>1, <1>2


-------------------------------------------------------------------------------
(* The steps, one thread after the other.                                  *)

Rotating == {"rotate", "reopen", "unlink"}

\* A step that notes no time but the present one, jitter apart.
Timely ==
    /\ clock' = clock
    /\ \A c \in Conns : cnow'[c] \in {cnow[c], clock, 0}
    /\ \A f \in Files : \/ last_flush_time'[f] = last_flush_time[f]
                        \/ \E j \in Jitters : last_flush_time'[f] <= clock + j
    /\ fpc' \in Rotating => fpc \in Rotating /\ next_flush' = next_flush
    /\ ~Alive' => ~Alive /\ jold' = jold

LEMMA TimelyKeeps ==
    ASSUME IInv, TimeInv, Timely
    PROVE  TimeInv'
<1>1. clock \in Nat
  BY DEF IInv, WorldInv
<1>2. \A c \in Conns : cnow'[c] <= clock'
  BY <1>1 DEF TimeInv, Timely
<1>3. \A f \in Files : \E j \in Jitters : last_flush_time'[f] <= clock' + j
  BY DEF TimeInv, Timely
<1>4. fpc' \in Rotating => clock' <= next_flush' - FlushInterval + MaxRotateDelay
  BY DEF TimeInv, Timely, Rotating
<1>5. ~Alive' => jold' = <<>>
  BY DEF TimeInv, Timely
<1> QED BY <1>2, <1>3, <1>4, <1>5 DEF TimeInv, Rotating

\* The present and zero are timely.
LEMMA NowIsTimely ==
    ASSUME IInv
    PROVE  /\ \E j \in Jitters : 0 <= clock + j
           /\ \A c \in Conns, j \in Jitters : cnow[c] <= clock => cnow[c] + j <= clock + j
<1>1. clock \in Nat /\ \A c \in Conns : cnow[c] \in Nat
  BY DEF IInv, WorldInv, ConnInv
<1> QED BY <1>1, TimesAreNumbers

\* send_response and out_close.
LEMMA AnswerIsTimely ==
    ASSUME ConnInv, NEW c \in Conns, NEW pcs, RespondAfter(c, pcs) \/ CloseAfter(c, pcs)
    PROVE  \A d \in Conns : cnow'[d] \in {cnow[d], 0}
BY DEF RespondAfter, CloseAfter, ConnInv

\* flush_old_values only sets the times of items it drops.
LEMMA FlushOldTimely ==
    ASSUME IInv, NEW abs, flush_old_values(abs)
    PROVE  \A f \in Files : \/ last_flush_time'[f] = last_flush_time[f]
                            \/ \E j \in Jitters : last_flush_time'[f] <= clock + j
BY NowIsTimely DEF flush_old_values

\* The connections: UPDATE and FORGET ...
LEMMA UpdateTimely ==
    ASSUME IInv, TimeInv, NEW c \in Conns, UpdateHit(c) \/ UpdateInsert(c)
    PROVE  TimeInv'
<1>1. PICK ft : /\ StoreValues(c, Command(c).file, ft)
                /\ \/ ft = last_flush_time[Command(c).file]
                   \/ \E j \in Jitters : ft = cnow[c] + j
  BY DEF UpdateHit, UpdateInsert
<1>2. /\ last_flush_time' = [last_flush_time EXCEPT ![Command(c).file] = ft]
      /\ Respond(c) /\ UNCHANGED <<process, flusher, clock>>
      /\ UNCHANGED jold
  BY <1>1 DEF StoreValues, journal_write
<1>3. \A d \in Conns : cnow'[d] \in {cnow[d], 0}
  BY <1>2, AnswerIsTimely DEF Respond, IInv
<1>4. \A j \in Jitters : cnow[c] + j <= clock + j
  BY NowIsTimely DEF TimeInv
<1>5. \A f \in Files : \/ last_flush_time'[f] = last_flush_time[f]
                       \/ \E j \in Jitters : last_flush_time'[f] <= clock + j
  BY <1>1, <1>2, <1>4 DEF IInv, CacheInv
<1>6. Timely
  BY <1>2, <1>3, <1>5 DEF Timely, process, flusher, Alive
<1> QED BY <1>6, TimelyKeeps

LEMMA ForgetRecords ==
    ASSUME IInv, ItemsInv, TimeInv, RotationInv, NEW c \in Conns, ForgetRemove(c)
    PROVE  TimeInv' /\ RotationInv'
<1> DEFINE f == Command(c).file
<1>1. f \in Files
  BY CommandOf DEF ForgetRemove, Busy, IInv
<1>2. /\ queue' = WQ!Without(queue, f)
      /\ vals' = [vals EXCEPT ![f] = <<>>]
      /\ last_flush_time' = [last_flush_time EXCEPT ![f] = 0]
      /\ unlogged' = [unlogged EXCEPT ![f] = {}]
      /\ UNCHANGED <<process, flusher, cnow, journal, clock>>
  BY DEF ForgetRemove, wiped
<1> HIDE DEF f
<1>3. Elems(queue') = Elems(queue) \ {f}
  <2>1. Elems(WQ!Without(queue, f)) = Elems(queue) \ {f}
    BY WithoutProperties DEF IInv, CacheInv
  <2> QED BY <1>2, <2>1 DEF Elems, WQ!ElementsOf
<1>4. \A g \in Files : g # f => last_flush_time'[g] = last_flush_time[g]
  BY <1>2 DEF IInv, CacheInv
<1>5. RotationInv'
  BY <1>1, <1>2, <1>3, <1>4, EmptiedNeedsNoRecord DEF flusher, journal
<1>6. \A g \in Files : \/ last_flush_time'[g] = last_flush_time[g]
                       \/ \E j \in Jitters : last_flush_time'[g] <= clock + j
  BY <1>1, <1>2, <1>4, NowIsTimely DEF IInv, CacheInv
<1>7. Timely
  BY <1>2, <1>6 DEF Timely, process, flusher, journal, Alive
<1> QED BY <1>5, <1>7, TimelyKeeps


\* ... and the other commands.
LEMMA ConnectionRecords ==
    ASSUME IInv, ItemsInv, TimeInv, RotationInv, NEW c \in Conns, Connection(c)
    PROVE  TimeInv' /\ RotationInv'
<1>1. CASE UpdateHit(c) \/ UpdateInsert(c)
  <2>1. /\ cpc[c] \in {"cmd", "stat"} /\ Command(c).op = "UPDATE"
        /\ \E ft : /\ StoreValues(c, Command(c).file, ft)
                   /\ Command(c).file \in tree => ft = last_flush_time[Command(c).file]
    BY <1>1 DEF UpdateHit, UpdateInsert, IInv, ConnInv
  <2>2. RotationInv'
    BY <2>1, StoreRecords
  <2> QED BY <1>1, <2>2, UpdateTimely
<1>2. CASE ForgetRemove(c)
  BY <1>2, ForgetRecords
<1>3. CASE Accept(c) \/ ConnStart(c) \/ ConnClose(c) \/ QuitCommand(c) \/ ConnRead(c)
  <2>1. UNCHANGED <<cache, process, flusher, journal, clock, history>>
    BY <1>3 DEF Accept, ConnStart, ConnClose, QuitCommand, ConnRead
  <2>2. \A d \in Conns : cnow'[d] \in {cnow[d], clock, 0}
    BY <1>3 DEF Accept, ConnStart, ConnClose, QuitCommand, ConnRead, Close, CloseAfter,
                IInv, ConnInv
  <2>3. Steady
    BY <2>1 DEF Steady, cache, flusher, journal, history
  <2>4. Timely
    BY <2>1, <2>2 DEF Timely, cache, process, flusher, journal, Alive
  <2> QED BY <2>3, <2>4, SteadyKeeps, TimelyKeeps
<1>4. CASE \/ UpdateMiss(c) \/ UpdateNoFile(c) \/ FlushNothing(c) \/ FlushReturn(c)
           \/ ForgetNothing(c) \/ ForgetJournal(c)
  <2>1. UNCHANGED <<cache, process, flusher, clock, history>>
    BY <1>4 DEF UpdateMiss, UpdateNoFile, FlushNothing, FlushReturn, ForgetNothing,
                ForgetJournal
  <2>2. \A d \in Conns : cnow'[d] \in {cnow[d], clock, 0}
    BY <1>4, AnswerIsTimely DEF UpdateMiss, UpdateNoFile, FlushNothing, FlushReturn,
       ForgetNothing, ForgetJournal, Respond, IInv
  <2>3. jold' = jold /\ (jcur' = jcur \/ \E e \in Entries : jcur' = Append(jcur, e))
    <3>1. CASE ForgetJournal(c)
      <4>1. Command(c).file \in Files
        BY <3>1, CommandOf DEF ForgetJournal, Busy, IInv, ConnInv
      <4>2. Entry("forget", Command(c).file, <<>>) \in Entries
        BY <4>1 DEF Entry, Entries
      <4> QED BY <3>1, <4>2 DEF ForgetJournal, journal_write
    <3>2. CASE ~ForgetJournal(c)
      BY <1>4, <3>2 DEF UpdateMiss, UpdateNoFile, FlushNothing, FlushReturn,
         ForgetNothing, journal
    <3> QED BY <3>1, <3>2
  <2>4. Steady
    BY <2>1, <2>3 DEF Steady, cache, flusher, history
  <2>5. Timely
    BY <2>1, <2>2, <2>3 DEF Timely, cache, process, flusher, Alive
  <2> QED BY <2>4, <2>5, SteadyKeeps, TimelyKeeps
<1>5. CASE UpdateAtShutdown(c)
  <2> DEFINE f == Command(c).file
  <2>1. /\ UNCHANGED <<vals, queue, mpc, flusher, journal, clock, history>>
        /\ Close(c)
        /\ \E j \in Jitters : last_flush_time' =
              IF f \in tree THEN last_flush_time
              ELSE [last_flush_time EXCEPT ![f] = cnow[c] + j]
    BY <1>5 DEF UpdateAtShutdown
  <2>2. \A d \in Conns : cnow'[d] \in {cnow[d], 0}
    BY <2>1, AnswerIsTimely DEF Close, IInv
  <2> HIDE DEF f
  <2>3. \A g \in Files : vals[g] # <<>> => last_flush_time'[g] = last_flush_time[g]
    BY <2>1 DEF ItemsInv, IInv, CacheInv
  <2>4. \A g \in Files : \/ last_flush_time'[g] = last_flush_time[g]
                         \/ \E j \in Jitters : last_flush_time'[g] <= clock + j
    BY <2>1, NowIsTimely DEF IInv, CacheInv, TimeInv
  <2>5. Steady
    BY <2>1, <2>3 DEF Steady, flusher, journal, history
  <2>6. Timely
    BY <2>1, <2>2, <2>4 DEF Timely, flusher, journal, Alive
  <2> QED BY <2>5, <2>6, SteadyKeeps, TimelyKeeps
<1>6. CASE FlushWait(c)
  <2> DEFINE f == Command(c).file
  <2>1. /\ UNCHANGED <<vals, last_flush_time, process, flusher, cnow, journal, clock,
                       history>>
        /\ queue' = WQ!AtHead(queue, f) /\ f \in Files
    BY <1>6, CommandOf DEF FlushWait, Busy, IInv
  <2> HIDE DEF f
  <2>2. Elems(queue) \subseteq Elems(queue')
    <3>1. Elems(WQ!AtHead(queue, f)) = Elems(queue) \cup {f}
      BY <2>1, AtHeadProperties DEF IInv, CacheInv
    <3> QED BY <2>1, <3>1 DEF Elems, WQ!ElementsOf
  <2>3. Steady
    BY <2>1, <2>2 DEF Steady, flusher, journal, history
  <2>4. Timely
    BY <2>1 DEF Timely, process, flusher, journal, Alive
  <2> QED BY <2>3, <2>4, SteadyKeeps, TimelyKeeps
<1>7. CASE FlushAllCommand(c)
  <2>1. /\ UNCHANGED <<process, flusher, journal, clock, history>>
        /\ flush_old_values(FlushAll) /\ RespondAfter(c, Flushed(ToPurge))
    BY <1>7 DEF FlushAllCommand
  <2>2. \A d \in Conns : cnow'[d] \in {cnow[d], 0}
    BY <2>1, AnswerIsTimely DEF IInv
  <2>3. Steady
    BY <2>1, FlushOldQueues, FlushOldStays DEF Steady, flusher, journal, history
  <2>4. Timely
    BY <2>1, <2>2, FlushOldTimely DEF Timely, process, flusher, journal, Alive
  <2> QED BY <2>3, <2>4, SteadyKeeps, TimelyKeeps
<1> QED BY <1>1, <1>2, <1>3, <1>4, <1>5, <1>6, <1>7 DEF Connection, Handle


\* The writers: queue_thread_main notes the time when it takes the values.
LEMMA WriterRecords ==
    ASSUME IInv, ItemsInv, TimeInv, RotationInv, NEW w \in Writers, Writer(w)
    PROVE  TimeInv' /\ RotationInv'
<1>1. CASE WriterTake(w)
  <2> DEFINE f == Head(queue)
  <2>1. /\ vals' = [vals EXCEPT ![f] = <<>>]
        /\ unlogged' = [unlogged EXCEPT ![f] = {}]
        /\ \E j \in Jitters : last_flush_time' = [last_flush_time EXCEPT ![f] = clock + j]
        /\ queue' = Tail(queue) /\ queue # <<>>
        /\ UNCHANGED <<process, flusher, cnow, journal, clock>>
    BY <1>1 DEF WriterTake, wiped, conns
  <2>2. /\ f \in Files
        /\ Elems(Tail(queue)) = Elems(queue) \ {f}
    BY <2>1, TailNoDup, HeadTailProperties DEF IInv, CacheInv
  <2> HIDE DEF f
  <2>3. Elems(queue') = Elems(queue) \ {f}
    BY <2>1, <2>2 DEF Elems, WQ!ElementsOf
  <2>4. \A g \in Files : g # f => last_flush_time'[g] = last_flush_time[g]
    BY <2>1 DEF IInv, CacheInv
  <2>5. \A g \in Files : \/ last_flush_time'[g] = last_flush_time[g]
                         \/ \E j \in Jitters : last_flush_time'[g] <= clock + j
    <3>1. PICK j \in Jitters : last_flush_time' = [last_flush_time EXCEPT ![f] = clock + j]
      BY <2>1
    <3>2. last_flush_time'[f] = clock + j /\ clock + j \in Nat
      BY <2>2, <3>1, TimesAreNumbers DEF IInv, CacheInv, WorldInv
    <3>3. last_flush_time'[f] <= clock + j
      BY <3>2
    <3> QED BY <2>4, <3>3
  <2>6. RotationInv'
    BY <2>1, <2>2, <2>3, <2>4, EmptiedNeedsNoRecord DEF flusher, journal
  <2>7. Timely
    BY <2>1, <2>5 DEF Timely, process, flusher, journal, Alive
  <2> QED BY <2>6, <2>7, TimelyKeeps
<1>2. CASE \/ WriterWait(w) \/ WriterExit(w) \/ WriterWrite(w) \/ WriterFail(w)
           \/ WriterWrote(w) \/ WriterNotify(w)
  <2>1. UNCHANGED <<cache, process, flusher, cnow, clock, history>>
    BY <1>2 DEF WriterWait, WriterExit, WriterWrite, WriterFail, WriterWrote,
                WriterNotify, conns
  <2>2. jold' = jold /\ (jcur' = jcur \/ \E e \in Entries : jcur' = Append(jcur, e))
    <3>1. CASE WriterWrote(w)
      <4>1. wfile[w] \in Files
        BY <3>1 DEF WriterWrote, IInv, WriterInv
      <4>2. Entry("wrote", wfile[w], <<>>) \in Entries
        BY <4>1 DEF Entry, Entries
      <4> QED BY <3>1, <4>2 DEF WriterWrote, journal_write
    <3>2. CASE ~WriterWrote(w)
      BY <1>2, <3>2 DEF WriterWait, WriterExit, WriterWrite, WriterFail, WriterNotify,
                        journal
    <3> QED BY <3>1, <3>2
  <2>3. Steady
    BY <2>1, <2>2 DEF Steady, cache, flusher, history
  <2>4. Timely
    BY <2>1, <2>2 DEF Timely, cache, process, flusher, Alive
  <2> QED BY <2>3, <2>4, SteadyKeeps, TimelyKeeps
<1> QED BY <1>1, <1>2 DEF Writer

\* The flush thread.
LEMMA FlushThreadRecords ==
    ASSUME IInv, ItemsInv, TimeInv, RotationInv, FlushThread
    PROVE  TimeInv' /\ RotationInv'
<1>1. CASE FlushTimer
  <2>1. /\ flush_old_values(NotWrittenLong) /\ next_flush' = clock + FlushInterval
        /\ fpc = "loop" /\ UNCHANGED <<process, cnow, journal, clock>>
    BY <1>1 DEF FlushTimer
  <2>2. clock \in Nat /\ FlushInterval \in Nat /\ MaxRotateDelay \in Nat
    BY TimesAreNumbers DEF IInv, WorldInv
  <2>3. clock' <= next_flush' - FlushInterval + MaxRotateDelay
    BY <2>1, <2>2
  <2>4. \A f \in Files : \E j \in Jitters : last_flush_time'[f] <= clock' + j
    BY <2>1, FlushOldTimely DEF TimeInv
  <2>5. TimeInv'
    BY <2>1, <2>3, <2>4 DEF TimeInv, process, journal, Alive
  <2> QED BY <1>1, <2>5, TimerRecords
<1>2. CASE JournalRotate
  <2>1. /\ UNCHANGED <<cache, process, next_flush, cnow, clock>>
        /\ fpc = "rotate"
    BY <1>2 DEF JournalRotate, conns
  <2>2. Alive
    BY <2>1 DEF IInv, ProcessInv
  <2>3. Timely
    BY <2>1, <2>2 DEF Timely, cache, process, Alive, Rotating
  <2> QED BY <1>2, <2>3, TimelyKeeps, RotateRecords
<1>3. CASE JournalNewFile \/ JournalUnlink
  <2>1. /\ UNCHANGED <<cache, mpc, next_flush, cnow, jold, jcur, clock, history>>
        /\ fpc \in Rotating /\ fpc' # "rotate"
    BY <1>3 DEF JournalNewFile, JournalUnlink, conns, process, Rotating
  <2>2. Steady
    BY <2>1 DEF Steady, cache, history
  <2>3. Timely
    BY <2>1 DEF Timely, cache, Alive
  <2> QED BY <2>2, <2>3, SteadyKeeps, TimelyKeeps
<1>4. CASE FlushShutdown
  <2>1. /\ UNCHANGED <<mpc, next_flush, cnow, journal, clock, history>>
        /\ fpc' = "done"
        /\ flush_old_values(FlushAll) \/ UNCHANGED cache
    BY <1>4 DEF FlushShutdown
  <2>2. Steady
    BY <2>1, FlushOldQueues, FlushOldStays DEF Steady, journal, history, cache
  <2>3. Timely
    BY <2>1, FlushOldTimely DEF Timely, journal, cache, Alive, Rotating
  <2> QED BY <2>2, <2>3, SteadyKeeps, TimelyKeeps
<1> QED BY <1>1, <1>2, <1>3, <1>4 DEF FlushThread

\* The end and the start of a process.
LEMMA ProcessRecords ==
    ASSUME IInv, ItemsInv, TimeInv, RotationInv, Crash \/ AssertFails \/ Exit \/ Restart
    PROVE  TimeInv' /\ RotationInv'
<1>1. clock \in Nat
  BY DEF IInv, WorldInv
<1>2. CASE Crash \/ AssertFails \/ Exit
  <2>1. PICK how, kept : Gone(how, kept)
    BY <1>2 DEF Crash, AssertFails, Exit, Dies
  <2>2. TimeInv'
    BY <1>1, <2>1, NowIsTimely DEF Gone, TimeInv
  <2> QED BY <2>1, <2>2, RestartRecords
<1>3. CASE Restart
  <2>1. PICK ok \in BOOLEAN : Start(jcur, ok)
    BY <1>3 DEF Restart
  <2>2. /\ fpc' = "loop" /\ mpc' = "listen"
        /\ \E j \in [Files -> Jitters] : last_flush_time' =
               [f \in Files |-> IF Replay(jcur)[f].here THEN clock + j[f] ELSE 0]
    BY <2>1 DEF Start
  <2>3. UNCHANGED <<cnow, clock>>
    BY <1>3 DEF Restart, conns
  <2>4. \A f \in Files : \E j \in Jitters : last_flush_time'[f] <= clock + j
    <3> SUFFICES ASSUME NEW f \in Files
                 PROVE  \E j \in Jitters : last_flush_time'[f] <= clock + j
      OBVIOUS
    <3>1. PICK j \in [Files -> Jitters] : last_flush_time' =
               [g \in Files |-> IF Replay(jcur)[g].here THEN clock + j[g] ELSE 0]
      BY <2>2
    <3>2. last_flush_time'[f] \in {clock + j[f], 0} /\ j[f] \in Jitters
      BY <3>1
    <3>3. j[f] \in Nat
      BY <3>2, TimesAreNumbers
    <3>4. last_flush_time'[f] <= clock + j[f]
      BY <1>1, <3>2, <3>3
    <3> QED BY <3>2, <3>4
  <2>5. TimeInv'
    BY <2>2, <2>3, <2>4 DEF TimeInv, Alive
  <2> QED BY <1>3, <2>5, RestartRecords
<1> QED BY <1>2, <1>3

\* The main thread, signal handlers and the clock.
LEMMA OthersRecord ==
    ASSUME IInv, ItemsInv, TimeInv, RotationInv,
           \/ ListenStop \/ ConnectionsDone \/ FlushThreadJoined
           \/ (\E sig \in Signals : Signal(sig)) \/ Tick \/ UNCHANGED vars
    PROVE  TimeInv' /\ RotationInv'
<1>1. UNCHANGED <<cache, flusher, cnow, journal, history>>
  BY DEF ListenStop, ConnectionsDone, FlushThreadJoined, Signal, Tick, conns, vars
<1>2. Steady
  BY <1>1 DEF Steady, cache, flusher, journal, history
<1>3. CASE ~Tick
  <2>1. clock' = clock /\ (~Alive' => ~Alive)
    BY <1>3 DEF ListenStop, ConnectionsDone, FlushThreadJoined, Signal, vars, MainGoes,
                process, Alive
  <2>2. Timely
    BY <1>1, <2>1 DEF Timely, cache, flusher, journal
  <2> QED BY <1>2, <2>2, SteadyKeeps, TimelyKeeps
<1>4. CASE Tick
  <2>1. clock' = clock + 1 /\ clock \in Nat /\ UNCHANGED process
    BY <1>4 DEF Tick, IInv, WorldInv
  <2>2. \A c \in Conns : cnow[c] <= clock + 1
    BY <2>1 DEF TimeInv, IInv, ConnInv
  <2>3. \A f \in Files : \E j \in Jitters : last_flush_time[f] <= clock + 1 + j
    BY <2>1, TimesAreNumbers DEF TimeInv, IInv, CacheInv
  <2>4. fpc \in Rotating => clock + 1 <= next_flush - FlushInterval + MaxRotateDelay
    BY <1>4, <2>1, TimesAreNumbers DEF Tick, IInv, ProcessInv, Rotating
  <2>5. TimeInv'
    BY <1>1, <2>1, <2>2, <2>3, <2>4 DEF TimeInv, cache, flusher, journal, process,
       Alive, Rotating
  <2> QED BY <1>2, <2>5, SteadyKeeps
<1> QED BY <1>3, <1>4

LEMMA InitRecords == Init => TimeInv /\ RotationInv
<1> SUFFICES ASSUME Init PROVE TimeInv /\ RotationInv
  OBVIOUS
<1>1. \A f \in Files : \E j \in Jitters : last_flush_time[f] <= clock + j
  BY TimesAreNumbers DEF Init
<1>2. TimeInv
  BY <1>1 DEF Init, TimeInv
<1>3. RotationInv
  BY NoValues DEF Init, RotationInv
<1> QED BY <1>2, <1>3

LEMMA NextRecords ==
    IInv /\ ItemsInv /\ TimeInv /\ RotationInv /\ [Next]_vars => TimeInv' /\ RotationInv'
BY ConnectionRecords, WriterRecords, FlushThreadRecords, ProcessRecords, OthersRecord
   DEF Next, Main, Environment

LEMMA RotationInductive == Spec => [](IInv /\ TimeInv /\ RotationInv)
BY InitIInv, InitLedger, InitRecords, NextIInv, NextLedger, NextRecords, PTL DEF Spec

\* With the intervals that read_options asks for, journal_rotate never deletes
\* the last record of a cached value: flush_thread_main has queued its file
\* before, whatever the clients, the writers and the jitter did to
\* last_flush_time, and whatever crashes came in between.
THEOREM RotationCorrect == Spec => []RotationSafe
<1>1. IInv /\ RotationInv => RotationSafe
  <2> SUFFICES ASSUME IInv, Journaling, RotatesInTime, NEW f \in Files,
                      NEW v \in Elems(vals[f]) \ unlogged[f], Recorded(f, v)
               PROVE  f \in Elems(queue) \/ InJournal(f, v)
    BY DEF RotationInv, RotationSafe, Elems
  <2>1. jold \in Seq(Entries) /\ jcur \in Seq(Entries)
    BY DEF IInv, JournalInv
  <2>2. InJournal(f, v) <=> InEntries(jold \o jcur, f, v)
    BY DEF InJournal, InEntries, Elems
  <2>3. InJournal(f, v) <=> InEntries(jold, f, v) \/ InEntries(jcur, f, v)
    BY <2>1, <2>2, InEitherFile
  <2> QED BY <2>3 DEF Recorded
<1> QED BY <1>1, RotationInductive, PTL


-------------------------------------------------------------------------------
(* What the replay rebuilds: ReplayRestoresCache.                          *)

\* When all the stamps are later than the last one, it is no matter which it is.
LEMMA TakenFromLater ==
    ASSUME NEW ss \in Seq(Nat), NEW last \in Nat, \A y \in Elems(ss) : last < y
    PROVE  Taken(ss, last) = Taken(ss, 0)
<1> DEFINE forward(l, i) == ss[i] > (IF i = 1 THEN l ELSE ss[i - 1])
           S(l) == {n \in 1 .. Len(ss) : \A i \in 1 .. n : forward(l, i)}
<1>1. Len(ss) \in Nat
  OBVIOUS
<1>2. \A i \in 1 .. Len(ss) : forward(last, i) <=> forward(0, i)
  <2> SUFFICES ASSUME NEW i \in 1 .. Len(ss) PROVE forward(last, i) <=> forward(0, i)
    OBVIOUS
  <2>1. ss[i] \in Nat /\ last < ss[i]
    BY DEF Elems, WQ!ElementsOf
  <2> QED BY <2>1
<1> HIDE DEF forward
<1>3. \A n \in 1 .. Len(ss) : \A i \in 1 .. n : i \in 1 .. Len(ss)
  BY <1>1
<1>4. S(last) = S(0)
  BY <1>2, <1>3
<1> HIDE DEF S
<1>5. /\ Taken(ss, last) = SubSeq(ss, 1, Cardinality(S(last)))
      /\ Taken(ss, 0) = SubSeq(ss, 1, Cardinality(S(0)))
  BY DEF Taken, S, forward
<1> QED BY <1>4, <1>5

\* The last stamp of a sequence is a member of it.
LEMMA LastIsMember ==
    ASSUME NEW q \in Seq(Nat), NEW d
    PROVE  LastOf(q, d) = d \/ LastOf(q, d) \in Elems(q)
<1>1. CASE q = <<>>
  BY <1>1 DEF LastOf
<1>2. CASE q # <<>>
  <2>1. Len(q) \in 1 .. Len(q)
    BY <1>2, EmptySeq
  <2> QED BY <1>2, <2>1 DEF LastOf, Elems, WQ!ElementsOf
<1> QED BY <1>1, <1>2

\* What an entry of the journal does to the item of f.
Replays(items, e, f, r) ==
    LET t == Taken(e.stamps, items[f].last)
    IN  /\ e.file # f => r[f] = items[f]
        /\ e.file = f /\ e.op = "update" =>
              /\ r[f].vals = items[f].vals \o t
              /\ r[f].last = LastOf(t, items[f].last)
        /\ e.file = f /\ e.op = "wrote" => r[f].last = items[f].last
        /\ e.file = f /\ e.op = "forget" => r[f].last = 0

LEMMA ReplayEntryAt ==
    ASSUME NEW items, ItemsOK(items), NEW e \in Entries, NEW f \in Files,
           f \in Existing, NEW r, r = ReplayEntry(items, e)
    PROVE  Replays(items, e, f, r)
<1> DEFINE it == items[e.file]
           t  == Taken(e.stamps, it.last)
           new == [here |-> TRUE, vals |-> it.vals \o t, last |-> LastOf(t, it.last)]
           old == [here |-> it.here, vals |-> <<>>, last |-> it.last]
           upd == e.op = "update" /\ e.file \in Existing
<1>1. r = IF upd THEN [items EXCEPT ![e.file] = new]
          ELSE IF e.op = "wrote" THEN [items EXCEPT ![e.file] = old]
          ELSE IF e.op = "forget" THEN [items EXCEPT ![e.file] = FreshItem]
          ELSE items
  BY DEF ReplayEntry
<1>2. /\ new.vals = it.vals \o t /\ new.last = LastOf(t, it.last)
      /\ old.last = it.last /\ FreshItem.last = 0
  BY DEF FreshItem
<1>3. DOMAIN items = Files
  BY DEF ItemsOK
<1> HIDE DEF new, old
<1>4. CASE e.file # f
  BY <1>1, <1>3, <1>4 DEF Replays
<1>5. CASE e.file = f
  <2> DEFINE u == Taken(e.stamps, items[f].last)
  <2>1. it = items[f] /\ t = u
    BY <1>5
  <2> HIDE DEF t, u, it
  <2>2. e.op = "update" => r[f] = new
    BY <1>1, <1>3, <1>5
  <2>3. e.op = "wrote" => r[f] = old
    BY <1>1, <1>3, <1>5
  <2>4. e.op = "forget" => r[f] = FreshItem
    BY <1>1, <1>3, <1>5
  <2> QED BY <1>2, <1>5, <2>1, <2>2, <2>3, <2>4 DEF u, Replays
<1> QED BY <1>4, <1>5

\* The replay after k entries.
Replayed(g, es) ==
    /\ Replay(es) = g[Len(es)]
    /\ g[0] = [h \in Files |-> FreshItem]
    /\ \A k \in 1 .. Len(es) : g[k] = ReplayEntry(g[k - 1], es[k])
    /\ \A k \in 0 .. Len(es) : ItemsOK(g[k])

\* es[i .. k] forgets nothing of f.
NotForgotten(es, f, i, k) ==
    \A n \in i .. k : es[n].file = f => es[n].op \in {"update", "wrote"}

UpdateOf(es, f, m) == es[m].op = "update" /\ es[m].file = f

\* last_update_stamp of a replayed item is a stamp of some update of the file
\* after which nothing forgot it.
LastIsJournaled(g, es, f, n) ==
    \/ g[n][f].last = 0
    \/ \E m \in 1 .. n : /\ UpdateOf(es, f, m)
                         /\ g[n][f].last \in Elems(es[m].stamps)
                         /\ NotForgotten(es, f, m, n)

LEMMA LastJournaledStep ==
    ASSUME NEW es \in Seq(Entries), NEW f \in Files, f \in Existing, NEW g,
           Replayed(g, es), NEW n \in 1 .. Len(es), LastIsJournaled(g, es, f, n - 1)
    PROVE  LastIsJournaled(g, es, f, n)
<1> DEFINE e == es[n]
           items == g[n - 1]
           t == Taken(e.stamps, items[f].last)
<1>0. Len(es) \in Nat /\ n \in Nat /\ n - 1 \in 0 .. Len(es)
  BY LenProperties
<1>1. e \in Entries /\ ItemsOK(items) /\ g[n] = ReplayEntry(items, e)
  BY <1>0, ElementOfSeq DEF Replayed
<1> HIDE DEF e, items
<1>2. /\ e.file # f => g[n][f] = items[f]
      /\ e.file = f /\ e.op = "update" => g[n][f].last = LastOf(t, items[f].last)
      /\ e.file = f /\ e.op = "wrote" => g[n][f].last = items[f].last
      /\ e.file = f /\ e.op = "forget" => g[n][f].last = 0
  <2>1. Replays(items, e, f, g[n])
    BY <1>1, ReplayEntryAt
  <2> QED BY <2>1 DEF Replays
<1>3. /\ e.op \in {"update", "wrote", "forget"} /\ e.stamps \in Seq(Nat)
      /\ items[f].last \in Nat
  BY <1>1 DEF Entries, ItemsOK, ItemType
<1>4. t \in Seq(Nat) /\ Elems(t) \subseteq Elems(e.stamps)
  BY <1>3, TakenProperties
<1> HIDE DEF t
<1>5. CASE g[n][f].last = items[f].last /\ ~(e.file = f /\ e.op = "forget")
  <2>1. CASE items[f].last = 0
    BY <1>5, <2>1 DEF LastIsJournaled
  <2>2. CASE items[f].last # 0
    <3>1. PICK m \in 1 .. n - 1 : /\ UpdateOf(es, f, m)
                                  /\ items[f].last \in Elems(es[m].stamps)
                                  /\ NotForgotten(es, f, m, n - 1)
      BY <2>2 DEF LastIsJournaled, items
    <3>2. NotForgotten(es, f, m, n)
      <4> SUFFICES ASSUME NEW k \in m .. n, es[k].file = f
                   PROVE  es[k].op \in {"update", "wrote"}
        BY DEF NotForgotten
      <4>1. CASE k = n
        BY <1>3, <1>5, <4>1 DEF e
      <4>2. CASE k # n
        <5>1. k \in m .. n - 1
          BY <1>0, <4>2
        <5> QED BY <3>1, <5>1 DEF NotForgotten
      <4> QED BY <4>1, <4>2
    <3>3. m \in 1 .. n
      BY <1>0
    <3> QED BY <1>5, <3>1, <3>2, <3>3 DEF LastIsJournaled
  <2> QED BY <2>1, <2>2
<1>6. CASE e.file = f /\ e.op = "update" /\ g[n][f].last \in Elems(t)
  <2>1. UpdateOf(es, f, n) /\ g[n][f].last \in Elems(es[n].stamps)
    BY <1>4, <1>6 DEF UpdateOf, e
  <2>2. NotForgotten(es, f, n, n)
    <3>1. \A k \in n .. n : k = n
      BY <1>0
    <3> QED BY <1>6, <3>1 DEF NotForgotten, e
  <2>3. n \in 1 .. n
    BY <1>0
  <2> QED BY <2>1, <2>2, <2>3 DEF LastIsJournaled
<1>7. CASE e.file = f /\ e.op = "forget"
  BY <1>2, <1>7 DEF LastIsJournaled
<1> QED BY <1>2, <1>3, <1>4, <1>5, <1>6, <1>7, LastIsMember

LEMMA LastJournaled ==
    ASSUME NEW es \in Seq(Entries), NEW f \in Files, f \in Existing, NEW g,
           Replayed(g, es), NEW n \in 0 .. Len(es)
    PROVE  LastIsJournaled(g, es, f, n)
<1> DEFINE Bad == {k \in 0 .. Len(es) : ~LastIsJournaled(g, es, f, k)}
<1> SUFFICES ASSUME Bad # {} PROVE FALSE
  OBVIOUS
<1>1. Len(es) \in Nat /\ Bad \in SUBSET Nat
  BY LenProperties
<1>2. PICK k \in Bad : \A m \in Bad : k <= m
  <2> HIDE DEF Bad
  <2> QED BY <1>1, Least
<1>3. k \in 0 .. Len(es) /\ ~LastIsJournaled(g, es, f, k)
  BY <1>2
<1>4. k # 0
  <2>1. g[0][f].last = 0
    BY DEF Replayed, FreshItem
  <2> QED BY <1>3, <2>1 DEF LastIsJournaled
<1>5. k \in 1 .. Len(es) /\ k - 1 \in 0 .. Len(es) /\ ~(k <= k - 1)
  BY <1>1, <1>3, <1>4
<1>6. LastIsJournaled(g, es, f, k - 1)
  <2>1. k - 1 \notin Bad
    <3> HIDE DEF Bad
    <3> QED BY <1>2, <1>5
  <2> QED BY <1>5, <2>1
<1> QED BY <1>3, <1>5, <1>6, LastJournaledStep

\* The journal's updates of f since it was last forgotten come in stamp order.
StampOrder(es, f) ==
    \A i, k \in 1 .. Len(es) :
        i < k /\ NotForgotten(es, f, i, k) /\ UpdateOf(es, f, i) /\ UpdateOf(es, f, k)
        => \A x \in Elems(es[i].stamps), y \in Elems(es[k].stamps) : x < y

\* What the replay takes of an update when the stamps are in order.
LEMMA UpdateReplayed ==
    ASSUME NEW es \in Seq(Entries), NEW f \in Files, f \in Existing, NEW g,
           Replayed(g, es), StampOrder(es, f), NEW i \in 1 .. Len(es),
           UpdateOf(es, f, i), NEW v \in Elems(Taken(es[i].stamps, 0))
    PROVE  v \in Elems(g[i][f].vals)
<1> DEFINE e == es[i]
           items == g[i - 1]
           last == items[f].last
           t == Taken(e.stamps, last)
<1>0. Len(es) \in Nat /\ i \in Nat /\ i - 1 \in 0 .. Len(es)
  BY LenProperties
<1>1. e \in Entries /\ ItemsOK(items) /\ g[i] = ReplayEntry(items, e)
  BY <1>0, ElementOfSeq DEF Replayed
<1>2. LastIsJournaled(g, es, f, i - 1)
  BY <1>0, LastJournaled
<1>3. e.file = f /\ e.op = "update"
  BY DEF UpdateOf
<1> HIDE DEF e, items
<1>4. e.stamps \in Seq(Nat) /\ last \in Nat /\ items[f].vals \in Seq(Nat)
  BY <1>1 DEF Entries, ItemsOK, ItemType
<1>5. g[i][f].vals = items[f].vals \o t
  <2>1. Replays(items, e, f, g[i])
    BY <1>1, ReplayEntryAt
  <2> QED BY <1>3, <2>1 DEF Replays
<1>6. t = Taken(e.stamps, 0)
  <2>1. CASE last = 0
    BY <2>1
  <2>2. CASE last # 0
    <3>1. PICK m \in 1 .. i - 1 : /\ UpdateOf(es, f, m)
                                  /\ last \in Elems(es[m].stamps)
                                  /\ NotForgotten(es, f, m, i - 1)
      BY <1>2, <2>2 DEF LastIsJournaled, items
    <3>2. NotForgotten(es, f, m, i)
      <4>1. \A k \in m .. i : k = i \/ k \in m .. i - 1
        BY <1>0
      <4> QED BY <1>3, <3>1, <4>1 DEF NotForgotten, e
    <3>3. m \in 1 .. Len(es) /\ m < i
      BY <1>0
    <3>4. \A y \in Elems(e.stamps) : last < y
      BY <3>1, <3>2, <3>3 DEF StampOrder, e
    <3> HIDE DEF last
    <3> QED BY <1>4, <3>4, TakenFromLater
  <2> QED BY <2>1, <2>2
<1> DEFINE q == items[f].vals
<1>7. t \in Seq(Nat) /\ v \in Elems(t)
  BY <1>4, <1>6, TakenType DEF e
<1>8. q \in Seq(Nat) /\ g[i][f].vals = q \o t
  BY <1>4, <1>5
<1> HIDE DEF t, q
<1>9. v \in Elems(q \o t)
  BY <1>7, <1>8, MemberOfSecond
<1> QED BY <1>8, <1>9

\* What the journal says is pending is what the replay rebuilds.
LEMMA PendingReplayed ==
    ASSUME NEW es \in Seq(Entries), NEW f \in Files, f \in Existing,
           StampOrder(es, f), NEW i \in 1 .. Len(es), UpdateOf(es, f, i),
           NEW v \in Elems(Taken(es[i].stamps, 0)),
           \A k \in i + 1 .. Len(es) : es[k].file = f => es[k].op = "update"
    PROVE  v \in Elems(Replay(es)[f].vals)
<1>1. PICK g : Replayed(g, es)
  BY ReplaySteps DEF Replayed
<1> DEFINE Bad == {n \in i .. Len(es) : v \notin Elems(g[n][f].vals)}
<1>2. Len(es) \in Nat /\ i \in Nat /\ Len(es) \in i .. Len(es)
  BY LenProperties
<1> SUFFICES ASSUME Bad # {} PROVE FALSE
  BY <1>1, <1>2 DEF Replayed
<1>3. Bad \in SUBSET Nat
  BY <1>2
<1>4. PICK n \in Bad : \A m \in Bad : n <= m
  <2> HIDE DEF Bad
  <2> QED BY <1>3, Least
<1>5. n \in i .. Len(es) /\ v \notin Elems(g[n][f].vals)
  BY <1>4
<1>6. n # i
  BY <1>1, <1>5, UpdateReplayed
<1>7. /\ n \in i + 1 .. Len(es) /\ n - 1 \in i .. Len(es) /\ ~(n <= n - 1)
      /\ n \in 1 .. Len(es) /\ n - 1 \in 0 .. Len(es)
  BY <1>2, <1>5, <1>6
<1>8. v \in Elems(g[n - 1][f].vals)
  <2>1. n - 1 \notin Bad
    <3> HIDE DEF Bad
    <3> QED BY <1>4, <1>7
  <2> QED BY <1>7, <2>1
<1> DEFINE e == es[n]
           items == g[n - 1]
           t == Taken(e.stamps, items[f].last)
           q == items[f].vals
<1>9. e \in Entries /\ ItemsOK(items) /\ g[n] = ReplayEntry(items, e)
  BY <1>1, <1>7, ElementOfSeq DEF Replayed
<1>10. e.file = f => e.op = "update"
  BY <1>7
<1> HIDE DEF Bad, e, items
<1>11. Replays(items, e, f, g[n])
  BY <1>9, ReplayEntryAt
<1>12. CASE e.file # f
  <2>1. g[n][f] = items[f]
    BY <1>12, <1>11 DEF Replays
  <2> QED BY <1>5, <1>8, <2>1 DEF items
<1>13. CASE e.file = f
  <2>1. g[n][f].vals = q \o t
    BY <1>10, <1>13, <1>11 DEF Replays
  <2>2. q \in Seq(Nat) /\ t \in Seq(Nat) /\ v \in Elems(q)
    <3>1. e.stamps \in Seq(Nat) /\ items[f] \in ItemType
      BY <1>9 DEF Entries, ItemsOK
    <3> QED BY <1>8, <3>1, TakenType DEF ItemType, items
  <2> HIDE DEF q, t
  <2>3. v \in Elems(q \o t)
    BY <2>2, MemberOfFirst
  <2> QED BY <1>5, <2>1, <2>3
<1> QED BY <1>12, <1>13

\* A start of rrdcached gives back every cached value whose update was journaled
\* and that no later entry says was written or forgotten, if the updates
\* journaled for the file came in the order of their stamps.
THEOREM ReplayCorrect == Spec => []ReplayRestoresCache
<1>1. IInv /\ ItemsInv => ReplayRestoresCache
  <2> DEFINE es == jold \o jcur
  <2> SUFFICES ASSUME IInv, ItemsInv, NEW f \in Files, InOrder(f),
                      NEW v \in Elems(vals[f]), StillPending(f, v)
               PROVE  v \in Elems(Replay(es)[f].vals)
    BY DEF ReplayRestoresCache, Elems
  <2>1. es \in Seq(Entries)
    BY ConcatProperties DEF IInv, JournalInv
  <2>2. f \in Existing
    BY NoValues DEF IInv, CacheInv, ItemsInv
  <2>3. StampOrder(es, f)
    BY DEF InOrder, StampOrder, NotForgotten, UpdateOf, Elems
  <2>4. PICK i \in 1 .. Len(es) :
            /\ UpdateOf(es, f, i) /\ v \in Elems(Taken(es[i].stamps, 0))
            /\ \A k \in i + 1 .. Len(es) : es[k].file = f => es[k].op = "update"
    BY DEF StillPending, UpdateOf, Elems
  <2> HIDE DEF es
  <2> QED BY <2>1, <2>2, <2>3, <2>4, PendingReplayed
<1> QED BY <1>1, LedgerInductive, PTL
===============================================================================
