------------------------------ MODULE WriteQueue ------------------------------
(***************************************************************************)
(* What rrdcached promises of its update queue (rrd_daemon.c): the files   *)
(* to be written, in order, each at most once.  A file goes to the tail    *)
(* when its values are old enough, to the head when a client asks for a    *)
(* FLUSH, and the writer threads take from the head.  CacheQueue is the    *)
(* doubly linked list that implements this sequence.                       *)
(***************************************************************************)
EXTENDS Naturals, Sequences

CONSTANT Items

VARIABLES
    queue,      \* the files to be written, in order
    ready       \* the files that have values to write

wqvars == <<queue, ready>>

ElementsOf(q) == {q[i] : i \in 1 .. Len(q)}

\* The sequence q without its occurrence of x (q holds x at most once).
Without(q, x) ==
    IF x \notin ElementsOf(q)
    THEN q
    ELSE LET k == CHOOSE i \in 1 .. Len(q) : q[i] = x
         IN  [i \in 1 .. Len(q) - 1 |-> IF i < k THEN q[i] ELSE q[i + 1]]

AtHead(q, x) == <<x>> \o Without(q, x)

AtTail(q, x) == IF x \in ElementsOf(q) THEN q ELSE Append(q, x)

Init == queue = <<>> /\ ready = {}

\* A value arrives; its file may be queued at once.
Submit(x) ==
    /\ ready' = ready \cup {x}
    /\ queue' \in {queue, AtTail(queue, x)}

PutAtTail(x) ==
    /\ x \in ready
    /\ queue' = AtTail(queue, x)
    /\ UNCHANGED ready

PutAtHead(x) ==
    /\ x \in ready
    /\ queue' = AtHead(queue, x)
    /\ UNCHANGED ready

\* A writer takes the first file, with all of its values.
Take ==
    /\ queue # <<>>
    /\ queue' = Tail(queue)
    /\ ready' = ready \ {Head(queue)}

\* The file's values are thrown away.
Discard(x) ==
    /\ queue' = Without(queue, x)
    /\ ready' = ready \ {x}

Next ==
    \/ \E x \in Items : Submit(x) \/ PutAtTail(x) \/ PutAtHead(x) \/ Discard(x)
    \/ Take

Spec == Init /\ [][Next]_wqvars
===============================================================================
