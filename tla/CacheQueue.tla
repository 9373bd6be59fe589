------------------------------ MODULE CacheQueue ------------------------------
(***************************************************************************)
(* The update queue of rrdcached as rrd_daemon.c keeps it: cache items     *)
(* linked through next and prev, the two ends in cache_queue_head and      *)
(* cache_queue_tail, CI_FLAGS_IN_QUEUE on each linked item and the length  *)
(* in stats_queue_length.  Every operation here runs under cache_lock, so  *)
(* one call is one action.                                                 *)
(*                                                                         *)
(* `order' is a history variable: the sequence the list stands for.  No    *)
(* guard reads it; ListRepresents relates it to the pointers.              *)
(***************************************************************************)
EXTENDS Naturals, Sequences

CONSTANTS
    Items,      \* the cache items, one for each file
    NULL,
    MaxValues   \* bound on the values an item accumulates

ASSUME CacheQueueAssumption ==
    /\ NULL \notin Items
    /\ MaxValues \in Nat \ {0}

VARIABLES
    tree,       \* the allocated items: the values of cache_tree
    values_num, \* the number of values each item holds
    list,       \* the queue: head, tail, next, prev, queued, length
    order

vars == <<tree, values_num, list, order>>

WQ == INSTANCE WriteQueue WITH queue <- order,
                               ready <- {ci \in Items : values_num[ci] > 0}

-------------------------------------------------------------------------------
(* The pointer operations, as functions of the list.                       *)

EmptyList ==
    [head |-> NULL, tail |-> NULL,
     next |-> [ci \in Items |-> NULL], prev |-> [ci \in Items |-> NULL],
     queued |-> {}, length |-> 0]

\* links with the pointer of item `at' (unless that is NULL) set to `to'.
relink(links, at, to) == [x \in Items |-> IF x = at THEN to ELSE links[x]]

\* Unlinks a linked item: its neighbours, or the ends, skip it.
unlink(l, ci) ==
    LET p == l.prev[ci]
        n == l.next[ci]
    IN  [head   |-> IF p = NULL THEN n ELSE l.head,
         tail   |-> IF n = NULL THEN p ELSE l.tail,
         next   |-> relink(relink(l.next, p, n), ci, NULL),
         prev   |-> relink(relink(l.prev, n, p), ci, NULL),
         queued |-> l.queued \ {ci},
         length |-> l.length - 1]

link_at_head(l, ci) ==
    [head   |-> ci,
     tail   |-> IF l.tail = NULL THEN ci ELSE l.tail,
     next   |-> relink(l.next, ci, l.head),
     prev   |-> relink(relink(l.prev, l.head, ci), ci, NULL),
     queued |-> l.queued \cup {ci},
     length |-> l.length + 1]

link_at_tail(l, ci) ==
    [head   |-> IF l.tail = NULL THEN ci ELSE l.head,
     tail   |-> ci,
     next   |-> relink(l.next, l.tail, ci),
     prev   |-> relink(l.prev, ci, l.tail),
     queued |-> l.queued \cup {ci},
     length |-> l.length + 1]

remove_unchecked(l, ci) == unlink(l, ci)

remove_from_queue(l, ci) == IF ci \in l.queued THEN unlink(l, ci) ELSE l

enqueue_head_in_place(l, ci) ==
    IF l.head = ci THEN l ELSE link_at_head(l, ci)

\* enqueue_cache_item (ci, HEAD), for an item that holds values.
enqueue_head(l, ci) ==
    IF l.head = ci THEN l ELSE link_at_head(remove_from_queue(l, ci), ci)

enqueue_tail_again(l, ci) == link_at_tail(l, ci)

\* enqueue_cache_item (ci, TAIL): a queued item is not moved back.
enqueue_tail(l, ci) == IF ci \in l.queued THEN l ELSE link_at_tail(l, ci)

-------------------------------------------------------------------------------
Init ==
    /\ tree = {}
    /\ values_num = [ci \in Items |-> 0]
    /\ list = EmptyList
    /\ order = <<>>

\* handle_request_update, no entry yet: the new item enters cache_tree zeroed.
Insert(ci) ==
    /\ ci \notin tree
    /\ tree' = tree \cup {ci}
    /\ UNCHANGED <<values_num, list, order>>

\* handle_request_update: one more value, and the item is queued if its last
\* write is config_write_interval ago (due).
Update(ci, due) ==
    /\ ci \in tree
    /\ values_num[ci] < MaxValues
    /\ values_num' = [values_num EXCEPT ![ci] = @ + 1]
    /\ list'  = IF due THEN enqueue_tail(list, ci) ELSE list
    /\ order' = IF due THEN WQ!AtTail(order, ci) ELSE order
    /\ UNCHANGED tree

FlushOldEvenIfEmpty(ci) ==
    /\ ci \in tree \ list.queued
    /\ list'  = enqueue_tail(list, ci)
    /\ order' = WQ!AtTail(order, ci)
    /\ UNCHANGED <<tree, values_num>>

\* tree_callback_flush on an item with values.
FlushOld(ci) ==
    /\ ci \in tree \ list.queued
    /\ values_num[ci] > 0
    /\ list'  = enqueue_tail(list, ci)
    /\ order' = WQ!AtTail(order, ci)
    /\ UNCHANGED <<tree, values_num>>

\* flush_file: to the head of the queue, from wherever the item is.
Flush(ci) ==
    /\ ci \in tree
    /\ values_num[ci] > 0
    /\ list'  = enqueue_head(list, ci)
    /\ order' = WQ!AtHead(order, ci)
    /\ UNCHANGED <<tree, values_num>>

\* queue_thread_main takes the values of the head and unlinks it.
Take ==
    /\ list.head # NULL
    /\ values_num' = [values_num EXCEPT ![list.head] = 0]
    /\ list'  = remove_from_queue(list, list.head)
    /\ order' = Tail(order)
    /\ UNCHANGED tree

\* g_tree_remove calls free_cache_item (FORGET, and the purge of old items).
FreeKeepingLinks(ci) ==
    /\ ci \in tree
    /\ tree' = tree \ {ci}
    /\ values_num' = [values_num EXCEPT ![ci] = 0]
    /\ order' = WQ!Without(order, ci)
    /\ UNCHANGED list

Free(ci) ==
    /\ ci \in tree
    /\ tree' = tree \ {ci}
    /\ values_num' = [values_num EXCEPT ![ci] = 0]
    /\ list'  = remove_from_queue(list, ci)
    /\ order' = WQ!Without(order, ci)

\* handle_request_wrote, a "wrote" line met in the journal.
Wrote(ci) ==
    /\ ci \in tree
    /\ values_num' = [values_num EXCEPT ![ci] = 0]
    /\ list'  = remove_from_queue(list, ci)
    /\ order' = WQ!Without(order, ci)
    /\ UNCHANGED tree

Next ==
    \/ \E ci \in Items :
          \/ Insert(ci)
          \/ \E due \in BOOLEAN : Update(ci, due)
          \/ FlushOld(ci)
          \/ Flush(ci)
          \/ Free(ci)
          \/ Wrote(ci)
    \/ Take

Spec == Init /\ [][Next]_vars

-------------------------------------------------------------------------------
\* The list handle_request_queue prints: at most n items from ci along next.
walk[n \in Nat] ==
    [ci \in Items \cup {NULL} |->
        IF n = 0 \/ ci = NULL THEN <<>>
        ELSE <<ci>> \o walk[n - 1][list.next[ci]]]

-------------------------------------------------------------------------------
TypeOK ==
    /\ tree \subseteq Items
    /\ values_num \in [Items -> Nat]
    /\ list.head \in Items \cup {NULL}
    /\ list.tail \in Items \cup {NULL}
    /\ list.next \in [Items -> Items \cup {NULL}]
    /\ list.prev \in [Items -> Items \cup {NULL}]
    /\ list.queued \subseteq Items
    /\ list.length \in Nat
    /\ order \in Seq(Items)

\* The list l stands for the sequence q.
Represents(l, q) ==
    /\ \A i, j \in 1 .. Len(q) : q[i] = q[j] => i = j
    /\ l.queued = WQ!ElementsOf(q)
    /\ l.length = Len(q)
    /\ l.head = IF q = <<>> THEN NULL ELSE q[1]
    /\ l.tail = IF q = <<>> THEN NULL ELSE q[Len(q)]
    /\ \A i \in 1 .. Len(q) :
          /\ l.next[q[i]] = IF i = Len(q) THEN NULL ELSE q[i + 1]
          /\ l.prev[q[i]] = IF i = 1 THEN NULL ELSE q[i - 1]
    /\ \A ci \in Items \ l.queued : l.next[ci] = NULL /\ l.prev[ci] = NULL

\* Forwards, backwards, both ends, flags and counter of the linked list agree
\* on one sequence without repetition, whatever mixture of UPDATE, FLUSH,
\* FORGET, timed flush and writer steps built it.  The asserts of
\* remove_from_queue (length > 0) and of enqueue_cache_item (next and prev
\* NULL before a TAIL insertion) are consequences.
ListRepresents == Represents(list, order)

\* What is linked is alive and has something to write: no freed item stays
\* reachable from the queue, and the assert (ci->values_num > 0) of
\* queue_thread_main holds for whatever item a writer finds at the head.
QueuedItemsAreLive ==
    \A ci \in list.queued : ci \in tree /\ values_num[ci] > 0

\* An item outside the tree holds nothing, so that the zeroed item a later
\* UPDATE inserts for the same file starts empty and unlinked.
FreedItemsAreEmpty ==
    \A ci \in Items \ tree : values_num[ci] = 0 /\ ci \notin list.queued

\* QUEUE prints every queued item exactly once, in the order of writing: the
\* walk along next from the head meets NULL after stats_queue_length items.
QueueCommandShowsOrder ==
    /\ walk[list.length][list.head] = order
    /\ walk[list.length + 1][list.head] = order

\* The linked list implements the queue of WriteQueue.
ImplementsWriteQueue == WQ!Spec
===============================================================================
