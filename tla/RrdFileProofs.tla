---------------------------- MODULE RrdFileProofs ----------------------------
(***************************************************************************)
(* The RRD file keeps its shape: whatever the commands, every archive has  *)
(* its rows, its cursor is inside, every row and scratch area has an entry *)
(* for each data source.  From there: a dump that is restored shows what   *)
(* the RRD showed.                                                         *)
(***************************************************************************)
EXTENDS RrdFile, NaturalLemmas

-----------------------------------------------------------------------------
(* The shape of an RRD.                                                      *)
RrdFields == {"version", "step", "lastUp", "ds", "rra", "pdp", "cdp", "cur", "data"}
Viols(c) == "viol" \in DOMAIN c /\ c.viol = [k \in 1 .. MAX_FAILURES_WINDOW_LEN |-> c.viol[k]]

RraOk(def) ==
    /\ {"cf", "rowCnt", "pdpCnt"} \subseteq DOMAIN def
    /\ def.rowCnt \in Nat \ {0} /\ def.pdpCnt \in Nat \ {0}
    /\ def.cf = "FAILURES" => def.pdpCnt = 1 /\ "window" \in DOMAIN def
                              /\ def.window \in 1 .. MAX_FAILURES_WINDOW_LEN
    /\ def.cf \in SeasonCfs => "gamma" \in DOMAIN def
DefsOk(rrd) ==
    /\ DOMAIN rrd = RrdFields
    /\ rrd.version \in {3, 4} /\ rrd.step \in Nat \ {0} /\ rrd.lastUp \in Int
    /\ IsList(rrd.ds) /\ Len(rrd.ds) >= 1 /\ IsList(rrd.rra)
    /\ \A i \in Rras(rrd) : RraOk(rrd.rra[i])
CdpOk(rrd, i) ==
    /\ rrd.cdp[i] = [d \in Dss(rrd) |-> rrd.cdp[i][d]]
    /\ rrd.rra[i].cf = "FAILURES" => \A d \in Dss(rrd) : Viols(rrd.cdp[i][d])
ScratchOk(rrd) ==
    /\ rrd.pdp = [d \in Dss(rrd) |-> rrd.pdp[d]]
    /\ \A d \in Dss(rrd) : "last" \in DOMAIN rrd.pdp[d]
    /\ DOMAIN rrd.cdp = Rras(rrd)
    /\ \A i \in Rras(rrd) : CdpOk(rrd, i)
RowsOk(rrd) ==
    /\ DOMAIN rrd.cur = Rras(rrd) /\ DOMAIN rrd.data = Rras(rrd)
    /\ \A i \in Rras(rrd) :
         /\ rrd.cur[i] \in 0 .. rrd.rra[i].rowCnt - 1
         /\ DOMAIN rrd.data[i] = 0 .. rrd.rra[i].rowCnt - 1
         /\ \A r \in DOMAIN rrd.data[i] :
              rrd.data[i][r] = [d \in Dss(rrd) |-> rrd.data[i][r][d]]
Shape(rrd) == DefsOk(rrd) /\ ScratchOk(rrd) /\ RowsOk(rrd)

(* q holds the same archives and data sources as rrd; nothing has been read  *)
(* and no time has passed between them.                                      *)
Same(rrd, q) ==
    q.ds = rrd.ds /\ q.rra = rrd.rra /\ q.step = rrd.step /\ q.version = rrd.version
Still(rrd, q) ==
    q.lastUp = rrd.lastUp /\ \A d \in Dss(rrd) : q.pdp[d].last = rrd.pdp[d].last
Keeps(rrd, q) == Shape(q) /\ Same(rrd, q) /\ Still(rrd, q)

\* Only the scratch areas change, one for each data source remains (the
\* operations of an update before the rows are written).
LEMMA ScratchKeeps ==
    ASSUME NEW q, Shape(q), NEW p, DOMAIN p = RrdFields,
           \A x \in RrdFields \ {"pdp", "cdp"} : p[x] = q[x], ScratchOk(p),
           \A d \in Dss(q) : p.pdp[d].last = q.pdp[d].last
    PROVE  Keeps(q, p)
<1>1. /\ p.ds = q.ds /\ p.rra = q.rra /\ p.step = q.step /\ p.version = q.version
      /\ p.lastUp = q.lastUp /\ p.cur = q.cur /\ p.data = q.data
  BY DEF RrdFields
<1>2. Dss(p) = Dss(q) /\ Rras(p) = Rras(q)
  BY <1>1 DEF Dss, Rras
<1>3. DefsOk(p)
  BY <1>1, <1>2 DEF Shape, DefsOk
<1>4. RowsOk(p)
  BY <1>1, <1>2 DEF Shape, RowsOk
<1> QED BY <1>1, <1>3, <1>4 DEF Shape, Keeps, Same, Still

\* One scratch area of an archive changes; that of a FAILURES archive keeps
\* its history.
LEMMA PutCdp ==
    ASSUME NEW q, Shape(q), NEW i \in Rras(q), NEW d \in Dss(q), NEW c,
           q.rra[i].cf = "FAILURES" => Viols(c)
    PROVE  Keeps(q, [q EXCEPT !.cdp[i][d] = c])
<1> DEFINE p == [q EXCEPT !.cdp[i][d] = c]
<1>1. DOMAIN p = RrdFields /\ \A x \in RrdFields \ {"cdp"} : p[x] = q[x]
  BY DEF Shape, DefsOk
<1>2. p.cdp = [q.cdp EXCEPT ![i][d] = c]
  BY DEF Shape, DefsOk, RrdFields
<1>3. p.ds = q.ds /\ p.rra = q.rra /\ p.pdp = q.pdp
  BY <1>1 DEF RrdFields
<1>4. Dss(p) = Dss(q) /\ Rras(p) = Rras(q)
  BY <1>3 DEF Dss, Rras
<1> HIDE DEF p
<1>5. ScratchOk(p)
  <2>1. /\ DOMAIN p.cdp = Rras(p) /\ p.pdp = [e \in Dss(p) |-> p.pdp[e]]
        /\ \A e \in Dss(p) : "last" \in DOMAIN p.pdp[e]
    BY <1>2, <1>3, <1>4 DEF Shape, ScratchOk
  <2>2. ASSUME NEW j \in Rras(p) PROVE CdpOk(p, j)
    <3>1. CdpOk(q, j)
      BY <1>4 DEF Shape, ScratchOk
    <3>2. CASE j # i
      <4>1. p.cdp[j] = q.cdp[j]
        BY <1>2, <1>4, <3>2 DEF Shape, ScratchOk
      <4> QED BY <1>3, <1>4, <3>1, <4>1 DEF CdpOk
    <3>3. CASE j = i
      <4>1. p.cdp[j] = [q.cdp[i] EXCEPT ![d] = c]
        BY <1>2, <1>4, <3>3 DEF Shape, ScratchOk
      <4>2. DOMAIN q.cdp[i] = Dss(q)
        BY <3>1, <3>3 DEF CdpOk
      <4>3. p.cdp[j] = [e \in Dss(p) |-> p.cdp[j][e]]
        BY <1>4, <4>1, <4>2
      <4>4. p.rra[j].cf = "FAILURES" => \A e \in Dss(p) : Viols(p.cdp[j][e])
        <5> SUFFICES ASSUME p.rra[j].cf = "FAILURES", NEW e \in Dss(p) PROVE Viols(p.cdp[j][e])
          OBVIOUS
        <5>1. CASE e = d
          BY <1>3, <3>3, <4>1, <4>2, <5>1
        <5>2. CASE e # d
          BY <1>3, <1>4, <3>1, <3>3, <4>1, <4>2, <5>2 DEF CdpOk
        <5> QED BY <5>1, <5>2
      <4> QED BY <4>3, <4>4 DEF CdpOk
    <3> QED BY <3>2, <3>3
  <2> QED BY <2>1, <2>2 DEF ScratchOk
<1>6. Keeps(q, p)
  BY <1>1, <1>3, <1>5, ScratchKeeps
<1> QED BY <1>6 DEF p

\* What keeps an RRD twice keeps it.
LEMMA KeepsOn ==
    ASSUME NEW r, NEW q, NEW p, Keeps(r, q), Keeps(q, p)
    PROVE  Keeps(r, p) /\ Rras(p) = Rras(r) /\ Dss(p) = Dss(r)
BY DEF Keeps, Same, Still, Rras, Dss

\* One value of a scratch area changes.
LEMMA PutSlot ==
    ASSUME NEW q, Shape(q), NEW i \in Rras(q), NEW d \in Dss(q), NEW s, s # "viol", NEW v
    PROVE  Keeps(q, [q EXCEPT !.cdp[i][d][s] = v])
<1> DEFINE c == [q.cdp[i][d] EXCEPT ![s] = v]
<1>1. [q EXCEPT !.cdp[i][d][s] = v] = [q EXCEPT !.cdp[i][d] = c]
  OBVIOUS
<1>2. q.rra[i].cf = "FAILURES" => Viols(c)
  <2>1. q.rra[i].cf = "FAILURES" => Viols(q.cdp[i][d])
    BY DEF Shape, ScratchOk, CdpOk
  <2> QED BY <2>1 DEF Viols
<1> HIDE DEF c
<1>3. Keeps(q, [q EXCEPT !.cdp[i][d] = c])
  BY <1>2, PutCdp
<1> QED BY <1>1, <1>3

Slots == {"primary", "secondary"}

-----------------------------------------------------------------------------
(* Holt-Winters forecasting and failure detection.                           *)

\* A forecast changes its own scratch area.
LEMMA PredictKeeps ==
    ASSUME NEW q, Shape(q), NEW i \in Rras(q), NEW d \in Dss(q), NEW s,
           q.rra[i].cf # "FAILURES"
    PROVE  Keeps(q, update_hwpredict(q, i, d, s))
<1>1. PICK c : update_hwpredict(q, i, d, s) = [q EXCEPT !.cdp[i][d] = c]
  BY DEF update_hwpredict
<1> QED BY <1>1, PutCdp

\* A seasonal coefficient changes its own scratch area (SEASONAL).
LEMMA SeasonKeeps ==
    ASSUME NEW q, Shape(q), NEW i \in Rras(q), NEW d \in Dss(q), NEW s, NEW next,
           q.rra[i].cf # "FAILURES"
    PROVE  Keeps(q, update_seasonal(q, i, d, s, next))
<1>1. PICK c : update_seasonal(q, i, d, s, next) = [q EXCEPT !.cdp[i][d] = c]
  BY DEF update_seasonal
<1> QED BY <1>1, PutCdp

\* So does a seasonal deviation (DEVSEASONAL).
LEMMA DeviationKeeps ==
    ASSUME NEW q, Shape(q), NEW i \in Rras(q), NEW d \in Dss(q), NEW s, NEW next,
           q.rra[i].cf # "FAILURES"
    PROVE  Keeps(q, update_devseasonal(q, i, d, s, next))
<1>1. PICK c : update_devseasonal(q, i, d, s, next) = [q EXCEPT !.cdp[i][d] = c]
  BY DEF update_devseasonal
<1> QED BY <1>1, PutCdp

\* So does a predicted deviation (DEVPREDICT).
LEMMA BandKeeps ==
    ASSUME NEW q, Shape(q), NEW i \in Rras(q), NEW d \in Dss(q), NEW s, s # "viol"
    PROVE  Keeps(q, update_devpredict(q, i, d, s))
<1> DEFINE c == CoefAt(q, Dep(q, i), i, d)
<1>1. update_devpredict(q, i, d, s) = [q EXCEPT !.cdp[i][d][s] = c]
  BY DEF update_devpredict
<1> HIDE DEF c
<1>2. Keeps(q, [q EXCEPT !.cdp[i][d][s] = c])
  BY PutSlot
<1> QED BY <1>1, <1>2

\* The history of a FAILURES archive moves on by one and keeps its length.
LEMMA FailuresKeep ==
    ASSUME NEW q, Shape(q), NEW i \in Rras(q), NEW d \in Dss(q), NEW s \in Slots,
           q.rra[i].cf = "FAILURES"
    PROVE  Keeps(q, update_failures(q, i, d, s))
<1>1. Viols(q.cdp[i][d])
  BY DEF Shape, ScratchOk, CdpOk
<1>2. PICK e, v : /\ update_failures(q, i, d, s) =
                       [q EXCEPT !.cdp[i][d] = [q.cdp[i][d] EXCEPT !.viol = e, ![s] = v]]
                  /\ e = [k \in 1 .. MAX_FAILURES_WINDOW_LEN |-> e[k]]
  <2>1. PICK first :
          \E v : update_failures(q, i, d, s) =
                   [q EXCEPT !.cdp[i][d] =
                      [q.cdp[i][d] EXCEPT
                         !.viol = [k \in 1 .. MAX_FAILURES_WINDOW_LEN |->
                            IF k = 1 THEN first
                            ELSE IF k <= q.rra[i].window THEN q.cdp[i][d].viol[k - 1]
                            ELSE q.cdp[i][d].viol[k]],
                         ![s] = v]]
    BY Zenon DEF update_failures
  <2> DEFINE e == [k \in 1 .. MAX_FAILURES_WINDOW_LEN |->
                            IF k = 1 THEN first
                            ELSE IF k <= q.rra[i].window THEN q.cdp[i][d].viol[k - 1]
                            ELSE q.cdp[i][d].viol[k]]
  <2>2. e = [k \in 1 .. MAX_FAILURES_WINDOW_LEN |-> e[k]]
    OBVIOUS
  <2>3. \E v : update_failures(q, i, d, s) =
                 [q EXCEPT !.cdp[i][d] = [q.cdp[i][d] EXCEPT !.viol = e, ![s] = v]]
    BY <2>1
  <2> HIDE DEF e
  <2> QED BY <2>2, <2>3
<1> DEFINE c == [q.cdp[i][d] EXCEPT !.viol = e, ![s] = v]
<1>3. Viols(c)
  BY <1>1, <1>2 DEF Viols, Slots
<1> HIDE DEF c
<1>4. Keeps(q, [q EXCEPT !.cdp[i][d] = c])
  BY <1>3, PutCdp
<1> QED BY <1>2, <1>4 DEF c

\* Whatever its archive, an observed value changes one scratch area.
LEMMA AberrantKeeps ==
    ASSUME NEW q, Shape(q), NEW i \in Rras(q), NEW d \in Dss(q), NEW s \in Slots,
           NEW x, NEW next
    PROVE  Keeps(q, update_aberrant_CF(q, x, i, d, s, next))
<1> DEFINE p == [q EXCEPT !.cdp[i][d][s] = x]
<1>1. Keeps(q, p)
  BY PutSlot DEF Slots
<1>2. update_aberrant_CF(q, x, i, d, s, next) =
        CASE p.rra[i].cf \in PredictionCfs -> update_hwpredict(p, i, d, s)
          [] p.rra[i].cf = "DEVPREDICT"    -> update_devpredict(p, i, d, s)
          [] p.rra[i].cf = "SEASONAL"      -> update_seasonal(p, i, d, s, next)
          [] p.rra[i].cf = "DEVSEASONAL"   -> update_devseasonal(p, i, d, s, next)
          [] p.rra[i].cf = "FAILURES"      -> update_failures(p, i, d, s)
          [] OTHER                         -> p
  BY DEF update_aberrant_CF
<1> HIDE DEF p
<1>3. Shape(p) /\ i \in Rras(p) /\ d \in Dss(p)
  BY <1>1 DEF Keeps, Same, Rras, Dss
<1> DEFINE z == update_aberrant_CF(q, x, i, d, s, next)
           cf == p.rra[i].cf
<1>4. /\ cf \in PredictionCfs => z = update_hwpredict(p, i, d, s)
      /\ cf = "DEVPREDICT" => z = update_devpredict(p, i, d, s)
      /\ cf = "SEASONAL" => z = update_seasonal(p, i, d, s, next)
      /\ cf = "DEVSEASONAL" => z = update_devseasonal(p, i, d, s, next)
      /\ cf = "FAILURES" => z = update_failures(p, i, d, s)
      /\ cf \notin PredictionCfs \cup {"DEVPREDICT", "SEASONAL", "DEVSEASONAL", "FAILURES"} => z = p
  BY <1>2 DEF PredictionCfs
<1> HIDE DEF z
<1>5. Keeps(p, z)
  <2>1. CASE cf \in PredictionCfs
    BY <1>3, <1>4, <2>1, PredictKeeps DEF PredictionCfs
  <2>2. CASE cf = "DEVPREDICT"
    BY <1>3, <1>4, <2>2, BandKeeps DEF Slots
  <2>3. CASE cf = "SEASONAL"
    BY <1>3, <1>4, <2>3, SeasonKeeps
  <2>4. CASE cf = "DEVSEASONAL"
    BY <1>3, <1>4, <2>4, DeviationKeeps
  <2>5. CASE cf = "FAILURES"
    BY <1>3, <1>4, <2>5, FailuresKeep
  <2>6. CASE cf \notin PredictionCfs \cup {"DEVPREDICT", "SEASONAL", "DEVSEASONAL", "FAILURES"}
    BY <1>3, <1>4, <2>6 DEF Keeps, Same, Still
  <2> QED BY <2>1, <2>2, <2>3, <2>4, <2>5, <2>6
<1>6. Keeps(q, z)
  BY <1>1, <1>5, KeepsOn
<1> QED BY <1>6 DEF z

\* Forgetting violations keeps the length of the history.
LEMMA EraseKeeps ==
    ASSUME NEW q, Shape(q), NEW i \in Rras(q), NEW d \in Dss(q)
    PROVE  Keeps(q, erase_violations(q, i, d))
<1>1. PICK e : /\ erase_violations(q, i, d) = [q EXCEPT !.cdp[i][d].viol = e]
               /\ e = [k \in 1 .. MAX_FAILURES_WINDOW_LEN |-> e[k]]
  <2> DEFINE e == [k \in 1 .. MAX_FAILURES_WINDOW_LEN |->
                     IF k <= q.rra[i].window THEN 0 ELSE q.cdp[i][d].viol[k]]
  <2>1. erase_violations(q, i, d) = [q EXCEPT !.cdp[i][d].viol = e]
    BY DEF erase_violations
  <2>2. e = [k \in 1 .. MAX_FAILURES_WINDOW_LEN |-> e[k]]
    OBVIOUS
  <2> HIDE DEF e
  <2> QED BY <2>1, <2>2
<1> DEFINE c == [q.cdp[i][d] EXCEPT !.viol = e]
<1>2. q.rra[i].cf = "FAILURES" => Viols(c)
  <2>1. q.rra[i].cf = "FAILURES" => Viols(q.cdp[i][d])
    BY DEF Shape, ScratchOk, CdpOk
  <2> QED BY <1>1, <2>1 DEF Viols
<1>3. [q EXCEPT !.cdp[i][d].viol = e] = [q EXCEPT !.cdp[i][d] = c]
  OBVIOUS
<1> HIDE DEF c
<1>4. Keeps(q, [q EXCEPT !.cdp[i][d] = c])
  BY <1>2, PutCdp
<1> QED BY <1>1, <1>3, <1>4

\* A gap empties the scratch area of an archive of one point per row.
LEMMA ResetKeeps ==
    ASSUME NEW q, Shape(q), NEW i \in Rras(q), NEW d \in Dss(q),
           NEW elapsed, NEW rate, NEW last, NEW next
    PROVE  Keeps(q, reset_cdp(q, elapsed, rate, last, next, i, d))
<1> DEFINE cf == q.rra[i].cf
           z == reset_cdp(q, elapsed, rate, last, next, i, d)
           unknown == [q.cdp[i][d] EXCEPT !.primary = NaN, !.secondary = NaN]
           forgot == [unknown EXCEPT !.nulls = @ + elapsed, !.lastNulls = @ + elapsed - 1]
           e == erase_violations(q, i, d)
<1>1. /\ cf \in SeasonCfs =>
           z = [q EXCEPT !.cdp[i][d].lastCoef = last[d], !.cdp[i][d].coef = next[d]]
      /\ cf \in PredictionCfs => z = [q EXCEPT !.cdp[i][d] = forgot]
      /\ cf = "DEVPREDICT" => z = [q EXCEPT !.cdp[i][d] = unknown]
      /\ cf = "FAILURES" => z = [e EXCEPT !.cdp[i][d].primary = 0, !.cdp[i][d].secondary = 0]
      /\ cf \notin SeasonCfs \cup PredictionCfs \cup {"DEVPREDICT", "FAILURES"} =>
           z = [q EXCEPT !.cdp[i][d].primary = rate, !.cdp[i][d].secondary = rate]
  BY DEF reset_cdp, SeasonCfs, PredictionCfs
<1> SUFFICES Keeps(q, z)
  OBVIOUS
<1> HIDE DEF z, unknown, forgot, e
<1>2. ASSUME NEW p, Shape(p), i \in Rras(p), d \in Dss(p), NEW s, NEW t, NEW v, NEW w,
             s # "viol", t # "viol"
      PROVE  Keeps(p, [p EXCEPT !.cdp[i][d][s] = v, !.cdp[i][d][t] = w])
  <2> DEFINE g == [p EXCEPT !.cdp[i][d][s] = v]
  <2>1. [p EXCEPT !.cdp[i][d][s] = v, !.cdp[i][d][t] = w] = [g EXCEPT !.cdp[i][d][t] = w]
    OBVIOUS
  <2>2. Keeps(p, g)
    BY <1>2, PutSlot
  <2> HIDE DEF g
  <2>3. Shape(g) /\ i \in Rras(g) /\ d \in Dss(g)
    BY <1>2, <2>2 DEF Keeps, Same, Rras, Dss
  <2>4. Keeps(g, [g EXCEPT !.cdp[i][d][t] = w])
    BY <1>2, <2>3, PutSlot
  <2> QED BY <2>1, <2>2, <2>4, KeepsOn
<1>3. CASE cf \in SeasonCfs
  <2>1. Keeps(q, [q EXCEPT !.cdp[i][d]["lastCoef"] = last[d], !.cdp[i][d]["coef"] = next[d]])
    BY <1>2
  <2> QED BY <1>1, <1>3, <2>1
<1>4. CASE cf \in PredictionCfs
  BY <1>1, <1>4, PutCdp DEF PredictionCfs
<1>5. CASE cf = "DEVPREDICT"
  BY <1>1, <1>5, PutCdp
<1>6. CASE cf = "FAILURES"
  <2>1. Keeps(q, e)
    BY EraseKeeps DEF e
  <2>2. Shape(e) /\ i \in Rras(e) /\ d \in Dss(e)
    BY <2>1 DEF Keeps, Same, Rras, Dss
  <2>3. Keeps(e, [e EXCEPT !.cdp[i][d]["primary"] = 0, !.cdp[i][d]["secondary"] = 0])
    BY <1>2, <2>2
  <2>4. Keeps(e, z)
    BY <1>1, <1>6, <2>3
  <2> QED BY <2>1, <2>4, KeepsOn
<1>7. CASE cf \notin SeasonCfs \cup PredictionCfs \cup {"DEVPREDICT", "FAILURES"}
  <2>1. Keeps(q, [q EXCEPT !.cdp[i][d]["primary"] = rate, !.cdp[i][d]["secondary"] = rate])
    BY <1>2
  <2> QED BY <1>1, <1>7, <2>1
<1> QED BY <1>3, <1>4, <1>5, <1>6, <1>7

\* A burn-in counter changes one scratch area.
LEMMA BurnInKeeps ==
    ASSUME NEW q, Shape(q), NEW i \in Rras(q), NEW elapsed
    PROVE  Keeps(q, MarkBurnIn(q, i, elapsed))
<1>1. PICK v : MarkBurnIn(q, i, elapsed) = q
               \/ MarkBurnIn(q, i, elapsed) = [q EXCEPT !.cdp[i][1].init = v]
  BY DEF MarkBurnIn
<1>2. 1 \in Dss(q)
  BY DEF Shape, DefsOk, IsList, Dss
<1>3. Keeps(q, [q EXCEPT !.cdp[i][1]["init"] = v])
  BY <1>2, PutSlot
<1> QED BY <1>1, <1>3 DEF Keeps, Same, Still

-----------------------------------------------------------------------------
(* The loops of an update.  Each is an instance of FoldLemmas: its step, and *)
(* what holds after every step.                                              *)
LEMMA IndicesAre ==
    ASSUME NEW s, IsList(s)
    PROVE  Len(s) \in Nat /\ DOMAIN Indices(s) = 1 .. Len(s) /\ \A k \in 1 .. Len(s) : Indices(s)[k] = k
BY DEF IsList, Indices

\* An RRD that nothing touches keeps its shape.
LEMMA KeepsItself == ASSUME NEW q, Shape(q) PROVE Keeps(q, q)
BY DEF Keeps, Same, Still

PrepStep(rrd, i, elapsed, procPdps, rates, steps, r, d) ==
    IF rrd.rra[i].pdpCnt > 1 THEN
        [r EXCEPT !.cdp[i][d] = update_cdp(@, rrd.rra[i], rates[d], steps[i],
                                    elapsed, StartOffset(rrd, i, procPdps))]
    ELSE IF elapsed > 2 THEN
        reset_cdp(r, elapsed, rates[d], lookup_seasonal(rrd, i, elapsed),
                  lookup_seasonal(rrd, i, elapsed + 1), i, d)
    ELSE r
PrepInv(rrd, i, elapsed, procPdps, rates, steps, k, r) == Keeps(rrd, r)
Prep == INSTANCE FoldLemmas WITH Op <- PrepStep, Inv <- PrepInv

\* The scratch areas of one archive, data source by data source.
LEMMA PrepKeeps ==
    ASSUME NEW q, Shape(q), NEW i \in Rras(q), NEW elapsed, NEW procPdps, NEW rates, NEW steps
    PROVE  Keeps(q, update_cdp_prep(q, i, elapsed, procPdps, rates, steps))
<1> DEFINE s == Indices(q.ds)
           n == Len(q.ds)
<1>1. n \in Nat /\ DOMAIN s = 1 .. n /\ \A k \in 1 .. n : s[k] = k
  BY IndicesAre DEF Shape, DefsOk
<1>2. PrepInv(q, i, elapsed, procPdps, rates, steps, 0, q)
  BY KeepsItself DEF PrepInv
<1>3. ASSUME NEW k \in 1 .. n, NEW r, PrepInv(q, i, elapsed, procPdps, rates, steps, k - 1, r)
      PROVE  PrepInv(q, i, elapsed, procPdps, rates, steps, k,
                     PrepStep(q, i, elapsed, procPdps, rates, steps, r, s[k]))
  <2> DEFINE z == PrepStep(q, i, elapsed, procPdps, rates, steps, r, k)
  <2>1. Keeps(q, r) /\ Shape(r) /\ i \in Rras(r) /\ k \in Dss(r) /\ r.rra = q.rra
    BY <1>3 DEF PrepInv, Keeps, Same, Rras, Dss
  <2>2. PICK c : z = IF q.rra[i].pdpCnt > 1 THEN [r EXCEPT !.cdp[i][k] = c]
                     ELSE IF elapsed > 2
                     THEN reset_cdp(r, elapsed, rates[k], lookup_seasonal(q, i, elapsed),
                                    lookup_seasonal(q, i, elapsed + 1), i, k)
                     ELSE r
    BY DEF PrepStep
  <2> HIDE DEF z
  <2>3. CASE q.rra[i].pdpCnt > 1
    <3>1. q.rra[i].cf # "FAILURES"
      BY <2>3 DEF Shape, DefsOk, RraOk
    <3>2. Keeps(r, [r EXCEPT !.cdp[i][k] = c])
      BY <2>1, <3>1, PutCdp
    <3>3. Keeps(q, z)
      BY <2>1, <2>2, <2>3, <3>2, KeepsOn
    <3> QED BY <1>1, <3>3 DEF z, PrepInv
  <2>4. CASE ~(q.rra[i].pdpCnt > 1)
    <3>1. Keeps(r, reset_cdp(r, elapsed, rates[k], lookup_seasonal(q, i, elapsed),
                             lookup_seasonal(q, i, elapsed + 1), i, k))
      BY <2>1, ResetKeeps
    <3>2. Keeps(q, z)
      BY <2>1, <2>2, <2>4, <3>1, KeepsOn
    <3> QED BY <1>1, <3>2 DEF z, PrepInv
  <2> QED BY <2>3, <2>4
<1> HIDE DEF s, n
<1>4. PrepInv(q, i, elapsed, procPdps, rates, steps, n,
              Prep!Fold(q, i, elapsed, procPdps, rates, steps, q, s))
  BY <1>1, <1>2, <1>3, Prep!FoldKeeps
<1>5. Prep!Fold(q, i, elapsed, procPdps, rates, steps, q, s)
        = update_cdp_prep(q, i, elapsed, procPdps, rates, steps)
  BY DEF s, update_cdp_prep, PrepStep, FoldLeft, MapThenFoldSet, Max, Prep!Fold, Prep!Largest
<1> QED BY <1>4, <1>5 DEF PrepInv

PrepAllStep(rrd, elapsed, procPdps, rates, steps, f, r, i) ==
    update_cdp_prep(IF rrd.rra[i].cf \in SeasonCfs THEN MarkBurnIn(r, i, elapsed) ELSE r,
                    i, elapsed, procPdps, rates, steps)
PrepAllInv(rrd, elapsed, procPdps, rates, steps, f, k, r) == Keeps(rrd, r)
PrepAll == INSTANCE FoldLemmas WITH Op <- PrepAllStep, Inv <- PrepAllInv

\* The scratch areas of all archives.
LEMMA PrepAllKeeps ==
    ASSUME NEW q, Shape(q), NEW elapsed, NEW procPdps, NEW rates, NEW steps
    PROVE  Keeps(q, update_all_cdp_prep(q, elapsed, procPdps, rates, steps))
<1> DEFINE s == Indices(q.rra)
           n == Len(q.rra)
<1>1. n \in Nat /\ DOMAIN s = 1 .. n /\ \A k \in 1 .. n : s[k] = k
  BY IndicesAre DEF Shape, DefsOk
<1>2. PrepAllInv(q, elapsed, procPdps, rates, steps, 0, 0, q)
  BY KeepsItself DEF PrepAllInv
<1>3. ASSUME NEW k \in 1 .. n, NEW r, PrepAllInv(q, elapsed, procPdps, rates, steps, 0, k - 1, r)
      PROVE  PrepAllInv(q, elapsed, procPdps, rates, steps, 0, k,
                        PrepAllStep(q, elapsed, procPdps, rates, steps, 0, r, s[k]))
  <2>1. Keeps(q, r) /\ Shape(r) /\ k \in Rras(r)
    BY <1>3 DEF PrepAllInv, Keeps, Same, Rras
  <2> DEFINE m == IF q.rra[k].cf \in SeasonCfs THEN MarkBurnIn(r, k, elapsed) ELSE r
  <2>2. Keeps(r, m)
    BY <2>1, BurnInKeeps, KeepsItself
  <2> HIDE DEF m
  <2>3. Shape(m) /\ k \in Rras(m)
    BY <2>1, <2>2 DEF Keeps, Same, Rras
  <2>4. Keeps(m, update_cdp_prep(m, k, elapsed, procPdps, rates, steps))
    BY <2>3, PrepKeeps
  <2>5. Keeps(q, update_cdp_prep(m, k, elapsed, procPdps, rates, steps))
    BY <2>1, <2>2, <2>4, KeepsOn
  <2> QED BY <1>1, <2>5 DEF m, PrepAllStep, PrepAllInv
<1> HIDE DEF s, n
<1>4. PrepAllInv(q, elapsed, procPdps, rates, steps, 0, n,
                 PrepAll!Fold(q, elapsed, procPdps, rates, steps, 0, q, s))
  BY <1>1, <1>2, <1>3, PrepAll!FoldKeeps
<1>5. PrepAll!Fold(q, elapsed, procPdps, rates, steps, 0, q, s)
        = update_all_cdp_prep(q, elapsed, procPdps, rates, steps)
  BY DEF s, update_all_cdp_prep, PrepAllStep, FoldLeft, MapThenFoldSet, Max,
         PrepAll!Fold, PrepAll!Largest
<1> QED BY <1>4, <1>5 DEF PrepAllInv

RateStep(rrd, s, rates, ahead, i, r, q, d) ==
    update_aberrant_CF(q, rates[d], i, d, s, lookup_seasonal(rrd, i, ahead))
RateInv(rrd, s, rates, ahead, i, r, k, q) == Keeps(r, q)
Rates == INSTANCE FoldLemmas WITH Op <- RateStep, Inv <- RateInv
RatesOf(rrd, s, rates, ahead, i, r) ==
    FoldLeft(LAMBDA q, d : update_aberrant_CF(q, rates[d], i, d, s, lookup_seasonal(rrd, i, ahead)),
             r, Indices(r.ds))

\* One archive learns the rates of the data sources.
LEMMA RatesKeep ==
    ASSUME NEW rrd, NEW s \in Slots, NEW rates, NEW ahead, NEW r, Shape(r), NEW i \in Rras(r)
    PROVE  Keeps(r, RatesOf(rrd, s, rates, ahead, i, r))
<1> DEFINE l == Indices(r.ds)
           n == Len(r.ds)
<1>1. n \in Nat /\ DOMAIN l = 1 .. n /\ \A k \in 1 .. n : l[k] = k
  BY IndicesAre DEF Shape, DefsOk
<1>2. RateInv(rrd, s, rates, ahead, i, r, 0, r)
  BY KeepsItself DEF RateInv
<1>3. ASSUME NEW k \in 1 .. n, NEW q, RateInv(rrd, s, rates, ahead, i, r, k - 1, q)
      PROVE  RateInv(rrd, s, rates, ahead, i, r, k, RateStep(rrd, s, rates, ahead, i, r, q, l[k]))
  <2>1. Keeps(r, q) /\ Shape(q) /\ i \in Rras(q) /\ k \in Dss(q)
    BY <1>3 DEF RateInv, Keeps, Same, Rras, Dss
  <2>2. Keeps(q, RateStep(rrd, s, rates, ahead, i, r, q, k))
    BY <2>1, AberrantKeeps DEF RateStep
  <2> QED BY <1>1, <2>1, <2>2, KeepsOn DEF RateInv
<1> HIDE DEF l, n
<1>4. RateInv(rrd, s, rates, ahead, i, r, n, Rates!Fold(rrd, s, rates, ahead, i, r, r, l))
  BY <1>1, <1>2, <1>3, Rates!FoldKeeps
<1>5. Rates!Fold(rrd, s, rates, ahead, i, r, r, l) = RatesOf(rrd, s, rates, ahead, i, r)
  BY DEF l, RatesOf, RateStep, FoldLeft, MapThenFoldSet, Max, Rates!Fold, Rates!Largest
<1> QED BY <1>4, <1>5 DEF RateInv

PassStep(rrd, s, rates, ahead, e, f, r, i) ==
    IF r.rra[i].pdpCnt /= 1 THEN r ELSE RatesOf(rrd, s, rates, ahead, i, r)
PassInv(rrd, s, rates, ahead, e, f, k, r) == Keeps(rrd, r)
Pass == INSTANCE FoldLemmas WITH Op <- PassStep, Inv <- PassInv

\* All archives learn them, one after the other.
LEMMA PassKeeps ==
    ASSUME NEW q, Shape(q), NEW s \in Slots, NEW rates, NEW ahead
    PROVE  Keeps(q, AberrantPass(q, s, rates, ahead))
<1> DEFINE l == Indices(q.rra)
           n == Len(q.rra)
<1>1. n \in Nat /\ DOMAIN l = 1 .. n /\ \A k \in 1 .. n : l[k] = k
  BY IndicesAre DEF Shape, DefsOk
<1>2. PassInv(q, s, rates, ahead, 0, 0, 0, q)
  BY KeepsItself DEF PassInv
<1>3. ASSUME NEW k \in 1 .. n, NEW r, PassInv(q, s, rates, ahead, 0, 0, k - 1, r)
      PROVE  PassInv(q, s, rates, ahead, 0, 0, k, PassStep(q, s, rates, ahead, 0, 0, r, l[k]))
  <2>1. Keeps(q, r) /\ Shape(r) /\ k \in Rras(r)
    BY <1>3 DEF PassInv, Keeps, Same, Rras
  <2>2. Keeps(r, PassStep(q, s, rates, ahead, 0, 0, r, k))
    BY <2>1, RatesKeep, KeepsItself DEF PassStep
  <2> QED BY <1>1, <2>1, <2>2, KeepsOn DEF PassInv
<1> HIDE DEF l, n
<1>4. PassInv(q, s, rates, ahead, 0, 0, n, Pass!Fold(q, s, rates, ahead, 0, 0, q, l))
  BY <1>1, <1>2, <1>3, Pass!FoldKeeps
<1>5. Pass!Fold(q, s, rates, ahead, 0, 0, q, l) = AberrantPass(q, s, rates, ahead)
  BY DEF l, AberrantPass, PassStep, RatesOf, FoldLeft, MapThenFoldSet, Max, Pass!Fold, Pass!Largest
<1> QED BY <1>4, <1>5 DEF PassInv

\* An observed value for every forecasting archive.
LEMMA AberrantsKeep ==
    ASSUME NEW q, Shape(q), NEW elapsed, NEW rates
    PROVE  Keeps(q, update_aberrant_cdps(q, elapsed, rates))
<1>1. CASE elapsed = 1
  <2>1. Keeps(q, AberrantPass(q, "primary", rates, 2))
    BY PassKeeps DEF Slots
  <2> QED BY <1>1, <2>1 DEF update_aberrant_cdps
<1>2. CASE elapsed = 2
  <2> DEFINE p == AberrantPass(q, "primary", rates, 3)
  <2>1. Keeps(q, p)
    BY PassKeeps DEF Slots
  <2>2. update_aberrant_cdps(q, elapsed, rates) = AberrantPass(p, "secondary", rates, 4)
    BY <1>2 DEF update_aberrant_cdps
  <2> HIDE DEF p
  <2>3. Keeps(p, AberrantPass(p, "secondary", rates, 4))
    BY <2>1, PassKeeps DEF Slots, Keeps
  <2> QED BY <2>1, <2>2, <2>3, KeepsOn
<1>3. CASE elapsed # 1 /\ elapsed # 2
  BY <1>3, KeepsItself DEF update_aberrant_cdps
<1> QED BY <1>1, <1>2, <1>3

\* The rows and cursors change, in the shape they had (what writes them).
LEMMA RowsKeep ==
    ASSUME NEW q, Shape(q), NEW p, DOMAIN p = RrdFields,
           \A x \in RrdFields \ {"data", "cur", "cdp"} : p[x] = q[x], ScratchOk(p), RowsOk(p)
    PROVE  Keeps(q, p)
<1>1. /\ p.ds = q.ds /\ p.rra = q.rra /\ p.step = q.step /\ p.version = q.version
      /\ p.lastUp = q.lastUp /\ p.pdp = q.pdp
  BY DEF RrdFields
<1>2. DefsOk(p)
  BY <1>1 DEF Shape, DefsOk, Rras
<1> QED BY <1>1, <1>2 DEF Shape, Keeps, Same, Still

PutStep(rrd, i, c, d, e, f, rows, k) ==
    [rows EXCEPT ![(rrd.cur[i] + k) % rrd.rra[i].rowCnt] =
        RowValues(rrd, i, IF k = 1 THEN "primary" ELSE "secondary")]
PutInv(rrd, i, c, d, e, f, k, rows) ==
    /\ DOMAIN rows = 0 .. rrd.rra[i].rowCnt - 1
    /\ \A r \in DOMAIN rows : rows[r] = [x \in Dss(rrd) |-> rows[r][x]]
Put == INSTANCE FoldLemmas WITH Op <- PutStep, Inv <- PutInv
PutRows(rrd, i, count) ==
    FoldLeft(LAMBDA rows, k :
                [rows EXCEPT ![(rrd.cur[i] + k) % rrd.rra[i].rowCnt] =
                    RowValues(rrd, i, IF k = 1 THEN "primary" ELSE "secondary")],
             rrd.data[i], [k \in 1 .. count |-> k])

\* However many rows are written, an archive keeps its number of rows and
\* every row its values.
LEMMA PutRowsShape ==
    ASSUME NEW q, Shape(q), NEW i \in Rras(q), NEW count \in Nat
    PROVE  PutInv(q, i, 0, 0, 0, 0, count, PutRows(q, i, count))
<1> DEFINE l == [k \in 1 .. count |-> k]
<1>1. DOMAIN l = 1 .. count
  OBVIOUS
<1>2. PutInv(q, i, 0, 0, 0, 0, 0, q.data[i])
  BY DEF PutInv, Shape, RowsOk
<1>3. ASSUME NEW k \in 1 .. count, NEW rows, PutInv(q, i, 0, 0, 0, 0, k - 1, rows)
      PROVE  PutInv(q, i, 0, 0, 0, 0, k, PutStep(q, i, 0, 0, 0, 0, rows, l[k]))
  <2> DEFINE at == (q.cur[i] + k) % q.rra[i].rowCnt
             v == RowValues(q, i, IF k = 1 THEN "primary" ELSE "secondary")
             new == [rows EXCEPT ![at] = v]
  <2>1. PutStep(q, i, 0, 0, 0, 0, rows, l[k]) = new
    BY DEF PutStep
  <2>2. v = [x \in Dss(q) |-> v[x]]
    BY DEF RowValues
  <2> HIDE DEF at, v
  <2>3. DOMAIN new = 0 .. q.rra[i].rowCnt - 1
    BY <1>3 DEF PutInv
  <2>4. ASSUME NEW r \in DOMAIN rows PROVE new[r] = [x \in Dss(q) |-> new[r][x]]
    <3>1. CASE r = at
      BY <2>2, <3>1
    <3>2. CASE r # at
      BY <1>3, <3>2 DEF PutInv
    <3> QED BY <3>1, <3>2
  <2> HIDE DEF new
  <2>5. PutInv(q, i, 0, 0, 0, 0, k, new)
    BY <1>3, <2>3, <2>4 DEF PutInv
  <2> QED BY <2>1, <2>5
<1> HIDE DEF l
<1>4. PutInv(q, i, 0, 0, 0, 0, count, Put!Fold(q, i, 0, 0, 0, 0, q.data[i], l))
  BY <1>1, <1>2, <1>3, Put!FoldKeeps
<1>5. Put!Fold(q, i, 0, 0, 0, 0, q.data[i], l) = PutRows(q, i, count)
  BY DEF l, PutRows, PutStep, FoldLeft, MapThenFoldSet, Max, Put!Fold, Put!Largest
<1> QED BY <1>4, <1>5

\* Writing the rows leaves each cursor inside its archive.
LEMMA WriteKeeps ==
    ASSUME NEW q, Shape(q), NEW steps, \A i \in Rras(q) : steps[i] \in Nat
    PROVE  Keeps(q, write_to_rras(q, steps))
<1> DEFINE written(i) == IF Skipped(q, i, steps) THEN q.data[i] ELSE PutRows(q, i, steps[i])
           data == [i \in Rras(q) |-> written(i)]
           cur == [i \in Rras(q) |-> (q.cur[i] + steps[i]) % q.rra[i].rowCnt]
           p == [q EXCEPT !.data = data, !.cur = cur]
<1>1. write_to_rras(q, steps) = p
  BY DEF write_to_rras, PutRows
<1>2. ASSUME NEW i \in Rras(q)
      PROVE  /\ DOMAIN written(i) = 0 .. q.rra[i].rowCnt - 1
             /\ \A r \in DOMAIN written(i) : written(i)[r] = [d \in Dss(q) |-> written(i)[r][d]]
  <2>1. PutInv(q, i, 0, 0, 0, 0, steps[i], PutRows(q, i, steps[i]))
    BY PutRowsShape
  <2>2. PutInv(q, i, 0, 0, 0, 0, 0, q.data[i])
    BY DEF PutInv, Shape, RowsOk
  <2> QED BY <2>1, <2>2 DEF PutInv
<1> HIDE DEF written
<1>3. ASSUME NEW i \in Rras(q) PROVE cur[i] \in 0 .. q.rra[i].rowCnt - 1
  <2>1. PICK n \in Nat \ {0} : n = q.rra[i].rowCnt
    BY DEF Shape, DefsOk, RraOk
  <2>2. PICK x \in Int : x = q.cur[i] + steps[i]
    BY <2>1 DEF Shape, RowsOk
  <2>3. x % n \in 0 .. n - 1
    OBVIOUS
  <2> QED BY <2>1, <2>2, <2>3
<1> HIDE DEF cur
<1>4. DOMAIN cur = Rras(q)
  BY DEF cur
<1>5. /\ DOMAIN p = RrdFields /\ p.data = data /\ p.cur = cur
      /\ \A x \in RrdFields \ {"data", "cur"} : p[x] = q[x]
  BY DEF Shape, DefsOk, RrdFields
<1> HIDE DEF p
<1>6. p.ds = q.ds /\ p.rra = q.rra /\ p.pdp = q.pdp /\ p.cdp = q.cdp /\ p.lastUp = q.lastUp
  BY <1>5 DEF RrdFields
<1>7. Dss(p) = Dss(q) /\ Rras(p) = Rras(q)
  BY <1>6 DEF Dss, Rras
<1>8. RowsOk(p)
  BY <1>2, <1>3, <1>4, <1>5, <1>6, <1>7 DEF RowsOk
<1>9. ScratchOk(p)
  BY <1>6, <1>7 DEF Shape, ScratchOk, CdpOk
<1> QED BY <1>1, <1>5, <1>8, <1>9, RowsKeep

\* The preparations of the data sources change.
LEMMA PutPdp ==
    ASSUME NEW q, Shape(q), NEW x, x = [d \in Dss(q) |-> x[d]],
           \A d \in Dss(q) : "last" \in DOMAIN x[d] /\ x[d].last = q.pdp[d].last
    PROVE  Keeps(q, [q EXCEPT !.pdp = x])
<1> DEFINE p == [q EXCEPT !.pdp = x]
<1>1. DOMAIN p = RrdFields /\ p.pdp = x /\ \A y \in RrdFields \ {"pdp"} : p[y] = q[y]
  BY DEF Shape, DefsOk, RrdFields
<1> HIDE DEF p
<1>2. p.ds = q.ds /\ p.rra = q.rra /\ p.cdp = q.cdp
  BY <1>1 DEF RrdFields
<1>3. Dss(p) = Dss(q) /\ Rras(p) = Rras(q)
  BY <1>2 DEF Dss, Rras
<1>4. \A i \in Rras(p) : CdpOk(p, i)
  BY <1>2, <1>3 DEF Shape, ScratchOk, CdpOk
<1>5. ScratchOk(p)
  BY <1>1, <1>2, <1>3, <1>4 DEF Shape, ScratchOk
<1>6. Keeps(q, p)
  BY <1>1, <1>5, ScratchKeeps
<1> QED BY <1>6 DEF p

\* What is taken over of a line: the readings before the first malformed one.
LEMMA TakeReadings ==
    ASSUME NEW q, Shape(q), NEW vals, NEW interval, NEW p,
           p = update_pdp_prep(q, vals, interval).rrd
    PROVE  /\ Shape(p) /\ Same(q, p) /\ p.lastUp = q.lastUp
           /\ \A d \in Dss(q) :
                p.pdp[d].last =
                    IF \A b \in Dss(q) : Malformed(q.ds[b], vals[b], interval) => d < b
                    THEN vals[d] ELSE q.pdp[d].last
<1> DEFINE bad == {d \in Dss(q) : Malformed(q.ds[d], vals[d], interval)}
           x == [d \in Dss(q) |->
                   IF \A b \in bad : d < b THEN [q.pdp[d] EXCEPT !.last = vals[d]] ELSE q.pdp[d]]
<1>1. p = [q EXCEPT !.pdp = x]
  BY DEF update_pdp_prep
<1>2. DOMAIN p = RrdFields /\ p.pdp = x /\ \A y \in RrdFields \ {"pdp"} : p[y] = q[y]
  BY <1>1 DEF Shape, DefsOk, RrdFields
<1>3. /\ p.ds = q.ds /\ p.rra = q.rra /\ p.cdp = q.cdp /\ p.lastUp = q.lastUp /\ p.cur = q.cur
      /\ p.data = q.data /\ p.step = q.step /\ p.version = q.version
  BY <1>2 DEF RrdFields
<1>4. \A d \in Dss(q) : "last" \in DOMAIN q.pdp[d]
  BY DEF Shape, ScratchOk
<1>5. ASSUME NEW d \in Dss(q)
      PROVE  "last" \in DOMAIN x[d] /\ x[d].last = IF \A b \in bad : d < b THEN vals[d] ELSE q.pdp[d].last
  BY <1>4
<1>6. x = [d \in Dss(q) |-> x[d]]
  OBVIOUS
<1> HIDE DEF x
<1>7. Dss(p) = Dss(q) /\ Rras(p) = Rras(q)
  BY <1>3 DEF Dss, Rras
<1>8. \A i \in Rras(p) : CdpOk(p, i)
  BY <1>3, <1>7 DEF Shape, ScratchOk, CdpOk
<1>9. ScratchOk(p)
  BY <1>2, <1>3, <1>5, <1>6, <1>7, <1>8 DEF Shape, ScratchOk
<1>10. RowsOk(p)
  BY <1>3, <1>7 DEF Shape, RowsOk
<1>11. DefsOk(p)
  BY <1>2, <1>3, <1>7 DEF Shape, DefsOk
<1> QED BY <1>2, <1>3, <1>5, <1>9, <1>10, <1>11 DEF Shape, Same

\* A line within a step adds to what the data sources have gathered.
LEMMA SimpleKeeps ==
    ASSUME NEW q, Shape(q), NEW interval, NEW pdpNew
    PROVE  Keeps(q, simple_update(q, interval, pdpNew))
<1> DEFINE x == [d \in Dss(q) |->
                   IF ~Known(pdpNew[d]) THEN [q.pdp[d] EXCEPT !.unkn = q.pdp[d].unkn + interval]
                   ELSE [q.pdp[d] EXCEPT !.val = DAdd(IfNaN(q.pdp[d].val, 0), pdpNew[d])]]
<1>1. simple_update(q, interval, pdpNew) = [q EXCEPT !.pdp = x]
  BY DEF simple_update
<1>2. x = [d \in Dss(q) |-> x[d]]
  OBVIOUS
<1>3. ASSUME NEW d \in Dss(q) PROVE "last" \in DOMAIN x[d] /\ x[d].last = q.pdp[d].last
  <2>1. "last" \in DOMAIN q.pdp[d]
    BY DEF Shape, ScratchOk
  <2> QED BY <2>1
<1> HIDE DEF x
<1> QED BY <1>1, <1>2, <1>3, PutPdp

RateOfStep(rrd, interval, pre, post, elapsed, pdpNew, st, d) ==
    IF ~st.ok THEN st
    ELSE WithRate(st, d,
        IF rrd.ds[d].dst = "COMPUTE" THEN ComputedRate(rrd.ds[d], d, st.rates)
        ELSE [ok |-> TRUE,
              val |-> PdpRate(rrd, d, interval, pre, elapsed, pdpNew[d])],
        Carried(rrd.pdp[d], interval, post, pdpNew[d]))
RateOfInv(rrd, interval, pre, post, elapsed, pdpNew, k, st) ==
    DOMAIN st = {"ok", "rates", "rrd"} /\ st.ok \in BOOLEAN /\ Keeps(rrd, st.rrd)
RateOf == INSTANCE FoldLemmas WITH Op <- RateOfStep, Inv <- RateOfInv

\* What is carried into the next step is no reading.
LEMMA CarriedReading ==
    ASSUME NEW pdp, "last" \in DOMAIN pdp, NEW interval, NEW post, NEW new
    PROVE  LET c == Carried(pdp, interval, post, new) IN "last" \in DOMAIN c /\ c.last = pdp.last
BY DEF Carried

\* The rates of the finished steps: the data sources up to the first COMPUTE
\* that fails start to gather anew, the readings stay.
LEMMA RatesOfKeep ==
    ASSUME NEW q, Shape(q), NEW interval, NEW pre, NEW post, NEW elapsed, NEW pdpNew
    PROVE  LET z == process_all_pdp_st(q, interval, pre, post, elapsed, pdpNew)
           IN  Keeps(q, z.rrd) /\ z.ok \in BOOLEAN
<1> DEFINE l == Indices(q.ds)
           n == Len(q.ds)
           base == [ok |-> TRUE, rates |-> <<>>, rrd |-> q]
<1>1. n \in Nat /\ DOMAIN l = 1 .. n /\ \A k \in 1 .. n : l[k] = k
  BY IndicesAre DEF Shape, DefsOk
<1>2. RateOfInv(q, interval, pre, post, elapsed, pdpNew, 0, base)
  BY KeepsItself DEF RateOfInv
<1>3. ASSUME NEW k \in 1 .. n, NEW st, RateOfInv(q, interval, pre, post, elapsed, pdpNew, k - 1, st)
      PROVE  RateOfInv(q, interval, pre, post, elapsed, pdpNew, k,
                       RateOfStep(q, interval, pre, post, elapsed, pdpNew, st, l[k]))
  <2> DEFINE c == Carried(q.pdp[k], interval, post, pdpNew[k])
             z == RateOfStep(q, interval, pre, post, elapsed, pdpNew, st, k)
             p == [st.rrd EXCEPT !.pdp[k] = c]
  <2>1. k \in Dss(q) /\ Dss(st.rrd) = Dss(q) /\ Shape(st.rrd) /\ st.rrd.pdp[k].last = q.pdp[k].last
    BY <1>3 DEF RateOfInv, Keeps, Same, Still, Dss
  <2>2. PICK x : z = st \/ z = [st EXCEPT !.ok = FALSE] \/ z = [ok |-> TRUE, rates |-> x, rrd |-> p]
    BY DEF RateOfStep, WithRate
  <2> HIDE DEF z
  <2>3. "last" \in DOMAIN c /\ c.last = q.pdp[k].last
    BY <2>1, CarriedReading DEF Shape, ScratchOk
  <2> HIDE DEF c
  <2>4. Keeps(st.rrd, p)
    <3> DEFINE x1 == [st.rrd.pdp EXCEPT ![k] = c]
    <3>1. p = [st.rrd EXCEPT !.pdp = x1]
      OBVIOUS
    <3>2. /\ st.rrd.pdp = [d \in Dss(st.rrd) |-> st.rrd.pdp[d]]
          /\ \A d \in Dss(st.rrd) : "last" \in DOMAIN st.rrd.pdp[d]
      BY <2>1 DEF Shape, ScratchOk
    <3>3. x1 = [d \in Dss(st.rrd) |-> x1[d]]
      BY <3>2
    <3>4. ASSUME NEW d \in Dss(st.rrd) PROVE "last" \in DOMAIN x1[d] /\ x1[d].last = st.rrd.pdp[d].last
      <4>1. CASE d = k
        BY <2>1, <2>3, <3>2, <4>1
      <4>2. CASE d # k
        BY <3>2, <4>2
      <4> QED BY <4>1, <4>2
    <3> HIDE DEF x1, p
    <3> QED BY <2>1, <3>1, <3>3, <3>4, PutPdp
  <2> HIDE DEF p
  <2>5. Keeps(q, p)
    BY <1>3, <2>4, KeepsOn DEF RateOfInv
  <2>6. RateOfInv(q, interval, pre, post, elapsed, pdpNew, k, z)
    <3>1. CASE z = st
      BY <1>3, <3>1 DEF RateOfInv
    <3>2. CASE z = [st EXCEPT !.ok = FALSE]
      <4>1. DOMAIN st = {"ok", "rates", "rrd"} /\ Keeps(q, st.rrd)
        BY <1>3 DEF RateOfInv
      <4>2. DOMAIN z = {"ok", "rates", "rrd"} /\ z.ok = FALSE /\ z.rrd = st.rrd
        BY <3>2, <4>1
      <4> QED BY <4>1, <4>2 DEF RateOfInv
    <3>3. CASE z = [ok |-> TRUE, rates |-> x, rrd |-> p]
      BY <2>5, <3>3 DEF RateOfInv
    <3> QED BY <2>2, <3>1, <3>2, <3>3
  <2> QED BY <1>1, <2>6 DEF z
<1> HIDE DEF l, n, base
<1>4. RateOfInv(q, interval, pre, post, elapsed, pdpNew, n,
                RateOf!Fold(q, interval, pre, post, elapsed, pdpNew, base, l))
  BY <1>1, <1>2, <1>3, RateOf!FoldKeeps
<1>5. RateOf!Fold(q, interval, pre, post, elapsed, pdpNew, base, l)
        = process_all_pdp_st(q, interval, pre, post, elapsed, pdpNew)
  BY DEF l, base, process_all_pdp_st, RateOfStep, FoldLeft, MapThenFoldSet, Max,
         RateOf!Fold, RateOf!Largest
<1> QED BY <1>4, <1>5 DEF RateOfInv

-----------------------------------------------------------------------------
(* One line of an update.                                                    *)

\* The quotient of numbers that are not negative is none.
LEMMA DivNat ==
    ASSUME NEW a \in Nat, NEW b \in Nat \ {0}
    PROVE  a \div b \in Nat
OBVIOUS

\* A later time is in no earlier interval.
LEMMA DivGrows ==
    ASSUME NEW a \in Int, NEW b \in Int, a <= b, NEW n \in Nat \ {0}
    PROVE  a \div n <= b \div n
<1>1. PICK x \in Int : x = a \div n
  OBVIOUS
<1>2. PICK y \in Int : y = b \div n
  OBVIOUS
<1>3. PICK u \in 0 .. n - 1 : u = a % n
  OBVIOUS
<1>4. PICK v \in 0 .. n - 1 : v = b % n
  OBVIOUS
<1>5. a = n * x + u /\ b = n * y + v
  BY <1>1, <1>2, <1>3, <1>4
<1>6. SUFFICES ASSUME x >= y + 1 PROVE FALSE
  BY <1>1, <1>2
<1>7. n * x >= n * (y + 1)
  BY <1>6
<1>8. n * (y + 1) = n * y + n
  OBVIOUS
<1> QED BY <1>5, <1>7, <1>8

\* The rows an archive gains are a number.
LEMMA StepsAreNat ==
    ASSUME NEW q, Shape(q), NEW i \in Rras(q), NEW procPdps \in Int, NEW elapsed \in Nat
    PROVE  StepCount(q, i, procPdps, elapsed) \in Nat
<1>1. PICK n \in Nat \ {0} : n = q.rra[i].pdpCnt
  BY DEF Shape, DefsOk, RraOk
<1>2. procPdps % n \in 0 .. n - 1
  OBVIOUS
<1>3. PICK o \in Nat : o = StartOffset(q, i, procPdps)
  BY <1>1, <1>2 DEF StartOffset
<1>4. CASE o <= elapsed
  <2>1. elapsed - o \in Nat
    BY <1>4
  <2>2. (elapsed - o) \div n \in Nat
    BY <2>1, DivNat
  <2> QED BY <1>1, <1>3, <1>4, <2>2 DEF StepCount
<1>5. CASE ~(o <= elapsed)
  BY <1>3, <1>5 DEF StepCount
<1> QED BY <1>4, <1>5

\* The steps a line completes are a number.
LEMMA ElapsedIsNat ==
    ASSUME NEW q, Shape(q), NEW t \in Int, q.lastUp <= t
    PROVE  /\ ElapsedSteps(q, t) \in Nat
           /\ StepStart(q, q.lastUp) \div q.step \in Int
<1>1. PICK n \in Nat \ {0} : n = q.step
  BY DEF Shape, DefsOk
<1>2. PICK a \in Int : a = q.lastUp
  BY DEF Shape, DefsOk
<1>3. PICK x \in Int : x = a \div n
  OBVIOUS
<1>4. PICK y \in Int : y = t \div n
  OBVIOUS
<1>5. a - (a % n) = n * x /\ t - (t % n) = n * y
  BY <1>3, <1>4
<1>6. x <= y
  BY <1>1, <1>2, <1>3, <1>4, DivGrows
<1>7. n * x <= n * y
  BY <1>6
<1>8. PICK s \in Int : s = n * x
  OBVIOUS
<1>9. PICK e \in Nat : e = n * y - n * x
  BY <1>7
<1>10. e \div n \in Nat
  BY DivNat
<1> QED BY <1>1, <1>2, <1>5, <1>8, <1>9, <1>10 DEF ElapsedSteps, StepStart

\* The time of the last update moves on.
LEMMA PutTime ==
    ASSUME NEW q, Shape(q), NEW t \in Int
    PROVE  LET p == [q EXCEPT !.lastUp = t]
           IN  Shape(p) /\ Same(q, p) /\ p.lastUp = t /\ p.pdp = q.pdp
<1> DEFINE p == [q EXCEPT !.lastUp = t]
<1>1. DOMAIN p = RrdFields /\ p.lastUp = t /\ \A x \in RrdFields \ {"lastUp"} : p[x] = q[x]
  BY DEF Shape, DefsOk, RrdFields
<1> HIDE DEF p
<1>2. /\ p.ds = q.ds /\ p.rra = q.rra /\ p.step = q.step /\ p.version = q.version
      /\ p.pdp = q.pdp /\ p.cdp = q.cdp /\ p.cur = q.cur /\ p.data = q.data
  BY <1>1 DEF RrdFields
<1>3. Dss(p) = Dss(q) /\ Rras(p) = Rras(q)
  BY <1>2 DEF Dss, Rras
<1>4. DefsOk(p)
  BY <1>1, <1>2, <1>3 DEF Shape, DefsOk
<1>5. ScratchOk(p)
  BY <1>2, <1>3 DEF Shape, ScratchOk, CdpOk
<1>6. RowsOk(p)
  BY <1>2, <1>3 DEF Shape, RowsOk
<1>7. Shape(p) /\ Same(q, p) /\ p.lastUp = t /\ p.pdp = q.pdp
  BY <1>1, <1>2, <1>4, <1>5, <1>6 DEF Shape, Same
<1> QED BY <1>7 DEF p

\* The readings a line brings to the data sources before the first malformed
\* one are the ones the RRD then shows, whether or not the line succeeds later.
Parsed(rrd, idx, line) == parse_ds(rrd, idx, line)
Unreadable(rrd, idx, line, b) ==
    Malformed(rrd.ds[b], Parsed(rrd, idx, line).vals[b], line.time - rrd.lastUp)
Taken(rrd, idx, line, d) ==
    Parsed(rrd, idx, line).ok /\ \A b \in Dss(rrd) : Unreadable(rrd, idx, line, b) => d < b
LineTaken(rrd, idx, line, r) ==
    /\ Shape(r.rrd) /\ Same(rrd, r.rrd)
    /\ r.ok \in BOOLEAN /\ DOMAIN r = {"ok", "smooth", "rrd"}
    /\ r.ok => /\ Parsed(rrd, idx, line).ok
               /\ \A b \in Dss(rrd) : ~Unreadable(rrd, idx, line, b)
    /\ r.rrd.lastUp = IF r.ok THEN line.time ELSE rrd.lastUp
    /\ \A d \in Dss(rrd) : r.rrd.pdp[d].last =
          IF Taken(rrd, idx, line, d) THEN Parsed(rrd, idx, line).vals[d] ELSE rrd.pdp[d].last

\* What a line that completes steps does after its readings are taken.
LEMMA ConsolidatedKeeps ==
    ASSUME NEW q, Shape(q), NEW time \in Int, NEW elapsed \in Nat, NEW procPdps \in Int,
           NEW pdps, Keeps(q, pdps.rrd), pdps.ok \in BOOLEAN,
           NEW r, NEW like, Dss(like) = Dss(q), Rras(like) = Rras(q), like.rra = q.rra,
           r = Consolidated(like, time, elapsed, procPdps, pdps)
    PROVE  /\ Shape(r.rrd) /\ Same(q, r.rrd) /\ r.ok = pdps.ok
           /\ DOMAIN r = {"ok", "smooth", "rrd"}
           /\ r.rrd.lastUp = IF r.ok THEN time ELSE q.lastUp
           /\ \A d \in Dss(q) : r.rrd.pdp[d].last = q.pdp[d].last
<1> DEFINE steps == [i \in Rras(like) |-> StepCount(like, i, procPdps, elapsed)]
           cdps == update_all_cdp_prep(pdps.rrd, elapsed, procPdps, pdps.rates, steps)
           aberrant == update_aberrant_cdps(cdps, elapsed, pdps.rates)
           done == write_to_rras(aberrant, steps)
           sm == \E i \in Rras(like) : like.rra[i].cf \in SeasonCfs /\ SmoothDue(like, i, elapsed)
<1>1. r = IF ~pdps.ok THEN [ok |-> FALSE, smooth |-> FALSE, rrd |-> pdps.rrd]
          ELSE [ok |-> TRUE, rrd |-> [done EXCEPT !.lastUp = time], smooth |-> sm]
  BY DEF Consolidated
<1>2. \A i \in Rras(q) : steps[i] \in Nat
  <2> SUFFICES ASSUME NEW i \in Rras(q) PROVE StepCount(like, i, procPdps, elapsed) \in Nat
    OBVIOUS
  <2>1. StepCount(like, i, procPdps, elapsed) = StepCount(q, i, procPdps, elapsed)
    BY DEF StepCount, StartOffset
  <2> QED BY <2>1, StepsAreNat
<1> HIDE DEF steps, sm
<1>3. Keeps(q, cdps)
  <2>1. Shape(pdps.rrd)
    BY DEF Keeps
  <2>2. Keeps(pdps.rrd, cdps)
    BY <2>1, PrepAllKeeps
  <2> HIDE DEF cdps
  <2> QED BY <2>2, KeepsOn
<1> HIDE DEF cdps
<1>4. Keeps(q, aberrant)
  <2>1. Shape(cdps)
    BY <1>3 DEF Keeps
  <2>2. Keeps(cdps, aberrant)
    BY <2>1, AberrantsKeep
  <2> HIDE DEF aberrant
  <2> QED BY <1>3, <2>2, KeepsOn
<1> HIDE DEF aberrant
<1>5. Keeps(q, done)
  <2>1. Shape(aberrant) /\ Rras(aberrant) = Rras(q)
    BY <1>4 DEF Keeps, Same, Rras
  <2>2. Keeps(aberrant, done)
    BY <1>2, <2>1, WriteKeeps
  <2> HIDE DEF done
  <2> QED BY <1>4, <2>2, KeepsOn
<1> HIDE DEF done
<1>6. CASE ~pdps.ok
  <2>1. /\ pdps.ok = FALSE /\ r.ok = FALSE /\ r.rrd = pdps.rrd
        /\ DOMAIN r = {"ok", "smooth", "rrd"}
    BY <1>1, <1>6
  <2> QED BY <2>1 DEF Keeps, Still
<1>7. CASE pdps.ok
  <2> DEFINE p == [done EXCEPT !.lastUp = time]
  <2>1. Shape(done)
    BY <1>5 DEF Keeps
  <2>2. Shape(p) /\ Same(done, p) /\ p.lastUp = time /\ p.pdp = done.pdp
    BY <2>1, PutTime
  <2>3. r.ok = TRUE /\ r.rrd = p /\ DOMAIN r = {"ok", "smooth", "rrd"}
    BY <1>1, <1>7
  <2> HIDE DEF p
  <2>4. Same(q, p) /\ \A d \in Dss(q) : p.pdp[d].last = q.pdp[d].last
    BY <1>5, <2>2 DEF Keeps, Same, Still
  <2> QED BY <1>7, <2>2, <2>3, <2>4
<1> QED BY <1>6, <1>7

\* One line: either it fails before its readings are taken, or they are taken
\* as far as they can be read; only a line that succeeds moves the time.
LEMMA LineKeeps ==
    ASSUME NEW q, Shape(q), NEW idx, NEW line, line.time \in Int,
           NEW r, r = process_arg(q, idx, line)
    PROVE  LineTaken(q, idx, line, r)
<1> DEFINE parsed == Parsed(q, idx, line)
           interval == line.time - q.lastUp
           prep == update_pdp_prep(q, parsed.vals, interval)
           elapsed == ElapsedSteps(q, line.time)
<1>1. parsed.ok \in BOOLEAN /\ (parsed.ok => line.time > q.lastUp)
  BY DEF Parsed, parse_ds
<1>2. r = IF ~parsed.ok THEN [ok |-> FALSE, smooth |-> FALSE, rrd |-> q]
          ELSE Accounted(q, line.time, prep)
  BY DEF process_arg, Parsed
<1>3. CASE ~parsed.ok
  <2>1. r.ok = FALSE /\ r.rrd = q /\ DOMAIN r = {"ok", "smooth", "rrd"}
    BY <1>2, <1>3
  <2> QED BY <1>3, <2>1 DEF LineTaken, Taken, Same
<1>4. CASE parsed.ok
  <2> DEFINE mid == prep.rrd
  <2>1. /\ Shape(mid) /\ Same(q, mid) /\ mid.lastUp = q.lastUp
        /\ \A d \in Dss(q) : mid.pdp[d].last =
              IF \A b \in Dss(q) : Malformed(q.ds[b], parsed.vals[b], interval) => d < b
              THEN parsed.vals[d] ELSE q.pdp[d].last
    <3> DEFINE vals == parsed.vals
    <3> HIDE DEF mid, vals, interval
    <3>1. mid = update_pdp_prep(q, vals, interval).rrd
      BY DEF mid, vals
    <3> QED BY <3>1, TakeReadings DEF vals
  <2>2. /\ prep.ok \in BOOLEAN
        /\ prep.ok => \A b \in Dss(q) : ~Malformed(q.ds[b], parsed.vals[b], interval)
    BY DEF update_pdp_prep
  <2>3. r = Accounted(q, line.time, prep)
    BY <1>2, <1>4
  <2> HIDE DEF prep
  <2>4. \A d \in Dss(q) : mid.pdp[d].last =
              IF Taken(q, idx, line, d) THEN parsed.vals[d] ELSE q.pdp[d].last
    BY <1>4, <2>1 DEF Taken, Unreadable
  <2>5. prep.ok => \A b \in Dss(q) : ~Unreadable(q, idx, line, b)
    BY <2>2 DEF Unreadable
  <2> HIDE DEF mid, interval, elapsed
  <2>6. SUFFICES /\ Shape(r.rrd) /\ Same(mid, r.rrd) /\ r.ok \in BOOLEAN
                 /\ DOMAIN r = {"ok", "smooth", "rrd"}
                 /\ r.ok => prep.ok
                 /\ r.rrd.lastUp = IF r.ok THEN line.time ELSE q.lastUp
                 /\ \A d \in Dss(q) : r.rrd.pdp[d].last = mid.pdp[d].last
    <3>1. Same(q, r.rrd)
      BY <2>1, <2>6 DEF Same
    <3> QED BY <1>4, <2>4, <2>5, <2>6, <3>1 DEF LineTaken
  <2>7. CASE ~prep.ok
    <3>1. r.ok = FALSE /\ r.rrd = mid /\ DOMAIN r = {"ok", "smooth", "rrd"}
      BY <2>3, <2>7 DEF Accounted, mid
    <3> QED BY <2>1, <3>1 DEF Same
  <2>8. CASE prep.ok /\ elapsed = 0
    <3> DEFINE s == simple_update(mid, interval, prep.pdpNew)
               p == [s EXCEPT !.lastUp = line.time]
    <3>1. r.ok = TRUE /\ r.rrd = p /\ DOMAIN r = {"ok", "smooth", "rrd"}
      BY <2>3, <2>8 DEF Accounted, mid, interval, elapsed
    <3>2. Keeps(mid, s)
      BY <2>1, SimpleKeeps
    <3> HIDE DEF s
    <3>3. Shape(p) /\ Same(s, p) /\ p.lastUp = line.time /\ p.pdp = s.pdp
      BY <3>2, PutTime DEF Keeps
    <3> HIDE DEF p
    <3>4. Same(mid, p) /\ \A d \in Dss(q) : p.pdp[d].last = mid.pdp[d].last
      BY <2>1, <3>2, <3>3 DEF Keeps, Same, Still, Dss
    <3> QED BY <2>8, <3>1, <3>3, <3>4
  <2>9. CASE prep.ok /\ elapsed # 0
    <3> DEFINE procPdps == StepStart(q, q.lastUp) \div q.step
               pre == StepStart(q, line.time) - q.lastUp
               post == line.time % q.step
               pdps == process_all_pdp_st(mid, interval, pre, post, elapsed, prep.pdpNew)
    <3>1. q.lastUp \in Int /\ q.lastUp <= line.time
      BY <1>1, <1>4 DEF Shape, DefsOk
    <3>2. elapsed \in Nat /\ procPdps \in Int
      BY <3>1, ElapsedIsNat DEF elapsed
    <3>3. r = Consolidated(q, line.time, elapsed, procPdps, pdps)
      BY <2>3, <2>9 DEF Accounted, mid, interval, elapsed
    <3> HIDE DEF pre, post, procPdps
    <3>4. Keeps(mid, pdps.rrd) /\ pdps.ok \in BOOLEAN
      BY <2>1, RatesOfKeep
    <3> HIDE DEF pdps
    <3>5. Dss(q) = Dss(mid) /\ Rras(q) = Rras(mid) /\ q.rra = mid.rra
      BY <2>1 DEF Same, Dss, Rras
    <3>6. /\ Shape(r.rrd) /\ Same(mid, r.rrd) /\ r.ok = pdps.ok
          /\ DOMAIN r = {"ok", "smooth", "rrd"}
          /\ r.rrd.lastUp = IF r.ok THEN line.time ELSE mid.lastUp
          /\ \A d \in Dss(mid) : r.rrd.pdp[d].last = mid.pdp[d].last
      BY <2>1, <3>2, <3>3, <3>4, <3>5, ConsolidatedKeeps, SMTT(60)
    <3> QED BY <2>1, <2>9, <3>4, <3>5, <3>6
  <2> QED BY <2>2, <2>7, <2>8, <2>9
<1> QED BY <1>1, <1>3, <1>4

-----------------------------------------------------------------------------
(* A whole update.                                                           *)

\* The rows of one archive are replaced by as many rows of values.
LEMMA PutData ==
    ASSUME NEW q, Shape(q), NEW i \in Rras(q), NEW rows,
           DOMAIN rows = 0 .. q.rra[i].rowCnt - 1,
           \A r \in DOMAIN rows : rows[r] = [d \in Dss(q) |-> rows[r][d]]
    PROVE  Keeps(q, [q EXCEPT !.data[i] = rows])
<1> DEFINE p == [q EXCEPT !.data[i] = rows]
           data == [q.data EXCEPT ![i] = rows]
<1>1. /\ DOMAIN p = RrdFields /\ p.data = data
      /\ \A x \in RrdFields \ {"data"} : p[x] = q[x]
  BY DEF Shape, DefsOk, RrdFields
<1> HIDE DEF p
<1>2. /\ p.ds = q.ds /\ p.rra = q.rra /\ p.pdp = q.pdp /\ p.cdp = q.cdp /\ p.lastUp = q.lastUp
      /\ p.cur = q.cur
  BY <1>1 DEF RrdFields
<1>3. Dss(p) = Dss(q) /\ Rras(p) = Rras(q)
  BY <1>2 DEF Dss, Rras
<1>4. DOMAIN data = Rras(q) /\ data[i] = rows /\ \A j \in Rras(q) : j # i => data[j] = q.data[j]
  BY DEF Shape, RowsOk
<1> HIDE DEF data
<1>5. RowsOk(p)
  <2> SUFFICES ASSUME NEW j \in Rras(q)
               PROVE  /\ q.cur[j] \in 0 .. q.rra[j].rowCnt - 1
                      /\ DOMAIN data[j] = 0 .. q.rra[j].rowCnt - 1
                      /\ \A r \in DOMAIN data[j] : data[j][r] = [d \in Dss(q) |-> data[j][r][d]]
    BY <1>1, <1>2, <1>3, <1>4 DEF Shape, RowsOk
  <2>1. CASE j = i
    BY <1>4, <2>1 DEF Shape, RowsOk
  <2>2. CASE j # i
    <3>1. data[j] = q.data[j]
      BY <1>4, <2>2
    <3> QED BY <3>1 DEF Shape, RowsOk
  <2> QED BY <2>1, <2>2
<1>6. ScratchOk(p)
  BY <1>2, <1>3 DEF Shape, ScratchOk, CdpOk
<1>7. Keeps(q, p)
  BY <1>1, <1>5, <1>6, RowsKeep
<1> QED BY <1>7 DEF p

\* The scratch areas of one archive are replaced by as many, which keep the
\* history of a FAILURES archive.
LEMMA PutAreas ==
    ASSUME NEW q, Shape(q), NEW i \in Rras(q), NEW areas,
           areas = [d \in Dss(q) |-> areas[d]],
           q.rra[i].cf = "FAILURES" => \A d \in Dss(q) : Viols(areas[d])
    PROVE  Keeps(q, [q EXCEPT !.cdp[i] = areas])
<1> DEFINE p == [q EXCEPT !.cdp[i] = areas]
           cdp == [q.cdp EXCEPT ![i] = areas]
<1>1. /\ DOMAIN p = RrdFields /\ p.cdp = cdp
      /\ \A x \in RrdFields \ {"cdp"} : p[x] = q[x]
  BY DEF Shape, DefsOk, RrdFields
<1> HIDE DEF p
<1>2. p.ds = q.ds /\ p.rra = q.rra /\ p.pdp = q.pdp /\ p.lastUp = q.lastUp
  BY <1>1 DEF RrdFields
<1>3. Dss(p) = Dss(q) /\ Rras(p) = Rras(q)
  BY <1>2 DEF Dss, Rras
<1>4. DOMAIN cdp = Rras(q) /\ cdp[i] = areas /\ \A j \in Rras(q) : j # i => cdp[j] = q.cdp[j]
  BY DEF Shape, ScratchOk
<1> HIDE DEF cdp
<1>5. ASSUME NEW j \in Rras(q) PROVE CdpOk(p, j)
  <2>1. CASE j = i
    BY <1>1, <1>2, <1>3, <1>4, <2>1 DEF CdpOk
  <2>2. CASE j # i
    BY <1>1, <1>2, <1>3, <1>4, <2>2 DEF Shape, ScratchOk, CdpOk
  <2> QED BY <2>1, <2>2
<1>6. ScratchOk(p)
  BY <1>1, <1>2, <1>3, <1>4, <1>5 DEF Shape, ScratchOk
<1>7. Keeps(q, p)
  BY <1>1, <1>2, <1>6, ScratchKeeps
<1> QED BY <1>7 DEF p

\* The moving average over a seasonal array replaces its rows and moves the
\* baseline of the archive it depends on.
LEMMA SmootherKeeps ==
    ASSUME NEW q, Shape(q), NEW i \in Rras(q)
    PROVE  Keeps(q, apply_smoother(q, i))
<1> DEFINE n == q.rra[i].rowCnt
           slots == 0 .. n - 1
           offset == SmootherOffset(q, i)
           hw == Dep(q, i)
           averaged == [d \in Dss(q) |-> MovingAverage([r \in slots |-> q.data[i][r][d]], n, offset)]
           baseline == [d \in Dss(q) |->
               DOver(FoldLeft(DAdd, 0, [k \in 1 .. n |-> averaged[d][k - 1]]), n)]
           seasonal == q.rra[i].cf = "SEASONAL"
           final(r, d) == IF seasonal
                          THEN init_seasonality(q.rra[hw].cf, averaged[d][r], baseline[d])
                          ELSE averaged[d][r]
           rows == [r \in slots |-> [d \in Dss(q) |-> final(r, d)]]
           idle == offset = 0 \/ \E r \in slots, d \in Dss(q) : ~Known(q.data[i][r][d])
           areas == [d \in Dss(q) |->
                       [q.cdp[hw][d] EXCEPT !.coef = DAdd(q.cdp[hw][d].coef, baseline[d])]]
           cdp == IF seasonal THEN [q.cdp EXCEPT ![hw] = areas] ELSE q.cdp
           p == [q EXCEPT !.data[i] = rows]
<1>1. apply_smoother(q, i) = IF idle THEN q ELSE [q EXCEPT !.data[i] = rows, !.cdp = cdp]
  BY DEF apply_smoother
<1>2. /\ DOMAIN rows = 0 .. q.rra[i].rowCnt - 1
      /\ \A r \in DOMAIN rows : rows[r] = [d \in Dss(q) |-> rows[r][d]]
  OBVIOUS
<1> HIDE DEF rows, idle, baseline
<1>3. \/ apply_smoother(q, i) = q
      \/ apply_smoother(q, i) = [q EXCEPT !.data[i] = rows, !.cdp = [q.cdp EXCEPT ![hw] = areas]]
      \/ apply_smoother(q, i) = [q EXCEPT !.data[i] = rows, !.cdp = q.cdp]
  BY <1>1
<1>4. Keeps(q, p)
  BY <1>2, PutData
<1>5. p.cdp = q.cdp /\ "cdp" \in DOMAIN p /\ DOMAIN p = DOMAIN q
  BY DEF Shape, DefsOk, RrdFields
<1>6. [q EXCEPT !.data[i] = rows, !.cdp = q.cdp] = p
  BY DEF Shape, DefsOk, RrdFields
<1>7. [q EXCEPT !.data[i] = rows, !.cdp = [q.cdp EXCEPT ![hw] = areas]] = [p EXCEPT !.cdp[hw] = areas]
  BY <1>5 DEF Shape, DefsOk, RrdFields
<1>8. /\ areas = [d \in Dss(q) |-> areas[d]]
      /\ hw \in Rras(q) => (q.rra[hw].cf = "FAILURES" => \A d \in Dss(q) : Viols(areas[d]))
  <2> SUFFICES ASSUME hw \in Rras(q), q.rra[hw].cf = "FAILURES", NEW d \in Dss(q)
               PROVE  Viols(areas[d])
    OBVIOUS
  <2>1. Viols(q.cdp[hw][d])
    BY DEF Shape, ScratchOk, CdpOk
  <2> QED BY <2>1 DEF Viols
<1> HIDE DEF areas, hw, p
<1>9. Shape(p) /\ Dss(p) = Dss(q) /\ Rras(p) = Rras(q) /\ p.rra = q.rra
  BY <1>4 DEF Keeps, Same, Dss, Rras
<1>10. Keeps(p, [p EXCEPT !.cdp[hw] = areas])
  <2>1. CASE hw \in Rras(q)
    BY <1>8, <1>9, <2>1, PutAreas
  <2>2. CASE hw \notin Rras(q)
    <3> DEFINE z == [p EXCEPT !.cdp[hw] = areas]
    <3>1. /\ DOMAIN z = RrdFields /\ DOMAIN z.cdp = Rras(p)
          /\ \A j \in Rras(p) : z.cdp[j] = p.cdp[j]
          /\ \A x \in RrdFields \ {"cdp"} : z[x] = p[x]
      BY <1>9, <2>2 DEF Shape, DefsOk, ScratchOk, RrdFields
    <3> HIDE DEF z
    <3>2. z.ds = p.ds /\ z.rra = p.rra /\ z.pdp = p.pdp
      BY <3>1 DEF RrdFields
    <3>3. Dss(z) = Dss(p) /\ Rras(z) = Rras(p)
      BY <3>2 DEF Dss, Rras
    <3>4. ASSUME NEW j \in Rras(p) PROVE CdpOk(z, j)
      BY <1>9, <3>1, <3>2, <3>3 DEF Shape, ScratchOk, CdpOk
    <3>5. ScratchOk(z)
      BY <1>9, <3>1, <3>2, <3>3, <3>4 DEF Shape, ScratchOk
    <3>6. Keeps(p, z)
      BY <1>9, <3>1, <3>2, <3>5, ScratchKeeps
    <3> QED BY <3>6 DEF z
  <2> QED BY <2>1, <2>2
<1>11. Keeps(q, [p EXCEPT !.cdp[hw] = areas])
  BY <1>4, <1>10, KeepsOn
<1> QED BY <1>3, <1>4, <1>6, <1>7, <1>11, KeepsItself

SmoothStep(a, b, c, d, e, f, r, i) == IF r.rra[i].cf \in SeasonCfs THEN apply_smoother(r, i) ELSE r
SmoothInv(rrd, b, c, d, e, f, k, r) == Keeps(rrd, r)
Smooths == INSTANCE FoldLemmas WITH Op <- SmoothStep, Inv <- SmoothInv

\* Smoothing the seasonal arrays one after the other.
LEMMA SmoothingKeeps ==
    ASSUME NEW q, Shape(q)
    PROVE  Keeps(q, smooth_all_rras(q))
<1> DEFINE l == Indices(q.rra)
           n == Len(q.rra)
<1>1. n \in Nat /\ DOMAIN l = 1 .. n /\ \A k \in 1 .. n : l[k] = k
  BY IndicesAre DEF Shape, DefsOk
<1>2. SmoothInv(q, 0, 0, 0, 0, 0, 0, q)
  BY KeepsItself DEF SmoothInv
<1>3. ASSUME NEW k \in 1 .. n, NEW r, SmoothInv(q, 0, 0, 0, 0, 0, k - 1, r)
      PROVE  SmoothInv(q, 0, 0, 0, 0, 0, k, SmoothStep(q, 0, 0, 0, 0, 0, r, l[k]))
  <2>1. Shape(r) /\ k \in Rras(r)
    BY <1>3 DEF SmoothInv, Keeps, Same, Rras
  <2>2. Keeps(r, SmoothStep(q, 0, 0, 0, 0, 0, r, k))
    BY <2>1, SmootherKeeps, KeepsItself DEF SmoothStep
  <2> QED BY <1>1, <1>3, <2>2, KeepsOn DEF SmoothInv
<1> HIDE DEF l, n
<1>4. SmoothInv(q, 0, 0, 0, 0, 0, n, Smooths!Fold(q, 0, 0, 0, 0, 0, q, l))
  BY <1>1, <1>2, <1>3, Smooths!FoldKeeps
<1>5. Smooths!Fold(q, 0, 0, 0, 0, 0, q, l) = smooth_all_rras(q)
  BY DEF l, smooth_all_rras, SmoothStep, FoldLeft, MapThenFoldSet, Max, Smooths!Fold, Smooths!Largest
<1> QED BY <1>4, <1>5 DEF SmoothInv

LinesStep(idx, b, c, d, e, f, st, line) ==
    IF ~st.ok THEN st ELSE Noting(st.smooth, process_arg(st.rrd, idx, line))
LinesInv(idx, b, c, d, e, rrd, k, st) ==
    /\ DOMAIN st = {"ok", "smooth", "rrd"} /\ st.ok \in BOOLEAN
    /\ Shape(st.rrd) /\ Same(rrd, st.rrd) /\ rrd.lastUp <= st.rrd.lastUp
UpLines == INSTANCE FoldLemmas WITH Op <- LinesStep, Inv <- LinesInv

\* The RRD a line that is tried leaves, in the loop over the lines.
LEMMA NotingLine ==
    ASSUME NEW q, Shape(q), NEW idx, NEW line, line.time \in Int, NEW smooth, NEW z,
           z = Noting(smooth, process_arg(q, idx, line))
    PROVE  /\ DOMAIN z = {"ok", "smooth", "rrd"} /\ z.ok = process_arg(q, idx, line).ok
           /\ z.rrd = process_arg(q, idx, line).rrd /\ LineTaken(q, idx, line, process_arg(q, idx, line))
           /\ z.ok => line.time > q.lastUp
<1> DEFINE r == process_arg(q, idx, line)
<1>1. LineTaken(q, idx, line, r)
  BY LineKeeps
<1>2. r.ok => line.time > q.lastUp
  BY <1>1 DEF LineTaken, Parsed, parse_ds
<1> HIDE DEF r
<1>3. z = [r EXCEPT !.smooth = @ \/ smooth]
  BY DEF Noting, r
<1>4. DOMAIN z = {"ok", "smooth", "rrd"} /\ z.ok = r.ok /\ z.rrd = r.rrd
  BY <1>1, <1>3 DEF LineTaken
<1> QED BY <1>1, <1>2, <1>4 DEF r

\* The lines up to the first that fails: the file keeps its shape and its
\* time does not go back.
LEMMA LinesKeep ==
    ASSUME NEW q, Shape(q), NEW idx, NEW lines, NEW n \in Nat, DOMAIN lines = 1 .. n,
           \A k \in 1 .. n : lines[k].time \in Int
    PROVE  LinesInv(idx, 0, 0, 0, 0, q, n, UpdateLines(q, idx, lines))
<1> DEFINE base == [ok |-> TRUE, smooth |-> FALSE, rrd |-> q]
<1>1. LinesInv(idx, 0, 0, 0, 0, q, 0, base)
  BY KeepsItself DEF LinesInv, Keeps, Shape, DefsOk
<1>2. ASSUME NEW k \in 1 .. n, NEW st, LinesInv(idx, 0, 0, 0, 0, q, k - 1, st)
      PROVE  LinesInv(idx, 0, 0, 0, 0, q, k, LinesStep(idx, 0, 0, 0, 0, q, st, lines[k]))
  <2>1. CASE ~st.ok
    BY <1>2, <2>1 DEF LinesInv, LinesStep
  <2>2. CASE st.ok
    <3> DEFINE z == LinesStep(idx, 0, 0, 0, 0, q, st, lines[k])
               r == process_arg(st.rrd, idx, lines[k])
    <3>1. z = Noting(st.smooth, r)
      BY <2>2 DEF LinesStep
    <3>2. Shape(st.rrd)
      BY <1>2 DEF LinesInv
    <3>3. /\ DOMAIN z = {"ok", "smooth", "rrd"} /\ z.ok = r.ok /\ z.rrd = r.rrd
          /\ LineTaken(st.rrd, idx, lines[k], r) /\ (z.ok => lines[k].time > st.rrd.lastUp)
      BY <3>1, <3>2, NotingLine
    <3> HIDE DEF z, r
    <3>4. st.rrd.lastUp \in Int /\ q.lastUp \in Int /\ lines[k].time \in Int
      BY <3>2 DEF Shape, DefsOk
    <3>5. st.rrd.lastUp <= z.rrd.lastUp /\ Shape(z.rrd) /\ Same(st.rrd, z.rrd) /\ z.ok \in BOOLEAN
          /\ z.rrd.lastUp \in Int
      BY <3>3, <3>4 DEF LineTaken
    <3>6. LinesInv(idx, 0, 0, 0, 0, q, k, z)
      BY <1>2, <3>3, <3>4, <3>5 DEF LinesInv, Same
    <3> QED BY <3>6 DEF z
  <2> QED BY <2>1, <2>2
<1> HIDE DEF base
<1>3. LinesInv(idx, 0, 0, 0, 0, q, n, UpLines!Fold(idx, 0, 0, 0, 0, q, base, lines))
  BY <1>1, <1>2, UpLines!FoldKeeps
<1>4. UpLines!Fold(idx, 0, 0, 0, 0, q, base, lines) = UpdateLines(q, idx, lines)
  BY DEF base, UpdateLines, LinesStep, FoldLeft, MapThenFoldSet, Max, UpLines!Fold, UpLines!Largest
<1> QED BY <1>3, <1>4

\* An update keeps the shape, whatever its template and lines.
LEMMA UpdateKeeps ==
    ASSUME NEW q, Shape(q), NEW tmplt, NEW lines, NEW n \in Nat, DOMAIN lines = 1 .. n,
           \A k \in 1 .. n : lines[k].time \in Int,
           NEW r, r = rrd_update(q, tmplt, lines)
    PROVE  Shape(r.rrd) /\ Same(q, r.rrd) /\ q.lastUp <= r.rrd.lastUp
<1> DEFINE template == IF tmplt = <<>> THEN [ok |-> TRUE, idx |-> DefaultTemplate(q)]
                       ELSE parse_template(q, tmplt)
<1>1. r = IF ~template.ok THEN [ok |-> FALSE, rrd |-> q]
          ELSE Smoothed(UpdateLines(q, template.idx, lines))
  BY DEF rrd_update
<1> HIDE DEF template
<1> DEFINE end == UpdateLines(q, template.idx, lines)
<1>2. Shape(end.rrd) /\ Same(q, end.rrd) /\ q.lastUp <= end.rrd.lastUp
  BY LinesKeep DEF LinesInv
<1> HIDE DEF end
<1>3. r.rrd = q \/ r.rrd = end.rrd \/ r.rrd = smooth_all_rras(end.rrd)
  BY <1>1 DEF Smoothed, end
<1>4. Keeps(end.rrd, smooth_all_rras(end.rrd))
  BY <1>2, SmoothingKeeps
<1>5. CASE r.rrd = q
  BY <1>5 DEF Shape, DefsOk, Same
<1>6. CASE r.rrd = end.rrd
  BY <1>2, <1>6
<1>7. CASE r.rrd = smooth_all_rras(end.rrd)
  BY <1>2, <1>4, <1>7 DEF Keeps, Same, Still
<1> QED BY <1>3, <1>5, <1>6, <1>7

-----------------------------------------------------------------------------
(* rrdtool tune.                                                             *)

\* The definitions may change, the layout of the file and the readings do not.
Laid(q, p) ==
    /\ Shape(p) /\ p.step = q.step /\ p.lastUp = q.lastUp
    /\ Len(p.ds) = Len(q.ds) /\ Len(p.rra) = Len(q.rra)
    /\ \A i \in Rras(q) : p.rra[i].rowCnt = q.rra[i].rowCnt /\ p.rra[i].pdpCnt = q.rra[i].pdpCnt
Readings(q, p) == \A d \in Dss(q) : p.pdp[d].last = q.pdp[d].last

\* What keeps the layout and the readings twice keeps them.
LEMMA LaidOn ==
    ASSUME NEW r, NEW q, NEW p, Laid(r, q), Laid(q, p)
    PROVE  /\ Laid(r, p) /\ Rras(p) = Rras(r) /\ Dss(p) = Dss(r)
           /\ Readings(r, q) /\ Readings(q, p) => Readings(r, p)
BY DEF Laid, Readings, Rras, Dss

\* What keeps the definitions keeps the layout.
LEMMA KeptIsLaid ==
    ASSUME NEW q, NEW p, Keeps(q, p)
    PROVE  Laid(q, p) /\ Readings(q, p) /\ Rras(p) = Rras(q) /\ Dss(p) = Dss(q)
BY DEF Laid, Readings, Keeps, Same, Still, Rras, Dss

\* An element of a list is replaced.
LEMMA PutInList ==
    ASSUME NEW s, IsList(s), NEW k \in 1 .. Len(s), NEW x
    PROVE  LET t == [s EXCEPT ![k] = x]
           IN  IsList(t) /\ Len(t) = Len(s) /\ t[k] = x /\ \A j \in 1 .. Len(s) : j # k => t[j] = s[j]
<1> DEFINE t == [s EXCEPT ![k] = x]
           n == Len(s)
<1>1. n \in Nat /\ DOMAIN s = 1 .. n
  BY DEF IsList
<1>2. t = [j \in 1 .. n |-> t[j]] /\ t[k] = x /\ \A j \in 1 .. n : j # k => t[j] = s[j]
  BY <1>1
<1> HIDE DEF t, n
<1>3. Len(t) = n
  BY <1>1, <1>2
<1>4. IsList(t)
  BY <1>1, <1>2, <1>3 DEF IsList
<1> QED BY <1>2, <1>3, <1>4 DEF t, n

\* A parameter of an archive changes.
LEMMA PutDef ==
    ASSUME NEW q, Shape(q), NEW i \in Rras(q), NEW def, RraOk(def),
           def.cf = q.rra[i].cf, def.rowCnt = q.rra[i].rowCnt, def.pdpCnt = q.rra[i].pdpCnt
    PROVE  LET p == [q EXCEPT !.rra[i] = def] IN Laid(q, p) /\ Readings(q, p)
<1> DEFINE p == [q EXCEPT !.rra[i] = def]
           rra == [q.rra EXCEPT ![i] = def]
<1>1. DOMAIN p = RrdFields /\ p.rra = rra /\ \A x \in RrdFields \ {"rra"} : p[x] = q[x]
  BY DEF Shape, DefsOk, RrdFields
<1> HIDE DEF p
<1>2. /\ IsList(rra) /\ Len(rra) = Len(q.rra) /\ rra[i] = def
      /\ \A j \in Rras(q) : j # i => rra[j] = q.rra[j]
  <2>1. IsList(q.rra) /\ i \in 1 .. Len(q.rra)
    BY DEF Shape, DefsOk, Rras
  <2> QED BY <2>1, PutInList DEF Rras
<1> HIDE DEF rra
<1>3. /\ p.ds = q.ds /\ p.pdp = q.pdp /\ p.cdp = q.cdp /\ p.cur = q.cur /\ p.data = q.data
      /\ p.step = q.step /\ p.lastUp = q.lastUp /\ p.version = q.version
  BY <1>1 DEF RrdFields
<1>4. Dss(p) = Dss(q) /\ Rras(p) = Rras(q)
  BY <1>1, <1>2, <1>3 DEF Dss, Rras
<1>5. \A j \in Rras(q) : /\ rra[j].cf = q.rra[j].cf /\ rra[j].rowCnt = q.rra[j].rowCnt
                         /\ rra[j].pdpCnt = q.rra[j].pdpCnt /\ RraOk(rra[j])
  BY <1>2 DEF Shape, DefsOk
<1>6. DefsOk(p)
  BY <1>1, <1>2, <1>3, <1>4, <1>5 DEF Shape, DefsOk
<1>7. ScratchOk(p)
  BY <1>1, <1>3, <1>4, <1>5 DEF Shape, ScratchOk, CdpOk
<1>8. RowsOk(p)
  BY <1>1, <1>3, <1>4, <1>5 DEF Shape, RowsOk
<1>9. Laid(q, p) /\ Readings(q, p)
  BY <1>1, <1>2, <1>3, <1>5, <1>6, <1>7, <1>8 DEF Shape, Laid, Readings
<1> QED BY <1>9 DEF p

\* A parameter of a data source changes.
LEMMA PutDs ==
    ASSUME NEW q, Shape(q), NEW d \in Dss(q), NEW def
    PROVE  LET p == [q EXCEPT !.ds[d] = def] IN Laid(q, p) /\ Readings(q, p)
<1> DEFINE p == [q EXCEPT !.ds[d] = def]
           ds == [q.ds EXCEPT ![d] = def]
<1>1. DOMAIN p = RrdFields /\ p.ds = ds /\ \A x \in RrdFields \ {"ds"} : p[x] = q[x]
  BY DEF Shape, DefsOk, RrdFields
<1> HIDE DEF p
<1>2. IsList(ds) /\ Len(ds) = Len(q.ds)
  <2>1. IsList(q.ds) /\ d \in 1 .. Len(q.ds)
    BY DEF Shape, DefsOk, Dss
  <2> QED BY <2>1, PutInList
<1> HIDE DEF ds
<1>3. /\ p.rra = q.rra /\ p.pdp = q.pdp /\ p.cdp = q.cdp /\ p.cur = q.cur /\ p.data = q.data
      /\ p.step = q.step /\ p.lastUp = q.lastUp /\ p.version = q.version
  BY <1>1 DEF RrdFields
<1>4. Dss(p) = Dss(q) /\ Rras(p) = Rras(q)
  BY <1>1, <1>2, <1>3 DEF Dss, Rras
<1>5. DefsOk(p)
  BY <1>1, <1>2, <1>3, <1>4 DEF Shape, DefsOk
<1>6. ScratchOk(p)
  BY <1>3, <1>4 DEF Shape, ScratchOk, CdpOk
<1>7. RowsOk(p)
  BY <1>3, <1>4 DEF Shape, RowsOk
<1>8. Laid(q, p) /\ Readings(q, p)
  BY <1>1, <1>2, <1>3, <1>5, <1>6, <1>7 DEF Shape, Laid, Readings
<1> QED BY <1>8 DEF p

\* The file becomes one of version 4.
LEMMA PutVersion ==
    ASSUME NEW q, Shape(q), NEW v \in {3, 4}
    PROVE  LET p == [q EXCEPT !.version = v] IN Laid(q, p) /\ Readings(q, p) /\ p.rra = q.rra
<1> DEFINE p == [q EXCEPT !.version = v]
<1>1. DOMAIN p = RrdFields /\ p.version = v /\ \A x \in RrdFields \ {"version"} : p[x] = q[x]
  BY DEF Shape, DefsOk, RrdFields
<1> HIDE DEF p
<1>2. /\ p.ds = q.ds /\ p.rra = q.rra /\ p.pdp = q.pdp /\ p.cdp = q.cdp /\ p.cur = q.cur
      /\ p.data = q.data /\ p.step = q.step /\ p.lastUp = q.lastUp
  BY <1>1 DEF RrdFields
<1>3. Dss(p) = Dss(q) /\ Rras(p) = Rras(q)
  BY <1>2 DEF Dss, Rras
<1>4. DefsOk(p)
  BY <1>1, <1>2, <1>3 DEF Shape, DefsOk
<1>5. ScratchOk(p)
  BY <1>2, <1>3 DEF Shape, ScratchOk, CdpOk
<1>6. RowsOk(p)
  BY <1>2, <1>3 DEF Shape, RowsOk
<1>7. Laid(q, p) /\ Readings(q, p) /\ p.rra = q.rra
  BY <1>2, <1>4, <1>5, <1>6 DEF Shape, Laid, Readings
<1> QED BY <1>7 DEF p

\* The archive an option is for, when there is one.
LEMMA FirstIsRra ==
    ASSUME NEW q, IsList(q.rra), NEW cf
    PROVE  FirstOf(q, cf) = 0 \/ FirstOf(q, cf) \in Rras(q)
<1> DEFINE is == {i \in Rras(q) : q.rra[i].cf = cf}
<1>1. CASE is = {}
  BY <1>1 DEF FirstOf
<1>2. CASE is # {}
  <2>1. is \in SUBSET Nat
    BY DEF Rras
  <2> HIDE DEF is
  <2>2. \E i \in is : \A j \in is : i <= j
    BY <1>2, <2>1, Least
  <2>3. FirstOf(q, cf) \in is
    BY <1>2, <2>2, Zenon DEF FirstOf, is
  <2> QED BY <2>3 DEF is
<1> QED BY <1>1, <1>2

\* The parameters of archives that options change.
TunedFields == {"alpha", "beta", "gamma", "smoothing", "deltaPos", "deltaNeg", "threshold", "window"}

\* An option for an archive changes one of its parameters.
LEMMA SetRraLaid ==
    ASSUME NEW q, Shape(q), NEW i, i = 0 \/ i \in Rras(q), NEW valid \in BOOLEAN,
           NEW field \in TunedFields, NEW v,
           valid /\ field = "window" => v \in 1 .. MAX_FAILURES_WINDOW_LEN
    PROVE  LET s == SetRra(q, i, valid, field, v)
           IN  /\ Laid(q, s.rrd) /\ Readings(q, s.rrd) /\ s.ok \in BOOLEAN /\ DOMAIN s = {"ok", "rrd"}
               /\ s.ok => i \in Rras(q)
<1> DEFINE s == SetRra(q, i, valid, field, v)
<1>1. CASE ~(valid /\ i # 0)
  <2>1. s = [ok |-> FALSE, rrd |-> q]
    BY <1>1 DEF SetRra
  <2> QED BY <2>1, KeepsItself, KeptIsLaid
<1>2. CASE valid /\ i # 0
  <2> DEFINE def == [q.rra[i] EXCEPT ![field] = v]
             p == [q EXCEPT !.rra[i] = def]
  <2>1. s = [ok |-> TRUE, rrd |-> p]
    BY <1>2 DEF SetRra
  <2>2. i \in Rras(q) /\ RraOk(q.rra[i])
    BY <1>2 DEF Shape, DefsOk
  <2>3. /\ DOMAIN def = DOMAIN q.rra[i]
        /\ \A x \in DOMAIN q.rra[i] : x # field => def[x] = q.rra[i][x]
        /\ field \in DOMAIN def => def[field] = v
    OBVIOUS
  <2> HIDE DEF def
  <2>4. /\ def.cf = q.rra[i].cf /\ def.rowCnt = q.rra[i].rowCnt /\ def.pdpCnt = q.rra[i].pdpCnt
    BY <2>2, <2>3 DEF RraOk, TunedFields
  <2>5. "window" \in DOMAIN def =>
          def.window = IF field = "window" THEN v ELSE q.rra[i].window
    BY <2>3
  <2>6. RraOk(def)
    BY <1>2, <2>2, <2>3, <2>4, <2>5 DEF RraOk
  <2>7. Laid(q, p) /\ Readings(q, p)
    BY <2>2, <2>4, <2>6, PutDef
  <2> HIDE DEF p
  <2> QED BY <2>1, <2>2, <2>7
<1> QED BY <1>1, <1>2

\* What an option may do when it leaves the readings alone.
Quiet(q, r) ==
    DOMAIN r = {"ok", "rrd"} /\ r.ok \in BOOLEAN /\ Laid(q, r.rrd) /\ Readings(q, r.rrd)

\* --alpha, --beta, --gamma and --gamma-deviation.
LEMMA HwArgQuiet ==
    ASSUME NEW q, Shape(q), NEW cf, NEW field \in TunedFields \ {"window"}, NEW v
    PROVE  Quiet(q, set_hwarg(q, cf, field, v))
<1> DEFINE first == FirstOf(q, cf)
           i == IF cf = "HWPREDICT" /\ first = 0 THEN FirstOf(q, "MHWPREDICT") ELSE first
<1>1. i = 0 \/ i \in Rras(q)
  BY FirstIsRra DEF Shape, DefsOk
<1>2. set_hwarg(q, cf, field, v) = SetRra(q, i, Fraction(v), field, v)
  BY DEF set_hwarg
<1>3. Fraction(v) \in BOOLEAN
  BY DEF Fraction
<1> HIDE DEF i
<1> QED BY <1>1, <1>2, <1>3, SetRraLaid DEF Quiet

\* --smoothing-window and --smoothing-window-deviation: the file becomes one of
\* version 4 even when the option is refused.
LEMMA SmoothArgQuiet ==
    ASSUME NEW q, Shape(q), NEW cf, NEW v
    PROVE  Quiet(q, set_hwsmootharg(q, cf, v))
<1> DEFINE p == [q EXCEPT !.version = RRD_VERSION]
           i == FirstOf(q, cf)
           valid == 0 <= v /\ v <= Unit
           s == SetRra(p, i, valid, "smoothing", v)
<1>1. Laid(q, p) /\ Readings(q, p)
  BY PutVersion DEF RRD_VERSION
<1>2. i = 0 \/ i \in Rras(q)
  BY FirstIsRra DEF Shape, DefsOk
<1>3. set_hwsmootharg(q, cf, v) = s
  BY DEF set_hwsmootharg
<1>4. valid \in BOOLEAN /\ "smoothing" \in TunedFields /\ "smoothing" # "window"
  BY DEF TunedFields
<1> HIDE DEF p, i, valid
<1>5. Shape(p) /\ Rras(p) = Rras(q)
  BY <1>1 DEF Laid, Rras
<1>6. Laid(p, s.rrd) /\ Readings(p, s.rrd) /\ s.ok \in BOOLEAN /\ DOMAIN s = {"ok", "rrd"}
  BY <1>2, <1>4, <1>5, SetRraLaid
<1> HIDE DEF s
<1>7. Laid(q, s.rrd) /\ Readings(q, s.rrd)
  BY <1>1, <1>6, LaidOn
<1> QED BY <1>3, <1>6, <1>7 DEF Quiet

\* --deltapos and --deltaneg.
LEMMA DeltaQuiet ==
    ASSUME NEW q, Shape(q), NEW field \in TunedFields \ {"window"}, NEW v
    PROVE  Quiet(q, set_deltaarg(q, field, v))
<1> DEFINE i == FirstOf(q, "FAILURES")
           valid == 10 * v >= Unit
<1>1. i = 0 \/ i \in Rras(q)
  BY FirstIsRra DEF Shape, DefsOk
<1>2. set_deltaarg(q, field, v) = SetRra(q, i, valid, field, v) /\ valid \in BOOLEAN
  BY DEF set_deltaarg
<1> HIDE DEF i, valid
<1> QED BY <1>1, <1>2, SetRraLaid DEF Quiet

EraseStep(i, b, c, d, e, f, r, x) == erase_violations(r, i, x)
EraseInv(i, b, c, d, e, rrd, k, r) == Keeps(rrd, r)
Erases == INSTANCE FoldLemmas WITH Op <- EraseStep, Inv <- EraseInv

\* --failure-threshold and --window-length: the histories start anew.
LEMMA WindowQuiet ==
    ASSUME NEW q, Shape(q), NEW field \in {"threshold", "window"}, NEW v
    PROVE  Quiet(q, set_windowarg(q, field, v))
<1> DEFINE i == FirstOf(q, "FAILURES")
           valid == v \in 1 .. MAX_FAILURES_WINDOW_LEN
           s == SetRra(q, i, valid, field, v)
           l == [d \in Dss(q) |-> d]
           n == Len(q.ds)
           erased == FoldLeft(LAMBDA r, d : erase_violations(r, i, d), s.rrd, l)
<1>1. i = 0 \/ i \in Rras(q)
  BY FirstIsRra DEF Shape, DefsOk
<1>2. set_windowarg(q, field, v) = IF s.ok THEN [s EXCEPT !.rrd = erased] ELSE s
  BY DEF set_windowarg
<1>3. field \in TunedFields /\ valid \in BOOLEAN
  BY DEF TunedFields
<1>4. n \in Nat /\ DOMAIN l = 1 .. n /\ \A k \in 1 .. n : l[k] = k
  BY DEF Shape, DefsOk, IsList, Dss
<1>5. /\ Laid(q, s.rrd) /\ Readings(q, s.rrd) /\ s.ok \in BOOLEAN /\ DOMAIN s = {"ok", "rrd"}
      /\ s.ok => i \in Rras(q)
  <2>1. valid /\ field = "window" => v \in 1 .. MAX_FAILURES_WINDOW_LEN
    OBVIOUS
  <2> HIDE DEF i, valid
  <2> QED BY <1>1, <1>3, <2>1, SetRraLaid
<1> HIDE DEF s, i
<1>6. CASE ~s.ok
  BY <1>2, <1>5, <1>6 DEF Quiet
<1>7. CASE s.ok
  <2> DEFINE fold == Erases!Fold(i, 0, 0, 0, 0, s.rrd, s.rrd, l)
  <2>1. Shape(s.rrd) /\ Len(s.rrd.ds) = n /\ i \in Rras(s.rrd)
    BY <1>5, <1>7 DEF Laid, Rras
  <2>2. EraseInv(i, 0, 0, 0, 0, s.rrd, 0, s.rrd)
    BY <2>1, KeepsItself DEF EraseInv
  <2>3. ASSUME NEW k \in 1 .. n, NEW r, EraseInv(i, 0, 0, 0, 0, s.rrd, k - 1, r)
        PROVE  EraseInv(i, 0, 0, 0, 0, s.rrd, k, EraseStep(i, 0, 0, 0, 0, s.rrd, r, l[k]))
    <3>1. Shape(r) /\ i \in Rras(r) /\ k \in Dss(r)
      BY <2>1, <2>3 DEF EraseInv, Keeps, Same, Rras, Dss
    <3>2. Keeps(r, erase_violations(r, i, k))
      BY <3>1, EraseKeeps
    <3> QED BY <1>4, <2>3, <3>2, KeepsOn DEF EraseInv, EraseStep
  <2> HIDE DEF l, n
  <2>4. EraseInv(i, 0, 0, 0, 0, s.rrd, n, fold)
    BY <1>4, <2>2, <2>3, Erases!FoldKeeps
  <2>5. fold = erased
    BY DEF l, EraseStep, FoldLeft, MapThenFoldSet, Max, Erases!Fold, Erases!Largest
  <2> HIDE DEF fold, erased
  <2>6. Laid(q, erased) /\ Readings(q, erased)
    BY <1>5, <2>4, <2>5, KeptIsLaid, LaidOn DEF EraseInv
  <2>7. [s EXCEPT !.rrd = erased] = [ok |-> s.ok, rrd |-> erased] \/
        /\ DOMAIN [s EXCEPT !.rrd = erased] = {"ok", "rrd"}
        /\ [s EXCEPT !.rrd = erased].ok = s.ok /\ [s EXCEPT !.rrd = erased].rrd = erased
    BY <1>5
  <2> QED BY <1>2, <1>5, <1>7, <2>6, <2>7 DEF Quiet
<1> QED BY <1>5, <1>6, <1>7

\* The name of a data source finds one of them, or none.
LEMMA MatchIsDs ==
    ASSUME NEW q, IsList(q.ds), NEW nam
    PROVE  ds_match(q, nam) = 0 \/ ds_match(q, nam) \in Dss(q)
<1> DEFINE is == {i \in Dss(q) : q.ds[i].nam = nam}
<1>1. CASE is = {}
  BY <1>1 DEF ds_match
<1>2. CASE is # {}
  <2>1. is \in SUBSET Nat
    BY DEF Dss
  <2> HIDE DEF is
  <2>2. PICK i \in is : \A j \in is : i <= j
    BY <1>2, <2>1, Least
  <2>3. i \in Dss(q) /\ q.ds[i].nam = nam
    BY <2>2 DEF is
  <2>4. \A j \in 1 .. i - 1 : q.ds[j].nam # nam
    <3> SUFFICES ASSUME NEW j \in 1 .. i - 1, q.ds[j].nam = nam PROVE FALSE
      OBVIOUS
    <3>1. i \in Nat /\ j \in Nat /\ j < i /\ j \in Dss(q)
      BY <2>3 DEF Dss
    <3>2. j \in is
      BY <3>1 DEF is
    <3>3. i <= j
      BY <2>2, <3>2
    <3> QED BY <3>1, <3>3
  <2> QED BY <2>3, <2>4, Zenon DEF ds_match
<1> QED BY <1>1, <1>2

\* --heartbeat, --minimum, --maximum and --data-source-rename.
LEMMA DsQuiet ==
    ASSUME NEW q, Shape(q), NEW nam, NEW field, NEW v
    PROVE  Quiet(q, SetDs(q, nam, field, v))
<1> DEFINE d == ds_match(q, nam)
           def == [q.ds[d] EXCEPT ![field] = v]
<1>1. d = 0 \/ d \in Dss(q)
  BY MatchIsDs DEF Shape, DefsOk
<1>2. SetDs(q, nam, field, v) = IF d = 0 THEN [ok |-> FALSE, rrd |-> q]
                                ELSE [ok |-> TRUE, rrd |-> [q EXCEPT !.ds[d] = def]]
  BY DEF SetDs
<1> HIDE DEF d, def
<1>3. CASE d = 0
  BY <1>2, <1>3, KeepsItself, KeptIsLaid DEF Quiet
<1>4. CASE d # 0
  <2>1. LET p == [q EXCEPT !.ds[d] = def] IN Laid(q, p) /\ Readings(q, p)
    BY <1>1, <1>4, PutDs
  <2> QED BY <1>2, <1>4, <2>1 DEF Quiet
<1> QED BY <1>3, <1>4

\* --data-source-type: a new type makes the data source forget its reading.
Retypes(q, o) ==
    /\ o.opt = "data-source-type" /\ o.val \in Dsts
    /\ ds_match(q, o.ds) # 0 /\ q.ds[ds_match(q, o.ds)].dst # o.val
LastAfter(q, o, d) ==
    IF Retypes(q, o) /\ d = ds_match(q, o.ds) THEN U ELSE q.pdp[d].last
TunedBy(q, o, r) ==
    /\ DOMAIN r = {"ok", "rrd"} /\ r.ok \in BOOLEAN /\ Laid(q, r.rrd)
    /\ Retypes(q, o) => r.ok
    /\ \A d \in Dss(q) : r.rrd.pdp[d].last = LastAfter(q, o, d)

\* A new type forgets the last reading of its data source, and no other.
LEMMA TypeTuned ==
    ASSUME NEW q, Shape(q), NEW o, o.opt = "data-source-type"
    PROVE  TunedBy(q, o, SetType(q, o.ds, o.val))
<1> DEFINE d == ds_match(q, o.ds)
           def == [q.ds[d] EXCEPT !.dst = o.val]
           p == [q EXCEPT !.ds[d] = def]
           set == SetDs(q, o.ds, "dst", o.val)
           r == SetType(q, o.ds, o.val)
<1>1. d = 0 \/ d \in Dss(q)
  BY MatchIsDs DEF Shape, DefsOk
<1>2. set = IF d = 0 THEN [ok |-> FALSE, rrd |-> q] ELSE [ok |-> TRUE, rrd |-> p]
  BY DEF SetDs
<1>3. r = IF o.val \notin Dsts THEN [ok |-> FALSE, rrd |-> q]
          ELSE IF set.ok /\ q.ds[d].dst # o.val THEN [set EXCEPT !.rrd.pdp[d].last = U] ELSE set
  BY DEF SetType
<1>4. Retypes(q, o) <=> o.val \in Dsts /\ d # 0 /\ q.ds[d].dst # o.val
  BY DEF Retypes
<1> HIDE DEF r, set
<1>5. CASE o.val \notin Dsts \/ d = 0
  <2>1. r = [ok |-> FALSE, rrd |-> q] /\ ~Retypes(q, o)
    BY <1>2, <1>3, <1>4, <1>5
  <2>2. Laid(q, q)
    BY KeepsItself, KeptIsLaid
  <2> QED BY <2>1, <2>2 DEF TunedBy, LastAfter, r
<1>6. CASE o.val \in Dsts /\ d # 0
  <2>1. set = [ok |-> TRUE, rrd |-> p] /\ d \in Dss(q)
    BY <1>1, <1>2, <1>6
  <2>2. Laid(q, p) /\ Readings(q, p)
    BY <2>1, PutDs
  <2> HIDE DEF p
  <2>3. CASE q.ds[d].dst = o.val
    <3>1. r = [ok |-> TRUE, rrd |-> p] /\ ~Retypes(q, o)
      BY <1>3, <1>4, <1>6, <2>1, <2>3
    <3> QED BY <2>2, <3>1 DEF TunedBy, LastAfter, r, Readings
  <2>4. CASE q.ds[d].dst # o.val
    <3> DEFINE z == [p EXCEPT !.pdp[d].last = U]
               pdp == [p.pdp EXCEPT ![d].last = U]
    <3>1. r = [ok |-> TRUE, rrd |-> z] /\ Retypes(q, o)
      <4>1. r = [set EXCEPT !.rrd.pdp[d].last = U]
        BY <1>3, <1>6, <2>1, <2>4
      <4>2. r = [ok |-> TRUE, rrd |-> z]
        BY <2>1, <4>1
      <4> QED BY <1>4, <1>6, <2>4, <4>2
    <3>2. DOMAIN z = RrdFields /\ z.pdp = pdp /\ \A x \in RrdFields \ {"pdp"} : z[x] = p[x]
      BY <2>2 DEF Laid, Shape, DefsOk, RrdFields
    <3> HIDE DEF z
    <3>3. /\ z.ds = p.ds /\ z.rra = p.rra /\ z.cdp = p.cdp /\ z.cur = p.cur /\ z.data = p.data
          /\ z.step = p.step /\ z.lastUp = p.lastUp /\ z.version = p.version
      BY <3>2 DEF RrdFields
    <3>4. Shape(p) /\ Dss(p) = Dss(q) /\ Dss(z) = Dss(p) /\ Rras(z) = Rras(p)
      BY <2>2, <3>3 DEF Laid, Dss, Rras
    <3>5. pdp = [e \in Dss(p) |-> pdp[e]]
      BY <3>4 DEF Shape, ScratchOk
    <3>6. ASSUME NEW e \in Dss(p)
          PROVE  "last" \in DOMAIN pdp[e] /\ pdp[e].last = IF e = d THEN U ELSE p.pdp[e].last
      BY <3>4 DEF Shape, ScratchOk
    <3> HIDE DEF pdp
    <3>7. ScratchOk(z)
      BY <3>2, <3>3, <3>4, <3>5, <3>6 DEF Shape, ScratchOk, CdpOk
    <3>8. DefsOk(z)
      BY <3>2, <3>3, <3>4 DEF Shape, DefsOk
    <3>9. RowsOk(z)
      BY <3>3, <3>4 DEF Shape, RowsOk
    <3>10. Laid(q, z)
      BY <2>2, <3>3, <3>7, <3>8, <3>9 DEF Laid, Shape
    <3>11. \A e \in Dss(q) : z.pdp[e].last = LastAfter(q, o, e)
      BY <2>2, <3>1, <3>2, <3>4, <3>6 DEF LastAfter, Readings
    <3> QED BY <3>1, <3>10, <3>11 DEF TunedBy, r
  <2> QED BY <2>3, <2>4
<1> QED BY <1>5, <1>6

ForgetStep(d, b, c, x, e, f, r, i) ==
    LET cf == r.rra[i].cf IN
    CASE cf \in PredictionCfs ->
            [r EXCEPT !.cdp[i][d] =
                [init_hwpredict_cdp EXCEPT !.primary = r.cdp[i][d].primary,
                                           !.secondary = r.cdp[i][d].secondary]]
      [] cf \in SeasonCfs ->
            [r EXCEPT !.cdp[i][d].coef = NaN, !.cdp[i][d].lastCoef = NaN,
                      !.data[i] = [k \in DOMAIN @ |-> [@[k] EXCEPT ![d] = NaN]]]
      [] cf = "FAILURES" -> erase_violations(r, i, d)
      [] OTHER -> r
ForgetInv(d, b, c, x, e, rrd, k, r) == Keeps(rrd, r)
Forgets == INSTANCE FoldLemmas WITH Op <- ForgetStep, Inv <- ForgetInv

\* The coefficients of one data source in one archive start anew.
LEMMA ForgetKeeps ==
    ASSUME NEW q, Shape(q), NEW i \in Rras(q), NEW d \in Dss(q)
    PROVE  Keeps(q, ForgetStep(d, 0, 0, 0, 0, q, q, i))
<1> DEFINE z == ForgetStep(d, 0, 0, 0, 0, q, q, i)
           cf == q.rra[i].cf
<1>1. CASE cf \in PredictionCfs
  <2> DEFINE c == [init_hwpredict_cdp EXCEPT !.primary = q.cdp[i][d].primary,
                                             !.secondary = q.cdp[i][d].secondary]
  <2>1. z = [q EXCEPT !.cdp[i][d] = c]
    BY <1>1 DEF ForgetStep, PredictionCfs, SeasonCfs
  <2>2. cf # "FAILURES"
    BY <1>1 DEF PredictionCfs
  <2> HIDE DEF c, z
  <2> QED BY <2>1, <2>2, PutCdp DEF z
<1>2. CASE cf \in SeasonCfs
  <2> DEFINE c == [q.cdp[i][d] EXCEPT !.coef = NaN, !.lastCoef = NaN]
             p == [q EXCEPT !.cdp[i][d] = c]
             rows == [k \in DOMAIN q.data[i] |-> [q.data[i][k] EXCEPT ![d] = NaN]]
  <2>1. z = [q EXCEPT !.cdp[i][d].coef = NaN, !.cdp[i][d].lastCoef = NaN, !.data[i] = rows]
    BY <1>2 DEF ForgetStep, PredictionCfs, SeasonCfs
  <2>2. cf # "FAILURES"
    BY <1>2 DEF SeasonCfs
  <2>3. [q EXCEPT !.cdp[i][d].coef = NaN, !.cdp[i][d].lastCoef = NaN, !.data[i] = rows]
          = [p EXCEPT !.data[i] = rows]
    BY DEF Shape, DefsOk, ScratchOk, CdpOk, RrdFields
  <2>4. /\ DOMAIN rows = 0 .. q.rra[i].rowCnt - 1
        /\ \A r \in DOMAIN rows : rows[r] = [e \in Dss(q) |-> rows[r][e]]
    <3>1. DOMAIN rows = 0 .. q.rra[i].rowCnt - 1
      BY DEF Shape, RowsOk
    <3>2. ASSUME NEW r \in DOMAIN q.data[i] PROVE rows[r] = [e \in Dss(q) |-> rows[r][e]]
      <4>1. q.data[i][r] = [e \in Dss(q) |-> q.data[i][r][e]]
        BY DEF Shape, RowsOk
      <4>2. rows[r] = [q.data[i][r] EXCEPT ![d] = NaN]
        OBVIOUS
      <4> HIDE DEF rows
      <4> QED BY <4>1, <4>2
    <3> QED BY <3>1, <3>2
  <2> HIDE DEF c, rows
  <2>5. Keeps(q, p)
    BY <2>2, PutCdp
  <2> HIDE DEF p, z
  <2>6. Shape(p) /\ i \in Rras(p) /\ p.rra = q.rra /\ Dss(p) = Dss(q)
    BY <2>5 DEF Keeps, Same, Rras, Dss
  <2>7. Keeps(p, [p EXCEPT !.data[i] = rows])
    BY <2>4, <2>6, PutData
  <2> QED BY <2>1, <2>3, <2>5, <2>7, KeepsOn DEF z
<1>3. CASE cf = "FAILURES"
  <2>1. z = erase_violations(q, i, d)
    BY <1>3 DEF ForgetStep, PredictionCfs, SeasonCfs
  <2> QED BY <2>1, EraseKeeps
<1>4. CASE cf \notin PredictionCfs /\ cf \notin SeasonCfs /\ cf # "FAILURES"
  <2>1. z = q
    BY <1>4 DEF ForgetStep
  <2> QED BY <2>1, KeepsItself
<1> QED BY <1>1, <1>2, <1>3, <1>4

\* --aberrant-reset: the coefficients of a data source in every archive.
LEMMA AberrantResetKeeps ==
    ASSUME NEW q, Shape(q), NEW d \in Dss(q)
    PROVE  Keeps(q, reset_aberrant_coefficients(q, d))
<1> DEFINE l == [i \in Rras(q) |-> i]
           n == Len(q.rra)
<1>1. n \in Nat /\ DOMAIN l = 1 .. n /\ \A k \in 1 .. n : l[k] = k
  BY DEF Shape, DefsOk, IsList, Rras
<1>2. ForgetInv(d, 0, 0, 0, 0, q, 0, q)
  BY KeepsItself DEF ForgetInv
<1>3. ASSUME NEW k \in 1 .. n, NEW r, ForgetInv(d, 0, 0, 0, 0, q, k - 1, r)
      PROVE  ForgetInv(d, 0, 0, 0, 0, q, k, ForgetStep(d, 0, 0, 0, 0, q, r, l[k]))
  <2>1. Shape(r) /\ k \in Rras(r) /\ d \in Dss(r)
    BY <1>3 DEF ForgetInv, Keeps, Same, Rras, Dss
  <2>2. Keeps(r, ForgetStep(d, 0, 0, 0, 0, r, r, k))
    BY <2>1, ForgetKeeps
  <2>3. ForgetStep(d, 0, 0, 0, 0, r, r, k) = ForgetStep(d, 0, 0, 0, 0, q, r, k)
    BY DEF ForgetStep
  <2> QED BY <1>1, <1>3, <2>2, <2>3, KeepsOn DEF ForgetInv
<1> HIDE DEF l, n
<1>4. ForgetInv(d, 0, 0, 0, 0, q, n, Forgets!Fold(d, 0, 0, 0, 0, q, q, l))
  BY <1>1, <1>2, <1>3, Forgets!FoldKeeps
<1>5. Forgets!Fold(d, 0, 0, 0, 0, q, q, l) = reset_aberrant_coefficients(q, d)
  BY DEF l, reset_aberrant_coefficients, ForgetStep, FoldLeft, MapThenFoldSet, Max,
         Forgets!Fold, Forgets!Largest
<1> QED BY <1>4, <1>5 DEF ForgetInv

\* What keeps the readings is an option that retypes nothing.
LEMMA QuietIsTuned ==
    ASSUME NEW q, NEW o, NEW r, Quiet(q, r), ~Retypes(q, o)
    PROVE  TunedBy(q, o, r)
BY DEF Quiet, TunedBy, LastAfter, Readings

\* One option of rrdtool tune.
LEMMA OptionTunes ==
    ASSUME NEW q, Shape(q), NEW o
    PROVE  TunedBy(q, o, TuneOption(q, o))
<1> DEFINE r == TuneOption(q, o)
<1>1. CASE o.opt = "data-source-type"
  <2>1. r = SetType(q, o.ds, o.val)
    BY <1>1 DEF TuneOption
  <2> QED BY <1>1, <2>1, TypeTuned
<1>2. CASE o.opt = "aberrant-reset"
  <2> DEFINE d == ds_match(q, o.ds)
  <2>1. r = IF d = 0 THEN [ok |-> FALSE, rrd |-> q]
            ELSE [ok |-> TRUE, rrd |-> reset_aberrant_coefficients(q, d)]
    BY <1>2 DEF TuneOption, AberrantReset
  <2>2. d = 0 \/ d \in Dss(q)
    BY MatchIsDs DEF Shape, DefsOk
  <2>3. ~Retypes(q, o)
    BY <1>2 DEF Retypes
  <2> HIDE DEF d, r
  <2>4. SUFFICES Quiet(q, r)
    BY <2>3, <2>4, QuietIsTuned DEF r
  <2>5. CASE d = 0
    BY <2>1, <2>5, KeepsItself, KeptIsLaid DEF Quiet
  <2>6. CASE d # 0
    <3>1. Keeps(q, reset_aberrant_coefficients(q, d))
      BY <2>2, <2>6, AberrantResetKeeps
    <3> QED BY <2>1, <2>6, <3>1, KeptIsLaid DEF Quiet
  <2> QED BY <2>5, <2>6
<1>3. CASE o.opt \notin {"data-source-type", "aberrant-reset"}
  <2>1. \/ \E field \in {"mrhb", "min", "max", "nam"} : r = SetDs(q, o.ds, field, o.val)
        \/ \E field \in {"deltaPos", "deltaNeg"} : r = set_deltaarg(q, field, o.val)
        \/ \E field \in {"threshold", "window"} : r = set_windowarg(q, field, o.val)
        \/ \E cf \in {"HWPREDICT", "SEASONAL", "DEVSEASONAL"}, field \in {"alpha", "beta", "gamma"} :
             r = set_hwarg(q, cf, field, o.val)
        \/ \E cf \in SeasonCfs : r = set_hwsmootharg(q, cf, o.val)
        \/ r = [ok |-> FALSE, rrd |-> q]
    BY <1>3 DEF TuneOption, SeasonCfs
  <2>2. Quiet(q, [ok |-> FALSE, rrd |-> q])
    BY KeepsItself, KeptIsLaid DEF Quiet
  <2> HIDE DEF r
  <2>3. Quiet(q, r)
    BY <2>1, <2>2, DsQuiet, DeltaQuiet, WindowQuiet, HwArgQuiet, SmoothArgQuiet DEF TunedFields
  <2>4. ~Retypes(q, o)
    BY <1>3 DEF Retypes
  <2> QED BY <2>3, <2>4, QuietIsTuned DEF r
<1> QED BY <1>1, <1>2, <1>3

TuneStep(a, b, c, d, e, f, st, o) == IF st.ok THEN TuneOption(st.rrd, o) ELSE st
TuneInv(rrd, b, c, d, e, f, k, st) ==
    DOMAIN st = {"ok", "rrd"} /\ st.ok \in BOOLEAN /\ Laid(rrd, st.rrd)
Tunes == INSTANCE FoldLemmas WITH Op <- TuneStep, Inv <- TuneInv

\* The options up to the first that fails keep the layout.
LEMMA TuneKeeps ==
    ASSUME NEW q, Shape(q), NEW options, IsList(options)
    PROVE  Laid(q, rrd_tune(q, options).rrd)
<1> DEFINE base == [ok |-> TRUE, rrd |-> q]
           n == Len(options)
<1>1. n \in Nat /\ DOMAIN options = 1 .. n
  BY DEF IsList
<1>2. TuneInv(q, 0, 0, 0, 0, 0, 0, base)
  BY KeepsItself, KeptIsLaid DEF TuneInv
<1>3. ASSUME NEW k \in 1 .. n, NEW st, TuneInv(q, 0, 0, 0, 0, 0, k - 1, st)
      PROVE  TuneInv(q, 0, 0, 0, 0, 0, k, TuneStep(q, 0, 0, 0, 0, 0, st, options[k]))
  <2>1. CASE ~st.ok
    BY <1>3, <2>1 DEF TuneInv, TuneStep
  <2>2. CASE st.ok
    <3> DEFINE z == TuneOption(st.rrd, options[k])
    <3>1. TuneStep(q, 0, 0, 0, 0, 0, st, options[k]) = z
      BY <2>2 DEF TuneStep
    <3>2. TunedBy(st.rrd, options[k], z)
      BY <1>3, OptionTunes DEF TuneInv, Laid
    <3> HIDE DEF z
    <3>3. Laid(q, z.rrd)
      BY <1>3, <3>2, LaidOn DEF TuneInv, TunedBy
    <3> QED BY <3>1, <3>2, <3>3 DEF TuneInv, TunedBy
  <2> QED BY <2>1, <2>2
<1> HIDE DEF base, n
<1>4. TuneInv(q, 0, 0, 0, 0, 0, n, Tunes!Fold(q, 0, 0, 0, 0, 0, base, options))
  BY <1>1, <1>2, <1>3, Tunes!FoldKeeps
<1>5. Tunes!Fold(q, 0, 0, 0, 0, 0, base, options) = rrd_tune(q, options)
  BY DEF base, rrd_tune, TuneStep, FoldLeft, MapThenFoldSet, Max, Tunes!Fold, Tunes!Largest
<1> QED BY <1>4, <1>5 DEF TuneInv

-----------------------------------------------------------------------------
(* rrdtool create.                                                           *)

FieldStep(cf, tokens, b, c, d, e, st, k) ==
    [ok |-> st.ok /\ FieldOk(st.def, Fields(cf)[k], tokens[k]),
     def |-> WithField(st.def, Fields(cf)[k], tokens[k])]
DefSoFar(cf, tokens, k, def) ==
    /\ def.rowCnt \in Nat /\ def.pdpCnt \in Nat \ {0}
    /\ k >= 3 \/ (k >= 1 /\ cf \in AberrantCfs) => def.rowCnt >= 1
    /\ cf = "FAILURES" => /\ def.pdpCnt = 1
                          /\ def.threshold \in 1 .. MAX_FAILURES_WINDOW_LEN
                          /\ def.window \in 1 .. MAX_FAILURES_WINDOW_LEN
    /\ cf \in PredictionCfs /\ k >= 4 => def.period = tokens[4]
FieldInv(cf, tokens, own, c, d, e, k, st) ==
    /\ DOMAIN st = {"ok", "def"} /\ st.ok \in BOOLEAN
    /\ DOMAIN st.def = DOMAIN Defaults(cf, own) /\ st.def.cf = cf
    /\ st.ok => DefSoFar(cf, tokens, k, st.def) /\ Len(tokens) >= TokenMin(cf)
FieldFold == INSTANCE FoldLemmas WITH Op <- FieldStep, Inv <- FieldInv

\* A window that is not shorter than a threshold.
LEMMA Within ==
    ASSUME NEW v \in Int, NEW t \in 1 .. MAX_FAILURES_WINDOW_LEN, v \in t .. MAX_FAILURES_WINDOW_LEN
    PROVE  v \in 1 .. MAX_FAILURES_WINDOW_LEN
BY DEF MAX_FAILURES_WINDOW_LEN

\* A token sets one field of the definition to a value it allows.
LEMMA FieldKeeps ==
    ASSUME NEW cf \in Cfs, NEW tokens, tokens \in Seq(Int), NEW own,
           NEW k \in 1 .. Len(tokens), Len(tokens) <= Len(Fields(cf)),
           NEW st, FieldInv(cf, tokens, own, 0, 0, 0, k - 1, st)
    PROVE  FieldInv(cf, tokens, own, 0, 0, 0, k, FieldStep(cf, tokens, own, 0, 0, 0, st, k))
<1> DEFINE f == Fields(cf)[k]
           v == tokens[k]
           def == st.def
           new == WithField(def, f, v)
           z == FieldStep(cf, tokens, own, 0, 0, 0, st, k)
<1>1. z = [ok |-> st.ok /\ FieldOk(def, f, v), def |-> new]
  BY DEF FieldStep
<1>2. v \in Int
  OBVIOUS
<1>3. k \in 1 .. 5 /\ cf \in AberrantCfs \cup ConsolidatingCfs
  <2>1. Len(Fields(cf)) <= 5 /\ Len(Fields(cf)) \in Nat
    BY DEF Fields, Cfs, AberrantCfs, ConsolidatingCfs, PredictionCfs, SeasonCfs
  <2> QED BY <2>1 DEF Cfs
<1>4. /\ f \in {"rowCnt", "pdpCnt", "xff", "alpha", "beta", "gamma", "smoothing", "threshold",
                "window", "period", "dep"}
      /\ cf \in ConsolidatingCfs => f = IF k = 1 THEN "xff" ELSE IF k = 2 THEN "pdpCnt" ELSE "rowCnt"
      /\ cf \in AberrantCfs => (f = "rowCnt" <=> k = 1) /\ f # "pdpCnt"
      /\ cf \in PredictionCfs => (f = "period" <=> k = 4)
      /\ cf \notin PredictionCfs => f # "period"
      /\ k <= 5 /\ (cf \in ConsolidatingCfs => k <= 3)
      /\ f = "threshold" \/ f = "window" => cf = "FAILURES"
  BY <1>3 DEF Fields, Cfs, AberrantCfs, ConsolidatingCfs, PredictionCfs, SeasonCfs
<1> HIDE DEF f, v, z
<1>5. /\ DOMAIN new = DOMAIN def
      /\ \A x \in DOMAIN def : x # f /\ x # "smoothIdx" => new[x] = def[x]
      /\ f \in DOMAIN def => new[f] = v
  BY <1>4 DEF WithField
<1>6. /\ {"cf", "rowCnt", "pdpCnt"} \subseteq DOMAIN def
      /\ cf = "FAILURES" => {"threshold", "window"} \subseteq DOMAIN def
      /\ cf \in PredictionCfs => "period" \in DOMAIN def
  BY DEF FieldInv, Defaults, PredictionCfs, SeasonCfs
<1> HIDE DEF new, def
<1>7. DOMAIN new = DOMAIN Defaults(cf, own) /\ new.cf = cf
  BY <1>4, <1>5, <1>6 DEF FieldInv, def
<1>8. ASSUME st.ok, FieldOk(def, f, v) PROVE DefSoFar(cf, tokens, k, new) /\ Len(tokens) >= TokenMin(cf)
  <2>1. DefSoFar(cf, tokens, k - 1, def) /\ Len(tokens) >= TokenMin(cf)
    BY <1>8 DEF FieldInv, def
  <2>2. new.rowCnt \in Nat /\ (f = "rowCnt" => new.rowCnt >= 1) /\ (f # "rowCnt" => new.rowCnt = def.rowCnt)
    BY <1>2, <1>5, <1>6, <1>8, <2>1 DEF FieldOk, DefSoFar
  <2>3. new.pdpCnt \in Nat \ {0} /\ (f # "pdpCnt" => new.pdpCnt = def.pdpCnt)
    BY <1>2, <1>5, <1>6, <1>8, <2>1 DEF FieldOk, DefSoFar
  <2>4. k >= 3 \/ (k >= 1 /\ cf \in AberrantCfs) => new.rowCnt >= 1
    BY <1>3, <1>4, <2>1, <2>2 DEF DefSoFar
  <2>5. cf = "FAILURES" => new.threshold \in 1 .. MAX_FAILURES_WINDOW_LEN
    <3>1. CASE f = "threshold"
      BY <1>5, <1>6, <1>8, <3>1 DEF FieldOk
    <3>2. CASE f # "threshold"
      BY <1>5, <1>6, <2>1, <3>2 DEF DefSoFar
    <3> QED BY <3>1, <3>2
  <2>6. cf = "FAILURES" => new.window \in 1 .. MAX_FAILURES_WINDOW_LEN
    <3>1. CASE f = "window"
      <4>1. cf = "FAILURES" => def.threshold \in 1 .. MAX_FAILURES_WINDOW_LEN
        BY <2>1 DEF DefSoFar
      <4>2. v \in def.threshold .. MAX_FAILURES_WINDOW_LEN
        BY <1>8, <3>1 DEF FieldOk
      <4>3. cf = "FAILURES" => v \in 1 .. MAX_FAILURES_WINDOW_LEN
        BY <1>2, <4>1, <4>2, Within
      <4>4. cf = "FAILURES" => new.window = v
        BY <1>5, <1>6, <3>1
      <4> QED BY <4>3, <4>4
    <3>2. CASE f # "window"
      BY <1>5, <1>6, <2>1, <3>2 DEF DefSoFar
    <3> QED BY <3>1, <3>2
  <2>7. cf = "FAILURES" => new.pdpCnt = 1
    BY <1>4, <2>1, <2>3 DEF DefSoFar, AberrantCfs
  <2>8. cf \in PredictionCfs /\ k >= 4 => new.period = tokens[4]
    <3>1. CASE k = 4
      BY <1>4, <1>5, <1>6, <3>1 DEF v
    <3>2. CASE k # 4
      BY <1>3, <1>4, <1>5, <1>6, <2>1, <3>2 DEF DefSoFar
    <3> QED BY <3>1, <3>2
  <2> QED BY <2>1, <2>2, <2>3, <2>4, <2>5, <2>6, <2>7, <2>8 DEF DefSoFar
<1>9. z.ok \in BOOLEAN /\ z.def = new /\ DOMAIN z = {"ok", "def"} /\ (z.ok => st.ok /\ FieldOk(def, f, v))
  BY <1>1
<1> QED BY <1>7, <1>8, <1>9 DEF FieldInv, z

\* An archive definition that is accepted is sound, and a Holt-Winters one has
\* the period it asks for.
LEMMA ParsedRraOk ==
    ASSUME NEW req, req.tokens \in Seq(Int), NEW own, NEW r, r = ParsedRra(req, own)
    PROVE  /\ r.ok \in BOOLEAN
           /\ r.ok => RraOk(r.def)
           /\ r.ok /\ r.def.cf \in PredictionCfs =>
                 "period" \in DOMAIN r.def /\ Len(req.tokens) >= 4 /\ r.def.period = req.tokens[4]
                 /\ req.cf \in PredictionCfs
<1> DEFINE cf == req.cf
           tokens == req.tokens
           n == Len(tokens)
           l == [k \in 1 .. n |-> k]
           base == [ok |-> n >= TokenMin(cf), def |-> Defaults(cf, own)]
           st == FieldFold!Fold(cf, tokens, own, 0, 0, 0, base, l)
<1>1. r = IF cf \notin Cfs \/ n > Len(Fields(cf)) THEN [ok |-> FALSE, def |-> Defaults("LAST", own)] ELSE st
  BY DEF ParsedRra, FieldStep, FoldLeft, MapThenFoldSet, Max, FieldFold!Fold, FieldFold!Largest
<1>2. CASE cf \notin Cfs \/ n > Len(Fields(cf))
  <2>1. r.ok = FALSE
    BY <1>1, <1>2
  <2> QED BY <2>1
<1>3. CASE cf \in Cfs /\ ~(n > Len(Fields(cf)))
  <2>1. Len(Fields(cf)) \in Nat /\ n \in Nat /\ DOMAIN l = 1 .. n
    BY <1>3 DEF Fields, Cfs, AberrantCfs, ConsolidatingCfs, PredictionCfs, SeasonCfs
  <2>2. n <= Len(Fields(cf))
    BY <1>3, <2>1
  <2>3. FieldInv(cf, tokens, own, 0, 0, 0, 0, base)
    <3>1. Defaults(cf, own).cf = cf
      BY DEF Defaults
    <3>2. DefSoFar(cf, tokens, 0, Defaults(cf, own))
      BY <1>3 DEF Defaults, DefSoFar, MAX_FAILURES_WINDOW_LEN, Cfs, AberrantCfs, ConsolidatingCfs,
                  PredictionCfs, SeasonCfs
    <3>3. DOMAIN base = {"ok", "def"} /\ base.def = Defaults(cf, own)
      OBVIOUS
    <3>4. base.ok = (n >= TokenMin(cf))
      OBVIOUS
    <3>5. base.ok \in BOOLEAN /\ (base.ok => n >= TokenMin(cf))
      <4>1. PICK m \in Int : m = TokenMin(cf)
        BY DEF TokenMin
      <4>2. PICK j \in Int : j = n
        BY <2>1
      <4>3. base.ok = (j >= m)
        BY <4>1, <4>2
      <4> HIDE DEF base, n
      <4>4. base.ok \in BOOLEAN
        BY <4>3
      <4>5. base.ok => j >= m
        BY <4>3
      <4> QED BY <4>1, <4>2, <4>4, <4>5
    <3> HIDE DEF base
    <3> QED BY <3>1, <3>2, <3>3, <3>5 DEF FieldInv
  <2>4. ASSUME NEW k \in 1 .. n, NEW x, FieldInv(cf, tokens, own, 0, 0, 0, k - 1, x)
        PROVE  FieldInv(cf, tokens, own, 0, 0, 0, k, FieldStep(cf, tokens, own, 0, 0, 0, x, l[k]))
    <3>1. l[k] = k
      OBVIOUS
    <3> QED BY <1>3, <2>2, <2>4, <3>1, FieldKeeps
  <2> HIDE DEF l, base, n
  <2>5. FieldInv(cf, tokens, own, 0, 0, 0, n, st)
    BY <2>1, <2>3, <2>4, FieldFold!FoldKeeps
  <2>6. r = st
    BY <1>1, <1>3
  <2> HIDE DEF st
  <2>7. ASSUME st.ok PROVE /\ RraOk(st.def)
                           /\ st.def.cf = cf
                           /\ cf \in PredictionCfs => /\ "period" \in DOMAIN st.def /\ n >= 4
                                                      /\ st.def.period = tokens[4]
    <3>1. /\ DefSoFar(cf, tokens, n, st.def) /\ n >= TokenMin(cf) /\ st.def.cf = cf
          /\ DOMAIN st.def = DOMAIN Defaults(cf, own)
      BY <2>5, <2>7 DEF FieldInv, n
    <3>2. /\ cf \in ConsolidatingCfs => n >= 3
          /\ cf \in PredictionCfs => n >= 4
          /\ cf \in AberrantCfs => n >= 1
      BY <2>1, <3>1 DEF TokenMin, AberrantCfs, ConsolidatingCfs, PredictionCfs, SeasonCfs
    <3>3. st.def.rowCnt \in Nat \ {0}
      BY <1>3, <3>1, <3>2 DEF DefSoFar, Cfs
    <3>4. /\ {"cf", "rowCnt", "pdpCnt"} \subseteq DOMAIN st.def
          /\ cf = "FAILURES" => {"threshold", "window"} \subseteq DOMAIN st.def
          /\ cf \in SeasonCfs => "gamma" \in DOMAIN st.def
          /\ cf \in PredictionCfs => "period" \in DOMAIN st.def
      BY <3>1 DEF Defaults, PredictionCfs, SeasonCfs
    <3>5. RraOk(st.def)
      BY <3>1, <3>3, <3>4 DEF RraOk, DefSoFar
    <3> QED BY <3>1, <3>2, <3>4, <3>5 DEF DefSoFar
  <2> QED BY <2>5, <2>6, <2>7 DEF FieldInv, n
<1> QED BY <1>2, <1>3

\* A HWPREDICT with a period brings sound archives along.
LEMMA ContingentOk ==
    ASSUME NEW hw, RraOk(hw), hw.cf \in PredictionCfs, hw.period \in Nat \ {0}, NEW own
    PROVE  LET new == create_hw_contingent_rras(hw, own)
           IN  IsList(new) /\ \A k \in 1 .. Len(new) : RraOk(new[k])
<1> DEFINE new == create_hw_contingent_rras(hw, own)
<1>1. Len(new) = 5 /\ DOMAIN new = 1 .. 5
  BY DEF create_hw_contingent_rras
<1>2. IsList(new)
  BY <1>1 DEF IsList, create_hw_contingent_rras
<1>3. RraOk(new[1])
  <2>1. new[1] = [hw EXCEPT !.dep = own + 1]
    BY DEF create_hw_contingent_rras
  <2> HIDE DEF new
  <2> QED BY <2>1 DEF RraOk, PredictionCfs, SeasonCfs
<1>4. RraOk(new[2]) /\ RraOk(new[3])
  BY DEF create_hw_contingent_rras, RraOk, SeasonCfs
<1>5. RraOk(new[4])
  BY DEF create_hw_contingent_rras, RraOk, SeasonCfs
<1>6. RraOk(new[5])
  BY DEF create_hw_contingent_rras, RraOk, SeasonCfs, MAX_FAILURES_WINDOW_LEN
<1> HIDE DEF new
<1>7. \A k \in 1 .. Len(new) : k \in {1, 2, 3, 4, 5}
  BY <1>1
<1> QED BY <1>2, <1>3, <1>4, <1>5, <1>6, <1>7 DEF new

\* A sequence is the list of its elements.
LEMMA SeqIsList == ASSUME NEW V, NEW u \in Seq(V) PROVE IsList(u)
BY DEF IsList

\* A list with another at its end.
LEMMA Joined ==
    ASSUME NEW s, IsList(s), NEW t, IsList(t)
    PROVE  /\ IsList(s \o t) /\ Len(s \o t) = Len(s) + Len(t)
           /\ \A k \in 1 .. Len(s) : (s \o t)[k] = s[k]
           /\ \A k \in 1 .. Len(t) : (s \o t)[Len(s) + k] = t[k]
<1> DEFINE V == {s[k] : k \in 1 .. Len(s)} \cup {t[k] : k \in 1 .. Len(t)}
<1>1. Len(s) \in Nat /\ Len(t) \in Nat
  BY DEF IsList
<1>2. s \in Seq(V)
  <2>1. \A k \in 1 .. Len(s) : s[k] \in V
    OBVIOUS
  <2> HIDE DEF V
  <2> QED BY <1>1, <2>1 DEF IsList
<1>3. t \in Seq(V)
  <2>1. \A k \in 1 .. Len(t) : t[k] \in V
    OBVIOUS
  <2> HIDE DEF V
  <2> QED BY <1>1, <2>1 DEF IsList
<1> HIDE DEF V
<1>4. s \o t \in Seq(V) /\ Len(s \o t) = Len(s) + Len(t)
  BY <1>2, <1>3
<1>5. IsList(s \o t)
  BY <1>4, SeqIsList
<1>6. \A k \in 1 .. Len(s) : (s \o t)[k] = s[k]
  BY <1>2, <1>3
<1>7. \A k \in 1 .. Len(t) : (s \o t)[Len(s) + k] = t[k]
  BY <1>2, <1>3
<1> QED BY <1>4, <1>5, <1>6, <1>7

\* A list with one element.
LEMMA Single == ASSUME NEW x PROVE IsList(<<x>>) /\ Len(<<x>>) = 1 /\ <<x>>[1] = x
BY DEF IsList

\* Every element of two joined lists is one of theirs.
LEMMA EachJoined ==
    ASSUME NEW s, IsList(s), NEW t, IsList(t), NEW k \in 1 .. Len(s \o t)
    PROVE  \/ k \in 1 .. Len(s) /\ (s \o t)[k] = s[k]
           \/ \E j \in 1 .. Len(t) : k = Len(s) + j /\ (s \o t)[k] = t[j]
<1>1. Len(s) \in Nat /\ Len(t) \in Nat /\ Len(s \o t) = Len(s) + Len(t)
  BY Joined DEF IsList
<1>2. CASE k <= Len(s)
  <2>1. k \in 1 .. Len(s)
    BY <1>1, <1>2
  <2> QED BY <2>1, Joined
<1>3. CASE ~(k <= Len(s))
  <2>1. k - Len(s) \in 1 .. Len(t) /\ k = Len(s) + (k - Len(s))
    BY <1>1, <1>3
  <2>2. (s \o t)[Len(s) + (k - Len(s))] = t[k - Len(s)]
    BY <2>1, Joined
  <2> QED BY <2>1, <2>2
<1> QED BY <1>2, <1>3

ArgsStep(a0, b, c, d, e, f, st, a) ==
    IF ~st.ok THEN st
    ELSE IF a.arg = "DS" THEN WithDs(st, ParsedDs(a, st.ds))
    ELSE WithRra(st, ParsedRra(a, Len(st.rra) + 1), Len(st.rra) + 1)
ArgsInv(a0, b, c, d, e, f, k, st) ==
    /\ DOMAIN st = {"ok", "ds", "rra"} /\ IsList(st.ds) /\ IsList(st.rra)
    /\ st.ok => \A i \in 1 .. Len(st.rra) : RraOk(st.rra[i])
ArgsFold == INSTANCE FoldLemmas WITH Op <- ArgsStep, Inv <- ArgsInv

ArgOk(a) ==
    \/ a.arg = "DS"
    \/ /\ a.arg = "RRA" /\ a.tokens \in Seq(Int)
       /\ a.cf \in PredictionCfs /\ Len(a.tokens) >= 4 => a.tokens[4] >= 1

\* An argument adds a data source, or sound archives.
LEMMA ArgKeeps ==
    ASSUME NEW a, ArgOk(a), NEW k, NEW st, ArgsInv(0, 0, 0, 0, 0, 0, k - 1, st)
    PROVE  ArgsInv(0, 0, 0, 0, 0, 0, k, ArgsStep(0, 0, 0, 0, 0, 0, st, a))
<1> DEFINE z == ArgsStep(0, 0, 0, 0, 0, 0, st, a)
<1>1. CASE ~st.ok
  BY <1>1 DEF ArgsInv, ArgsStep
<1>2. CASE st.ok /\ a.arg = "DS"
  <2> DEFINE ds == ParsedDs(a, st.ds)
             list == Append(st.ds, ds.def)
  <2>1. z = [st EXCEPT !.ok = ds.ok, !.ds = list]
    BY <1>2 DEF ArgsStep, WithDs
  <2> HIDE DEF ds, z
  <2>2. IsList(list)
    <3>1. IsList(st.ds) /\ list = st.ds \o <<ds.def>>
      BY DEF ArgsInv, IsList
    <3> HIDE DEF list
    <3> QED BY <3>1, Single, Joined
  <2> HIDE DEF list
  <2>3. DOMAIN z = {"ok", "ds", "rra"} /\ z.ds = list /\ z.rra = st.rra
    BY <2>1 DEF ArgsInv
  <2> QED BY <1>2, <2>2, <2>3 DEF ArgsInv, z
<1>3. CASE st.ok /\ a.arg # "DS"
  <2> DEFINE own == Len(st.rra) + 1
             rra == ParsedRra(a, own)
             new == IF rra.def.cf \in PredictionCfs /\ rra.def.dep = own
                    THEN create_hw_contingent_rras(rra.def, own) ELSE << rra.def >>
             list == st.rra \o new
  <2>1. z = [st EXCEPT !.ok = rra.ok, !.rra = list]
    BY <1>3 DEF ArgsStep, WithRra
  <2>2. /\ rra.ok => RraOk(rra.def)
        /\ rra.ok /\ rra.def.cf \in PredictionCfs =>
              "period" \in DOMAIN rra.def /\ Len(a.tokens) >= 4 /\ rra.def.period = a.tokens[4]
              /\ a.cf \in PredictionCfs
    <3>1. a.tokens \in Seq(Int)
      BY <1>3 DEF ArgOk
    <3> HIDE DEF rra
    <3>2. rra = ParsedRra(a, own)
      BY DEF rra
    <3> HIDE DEF own
    <3> QED BY <3>1, <3>2, ParsedRraOk
  <2> HIDE DEF rra, own, z
  <2>3. IsList(new) /\ (rra.ok => \A j \in 1 .. Len(new) : RraOk(new[j]))
    <3>1. CASE rra.def.cf \in PredictionCfs /\ rra.def.dep = own
      <4> DEFINE five == create_hw_contingent_rras(rra.def, own)
      <4>1. new = five
        BY <3>1
      <4>2. IsList(five)
        <5>1. Len(five) = 5 /\ DOMAIN five = 1 .. 5
          BY DEF create_hw_contingent_rras
        <5> QED BY <5>1 DEF IsList, create_hw_contingent_rras
      <4>3. ASSUME rra.ok PROVE \A j \in 1 .. Len(five) : RraOk(five[j])
        <5>1. a.cf \in PredictionCfs /\ Len(a.tokens) >= 4 /\ rra.def.period = a.tokens[4]
          BY <2>2, <3>1, <4>3
        <5>2. a.tokens \in Seq(Int) /\ a.tokens[4] >= 1
          BY <1>3, <5>1 DEF ArgOk
        <5>3. rra.def.period \in Nat \ {0}
          BY <5>1, <5>2
        <5> HIDE DEF five
        <5>4. five = create_hw_contingent_rras(rra.def, own)
          BY DEF five
        <5> QED BY <2>2, <3>1, <4>3, <5>3, <5>4, ContingentOk
      <4> HIDE DEF five, new
      <4> QED BY <4>1, <4>2, <4>3
    <3>2. CASE ~(rra.def.cf \in PredictionCfs /\ rra.def.dep = own)
      <4>1. new = << rra.def >>
        BY <3>2
      <4> HIDE DEF new
      <4>2. IsList(new) /\ Len(new) = 1 /\ new[1] = rra.def
        BY <4>1, Single
      <4> QED BY <2>2, <4>2
    <3> QED BY <3>1, <3>2
  <2> HIDE DEF new
  <2>4. IsList(st.rra) /\ \A i \in 1 .. Len(st.rra) : RraOk(st.rra[i])
    BY <1>3 DEF ArgsInv
  <2>5. IsList(list)
    BY <2>3, <2>4, Joined
  <2>6. ASSUME rra.ok, NEW i \in 1 .. Len(list) PROVE RraOk(list[i])
    <3>1. \/ i \in 1 .. Len(st.rra) /\ list[i] = st.rra[i]
          \/ \E j \in 1 .. Len(new) : i = Len(st.rra) + j /\ list[i] = new[j]
      <4> DEFINE s == st.rra
      <4>1. IsList(s) /\ IsList(new) /\ i \in 1 .. Len(s \o new)
        BY <2>3, <2>4, <2>6
      <4> HIDE DEF s
      <4>2. \/ i \in 1 .. Len(s) /\ (s \o new)[i] = s[i]
            \/ \E j \in 1 .. Len(new) : i = Len(s) + j /\ (s \o new)[i] = new[j]
        BY <4>1, EachJoined
      <4> QED BY <4>2 DEF s
    <3> HIDE DEF list
    <3> QED BY <2>3, <2>4, <2>6, <3>1
  <2> HIDE DEF list
  <2>7. DOMAIN z = {"ok", "ds", "rra"} /\ z.ok = rra.ok /\ z.ds = st.ds /\ z.rra = list
    BY <2>1 DEF ArgsInv
  <2> QED BY <2>5, <2>6, <2>7 DEF ArgsInv, z
<1> QED BY <1>1, <1>2, <1>3

\* The arguments of a request.
LEMMA ArgsKeep ==
    ASSUME NEW args, IsList(args), \A k \in DOMAIN args : ArgOk(args[k])
    PROVE  ArgsInv(0, 0, 0, 0, 0, 0, Len(args), ParsedArgs(args))
<1> DEFINE base == [ok |-> TRUE, ds |-> <<>>, rra |-> <<>>]
           n == Len(args)
<1>1. n \in Nat /\ DOMAIN args = 1 .. n
  BY DEF IsList
<1>2. ArgsInv(0, 0, 0, 0, 0, 0, 0, base)
  BY DEF ArgsInv, IsList
<1>3. ASSUME NEW k \in 1 .. n, NEW st, ArgsInv(0, 0, 0, 0, 0, 0, k - 1, st)
      PROVE  ArgsInv(0, 0, 0, 0, 0, 0, k, ArgsStep(0, 0, 0, 0, 0, 0, st, args[k]))
  BY <1>1, <1>3, ArgKeeps
<1> HIDE DEF base, n
<1>4. ArgsInv(0, 0, 0, 0, 0, 0, n, ArgsFold!Fold(0, 0, 0, 0, 0, 0, base, args))
  BY <1>1, <1>2, <1>3, ArgsFold!FoldKeeps
<1>5. ArgsFold!Fold(0, 0, 0, 0, 0, 0, base, args) = ParsedArgs(args)
  BY DEF base, ParsedArgs, ArgsStep, FoldLeft, MapThenFoldSet, Max, ArgsFold!Fold, ArgsFold!Largest
<1> QED BY <1>4, <1>5 DEF n

\* Some numbers have a largest one.
LEMMA MaxOfList ==
    ASSUME NEW n \in Nat \ {0}, NEW x, \A i \in 1 .. n : x[i] \in Nat,
           NEW T, \A i \in 1 .. n : x[i] \in T, \A y \in T : \E i \in 1 .. n : y = x[i]
    PROVE  Max(T) \in T /\ \A y \in T : y <= Max(T)
<1> DEFINE S == {k \in 0 .. n : \E b \in Nat : \A i \in 1 .. k : x[i] <= b}
<1>1. 0 \in S
  OBVIOUS
<1>2. ASSUME NEW k \in 1 .. n, k - 1 \in S PROVE k \in S
  <2>1. PICK b \in Nat : \A i \in 1 .. k - 1 : x[i] <= b
    BY <1>2
  <2>2. PICK c \in Nat : c >= b /\ c >= x[k]
    BY DEF Max
  <2>3. \A i \in 1 .. k : x[i] <= c
    <3> SUFFICES ASSUME NEW i \in 1 .. k PROVE x[i] <= c
      OBVIOUS
    <3>1. x[i] \in Nat /\ (i = k \/ i \in 1 .. k - 1)
      OBVIOUS
    <3> QED BY <2>1, <2>2, <3>1
  <2> QED BY <2>3
<1>3. n \in S
  <2> HIDE DEF S
  <2> QED BY <1>1, <1>2, CountUp
<1>4. PICK b \in Nat : \A i \in 1 .. n : x[i] <= b
  BY <1>3
<1> DEFINE Gap == {b - y : y \in T}
<1>5. Gap # {} /\ Gap \in SUBSET Nat
  <2>1. 1 \in 1 .. n /\ x[1] \in T
    OBVIOUS
  <2>2. \A y \in T : b - y \in Nat
    BY <1>4
  <2> QED BY <2>1, <2>2
<1> HIDE DEF Gap
<1>6. PICK g \in Gap : \A h \in Gap : g <= h
  BY <1>5, Least
<1> USE DEF Gap
<1>7. PICK m \in T : g = b - m
  BY <1>6
<1>8. \A y \in T : m >= y
  <2> SUFFICES ASSUME NEW y \in T PROVE m >= y
    OBVIOUS
  <2>1. b - y \in Gap /\ y \in Nat /\ m \in Nat
    OBVIOUS
  <2>2. b - m <= b - y
    BY <1>6, <1>7, <2>1
  <2> QED BY <2>1, <2>2
<1> HIDE DEF Gap
<1>9. Max(T) \in T /\ \A y \in T : Max(T) >= y
  BY <1>8, Zenon DEF Max
<1>10. \A y \in T : y \in Nat
  OBVIOUS
<1>11. \A y \in T : y <= Max(T)
  BY <1>9, <1>10
<1> QED BY <1>9, <1>11

\* A new RRD has its shape, whatever row each archive starts at.
LEMMA CreateKeeps ==
    ASSUME NEW req, req.step \in Int, req.start \in Int, IsList(req.args),
           \A k \in DOMAIN req.args : ArgOk(req.args[k]), OptionsOk(req),
           NEW r, r = rrd_create_r(req), r.ok, NEW rows \in InitialRows(r.rra),
           NEW q, q = rrd_create_fn(r.version, req.step, req.start, r.ds, r.rra, rows)
    PROVE  Shape(q) /\ q.rra = r.rra /\ q.lastUp = req.start
           /\ \A d \in Dss(q) : q.pdp[d].last = U
<1> DEFINE parsed == ParsedArgs(req.args)
<1>1. /\ parsed.ok /\ r.rra = parsed.rra /\ r.ds = parsed.ds /\ parsed.rra # <<>> /\ parsed.ds # <<>>
      /\ r.version = Version(req.args)
  BY DEF rrd_create_r
<1>2. ArgsInv(0, 0, 0, 0, 0, 0, Len(req.args), parsed)
  BY ArgsKeep
<1> HIDE DEF parsed
<1>3. /\ IsList(r.ds) /\ IsList(r.rra) /\ \A i \in 1 .. Len(r.rra) : RraOk(r.rra[i])
  BY <1>1, <1>2 DEF ArgsInv
<1>4. Len(r.ds) \in Nat \ {0} /\ Len(r.rra) \in Nat \ {0}
  <2>1. ASSUME NEW s, IsList(s), s # <<>> PROVE Len(s) \in Nat \ {0}
    BY <2>1 DEF IsList
  <2> QED BY <1>1, <1>3, <2>1
<1>5. r.version \in {3, 4}
  BY <1>1 DEF Version, RRD_VERSION
<1>6. req.step \in Nat \ {0}
  BY DEF OptionsOk
<1>7. /\ DOMAIN q = RrdFields /\ q.version = r.version /\ q.step = req.step /\ q.lastUp = req.start
      /\ q.ds = r.ds /\ q.rra = r.rra /\ q.cur = rows
      /\ q.pdp = [d \in 1 .. Len(r.ds) |-> initial_pdp(req.start, req.step)]
      /\ q.cdp = [i \in 1 .. Len(r.rra) |->
                    [d \in 1 .. Len(r.ds) |-> initial_cdp(r.rra[i], req.start, req.step)]]
      /\ q.data = [i \in 1 .. Len(r.rra) |->
                    [k \in 0 .. r.rra[i].rowCnt - 1 |-> [d \in 1 .. Len(r.ds) |-> NaN]]]
  BY DEF rrd_create_fn, RrdFields
<1>8. Dss(q) = 1 .. Len(r.ds) /\ Rras(q) = 1 .. Len(r.rra)
  BY <1>7 DEF Dss, Rras
<1>9. DefsOk(q)
  BY <1>3, <1>4, <1>5, <1>6, <1>7, <1>8 DEF DefsOk
<1>10. ScratchOk(q)
  <2>1. ASSUME NEW i \in Rras(q) PROVE CdpOk(q, i)
    <3>0. q.cdp[i] = [d \in Dss(q) |-> initial_cdp(r.rra[i], req.start, req.step)]
      BY <1>7, <1>8
    <3>1. q.cdp[i] = [d \in Dss(q) |-> q.cdp[i][d]]
      BY <3>0
    <3>2. ASSUME q.rra[i].cf = "FAILURES", NEW d \in Dss(q) PROVE Viols(q.cdp[i][d])
      <4>1. q.cdp[i][d] = [viol |-> NoViolations, primary |-> 0, secondary |-> 0]
        BY <1>7, <1>8, <3>2 DEF initial_cdp, PredictionCfs, SeasonCfs
      <4> QED BY <4>1 DEF Viols, NoViolations
    <3> QED BY <3>1, <3>2 DEF CdpOk
  <2>2. \A d \in Dss(q) : "last" \in DOMAIN q.pdp[d]
    BY <1>7, <1>8 DEF initial_pdp
  <2> QED BY <1>7, <1>8, <2>1, <2>2 DEF ScratchOk
<1>11. RowsOk(q)
  <2>1. ASSUME NEW i \in Rras(q)
        PROVE  /\ DOMAIN q.data[i] = 0 .. q.rra[i].rowCnt - 1
               /\ \A k \in DOMAIN q.data[i] : q.data[i][k] = [d \in Dss(q) |-> q.data[i][k][d]]
    <3>1. q.data[i] = [k \in 0 .. q.rra[i].rowCnt - 1 |-> [d \in Dss(q) |-> NaN]]
      BY <1>7, <1>8
    <3>2. PICK n, area, dss : n = q.rra[i].rowCnt /\ area = q.data[i] /\ dss = Dss(q)
      OBVIOUS
    <3>3. PICK row : row = [d \in dss |-> NaN]
      OBVIOUS
    <3>4. row = [d \in dss |-> row[d]]
      BY <3>3
    <3>5. area = [k \in 0 .. n - 1 |-> row]
      BY <3>1, <3>2, <3>3
    <3>6. DOMAIN area = 0 .. n - 1 /\ \A k \in DOMAIN area : area[k] = row
      BY <3>5
    <3> QED BY <3>2, <3>4, <3>6
  <2>2. DOMAIN rows = Rras(q) /\ \A i \in Rras(q) : rows[i] \in 0 .. q.rra[i].rowCnt - 1
    <3> DEFINE x == [i \in 1 .. Len(r.rra) |-> r.rra[i].rowCnt]
               T == {r.rra[i].rowCnt : i \in 1 .. Len(r.rra)}
               most == Max(T)
    <3>1. \A i \in 1 .. Len(r.rra) : x[i] \in Nat /\ x[i] = r.rra[i].rowCnt
      BY <1>3 DEF RraOk
    <3>2. (\A i \in 1 .. Len(r.rra) : x[i] \in T) /\ \A y \in T : \E i \in 1 .. Len(r.rra) : y = x[i]
      OBVIOUS
    <3>3. rows \in [1 .. Len(r.rra) -> 0 .. most - 1] /\ \A i \in 1 .. Len(r.rra) : rows[i] < r.rra[i].rowCnt
      BY DEF InitialRows
    <3> HIDE DEF x, T
    <3>4. most \in T
      BY <1>4, <3>1, <3>2, MaxOfList
    <3>5. most \in Int
      BY <3>1, <3>2, <3>4
    <3> HIDE DEF most
    <3> QED BY <1>7, <1>8, <3>1, <3>3, <3>5
  <2>3. DOMAIN q.data = Rras(q)
    BY <1>7, <1>8
  <2> QED BY <1>7, <2>1, <2>2, <2>3 DEF RowsOk
<1>12. \A d \in Dss(q) : q.pdp[d].last = U
  BY <1>7, <1>8 DEF initial_pdp
<1> QED BY <1>7, <1>9, <1>10, <1>11, <1>12 DEF Shape

-----------------------------------------------------------------------------
(* rrdtool resize.                                                           *)

IsRow(rrd, row) == row = [d \in Dss(rrd) |-> row[d]]

WithRows(rrd, i, n) == [rrd.rra EXCEPT ![i].rowCnt = n]

\* The definition of one archive changes, the list remains one.
LEMMA RowsInList ==
    ASSUME NEW q, Shape(q), NEW i \in Rras(q), NEW n \in Nat \ {0}
    PROVE  LET rra == WithRows(q, i, n)
           IN  /\ IsList(rra) /\ Len(rra) = Len(q.rra)
               /\ rra[i] = [q.rra[i] EXCEPT !.rowCnt = n]
               /\ \A j \in Rras(q) : j # i => rra[j] = q.rra[j]
<1> DEFINE def == [q.rra[i] EXCEPT !.rowCnt = n]
           rra == [q.rra EXCEPT ![i] = def]
<1>0. WithRows(q, i, n) = rra
  BY DEF WithRows
<1> HIDE DEF def
<1>1. IsList(q.rra) /\ i \in 1 .. Len(q.rra)
  BY DEF Shape, DefsOk, Rras
<1>2. IsList(rra) /\ Len(rra) = Len(q.rra) /\ rra[i] = def
  BY <1>1, PutInList
<1>3. \A j \in Rras(q) : j # i => rra[j] = q.rra[j]
  BY <1>1 DEF IsList, Rras
<1> HIDE DEF rra
<1>4. WithRows(q, i, n)[i] = [q.rra[i] EXCEPT !.rowCnt = n]
  BY <1>0, <1>2 DEF def
<1> QED BY <1>0, <1>2, <1>3, <1>4

\* An archive gets other rows.
LEMMA NewRows ==
    ASSUME NEW q, Shape(q), NEW i \in Rras(q), NEW n \in Nat \ {0},
           NEW p, DOMAIN p = RrdFields,
           \A x \in RrdFields \ {"rra", "cur", "data"} : p[x] = q[x],
           p.rra = WithRows(q, i, n), p.cur[i] \in 0 .. n - 1,
           DOMAIN p.data[i] = 0 .. n - 1,
           \A r \in 0 .. n - 1 : IsRow(q, p.data[i][r]),
           DOMAIN p.cur = DOMAIN q.cur, DOMAIN p.data = DOMAIN q.data,
           \A j \in Rras(q) : j # i => p.cur[j] = q.cur[j] /\ p.data[j] = q.data[j]
    PROVE  Shape(p) /\ Rras(p) = Rras(q) /\ p.rra[i].rowCnt = n
<1> DEFINE def == [q.rra[i] EXCEPT !.rowCnt = n]
<1>1. /\ p.ds = q.ds /\ p.pdp = q.pdp /\ p.cdp = q.cdp
      /\ p.step = q.step /\ p.lastUp = q.lastUp /\ p.version = q.version
  BY DEF RrdFields
<1>2. RraOk(q.rra[i])
  BY DEF Shape, DefsOk
<1>3. RraOk(def) /\ def.cf = q.rra[i].cf /\ def.rowCnt = n
  BY <1>2 DEF RraOk
<1>5. /\ IsList(p.rra) /\ Len(p.rra) = Len(q.rra) /\ p.rra[i] = def
      /\ \A j \in Rras(q) : j # i => p.rra[j] = q.rra[j]
  BY RowsInList
<1> HIDE DEF def
<1>6. Dss(p) = Dss(q) /\ Rras(p) = Rras(q)
  BY <1>1, <1>5 DEF Dss, Rras
<1>7. \A j \in Rras(q) : p.rra[j].cf = q.rra[j].cf /\ RraOk(p.rra[j])
  BY <1>3, <1>5 DEF Shape, DefsOk
<1>8. DefsOk(p)
  BY <1>1, <1>5, <1>6, <1>7 DEF Shape, DefsOk
<1>9. ScratchOk(p)
  BY <1>1, <1>6, <1>7 DEF Shape, ScratchOk, CdpOk
<1>10. RowsOk(p)
  <2>1. ASSUME NEW j \in Rras(p)
        PROVE  /\ p.cur[j] \in 0 .. p.rra[j].rowCnt - 1
               /\ DOMAIN p.data[j] = 0 .. p.rra[j].rowCnt - 1
               /\ \A r \in DOMAIN p.data[j] : p.data[j][r] = [d \in Dss(p) |-> p.data[j][r][d]]
    <3>1. CASE j = i
      BY <1>3, <1>5, <1>6, <3>1 DEF IsRow
    <3>2. CASE j # i
      <4>1. p.cur[j] = q.cur[j] /\ p.data[j] = q.data[j] /\ p.rra[j] = q.rra[j] /\ j \in Rras(q)
        BY <1>5, <1>6, <3>2
      <4>2. /\ q.cur[j] \in 0 .. q.rra[j].rowCnt - 1
            /\ DOMAIN q.data[j] = 0 .. q.rra[j].rowCnt - 1
            /\ \A r \in DOMAIN q.data[j] : q.data[j][r] = [d \in Dss(q) |-> q.data[j][r][d]]
        BY <4>1 DEF Shape, RowsOk
      <4> QED BY <1>6, <4>1, <4>2
    <3> QED BY <3>1, <3>2
  <2> QED BY <1>6, <2>1 DEF Shape, RowsOk
<1> QED BY <1>3, <1>5, <1>6, <1>8, <1>9, <1>10 DEF Shape

\* Rows are added after the current one.
LEMMA GrownKeeps ==
    ASSUME NEW q, Shape(q), NEW i \in Rras(q), NEW k \in Nat \ {0}, NEW p, p = Grown(q, i, k)
    PROVE  /\ Shape(p) /\ Rras(p) = Rras(q) /\ p.version = q.version
           /\ p.rra[i].rowCnt = q.rra[i].rowCnt + k
           /\ \A j \in Rras(q) : j # i => p.rra[j] = q.rra[j]
<1>1. /\ q.rra[i].rowCnt \in Nat \ {0} /\ q.cur[i] \in 0 .. q.rra[i].rowCnt - 1
      /\ DOMAIN q = RrdFields /\ DOMAIN q.data = Rras(q) /\ DOMAIN q.cur = Rras(q)
      /\ DOMAIN q.rra = Rras(q)
      /\ \A r \in 0 .. q.rra[i].rowCnt - 1 : q.data[i][r] = [d \in Dss(q) |-> q.data[i][r][d]]
  BY DEF Shape, DefsOk, RowsOk, RraOk, IsList, Rras
<1>2. PICK n \in Nat \ {0} : n = q.rra[i].rowCnt
  BY <1>1
<1>3. PICK cur \in 0 .. n - 1 : cur = q.cur[i]
  BY <1>1, <1>2
<1> DEFINE rows == [r \in 0 .. n + k - 1 |->
                      IF r <= cur THEN q.data[i][r]
                      ELSE IF r <= cur + k THEN AllNaN(q) ELSE q.data[i][r - k]]
<1>4. p = [q EXCEPT !.rra[i].rowCnt = n + k, !.data[i] = rows]
  BY <1>2, <1>3 DEF Grown
<1>5. \A r \in 0 .. n + k - 1 : rows[r] = [d \in Dss(q) |-> rows[r][d]]
  <2> SUFFICES ASSUME NEW r \in 0 .. n + k - 1 PROVE rows[r] = [d \in Dss(q) |-> rows[r][d]]
    OBVIOUS
  <2>1. CASE r <= cur
    <3>1. r \in 0 .. n - 1
      BY <2>1
    <3>2. rows[r] = q.data[i][r]
      BY <2>1
    <3> HIDE DEF rows
    <3> QED BY <1>1, <1>2, <3>1, <3>2
  <2>2. CASE ~(r <= cur) /\ r <= cur + k
    <3>1. rows[r] = [d \in Dss(q) |-> NaN]
      BY <2>2 DEF AllNaN
    <3> HIDE DEF rows
    <3> QED BY <3>1
  <2>3. CASE ~(r <= cur) /\ ~(r <= cur + k)
    <3>1. r - k \in 0 .. n - 1
      BY <2>3
    <3>2. rows[r] = q.data[i][r - k]
      BY <2>3
    <3> HIDE DEF rows
    <3> QED BY <1>1, <1>2, <3>1, <3>2
  <2> QED BY <2>1, <2>2, <2>3
<1>6. DOMAIN rows = 0 .. n + k - 1
  OBVIOUS
<1> HIDE DEF rows
<1>7. /\ DOMAIN p = RrdFields /\ \A x \in RrdFields \ {"rra", "cur", "data"} : p[x] = q[x]
      /\ p.rra = [q.rra EXCEPT ![i].rowCnt = n + k] /\ p.cur = q.cur
      /\ p.data = [q.data EXCEPT ![i] = rows]
  BY <1>1, <1>4 DEF RrdFields
<1>8. /\ p.cur[i] = cur /\ p.data[i] = rows /\ DOMAIN p.cur = DOMAIN q.cur
      /\ DOMAIN p.data = DOMAIN q.data /\ n + k \in Nat \ {0} /\ cur \in 0 .. (n + k) - 1
      /\ \A j \in Rras(q) : j # i => p.cur[j] = q.cur[j] /\ p.data[j] = q.data[j]
  BY <1>1, <1>3, <1>7
<1>9. p.version = q.version
  BY <1>7 DEF RrdFields
<1>10. DOMAIN rows = 0 .. (n + k) - 1 /\ \A r \in 0 .. (n + k) - 1 : rows[r] = [d \in Dss(q) |-> rows[r][d]]
  BY <1>5, <1>6
<1> DEFINE m == n + k
           c == cur
<1>20. /\ m \in Nat \ {0} /\ c \in 0 .. m - 1 /\ DOMAIN rows = 0 .. m - 1
       /\ \A r \in 0 .. m - 1 : IsRow(q, rows[r])
  BY <1>8, <1>10 DEF IsRow
<1>21. /\ p.rra = WithRows(q, i, m) /\ p.cur[i] \in 0 .. m - 1 /\ DOMAIN p.data[i] = 0 .. m - 1
       /\ \A r \in 0 .. m - 1 : IsRow(q, p.data[i][r])
       /\ DOMAIN p.cur = DOMAIN q.cur /\ DOMAIN p.data = DOMAIN q.data
       /\ \A j \in Rras(q) : j # i => p.cur[j] = q.cur[j] /\ p.data[j] = q.data[j]
       /\ DOMAIN p = RrdFields /\ \A x \in RrdFields \ {"rra", "cur", "data"} : p[x] = q[x]
  BY <1>7, <1>8, <1>20 DEF WithRows
<1>22. m = q.rra[i].rowCnt + k
  BY <1>2
<1> HIDE DEF m, c
<1>23. Shape(p) /\ Rras(p) = Rras(q) /\ p.rra[i].rowCnt = m
  BY <1>20, <1>21, NewRows, SMTT(90)
<1>24. \A j \in Rras(q) : j # i => p.rra[j] = q.rra[j]
  BY <1>1, <1>21 DEF WithRows
<1> QED BY <1>9, <1>22, <1>23, <1>24

\* The rows after the current one go and, past the end of the array, the
\* first ones; the cursor moves with its row.
LEMMA ShrunkKeeps ==
    ASSUME NEW q, Shape(q), NEW i \in Rras(q), NEW k \in Nat \ {0}, k < q.rra[i].rowCnt,
           NEW p, p = Shrunk(q, i, k)
    PROVE  /\ Shape(p) /\ Rras(p) = Rras(q) /\ p.version = q.version
           /\ p.rra[i].rowCnt = q.rra[i].rowCnt - k
           /\ \A j \in Rras(q) : j # i => p.rra[j] = q.rra[j]
<1>1. /\ q.rra[i].rowCnt \in Nat \ {0} /\ q.cur[i] \in 0 .. q.rra[i].rowCnt - 1
      /\ DOMAIN q = RrdFields /\ DOMAIN q.data = Rras(q) /\ DOMAIN q.cur = Rras(q)
      /\ DOMAIN q.rra = Rras(q)
      /\ \A r \in 0 .. q.rra[i].rowCnt - 1 : q.data[i][r] = [d \in Dss(q) |-> q.data[i][r][d]]
  BY DEF Shape, DefsOk, RowsOk, RraOk, IsList, Rras
<1>2. PICK n \in Nat \ {0} : n = q.rra[i].rowCnt
  BY <1>1
<1>3. PICK cur \in 0 .. n - 1 : cur = q.cur[i]
  BY <1>1, <1>2
<1>4. PICK end : end = (cur + k) % n
  OBVIOUS
<1>5. PICK front : front = IF end <= cur THEN end + 1 ELSE 0
  OBVIOUS
<1>6. k < n
  BY <1>2
<1>7. \/ front = 0 /\ cur + k < n
      \/ front = (cur + k) - n + 1 /\ cur + k >= n
  <2>1. CASE cur + k < n
    <3>1. end = cur + k
      BY <1>4, <2>1
    <3> QED BY <1>5, <2>1, <3>1
  <2>2. CASE ~(cur + k < n)
    <3>1. end = (cur + k) - n
      <4>1. cur + k \in n .. 2 * n - 1
        BY <1>6, <2>2
      <4> QED BY <1>4, <4>1
    <3> QED BY <1>5, <1>6, <2>2, <3>1
  <2> QED BY <2>1, <2>2
<1>8. front \in Nat /\ cur - front \in 0 .. n - k - 1 /\ n - k \in Nat \ {0}
  BY <1>6, <1>7
<1> DEFINE back == k - front
           rows == [r \in 0 .. n - k - 1 |->
                      IF r <= cur - front THEN q.data[i][r + front]
                      ELSE q.data[i][r + front + back]]
<1>9. p = [q EXCEPT !.rra[i].rowCnt = n - k, !.cur[i] = cur - front, !.data[i] = rows]
  BY <1>2, <1>3, <1>4, <1>5 DEF Shrunk
<1>10. \A r \in 0 .. n - k - 1 : rows[r] = [d \in Dss(q) |-> rows[r][d]]
  <2> SUFFICES ASSUME NEW r \in 0 .. n - k - 1 PROVE rows[r] = [d \in Dss(q) |-> rows[r][d]]
    OBVIOUS
  <2>1. CASE r <= cur - front
    <3>1. r + front \in 0 .. n - 1
      BY <1>8, <2>1
    <3>2. rows[r] = q.data[i][r + front]
      BY <2>1
    <3> HIDE DEF rows
    <3> QED BY <1>1, <1>2, <3>1, <3>2
  <2>2. CASE ~(r <= cur - front)
    <3>1. r + front + back \in 0 .. n - 1
      BY <1>8, <2>2
    <3>2. rows[r] = q.data[i][r + front + back]
      BY <2>2
    <3> HIDE DEF rows, back
    <3> QED BY <1>1, <1>2, <3>1, <3>2
  <2> QED BY <2>1, <2>2
<1>11. DOMAIN rows = 0 .. n - k - 1
  OBVIOUS
<1> HIDE DEF rows, back
<1>12. /\ DOMAIN p = RrdFields /\ \A x \in RrdFields \ {"rra", "cur", "data"} : p[x] = q[x]
       /\ p.rra = [q.rra EXCEPT ![i].rowCnt = n - k] /\ p.cur = [q.cur EXCEPT ![i] = cur - front]
       /\ p.data = [q.data EXCEPT ![i] = rows]
  BY <1>1, <1>9 DEF RrdFields
<1>13. /\ p.cur[i] = cur - front /\ p.data[i] = rows /\ DOMAIN p.cur = DOMAIN q.cur
       /\ DOMAIN p.data = DOMAIN q.data /\ cur - front \in 0 .. (n - k) - 1
       /\ \A j \in Rras(q) : j # i => p.cur[j] = q.cur[j] /\ p.data[j] = q.data[j]
  BY <1>1, <1>8, <1>12
<1>14. p.version = q.version
  BY <1>12 DEF RrdFields
<1>15. DOMAIN rows = 0 .. (n - k) - 1 /\ \A r \in 0 .. (n - k) - 1 : rows[r] = [d \in Dss(q) |-> rows[r][d]]
  BY <1>10, <1>11
<1> DEFINE m == n - k
           c == cur - front
<1>20. /\ m \in Nat \ {0} /\ c \in 0 .. m - 1 /\ DOMAIN rows = 0 .. m - 1
       /\ \A r \in 0 .. m - 1 : IsRow(q, rows[r])
  BY <1>8, <1>13, <1>15 DEF IsRow
<1>21. /\ p.rra = WithRows(q, i, m) /\ p.cur[i] \in 0 .. m - 1 /\ DOMAIN p.data[i] = 0 .. m - 1
       /\ \A r \in 0 .. m - 1 : IsRow(q, p.data[i][r])
       /\ DOMAIN p.cur = DOMAIN q.cur /\ DOMAIN p.data = DOMAIN q.data
       /\ \A j \in Rras(q) : j # i => p.cur[j] = q.cur[j] /\ p.data[j] = q.data[j]
       /\ DOMAIN p = RrdFields /\ \A x \in RrdFields \ {"rra", "cur", "data"} : p[x] = q[x]
  BY <1>12, <1>13, <1>20 DEF WithRows
<1>22. m = q.rra[i].rowCnt - k
  BY <1>2
<1> HIDE DEF m, c
<1>23. Shape(p) /\ Rras(p) = Rras(q) /\ p.rra[i].rowCnt = m
  BY <1>20, <1>21, NewRows, SMTT(90)
<1>24. \A j \in Rras(q) : j # i => p.rra[j] = q.rra[j]
  BY <1>1, <1>21 DEF WithRows
<1> QED BY <1>14, <1>22, <1>23, <1>24

\* A resize changes the rows of one archive.
LEMMA ResizeKeeps ==
    ASSUME NEW q, Shape(q), NEW i, NEW modify \in Int, ResizeOk(q, i, modify),
           NEW p, p = rrd_resize(q, i, modify)
    PROVE  /\ Shape(p) /\ Rras(p) = Rras(q) /\ i \in Rras(q)
           /\ p.rra[i].rowCnt = q.rra[i].rowCnt + modify
           /\ \A j \in Rras(q) : j # i => p.rra[j] = q.rra[j]
<1>1. /\ i \in Rras(q) /\ modify # 0 /\ (modify < 0 => q.rra[i].rowCnt > -modify)
      /\ q.version \in {3, 4} /\ q.rra[i].rowCnt \in Nat
  BY DEF ResizeOk, Shape, DefsOk, RraOk
<1>2. PICK new : new = IF modify > 0 THEN Grown(q, i, modify) ELSE Shrunk(q, i, -modify)
  OBVIOUS
<1>3. /\ Shape(new) /\ Rras(new) = Rras(q) /\ new.version = q.version
      /\ new.rra[i].rowCnt = q.rra[i].rowCnt + modify
      /\ \A j \in Rras(q) : j # i => new.rra[j] = q.rra[j]
  <2>1. CASE modify > 0
    <3>1. modify \in Nat \ {0}
      BY <2>1
    <3>2. new = Grown(q, i, modify)
      BY <1>2, <2>1
    <3> QED BY <1>1, <3>1, <3>2, GrownKeeps
  <2>2. CASE ~(modify > 0)
    <3>1. PICK k \in Nat \ {0} : k = -modify
      BY <1>1, <2>2
    <3>2. k < q.rra[i].rowCnt /\ new = Shrunk(q, i, k)
      BY <1>1, <1>2, <2>2, <3>1
    <3>3. /\ Shape(new) /\ Rras(new) = Rras(q) /\ new.version = q.version
          /\ new.rra[i].rowCnt = q.rra[i].rowCnt - k
          /\ \A j \in Rras(q) : j # i => new.rra[j] = q.rra[j]
      BY <1>1, <3>2, ShrunkKeeps
    <3>4. q.rra[i].rowCnt - k = q.rra[i].rowCnt + modify
      BY <1>1, <3>1
    <3> QED BY <3>3, <3>4
  <2> QED BY <2>1, <2>2
<1>4. p = [new EXCEPT !.version = IF @ = 1 THEN 3 ELSE @]
  BY <1>2 DEF rrd_resize
<1>5. PICK v \in {3, 4} : p = [new EXCEPT !.version = v]
  BY <1>3, <1>4 DEF Shape, DefsOk
<1>6. Laid(new, p) /\ p.rra = new.rra
  BY <1>3, <1>5, PutVersion
<1> QED BY <1>1, <1>3, <1>6 DEF Laid, Rras

-----------------------------------------------------------------------------
(* rrdtool dump and rrdtool restore.                                         *)

\* A function on 1 .. n is a list.
LEMMA ListOf ==
    ASSUME NEW n \in Nat, NEW f, f = [k \in 1 .. n |-> f[k]]
    PROVE  Len(f) = n /\ IsList(f)
<1>1. Len(f) = n
  OBVIOUS
<1> QED BY <1>1 DEF IsList

\* The first elements of a history of violations.
LEMMA FirstOfViols ==
    ASSUME NEW w \in 1 .. MAX_FAILURES_WINDOW_LEN, NEW v,
           v = [k \in 1 .. MAX_FAILURES_WINDOW_LEN |-> v[k]]
    PROVE  SubSeq(v, 1, w) = [k \in 1 .. w |-> v[k]] /\ Len(SubSeq(v, 1, w)) = w
<1> DEFINE V == {v[k] : k \in 1 .. MAX_FAILURES_WINDOW_LEN}
<1>1. v \in Seq(V) /\ Len(v) = MAX_FAILURES_WINDOW_LEN
  BY DEF MAX_FAILURES_WINDOW_LEN
<1> HIDE DEF V
<1>2. /\ Len(SubSeq(v, 1, w)) = w /\ SubSeq(v, 1, w) \in Seq(V)
      /\ \A k \in 1 .. w : SubSeq(v, 1, w)[k] = v[k]
  BY <1>1 DEF MAX_FAILURES_WINDOW_LEN
<1> QED BY <1>2

\* What a restore keeps of a scratch area.
Back(rrd, i, d) == parse_tag_rra_cdp_prep_ds(DumpedCdp(rrd, i, d), DumpedParams(rrd, i).cf)

\* The parameters that a dump leaves out are shown by none.
LEMMA DumpedParamsOk ==
    ASSUME NEW q, Shape(q), NEW i \in Rras(q), NEW def, def = DumpedParams(q, i)
    PROVE  /\ RraOk(def) /\ def.cf = q.rra[i].cf /\ def.rowCnt = q.rra[i].rowCnt
           /\ def.pdpCnt = q.rra[i].pdpCnt
           /\ \A x \in DOMAIN q.rra[i] : x # "smoothing" => def[x] = q.rra[i][x]
           /\ def.cf \notin SeasonCfs \/ q.version >= 4 => def = q.rra[i]
<1>1. RraOk(q.rra[i])
  BY DEF Shape, DefsOk
<1>2. q.version \in {3, 4}
  BY DEF Shape, DefsOk
<1>3. CASE q.rra[i].cf \in SeasonCfs /\ q.version < 4
  <2>1. def = [q.rra[i] EXCEPT !.smoothing = 0]
    BY <1>3 DEF DumpedParams
  <2>2. DOMAIN def = DOMAIN q.rra[i] /\ \A x \in DOMAIN q.rra[i] : x # "smoothing" => def[x] = q.rra[i][x]
    BY <2>1
  <2>3. /\ def.cf = q.rra[i].cf /\ def.rowCnt = q.rra[i].rowCnt /\ def.pdpCnt = q.rra[i].pdpCnt
    BY <1>1, <2>2 DEF RraOk
  <2>4. def.cf # "FAILURES"
    BY <1>3, <2>3 DEF SeasonCfs
  <2>5. RraOk(def)
    BY <1>1, <2>2, <2>3, <2>4 DEF RraOk
  <2> QED BY <1>2, <1>3, <2>2, <2>3, <2>5
<1>4. CASE ~(q.rra[i].cf \in SeasonCfs /\ q.version < 4)
  <2>1. def = q.rra[i]
    BY <1>4 DEF DumpedParams
  <2> QED BY <1>1, <2>1
<1> QED BY <1>3, <1>4

\* A history comes back with as many violations as its window holds.
LEMMA BackViols ==
    ASSUME NEW q, Shape(q), NEW i \in Rras(q), NEW d \in Dss(q), q.rra[i].cf = "FAILURES",
           NEW c, c = Back(q, i, d)
    PROVE  Viols(c) /\ SubSeq(c.viol, 1, q.rra[i].window) = SubSeq(q.cdp[i][d].viol, 1, q.rra[i].window)
<1>1. /\ Viols(q.cdp[i][d]) /\ q.rra[i].window \in 1 .. MAX_FAILURES_WINDOW_LEN
  BY DEF Shape, DefsOk, ScratchOk, CdpOk, RraOk
<1>2. DumpedParams(q, i).cf = "FAILURES"
  BY DumpedParamsOk
<1>3. PICK w \in 1 .. MAX_FAILURES_WINDOW_LEN : w = q.rra[i].window
  BY <1>1
<1>4. PICK v : v = q.cdp[i][d].viol
  OBVIOUS
<1>5. PICK sub : sub = SubSeq(v, 1, w)
  OBVIOUS
<1>6. sub = [k \in 1 .. w |-> v[k]] /\ Len(sub) = w
  BY <1>1, <1>4, <1>5, FirstOfViols DEF Viols
<1>7. PICK cdp : cdp = DumpedCdp(q, i, d)
  OBVIOUS
<1>8. "viol" \in DOMAIN cdp /\ cdp.viol = sub
  BY <1>1, <1>3, <1>4, <1>5, <1>7 DEF DumpedCdp, Viols
<1> DEFINE e == [k \in 1 .. MAX_FAILURES_WINDOW_LEN |-> IF k <= Len(cdp.viol) THEN cdp.viol[k] ELSE 0]
<1>9. c = [cdp EXCEPT !.viol = e]
  BY <1>2, <1>7 DEF Back, parse_tag_rra_cdp_prep_ds
<1>10. e = [k \in 1 .. MAX_FAILURES_WINDOW_LEN |-> e[k]]
  OBVIOUS
<1>11. \A k \in 1 .. w : e[k] = v[k]
  <2> SUFFICES ASSUME NEW k \in 1 .. w PROVE e[k] = v[k]
    OBVIOUS
  <2>1. k \in 1 .. MAX_FAILURES_WINDOW_LEN /\ k <= w
    BY DEF MAX_FAILURES_WINDOW_LEN
  <2>2. e[k] = IF k <= Len(cdp.viol) THEN cdp.viol[k] ELSE 0
    BY <2>1
  <2> HIDE DEF e
  <2>3. e[k] = sub[k]
    BY <1>6, <1>8, <2>1, <2>2
  <2> QED BY <1>6, <2>3
<1> HIDE DEF e
<1>12. c.viol = e /\ "viol" \in DOMAIN c
  BY <1>8, <1>9
<1>13. SubSeq(e, 1, w) = [k \in 1 .. w |-> e[k]]
  BY <1>10, FirstOfViols
<1>14. SubSeq(e, 1, w) = sub
  BY <1>6, <1>11, <1>13
<1> QED BY <1>3, <1>4, <1>5, <1>10, <1>12, <1>14 DEF Viols

\* A restored archive: the newest row comes first in the file, the others after
\* it from the oldest on.
LEMMA WrittenRows ==
    ASSUME NEW n \in Nat \ {0}, NEW rows, IsList(rows), Len(rows) = n,
           NEW f, f = write_file(rows, 0)
    PROVE  /\ DOMAIN f = 0 .. n - 1 /\ f[0] = rows[n] /\ \A k \in 1 .. n - 1 : f[k] = rows[k]
           /\ \A k \in 1 .. n : f[(0 + k) % n] = rows[k]
<1>2. f = [r \in 0 .. n - 1 |-> IF r <= 0 THEN rows[n - 0 + r] ELSE rows[r - 0]]
  BY DEF write_file
<1>3. DOMAIN f = 0 .. n - 1 /\ f[0] = rows[n] /\ \A k \in 1 .. n - 1 : f[k] = rows[k]
  <2>1. 0 \in 0 .. n - 1 /\ n - 0 + 0 = n
    OBVIOUS
  <2>2. DOMAIN f = 0 .. n - 1 /\ f[0] = rows[n]
    <3>1. f[0] = IF 0 <= 0 THEN rows[n - 0 + 0] ELSE rows[0 - 0]
      BY <1>2, <2>1, Zenon
    <3>2. 0 <= 0
      OBVIOUS
    <3>3. f[0] = rows[n - 0 + 0]
      BY <3>1, <3>2, Zenon
    <3>4. f[0] = rows[n]
      BY <2>1, <3>3, Zenon
    <3> QED BY <1>2, <3>4
  <2>3. ASSUME NEW k \in 1 .. n - 1 PROVE f[k] = rows[k]
    <3>1. k \in 0 .. n - 1 /\ ~(k <= 0) /\ k - 0 = k
      OBVIOUS
    <3> QED BY <1>2, <3>1
  <2> QED BY <2>2, <2>3
<1>4. ASSUME NEW k \in 1 .. n PROVE f[(0 + k) % n] = rows[k]
  <2>1. CASE k = n
    <3>1. (0 + k) % n = 0
      BY <2>1
    <3> QED BY <1>3, <2>1, <3>1
  <2>2. CASE k # n
    <3>1. (0 + k) % n = k /\ k \in 1 .. n - 1
      BY <2>2
    <3> QED BY <1>3, <3>1
  <2> QED BY <2>1, <2>2
<1> QED BY <1>3, <1>4

\* The rows an archive shows, from the oldest on.
LEMMA ShownRows ==
    ASSUME NEW q, Shape(q), NEW i \in Rras(q), NEW rows, rows = RowsOldestFirst(q, i)
    PROVE  /\ rows = [k \in 1 .. q.rra[i].rowCnt |-> rows[k]]
           /\ \A k \in 1 .. q.rra[i].rowCnt : IsRow(q, rows[k])
<1>1. /\ q.rra[i].rowCnt \in Nat \ {0} /\ q.cur[i] \in 0 .. q.rra[i].rowCnt - 1
      /\ \A r \in 0 .. q.rra[i].rowCnt - 1 : IsRow(q, q.data[i][r])
  BY DEF Shape, DefsOk, RowsOk, RraOk, IsRow
<1>2. PICK n \in Nat \ {0} : n = q.rra[i].rowCnt
  BY <1>1
<1>3. rows = [k \in 1 .. n |-> q.data[i][(q.cur[i] + k) % n]]
  BY <1>2 DEF RowsOldestFirst
<1>4. \A k \in 1 .. n : (q.cur[i] + k) % n \in 0 .. n - 1
  BY <1>1, <1>2
<1> QED BY <1>1, <1>2, <1>3, <1>4

\* What a restore writes, part by part.
Restored(q, p, check) ==
    /\ DOMAIN p = RrdFields /\ p.ds = q.ds /\ p.pdp = q.pdp /\ p.step = q.step
    /\ p.lastUp = q.lastUp /\ p.version = q.version
    /\ p.rra = [i \in Rras(q) |-> DumpedParams(q, i)]
    /\ p.cdp = [i \in Rras(q) |-> [d \in Dss(q) |-> Back(q, i, d)]]
    /\ p.cur = [i \in Rras(q) |-> 0]
    /\ DOMAIN p.data = Rras(q)
    /\ \A i \in Rras(q) :
         p.data[i] = write_file([k \in 1 .. q.rra[i].rowCnt |-> [d \in Dss(q) |->
                         value_check_range(q.ds[d], check, RowsOldestFirst(q, i)[k][d])]], 0)
\* A restore of a dump writes the file so.
LEMMA RestoreWrites ==
    ASSUME NEW q, Shape(q), NEW check, NEW p, p = rrd_restore(rrd_dump(q), check)
    PROVE  Restored(q, p, check)
<1>1. /\ IsList(q.ds) /\ IsList(q.rra) /\ q.version \in {3, 4} /\ q.pdp = [d \in Dss(q) |-> q.pdp[d]]
      /\ Dss(q) = 1 .. Len(q.ds) /\ Rras(q) = 1 .. Len(q.rra)
  BY DEF Shape, DefsOk, ScratchOk, Dss, Rras
<1>2. PICK m \in Nat : m = Len(q.ds)
  BY <1>1 DEF IsList
<1>3. PICK n \in Nat : n = Len(q.rra)
  BY <1>1 DEF IsList
<1> DEFINE D == rrd_dump(q)
           ds == [d \in 1 .. m |-> DumpedDs(q, d)]
           rra == [i \in 1 .. n |-> [def |-> DumpedParams(q, i),
                                     cdp |-> [d \in 1 .. m |-> DumpedCdp(q, i, d)],
                                     rows |-> RowsOldestFirst(q, i)]]
           tags == [i \in 1 .. n |-> parse_tag_rra(D, i, check)]
<1>4. /\ D.version = q.version /\ D.step = q.step /\ D.lastUp = q.lastUp
      /\ D.ds = ds /\ D.rra = rra
  BY <1>1, <1>2, <1>3 DEF rrd_dump, RRD_VERSION
<1>5. Len(D.ds) = m
  BY <1>4
<1>6. Len(D.rra) = n
  BY <1>4
<1> HIDE DEF D
<1>7. \A d \in 1 .. m : D.ds[d].def = q.ds[d] /\ D.ds[d].pdp = q.pdp[d]
  BY <1>4 DEF DumpedDs
<1>8. \A i \in 1 .. n : /\ D.rra[i].def = DumpedParams(q, i) /\ D.rra[i].rows = RowsOldestFirst(q, i)
                         /\ \A d \in 1 .. m : D.rra[i].cdp[d] = DumpedCdp(q, i, d)
  BY <1>4
<1> HIDE DEF ds, rra
<1>9. /\ p.version = D.version /\ p.step = D.step /\ p.lastUp = D.lastUp
      /\ p.ds = [d \in 1 .. m |-> D.ds[d].def] /\ p.pdp = [d \in 1 .. m |-> D.ds[d].pdp]
      /\ p.rra = [i \in 1 .. n |-> tags[i].def] /\ p.cdp = [i \in 1 .. n |-> tags[i].cdp]
      /\ p.cur = [i \in 1 .. n |-> tags[i].cur] /\ DOMAIN p = RrdFields
      /\ p.data = [i \in 1 .. n |-> write_file(tags[i].rows, tags[i].cur)]
  BY <1>1, <1>4, <1>5, <1>6 DEF rrd_restore, RrdFields, D
<1>10. p.ds = q.ds /\ p.pdp = q.pdp
  <2>1. q.ds = [d \in 1 .. m |-> q.ds[d]] /\ q.pdp = [d \in 1 .. m |-> q.pdp[d]]
    BY <1>1, <1>2 DEF IsList
  <2>2. p.ds = [d \in 1 .. m |-> q.ds[d]]
    BY <1>7, <1>9
  <2>3. p.pdp = [d \in 1 .. m |-> q.pdp[d]]
    BY <1>7, <1>9
  <2> QED BY <2>1, <2>2, <2>3
<1>11. ASSUME NEW i \in 1 .. n
       PROVE  /\ tags[i].def = DumpedParams(q, i) /\ tags[i].cur = 0
              /\ tags[i].cdp = [d \in 1 .. m |-> Back(q, i, d)]
              /\ tags[i].rows = [k \in 1 .. q.rra[i].rowCnt |-> [d \in 1 .. m |->
                                   value_check_range(q.ds[d], check, RowsOldestFirst(q, i)[k][d])]]
  <2>1. tags[i] = parse_tag_rra(D, i, check)
    OBVIOUS
  <2> HIDE DEF tags
  <2>2. tags[i].def = DumpedParams(q, i) /\ tags[i].cur = 0
    BY <1>8, <2>1 DEF parse_tag_rra
  <2>3. tags[i].cdp = [d \in 1 .. m |-> Back(q, i, d)]
    <3>1. tags[i].cdp = [d \in 1 .. m |-> parse_tag_rra_cdp_prep_ds(D.rra[i].cdp[d], D.rra[i].def.cf)]
      BY <1>5, <2>1 DEF parse_tag_rra
    <3> QED BY <1>8, <3>1 DEF Back
  <2>4. tags[i].rows = parse_tag_rra_database(D, i, check)
    BY <2>1 DEF parse_tag_rra
  <2>5. Len(RowsOldestFirst(q, i)) = q.rra[i].rowCnt
    <3>1. i \in Rras(q) /\ q.rra[i].rowCnt \in Nat
      BY <1>1, <1>3 DEF Shape, DefsOk, RraOk
    <3> QED BY <3>1, ShownRows, ListOf
  <2>6. parse_tag_rra_database(D, i, check) =
          [k \in 1 .. q.rra[i].rowCnt |-> [d \in 1 .. m |->
             value_check_range(q.ds[d], check, RowsOldestFirst(q, i)[k][d])]]
    <3>1. parse_tag_rra_database(D, i, check) =
            [k \in 1 .. q.rra[i].rowCnt |-> [d \in 1 .. m |->
               value_check_range(D.ds[d].def, check, RowsOldestFirst(q, i)[k][d])]]
      BY <1>5, <1>8, <2>5 DEF parse_tag_rra_database
    <3> QED BY <1>7, <3>1
  <2> QED BY <2>2, <2>3, <2>4, <2>6
<1> HIDE DEF tags
<1>12. /\ p.rra = [i \in Rras(q) |-> DumpedParams(q, i)] /\ p.cur = [i \in Rras(q) |-> 0]
       /\ p.cdp = [i \in Rras(q) |-> [d \in Dss(q) |-> Back(q, i, d)]]
  <2>1. Rras(q) = 1 .. n /\ Dss(q) = 1 .. m
    BY <1>1, <1>2, <1>3
  <2>2. p.rra = [i \in 1 .. n |-> DumpedParams(q, i)]
    BY <1>9, <1>11
  <2>3. p.cur = [i \in 1 .. n |-> 0]
    BY <1>9, <1>11
  <2>4. p.cdp = [i \in 1 .. n |-> [d \in 1 .. m |-> Back(q, i, d)]]
    BY <1>9, <1>11
  <2> QED BY <2>1, <2>2, <2>3, <2>4
<1>13. ASSUME NEW i \in Rras(q)
       PROVE  p.data[i] = write_file([k \in 1 .. q.rra[i].rowCnt |-> [d \in Dss(q) |->
                         value_check_range(q.ds[d], check, RowsOldestFirst(q, i)[k][d])]], 0)
  <2>1. Dss(q) = 1 .. m /\ i \in 1 .. n
    BY <1>1, <1>2, <1>3
  <2>2. p.data[i] = write_file(tags[i].rows, tags[i].cur)
    BY <1>9, <2>1
  <2>3. p.data[i] = write_file(tags[i].rows, 0)
    BY <1>11, <2>1, <2>2
  <2> QED BY <1>11, <2>1, <2>3
<1> QED BY <1>1, <1>3, <1>4, <1>9, <1>10, <1>12, <1>13 DEF Restored

\* A restored RRD has its shape, and the archives that were dumped.
LEMMA RestoreKeeps ==
    ASSUME NEW q, Shape(q), NEW check, NEW p, p = rrd_restore(rrd_dump(q), check)
    PROVE  Laid(q, p)
<1>1. Restored(q, p, check)
  BY RestoreWrites
<1>2. /\ DOMAIN p = RrdFields /\ p.ds = q.ds /\ p.pdp = q.pdp /\ p.step = q.step
      /\ p.lastUp = q.lastUp /\ p.version = q.version
  BY <1>1 DEF Restored
<1>3. /\ \A i \in Rras(q) : p.rra[i] = DumpedParams(q, i) /\ p.cur[i] = 0
      /\ p.rra = [i \in Rras(q) |-> p.rra[i]] /\ DOMAIN p.cur = Rras(q)
  BY <1>1 DEF Restored
<1>4. /\ DOMAIN p.cdp = Rras(q)
      /\ \A i \in Rras(q) : p.cdp[i] = [d \in Dss(q) |-> Back(q, i, d)]
  BY <1>1 DEF Restored
<1>5. \A i \in Rras(q) : /\ RraOk(p.rra[i]) /\ p.rra[i].cf = q.rra[i].cf
                         /\ p.rra[i].rowCnt = q.rra[i].rowCnt /\ p.rra[i].pdpCnt = q.rra[i].pdpCnt
  BY <1>3, DumpedParamsOk
<1>6. Len(p.rra) = Len(q.rra) /\ IsList(p.rra)
  <2>1. PICK n \in Nat : n = Len(q.rra)
    BY DEF Shape, DefsOk, IsList
  <2>2. p.rra = [i \in 1 .. n |-> p.rra[i]]
    BY <1>3, <2>1 DEF Rras
  <2> QED BY <2>1, <2>2, ListOf
<1>7. Rras(p) = Rras(q) /\ Dss(p) = Dss(q)
  BY <1>2, <1>6 DEF Rras, Dss
<1>8. DefsOk(p)
  BY <1>2, <1>5, <1>6, <1>7 DEF Shape, DefsOk
<1>9. ScratchOk(p)
  <2>1. ASSUME NEW i \in Rras(p) PROVE CdpOk(p, i)
    <3>1. p.cdp[i] = [d \in Dss(p) |-> Back(q, i, d)]
      BY <1>4, <1>7
    <3>2. p.cdp[i] = [d \in Dss(p) |-> p.cdp[i][d]]
      BY <3>1
    <3>3. ASSUME p.rra[i].cf = "FAILURES", NEW d \in Dss(p) PROVE Viols(p.cdp[i][d])
      <4>1. p.cdp[i][d] = Back(q, i, d)
        BY <3>1
      <4> QED BY <1>5, <1>7, <3>3, <4>1, BackViols
    <3> QED BY <3>2, <3>3 DEF CdpOk
  <2> QED BY <1>2, <1>4, <1>7, <2>1 DEF Shape, ScratchOk
<1>10. RowsOk(p)
  <2>1. ASSUME NEW i \in Rras(p)
        PROVE  /\ p.cur[i] \in 0 .. p.rra[i].rowCnt - 1
               /\ DOMAIN p.data[i] = 0 .. p.rra[i].rowCnt - 1
               /\ \A r \in DOMAIN p.data[i] : IsRow(p, p.data[i][r])
    <3>1. PICK n \in Nat \ {0} : n = p.rra[i].rowCnt /\ n = q.rra[i].rowCnt
      BY <1>5, <1>7 DEF RraOk
    <3> DEFINE row(k) == [d \in Dss(q) |-> value_check_range(q.ds[d], check, RowsOldestFirst(q, i)[k][d])]
               rows == [k \in 1 .. n |-> row(k)]
    <3>2. p.data[i] = write_file(rows, 0)
      BY <1>1, <1>7, <3>1 DEF Restored
    <3>3. IsList(rows) /\ Len(rows) = n
      BY ListOf
    <3>4. \A k \in 1 .. n : IsRow(p, rows[k])
      BY <1>7 DEF IsRow
    <3> HIDE DEF rows
    <3>5. /\ DOMAIN p.data[i] = 0 .. n - 1 /\ p.data[i][0] = rows[n]
          /\ \A k \in 1 .. n - 1 : p.data[i][k] = rows[k]
      BY <3>2, <3>3, WrittenRows
    <3>6. ASSUME NEW r \in 0 .. n - 1 PROVE IsRow(p, p.data[i][r])
      <4>1. CASE r = 0
        BY <3>4, <3>5, <4>1
      <4>2. CASE r # 0
        BY <3>4, <3>5, <4>2
      <4> QED BY <4>1, <4>2
    <3> QED BY <1>3, <1>7, <3>1, <3>5, <3>6
  <2>2. DOMAIN p.data = Rras(q)
    BY <1>1 DEF Restored
  <2> QED BY <1>3, <1>7, <2>1, <2>2 DEF RowsOk, IsRow
<1> QED BY <1>2, <1>5, <1>6, <1>8, <1>9, <1>10 DEF Laid, Shape

\* Without a range check the rows come back as they were.
LEMMA RestoredRows ==
    ASSUME NEW q, Shape(q), NEW check \in BOOLEAN, ~check,
           NEW p, p = rrd_restore(rrd_dump(q), check), NEW i \in Rras(q)
    PROVE  RowsOldestFirst(p, i) = RowsOldestFirst(q, i)
<1>1. Restored(q, p, check)
  BY RestoreWrites
<1> DEFINE rows == RowsOldestFirst(q, i)
           n == q.rra[i].rowCnt
<1>2. rows = RowsOldestFirst(q, i)
  OBVIOUS
<1>3. n \in Nat \ {0} /\ n = q.rra[i].rowCnt
  BY DEF Shape, DefsOk, RraOk
<1> HIDE DEF rows, n
<1>4. rows = [k \in 1 .. n |-> rows[k]] /\ \A k \in 1 .. n : IsRow(q, rows[k])
  BY <1>2, <1>3, ShownRows
<1>5. p.rra[i].rowCnt = n /\ p.cur[i] = 0
  <2>1. p.rra[i] = DumpedParams(q, i) /\ p.cur[i] = 0
    BY <1>1 DEF Restored
  <2>2. p.rra[i].rowCnt = q.rra[i].rowCnt
    BY <2>1, DumpedParamsOk
  <2> QED BY <1>3, <2>1, <2>2
<1> DEFINE checked == [k \in 1 .. n |-> [d \in Dss(q) |-> value_check_range(q.ds[d], check, rows[k][d])]]
<1>6. p.data[i] = write_file(checked, 0)
  BY <1>1 DEF Restored, rows, n
<1>7. checked = rows
  <2>1. \A k \in 1 .. n : [d \in Dss(q) |-> value_check_range(q.ds[d], check, rows[k][d])] = rows[k]
    BY <1>4 DEF IsRow, value_check_range
  <2> QED BY <1>4, <2>1
<1> HIDE DEF checked
<1>8. \A k \in 1 .. n : p.data[i][(0 + k) % n] = rows[k]
  <2>1. IsList(rows) /\ Len(rows) = n
    BY <1>3, <1>4, ListOf
  <2>2. p.data[i] = write_file(rows, 0)
    BY <1>6, <1>7
  <2> DEFINE f == write_file(rows, 0)
  <2>3. \A k \in 1 .. n : f[(0 + k) % n] = rows[k]
    BY ONLY <1>3, <2>1, WrittenRows
  <2> QED BY <2>2, <2>3
<1>9. RowsOldestFirst(p, i) = [k \in 1 .. n |-> p.data[i][(0 + k) % n]]
  BY <1>5 DEF RowsOldestFirst
<1>10. RowsOldestFirst(p, i) = [k \in 1 .. n |-> rows[k]]
  BY <1>8, <1>9
<1> QED BY <1>2, <1>4, <1>10

\* What rrdtool info shows of the parameters and of a scratch area of an archive.
Params(rrd, i) ==
    LET def == rrd.rra[i]
        cf == def.cf
    IN  CASE cf \in PredictionCfs -> <<def.alpha, def.beta>>
          [] cf \in SeasonCfs ->
                IF rrd.version >= 4 THEN <<def.gamma, def.smoothing>> ELSE <<def.gamma>>
          [] cf = "FAILURES" -> <<def.deltaPos, def.deltaNeg, def.threshold, def.window>>
          [] cf = "DEVPREDICT" -> <<>>
          [] OTHER -> <<def.xff>>
ShownCdp(def, c) ==
    CASE def.cf \in PredictionCfs -> <<c.coef, c.slope, c.nulls>>
      [] def.cf \in SeasonCfs     -> <<c.coef>>
      [] def.cf = "DEVPREDICT"    -> <<>>
      [] def.cf = "FAILURES"      -> SubSeq(c.viol, 1, def.window)
      [] OTHER                    -> <<c.val, c.unkn>>
\* rrdtool info shows an archive so.
LEMMA InfoIs ==
    ASSUME NEW q, NEW i
    PROVE  InfoRra(q, i) =
             [cf |-> q.rra[i].cf, rows |-> q.rra[i].rowCnt, cur_row |-> q.cur[i],
              pdp_per_row |-> q.rra[i].pdpCnt, params |-> Params(q, i),
              cdp_prep |-> [d \in Dss(q) |-> ShownCdp(q.rra[i], q.cdp[i][d])]]
BY DEF InfoRra, Params, ShownCdp

AtRow0(info) == [info EXCEPT !.cur_row = 0]

\* What rrdtool info shows of an archive comes back, the cursor apart.
LEMMA RestoredInfo ==
    ASSUME NEW q, Shape(q), NEW check, NEW p, p = rrd_restore(rrd_dump(q), check), NEW i \in Rras(q)
    PROVE  InfoRra(p, i) = AtRow0(InfoRra(q, i))
<1>1. Restored(q, p, check) /\ Laid(q, p)
  BY RestoreWrites, RestoreKeeps
<1>2. p.rra[i] = DumpedParams(q, i) /\ p.cur[i] = 0 /\ p.version = q.version /\ Dss(p) = Dss(q)
  BY <1>1 DEF Restored, Dss
<1>3. \A d \in Dss(q) : p.cdp[i][d] = Back(q, i, d)
  BY <1>1 DEF Restored
<1>4. /\ p.rra[i].cf = q.rra[i].cf /\ p.rra[i].rowCnt = q.rra[i].rowCnt
      /\ p.rra[i].pdpCnt = q.rra[i].pdpCnt
  BY <1>2, DumpedParamsOk
<1>5. p.rra[i].cf \notin SeasonCfs \/ q.version >= 4 => p.rra[i] = q.rra[i]
  BY <1>2, DumpedParamsOk
<1>6. RraOk(q.rra[i])
  BY DEF Shape, DefsOk
<1>7. p.rra[i].cf \in SeasonCfs => p.rra[i].gamma = q.rra[i].gamma
  <2>1. \A x \in DOMAIN q.rra[i] : x # "smoothing" => p.rra[i][x] = q.rra[i][x]
    BY <1>2, DumpedParamsOk
  <2> QED BY <1>4, <1>6, <2>1 DEF RraOk
<1>8. Params(p, i) = Params(q, i)
  <2>1. CASE p.rra[i].cf \notin SeasonCfs
    <3>1. p.rra[i] = q.rra[i]
      BY <1>5, <2>1
    <3> QED BY <1>2, <3>1 DEF Params
  <2>2. CASE p.rra[i].cf \in SeasonCfs /\ q.version >= 4
    <3>1. p.rra[i] = q.rra[i]
      BY <1>5, <2>2
    <3> QED BY <1>2, <3>1 DEF Params
  <2>3. CASE p.rra[i].cf \in SeasonCfs /\ ~(q.version >= 4)
    <3>0. ASSUME NEW r, r.rra[i].cf \in SeasonCfs, ~(r.version >= 4)
          PROVE  Params(r, i) = << r.rra[i].gamma >>
      <4>1. r.rra[i].cf \notin PredictionCfs
        BY <3>0 DEF SeasonCfs, PredictionCfs
      <4>2. /\ (r.rra[i].cf \in PredictionCfs) = FALSE /\ (r.rra[i].cf \in SeasonCfs) = TRUE
            /\ (r.rra[i].cf = "FAILURES") = FALSE /\ (r.rra[i].cf = "DEVPREDICT") = FALSE
        BY <3>0, <4>1 DEF SeasonCfs
      <4> QED BY <3>0, <4>2 DEF Params
    <3>2. Params(p, i) = << p.rra[i].gamma >>
      BY <1>2, <2>3, <3>0
    <3>3. Params(q, i) = << q.rra[i].gamma >>
      BY <1>4, <2>3, <3>0
    <3> QED BY <1>7, <2>3, <3>2, <3>3
  <2> QED BY <2>1, <2>2, <2>3
<1>9. ASSUME NEW d \in Dss(q) PROVE ShownCdp(p.rra[i], p.cdp[i][d]) = ShownCdp(q.rra[i], q.cdp[i][d])
  <2>1. CASE p.rra[i].cf = "FAILURES"
    <3>0. q.rra[i].cf = "FAILURES" /\ p.rra[i].cf \notin SeasonCfs \cup PredictionCfs
      BY <1>4, <2>1 DEF SeasonCfs, PredictionCfs
    <3>1. p.rra[i] = q.rra[i]
      BY <1>5, <3>0
    <3>2. ShownCdp(p.rra[i], p.cdp[i][d]) = SubSeq(p.cdp[i][d].viol, 1, q.rra[i].window)
      BY <2>1, <3>0, <3>1 DEF ShownCdp
    <3>3. ShownCdp(q.rra[i], q.cdp[i][d]) = SubSeq(q.cdp[i][d].viol, 1, q.rra[i].window)
      BY <2>1, <3>0, <3>1 DEF ShownCdp
    <3>4. p.cdp[i][d] = Back(q, i, d)
      BY <1>3
    <3> QED BY <3>0, <3>2, <3>3, <3>4, BackViols
  <2>2. CASE p.rra[i].cf # "FAILURES"
    <3>1. p.cdp[i][d] = q.cdp[i][d]
      BY <1>2, <1>3, <1>4, <2>2 DEF Back, parse_tag_rra_cdp_prep_ds, DumpedCdp
    <3> QED BY <1>4, <2>2, <3>1 DEF ShownCdp
  <2> QED BY <2>1, <2>2
<1> DEFINE prep == [d \in Dss(q) |-> ShownCdp(q.rra[i], q.cdp[i][d])]
<1>10. [d \in Dss(p) |-> ShownCdp(p.rra[i], p.cdp[i][d])] = prep
  BY <1>2, <1>9
<1>11. InfoRra(q, i) = [cf |-> q.rra[i].cf, rows |-> q.rra[i].rowCnt, cur_row |-> q.cur[i],
              pdp_per_row |-> q.rra[i].pdpCnt, params |-> Params(q, i), cdp_prep |-> prep]
  BY InfoIs
<1>12. InfoRra(p, i) = [cf |-> p.rra[i].cf, rows |-> p.rra[i].rowCnt, cur_row |-> p.cur[i],
              pdp_per_row |-> p.rra[i].pdpCnt, params |-> Params(p, i), cdp_prep |-> prep]
  BY <1>10, InfoIs
<1> HIDE DEF prep
<1> QED BY <1>2, <1>4, <1>8, <1>11, <1>12 DEF AtRow0

\* A dump and a restore show what was there, with the rows in their order.
LEMMA RestoreShows ==
    ASSUME NEW q, Shape(q), NEW check \in BOOLEAN, ~check,
           NEW p, p = rrd_restore(rrd_dump(q), check)
    PROVE  /\ rrd_info_r(Holding(p)) =
                [rrd_info_r(Holding(q)) EXCEPT
                   !.rra = [i \in DOMAIN @ |-> [@[i] EXCEPT !.cur_row = 0]]]
           /\ \A i \in Rras(q) : RowsOldestFirst(p, i) = RowsOldestFirst(q, i)
<1>1. Restored(q, p, check) /\ Laid(q, p)
  BY RestoreWrites, RestoreKeeps
<1>2. /\ p.version = q.version /\ p.step = q.step /\ p.lastUp = q.lastUp /\ p.ds = q.ds
      /\ p.pdp = q.pdp /\ Rras(p) = Rras(q) /\ q.version \in {3, 4}
  BY <1>1 DEF Restored, Laid, Shape, DefsOk, Rras
<1> DEFINE yes == TRUE
           before == [i \in Rras(q) |-> InfoRra(q, i)]
           after == [i \in Rras(q) |-> [before[i] EXCEPT !.cur_row = 0]]
<1>3. rrd_info_r(Holding(q)) =
        [ok |-> yes, version |-> q.version, step |-> q.step, lastUp |-> q.lastUp,
         ds |-> q.ds, pdp |-> q.pdp, rra |-> before]
  BY <1>2 DEF rrd_info_r, Holding, CanOpen, RRD_VERSION
<1>4. [i \in Rras(p) |-> InfoRra(p, i)] = after
  <2>1. \A i \in Rras(q) : InfoRra(p, i) = AtRow0(InfoRra(q, i))
    BY RestoredInfo
  <2>2. \A i \in Rras(q) : before[i] = InfoRra(q, i)
    OBVIOUS
  <2> HIDE DEF before
  <2> QED BY <1>2, <2>1, <2>2 DEF AtRow0
<1>40. CanOpen(Holding(p)) /\ CanOpen(Holding(q)) /\ Holding(p).rrd = p /\ Holding(q).rrd = q
  <2>1. p.version <= 4 /\ q.version <= 4
    BY <1>2
  <2> QED BY <2>1, Zenon DEF Holding, CanOpen, RRD_VERSION
<1>5. rrd_info_r(Holding(p)) =
        [ok |-> yes, version |-> p.version, step |-> p.step, lastUp |-> p.lastUp,
         ds |-> p.ds, pdp |-> p.pdp, rra |-> after]
  BY <1>4, <1>40, Zenon DEF rrd_info_r
<1>6. DOMAIN before = Rras(q)
  OBVIOUS
<1>7. [i \in DOMAIN before |-> [before[i] EXCEPT !.cur_row = 0]] = after
  BY <1>6
<1> HIDE DEF before, after, yes
<1> DEFINE a == rrd_info_r(Holding(q))
           b == rrd_info_r(Holding(p))
<1>30. a.rra = before
  BY <1>3
<1>8. [rrd_info_r(Holding(q)) EXCEPT !.rra = [i \in DOMAIN @ |-> [@[i] EXCEPT !.cur_row = 0]]]
        = [rrd_info_r(Holding(q)) EXCEPT !.rra = after]
  <2>1. [i \in DOMAIN a.rra |-> [a.rra[i] EXCEPT !.cur_row = 0]] = after
    BY <1>7, <1>30
  <2> HIDE DEF a, after
  <2>2. [a EXCEPT !.rra = [i \in DOMAIN a.rra |-> [a.rra[i] EXCEPT !.cur_row = 0]]] = [a EXCEPT !.rra = after]
    BY <2>1, Zenon
  <2> QED BY <2>2 DEF a
<1>9. rrd_info_r(Holding(p)) = [rrd_info_r(Holding(q)) EXCEPT !.rra = after]
  <2>1. /\ a = [ok |-> yes, version |-> q.version, step |-> q.step, lastUp |-> q.lastUp,
                ds |-> q.ds, pdp |-> q.pdp, rra |-> before]
        /\ b = [ok |-> yes, version |-> q.version, step |-> q.step, lastUp |-> q.lastUp,
                ds |-> q.ds, pdp |-> q.pdp, rra |-> after]
    BY <1>2, <1>3, <1>5
  <2> HIDE DEF a, b
  <2>2. b = [a EXCEPT !.rra = after]
    BY <2>1
  <2> QED BY <2>2 DEF a, b
<1> QED BY <1>8, <1>9, RestoredRows

-----------------------------------------------------------------------------
(* The RRD over its life.                                                    *)

\* The history of an RRD says how many rows of every archive are left.
HistoryOk(rrd, h) ==
    /\ DOMAIN h = {"log", "kept", "checked"} /\ DOMAIN h.kept = Rras(rrd)
    /\ \A i \in Rras(rrd) : h.kept[i] \in 1 .. rrd.rra[i].rowCnt
ContentOk(content, h) ==
    \/ content = Absent
    \/ content = Holding(content.rrd) /\ Shape(content.rrd) /\ HistoryOk(content.rrd, h)
XmlOk(dumped, h) ==
    dumped # <<>> =>
        \A check \in Restores :
           LET p == rrd_restore(dumped[1], check) IN Shape(p) /\ HistoryOk(p, h)
(* What every step keeps: the RRD, the one a resize left and the one a       *)
(* restore would write have their shape.                                     *)
IInv ==
    /\ DOMAIN past = {"file", "resized", "xml"}
    /\ ContentOk(file, past.file) /\ ContentOk(resized, past.resized)
    /\ XmlOk(xml, past.xml)

\* What is laid out alike has a like history.
LEMMA LikeHistory ==
    ASSUME NEW q, NEW p, Laid(q, p), NEW h, HistoryOk(q, h), NEW g,
           DOMAIN g = DOMAIN h, g.kept = h.kept
    PROVE  HistoryOk(p, g)
BY DEF HistoryOk, Laid, Rras

\* The rows of a longer time are no fewer.
LEMMA KeptGrows ==
    ASSUME NEW q, Shape(q), NEW kept, DOMAIN kept = Rras(q),
           \A i \in Rras(q) : kept[i] \in 1 .. q.rra[i].rowCnt,
           NEW to \in Int, q.lastUp <= to, NEW after, after = KeptAfter(q, kept, to)
    PROVE  DOMAIN after = Rras(q) /\ \A i \in Rras(q) : after[i] \in 1 .. q.rra[i].rowCnt
<1> SUFFICES ASSUME NEW i \in Rras(q) PROVE after[i] \in 1 .. q.rra[i].rowCnt
  BY DEF KeptAfter
<1>1. PICK n \in Nat \ {0} : n = q.rra[i].rowCnt
  BY DEF Shape, DefsOk, RraOk
<1>2. PICK k \in 1 .. n : k = kept[i]
  BY <1>1
<1>3. PICK s \in Nat \ {0} : s = q.step
  BY DEF Shape, DefsOk
<1>4. PICK c \in Nat \ {0} : c = q.rra[i].pdpCnt
  BY DEF Shape, DefsOk, RraOk
<1>5. PICK w \in Nat \ {0} : w = RowStep(q, i)
  <2>1. s * c \in Nat \ {0}
    OBVIOUS
  <2> QED BY <1>3, <1>4, <2>1 DEF RowStep
<1>6. PICK t \in Int : t = q.lastUp
  BY DEF Shape, DefsOk
<1>7. PICK x \in Int : x = t \div w
  OBVIOUS
<1>8. PICK y \in Int : y = to \div w
  OBVIOUS
<1>9. x <= y
  BY <1>6, <1>7, <1>8, DivGrows
<1>10. after[i] = IF k + (y - x) > n THEN n ELSE k + (y - x)
  BY <1>1, <1>2, <1>5, <1>6, <1>7, <1>8 DEF KeptAfter, RowsBetween
<1>11. CASE k + (y - x) > n
  <2>1. after[i] = n
    BY <1>10, <1>11
  <2> QED BY <1>1, <2>1
<1>12. CASE ~(k + (y - x) > n)
  <2>1. after[i] = k + (y - x)
    BY <1>10, <1>12
  <2>2. k + (y - x) \in 1 .. n
    BY <1>9, <1>12
  <2> QED BY <1>1, <2>1, <2>2
<1> QED BY <1>11, <1>12

\* What can be opened is an RRD.
LEMMA Opened ==
    ASSUME NEW content, NEW h, ContentOk(content, h), CanOpen(content)
    PROVE  /\ content = Holding(content.rrd) /\ Shape(content.rrd) /\ HistoryOk(content.rrd, h)
BY DEF ContentOk, CanOpen, Absent

\* A new RRD holds all its rows.
LEMMA CreateStep ==
    ASSUME IInv, NEW req \in Requests, Create(req)
    PROVE  IInv'
<1>1. PICK r : /\ r = rrd_create_r(req) /\ OptionsOk(req) /\ r.ok
               /\ \E rows \in InitialRows(r.rra) :
                    file' = Holding(rrd_create_fn(r.version, req.step, req.start, r.ds, r.rra, rows))
               /\ past' = [past EXCEPT !.file =
                    [log |-> << [kind |-> "created", time |-> req.start, step |-> req.step] >>,
                     kept |-> [i \in 1 .. Len(r.rra) |-> r.rra[i].rowCnt], checked |-> FALSE]]
               /\ UNCHANGED <<resized, xml>>
  BY DEF Create
<1>2. PICK rows \in InitialRows(r.rra) :
         file' = Holding(rrd_create_fn(r.version, req.step, req.start, r.ds, r.rra, rows))
  BY <1>1
<1>3. PICK q : q = rrd_create_fn(r.version, req.step, req.start, r.ds, r.rra, rows)
  OBVIOUS
<1>4. /\ req.step \in Int /\ req.start \in Int /\ IsList(req.args)
      /\ \A k \in DOMAIN req.args : ArgOk(req.args[k])
  BY CommandsAssumption DEF ArgOk
<1>5. Shape(q) /\ q.rra = r.rra
  BY <1>1, <1>2, <1>3, <1>4, CreateKeeps
<1> DEFINE no == FALSE
           log == << [kind |-> "created", time |-> req.start, step |-> req.step] >>
           kept == [i \in 1 .. Len(r.rra) |-> r.rra[i].rowCnt]
           h == [log |-> log, kept |-> kept, checked |-> no]
<1>6. past' = [past EXCEPT !.file = h]
  BY <1>1
<1> HIDE DEF log, no
<1>7. Rras(q) = 1 .. Len(r.rra) /\ \A i \in Rras(q) : q.rra[i].rowCnt \in Nat \ {0}
  BY <1>5 DEF Shape, DefsOk, RraOk, Rras
<1>8. DOMAIN h = {"log", "kept", "checked"} /\ h.kept = kept
  OBVIOUS
<1>9. DOMAIN kept = Rras(q) /\ \A i \in Rras(q) : kept[i] \in 1 .. q.rra[i].rowCnt
  BY <1>5, <1>7
<1> HIDE DEF h, kept
<1>10. HistoryOk(q, h)
  BY <1>8, <1>9 DEF HistoryOk
<1>11. /\ DOMAIN past' = {"file", "resized", "xml"} /\ past'.file = h
       /\ past'.resized = past.resized /\ past'.xml = past.xml
  BY <1>6 DEF IInv
<1>12. file' = Holding(q) /\ file'.rrd = q
  BY <1>2, <1>3 DEF Holding
<1>13. ContentOk(file', past'.file)
  BY <1>5, <1>10, <1>11, <1>12 DEF ContentOk
<1> QED BY <1>1, <1>11, <1>13 DEF IInv

\* An update moves on the history of every archive.
LEMMA UpdateStep ==
    ASSUME IInv, NEW u \in Updates, Update(u.tmplt, u.lines)
    PROVE  IInv'
<1> DEFINE lines == [k \in 1 .. Len(u.lines) |-> [time |-> Rrd.lastUp + u.lines[k].gap,
                                                  values |-> u.lines[k].values]]
           r == rrd_update(Rrd, u.tmplt, lines)
           log == IF u.tmplt # <<>> /\ ~parse_template(Rrd, u.tmplt).ok THEN past.file.log
                  ELSE past.file.log \o Entries(Rrd,
                          IF u.tmplt = <<>> THEN DefaultTemplate(Rrd)
                          ELSE parse_template(Rrd, u.tmplt).idx, lines)
           kept == KeptAfter(Rrd, past.file.kept, r.rrd.lastUp)
           h == [past.file EXCEPT !.log = log, !.kept = kept]
<1>1. /\ CanOpen(file) /\ file' = Holding(r.rrd) /\ resized' = resized /\ xml' = xml
  BY DEF Update
<1>2. past' = [past EXCEPT !.file = h]
  BY DEF Update
<1>3. Shape(Rrd) /\ HistoryOk(Rrd, past.file)
  BY <1>1, Opened DEF IInv, Rrd
<1>4. PICK n \in Nat : n = Len(u.lines)
  BY CommandsAssumption DEF IsList
<1>5. DOMAIN lines = 1 .. n /\ \A k \in 1 .. n : lines[k].time \in Int
  <2>1. DOMAIN lines = 1 .. n /\ \A k \in 1 .. n : lines[k].time = Rrd.lastUp + u.lines[k].gap
    BY <1>4
  <2>2. \A k \in 1 .. n : u.lines[k].gap \in Int
    BY <1>4, CommandsAssumption DEF IsList
  <2>3. Rrd.lastUp \in Int
    BY <1>3 DEF Shape, DefsOk
  <2> QED BY <2>1, <2>2, <2>3
<1> HIDE DEF lines
<1>6. Shape(r.rrd) /\ Same(Rrd, r.rrd) /\ Rrd.lastUp <= r.rrd.lastUp
  BY <1>3, <1>4, <1>5, UpdateKeeps
<1>7. r.rrd.lastUp \in Int /\ Rras(r.rrd) = Rras(Rrd) /\ r.rrd.rra = Rrd.rra
  BY <1>6 DEF Shape, DefsOk, Same, Rras
<1> HIDE DEF r
<1>8. DOMAIN kept = Rras(Rrd) /\ \A i \in Rras(Rrd) : kept[i] \in 1 .. Rrd.rra[i].rowCnt
  BY <1>3, <1>6, <1>7, KeptGrows DEF HistoryOk
<1> HIDE DEF log, kept
<1>9. DOMAIN h = {"log", "kept", "checked"} /\ h.kept = kept
  BY <1>3 DEF HistoryOk
<1> HIDE DEF h
<1>10. HistoryOk(r.rrd, h)
  BY <1>7, <1>8, <1>9 DEF HistoryOk
<1>11. /\ DOMAIN past' = {"file", "resized", "xml"} /\ past'.file = h
       /\ past'.resized = past.resized /\ past'.xml = past.xml
  BY <1>2 DEF IInv
<1>12. file' = Holding(r.rrd) /\ file'.rrd = r.rrd
  BY <1>1 DEF Holding
<1>13. ContentOk(file', past'.file)
  BY <1>6, <1>10, <1>11, <1>12 DEF ContentOk
<1> QED BY <1>1, <1>11, <1>13 DEF IInv

\* Options change no rows.
LEMMA TuneStepKeeps ==
    ASSUME IInv, NEW options \in Tunings, Tune(options)
    PROVE  IInv'
<1> DEFINE q == rrd_tune(Rrd, options).rrd
           log == past.file.log \o TuneLog(Rrd, options)
           h == [past.file EXCEPT !.log = log]
<1>1. CanOpen(file) /\ file' = Holding(q) /\ resized' = resized /\ xml' = xml
  BY DEF Tune
<1>2. past' = [past EXCEPT !.file = h]
  BY DEF Tune
<1>3. Shape(Rrd) /\ HistoryOk(Rrd, past.file)
  BY <1>1, Opened DEF IInv, Rrd
<1>4. Laid(Rrd, q)
  BY <1>3, TuneKeeps, CommandsAssumption
<1> HIDE DEF q, log
<1>5. DOMAIN h = DOMAIN past.file /\ h.kept = past.file.kept
  OBVIOUS
<1> HIDE DEF h
<1>6. HistoryOk(q, h) /\ Shape(q)
  BY <1>3, <1>4, <1>5, LikeHistory DEF Laid
<1>7. /\ DOMAIN past' = {"file", "resized", "xml"} /\ past'.file = h
      /\ past'.resized = past.resized /\ past'.xml = past.xml
  BY <1>2 DEF IInv
<1>8. file' = Holding(q) /\ file'.rrd = q
  BY <1>1 DEF Holding
<1>9. ContentOk(file', past'.file)
  BY <1>6, <1>7, <1>8 DEF ContentOk
<1> QED BY <1>1, <1>7, <1>9 DEF IInv

\* A resize leaves no more rows in the history than in the archive.
LEMMA ResizeStep ==
    ASSUME IInv, NEW r \in Resizings, Resize(r[1], r[2])
    PROVE  IInv'
<1> DEFINE i == r[1]
           modify == r[2]
           q == rrd_resize(Rrd, i, modify)
           n == Rrd.rra[i].rowCnt + modify
           few == IF past.file.kept[i] > n THEN n ELSE past.file.kept[i]
           h == [past.file EXCEPT !.kept[i] = few]
<1>1. CanOpen(file) /\ resized' = Holding(q) /\ file' = file /\ xml' = xml /\ ResizeOk(Rrd, i, modify)
  BY DEF Resize
<1>2. past' = [past EXCEPT !.resized = h]
  BY DEF Resize
<1>3. Shape(Rrd) /\ HistoryOk(Rrd, past.file)
  BY <1>1, Opened DEF IInv, Rrd
<1>4. modify \in Int
  BY CommandsAssumption
<1>5. PICK m \in Nat \ {0} : m = Rrd.rra[i].rowCnt /\ i \in Rras(Rrd)
  BY <1>1, <1>3 DEF ResizeOk, Shape, DefsOk, RraOk
<1>6. n \in Nat \ {0}
  BY <1>1, <1>4, <1>5 DEF ResizeOk
<1>7. /\ Shape(q) /\ Rras(q) = Rras(Rrd) /\ i \in Rras(Rrd) /\ q.rra[i].rowCnt = n
      /\ \A j \in Rras(Rrd) : j # i => q.rra[j] = Rrd.rra[j]
  BY <1>1, <1>3, <1>4, ResizeKeeps
<1>8. few \in 1 .. n
  <2>1. PICK k \in 1 .. m : k = past.file.kept[i]
    BY <1>3, <1>5 DEF HistoryOk
  <2>2. PICK top \in Nat \ {0} : top = n
    BY <1>6
  <2>3. few = IF k > top THEN top ELSE k
    BY <2>1, <2>2
  <2>4. few \in 1 .. top
    BY <2>3
  <2> QED BY <2>2, <2>4
<1> HIDE DEF q, n, few, i, modify
<1>9. /\ DOMAIN h = {"log", "kept", "checked"} /\ DOMAIN h.kept = Rras(Rrd)
      /\ h.kept[i] = few /\ \A j \in Rras(Rrd) : j # i => h.kept[j] = past.file.kept[j]
  BY <1>3, <1>7 DEF HistoryOk
<1> HIDE DEF h
<1>10. HistoryOk(q, h)
  <2>1. ASSUME NEW j \in Rras(q) PROVE h.kept[j] \in 1 .. q.rra[j].rowCnt
    <3>1. CASE j = i
      BY <1>7, <1>8, <1>9, <3>1
    <3>2. CASE j # i
      <4>1. h.kept[j] = past.file.kept[j] /\ q.rra[j] = Rrd.rra[j] /\ j \in Rras(Rrd)
        BY <1>7, <1>9, <3>2
      <4> QED BY <1>3, <4>1 DEF HistoryOk
    <3> QED BY <3>1, <3>2
  <2> QED BY <1>7, <1>9, <2>1 DEF HistoryOk
<1>11. /\ DOMAIN past' = {"file", "resized", "xml"} /\ past'.resized = h
       /\ past'.file = past.file /\ past'.xml = past.xml
  BY <1>2 DEF IInv
<1>12. resized' = Holding(q) /\ resized'.rrd = q
  BY <1>1 DEF Holding
<1>13. ContentOk(resized', past'.resized)
  BY <1>7, <1>10, <1>11, <1>12 DEF ContentOk
<1> QED BY <1>1, <1>11, <1>13 DEF IInv

\* The resized RRD is moved with its history.
LEMMA MoveStep ==
    ASSUME IInv, Move
    PROVE  IInv'
<1>1. file' = resized /\ resized' = Absent /\ xml' = xml
  BY DEF Move
<1>2. /\ DOMAIN past' = {"file", "resized", "xml"} /\ past'.file = past.resized
      /\ past'.xml = past.xml
  BY DEF Move, IInv
<1> QED BY <1>1, <1>2 DEF IInv, ContentOk

\* Whatever is dumped can be restored.
LEMMA DumpStep ==
    ASSUME IInv, Dump
    PROVE  IInv'
<1>1. CanOpen(file) /\ xml' = << rrd_dump(Rrd) >> /\ file' = file /\ resized' = resized
  BY DEF Dump
<1>2. /\ DOMAIN past' = {"file", "resized", "xml"} /\ past'.xml = past.file
      /\ past'.file = past.file /\ past'.resized = past.resized
  BY DEF Dump, IInv
<1>3. Shape(Rrd) /\ HistoryOk(Rrd, past.file)
  BY <1>1, Opened DEF IInv, Rrd
<1>4. xml'[1] = rrd_dump(Rrd)
  BY <1>1
<1>5. ASSUME NEW check \in Restores, NEW p, p = rrd_restore(xml'[1], check)
      PROVE  Shape(p) /\ HistoryOk(p, past.file)
  <2>1. Laid(Rrd, p)
    BY <1>3, <1>4, <1>5, RestoreKeeps
  <2> QED BY <1>3, <2>1, LikeHistory DEF Laid
<1>6. XmlOk(xml', past'.xml)
  BY <1>2, <1>5 DEF XmlOk
<1> QED BY <1>1, <1>2, <1>6 DEF IInv

\* A restored RRD has the history of the dump.
LEMMA RestoreStep ==
    ASSUME IInv, NEW check \in Restores, Restore(check)
    PROVE  IInv'
<1> DEFINE p == rrd_restore(xml[1], check)
           seen == past.xml.checked \/ check
           h == [past.xml EXCEPT !.checked = seen]
<1>1. xml # <<>> /\ file' = Holding(p) /\ resized' = resized /\ xml' = xml
  BY DEF Restore
<1>2. past' = [past EXCEPT !.file = h]
  BY DEF Restore
<1>3. Shape(p) /\ HistoryOk(p, past.xml)
  BY <1>1 DEF IInv, XmlOk
<1> HIDE DEF p, seen
<1>4. DOMAIN h = DOMAIN past.xml /\ h.kept = past.xml.kept
  OBVIOUS
<1> HIDE DEF h
<1>5. HistoryOk(p, h)
  BY <1>3, <1>4 DEF HistoryOk
<1>6. /\ DOMAIN past' = {"file", "resized", "xml"} /\ past'.file = h
      /\ past'.resized = past.resized /\ past'.xml = past.xml
  BY <1>2 DEF IInv
<1>7. file' = Holding(p) /\ file'.rrd = p
  BY <1>1 DEF Holding
<1>8. ContentOk(file', past'.file)
  BY <1>3, <1>5, <1>6, <1>7 DEF ContentOk
<1> QED BY <1>1, <1>6, <1>8 DEF IInv

\* Whatever the commands, in whatever order, the RRD, the one a resize left
\* and the one a restore would write keep their shape.
THEOREM ShapeKept == Spec => []IInv
<1>1. Init => IInv
  BY DEF Init, IInv, ContentOk, XmlOk
<1>2. IInv /\ [Next]_vars => IInv'
  <2> SUFFICES ASSUME IInv, [Next]_vars PROVE IInv'
    OBVIOUS
  <2>1. CASE \E req \in Requests : Create(req)
    BY <2>1, CreateStep
  <2>2. CASE \E u \in Updates : Update(u.tmplt, u.lines)
    BY <2>2, UpdateStep
  <2>3. CASE \E options \in Tunings : Tune(options)
    BY <2>3, TuneStepKeeps
  <2>4. CASE \E r \in Resizings : Resize(r[1], r[2])
    BY <2>4, ResizeStep
  <2>5. CASE Move
    BY <2>5, MoveStep
  <2>6. CASE Dump
    BY <2>6, DumpStep
  <2>7. CASE \E check \in Restores : Restore(check)
    BY <2>7, RestoreStep
  <2>8. CASE UNCHANGED vars
    BY <2>8 DEF vars, IInv
  <2> QED BY <2>1, <2>2, <2>3, <2>4, <2>5, <2>6, <2>7, <2>8 DEF Next
<1> QED BY <1>1, <1>2, PTL DEF Spec

\* Whatever the commands, the cursor of every archive stays inside it, the
\* archive has its rows and every data source its scratch areas
\* (RrdFile.TypeOK).
THEOREM FileTypeOK == Spec => []TypeOK
<1>1. IInv => TypeOK
  <2> SUFFICES ASSUME IInv, Holds PROVE TypeOK
    BY DEF TypeOK
  <2>1. Shape(Rrd) /\ HistoryOk(Rrd, past.file)
    BY DEF IInv, ContentOk, Holds, Absent, Rrd
  <2>2. PICK n \in Nat : n = Len(Rrd.ds)
    BY <2>1 DEF Shape, DefsOk, IsList
  <2>3. Dss(Rrd) = 1 .. n
    BY <2>2 DEF Dss
  <2>4. ASSUME NEW i \in Rras(Rrd)
        PROVE  /\ Rrd.cur[i] \in 0 .. Rrd.rra[i].rowCnt - 1
               /\ DOMAIN Rrd.data[i] = 0 .. Rrd.rra[i].rowCnt - 1
               /\ \A r \in DOMAIN Rrd.data[i] : Len(Rrd.data[i][r]) = n
               /\ Len(Rrd.cdp[i]) = n
               /\ past.file.kept[i] \in 1 .. Rrd.rra[i].rowCnt
    <3>1. /\ Rrd.cur[i] \in 0 .. Rrd.rra[i].rowCnt - 1
          /\ DOMAIN Rrd.data[i] = 0 .. Rrd.rra[i].rowCnt - 1
      BY <2>1 DEF Shape, RowsOk
    <3>2. ASSUME NEW r \in DOMAIN Rrd.data[i] PROVE Len(Rrd.data[i][r]) = n
      <4>1. Rrd.data[i][r] = [d \in 1 .. n |-> Rrd.data[i][r][d]]
        BY <2>1, <2>3 DEF Shape, RowsOk
      <4> QED BY <4>1
    <3>3. Len(Rrd.cdp[i]) = n
      <4>1. Rrd.cdp[i] = [d \in 1 .. n |-> Rrd.cdp[i][d]]
        BY <2>1, <2>3 DEF Shape, ScratchOk, CdpOk
      <4> QED BY <4>1
    <3>4. past.file.kept[i] \in 1 .. Rrd.rra[i].rowCnt
      BY <2>1 DEF HistoryOk
    <3> QED BY <3>1, <3>2, <3>3, <3>4
  <2>5. Len(Rrd.pdp) = n
    <3>1. Rrd.pdp = [d \in 1 .. n |-> Rrd.pdp[d]]
      BY <2>1, <2>3 DEF Shape, ScratchOk
    <3> QED BY <3>1
  <2> QED BY <2>2, <2>4, <2>5 DEF TypeOK
<1> QED BY <1>1, ShapeKept, PTL

\* A dump that is restored without a range check shows what the RRD showed,
\* with the rows of every archive in their order (RrdFile.RestoreIsFaithful).
THEOREM RestoreFaithful == Spec => []RestoreIsFaithful
<1>1. IInv => RestoreIsFaithful
  <2> SUFFICES ASSUME IInv, Holds PROVE RestoreIsFaithful
    BY DEF RestoreIsFaithful
  <2>1. Shape(Rrd) /\ file = Holding(Rrd)
    BY DEF IInv, ContentOk, Holds, Absent, Rrd
  <2>2. PICK check \in BOOLEAN : check = FALSE
    OBVIOUS
  <2>3. PICK p : p = rrd_restore(rrd_dump(Rrd), check)
    OBVIOUS
  <2>4. rrd_restore(rrd_dump(Rrd), FALSE) = p
    BY <2>2, <2>3, Zenon
  <2>5. /\ rrd_info_r(Holding(p)) =
             [rrd_info_r(Holding(Rrd)) EXCEPT
                !.rra = [i \in DOMAIN @ |-> [@[i] EXCEPT !.cur_row = 0]]]
        /\ \A i \in Rras(Rrd) : RowsOldestFirst(p, i) = RowsOldestFirst(Rrd, i)
    BY <2>1, <2>2, <2>3, RestoreShows
  <2> QED BY <2>1, <2>4, <2>5 DEF RestoreIsFaithful
<1> QED BY <1>1, ShapeKept, PTL

==============================================================================
