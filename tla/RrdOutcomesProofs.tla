-------------------------- MODULE RrdOutcomesProofs --------------------------
(* Proofs about what clients are told of their values: whatever the daemon   *)
(* does with a request and whenever it stops or crashes, the outcome that    *)
(* rrdtool notes for an update is what became of its values; and a FLUSH     *)
(* that is answered after it waited has its values in the file.              *)
EXTENDS RrdClientProofs

(* What was taken from a line, when the line ended like that: values from    *)
(* the front of it, and when all can be read, all of them or not all of them *)
(* as the answer says.                                                       *)
Readable(vals) == vals \in Seq(Nat) /\ vals # <<>>
Fitting(vals, line, is) ==
    /\ line.cmd = "UPDATE" /\ IsPrefix(vals, line.vals)
    /\ Readable(line.vals) => /\ is = "ok" => vals = line.vals
                              /\ is = "err" => vals # line.vals

(* Values are taken once from a line, and from each that was accepted; an    *)
(* answer is negative when its line failed.                                  *)
TakesOK(did, took) ==
    /\ IsSeq(took)
    /\ \A n \in 1 .. Len(took) : /\ took[n].of \in 1 .. Len(did)
                                 /\ Fitting(took[n].vals, did[took[n].of].line, did[took[n].of].is)
    /\ \A n, m \in 1 .. Len(took) : took[n].of = took[m].of => n = m
    /\ \A i \in 1 .. Len(did) : did[i].line.cmd = "UPDATE" /\ did[i].is = "ok" =>
          \E n \in 1 .. Len(took) : took[n].of = i
SignsOK(did, sent) == \A i \in Statuses(sent) : sent[i].n < 0 <=> did[sent[i].of].is = "err"
Told(k) == TakesOK(k.did, k.took) /\ SignsOK(k.did, k.sent)

(* What a step of the daemon, of its threads or a crash may do: lines are    *)
(* taken and answered one after the other, and no answer that the client has *)
(* read is taken back.                                                       *)
Unread(k, n) == \E i \in 1 .. Len(k.dn) : k.dn[i].kind = "status" /\ k.dn[i].of = n
Tells(k, m) ==
    /\ Told(m) /\ m.asked = k.asked /\ Len(k.did) <= Len(m.did)
    /\ \A i \in 1 .. Len(k.did) :
          m.did[i].is = k.did[i].is \/ k.did[i].is = "none" \/ Unread(k, i)
    /\ \A i \in 1 .. Len(m.dn) : m.dn[i].kind = "status" =>
          \/ Unread(k, m.dn[i].of)
          \/ m.dn[i].of = Len(m.did) /\ (Len(k.did) < Len(m.did) \/ k.wait # None)
    /\ m.wait # None => k.wait # None \/ Len(k.did) < Len(m.did)
    /\ k.st = "closed" => m.st = "closed" /\ m.did = k.did

(* The answers that were sent are about lines that were worked off.          *)
LEMMA AnsweredLines ==
    ASSUME NEW did, NEW sent, DidOK(did), AnswersOK(did, sent)
    PROVE  \A i \in Statuses(sent) : sent[i].of \in 1 .. Len(did) /\ did[sent[i].of].is # "none"
<1>1. DOMAIN did = 1 .. Len(did)
  BY SeqFacts DEF DidOK
<1>2. \A i \in Statuses(sent) : sent[i].of \in Owed(did)
  BY DEF AnswersOK
<1>3. \A n \in Owed(did) : n \in 1 .. Len(did) /\ did[n].is # "none"
  BY <1>1 DEF Owed
<1> QED BY <1>2, <1>3

(* What a sound connection has carried.                                      *)
LEMMA SoundFacts ==
    ASSUME NEW k, Sound(k)
    PROVE  /\ DidOK(k.did) /\ IsSeq(k.did) /\ Len(k.did) \in Nat /\ AnswersOK(k.did, k.sent)
           /\ IsSeq(k.sent) /\ IsSeq(k.dn) /\ k.sent \in Seq(Sentences) /\ k.dn \in Seq(Sentences)
           /\ Len(k.sent) \in Nat /\ Len(k.dn) \in Nat /\ ReadOK(k.sent, k.dn)
           /\ k.st = "open" => NoStatus(k.wbuf) /\ IsSeq(k.wbuf)
<1>1. Speech(k.did, k.sent, k.dn) /\ (k.st # "closed" => Mood(k.did, k.batch, k.cmds, k.wbuf))
  BY DEF Sound, Talk
<1>2. DidOK(k.did) /\ IsSeq(k.did) /\ AnswersOK(k.did, k.sent) /\ ReadOK(k.sent, k.dn)
      /\ k.sent \in Seq(Sentences) /\ k.dn \in Seq(Sentences)
  BY <1>1 DEF Speech, DidOK, FramesOK, ReadOK
<1>3. IsSeq(k.sent) /\ IsSeq(k.dn)
  BY <1>2 DEF IsSeq
<1>4. k.st = "open" => NoStatus(k.wbuf) /\ IsSeq(k.wbuf)
  BY <1>1 DEF Mood, NoStatus, IsSeq
<1> QED BY <1>2, <1>3, <1>4, SeqFacts

-----------------------------------------------------------------------------
(* A line is taken, perhaps answered at once, and perhaps values of it are.  *)
Longer(d, e, line, v) ==
    /\ IsSeq(e) /\ Len(e) = Len(d) + 1 /\ \A i \in 1 .. Len(d) : e[i] = d[i]
    /\ e[Len(d) + 1].line = line /\ e[Len(d) + 1].is = v
Untold(k, m) == m.sent = k.sent /\ m.dn = k.dn
Signed(a, n, v) == Answer(a, n) /\ (a[1].n < 0 <=> v = "err")
TakesNone(k, m, line, v) == m.took = k.took /\ (v = "ok" => line.cmd # "UPDATE")
TakesSome(k, m, line, v) ==
    \E vals : m.took = Append(k.took, [of |-> Len(k.did) + 1, vals |-> vals]) /\ Fitting(vals, line, v)

(* Nothing is taken from a line that fails or is no UPDATE.                  *)
LEMMA NoneTaken ==
    ASSUME NEW d, IsSeq(d), NEW e, NEW line, NEW v, Longer(d, e, line, v), NEW took, TakesOK(d, took),
           v = "ok" => line.cmd # "UPDATE"
    PROVE  TakesOK(e, took)
<1>1. Len(d) \in Nat /\ Len(e) = Len(d) + 1 /\ \A i \in 1 .. Len(d) : e[i] = d[i] /\ i \in 1 .. Len(e)
  BY SeqFacts DEF Longer
<1>2. \A n \in 1 .. Len(took) : took[n].of \in 1 .. Len(e) /\ e[took[n].of] = d[took[n].of]
  BY <1>1 DEF TakesOK
<1>3. ASSUME NEW i \in 1 .. Len(e), e[i].line.cmd = "UPDATE", e[i].is = "ok"
      PROVE  \E n \in 1 .. Len(took) : took[n].of = i
  <2>1. i # Len(d) + 1
    BY <1>3 DEF Longer
  <2>2. i \in 1 .. Len(d)
    BY <1>1, <2>1
  <2> QED BY <1>1, <1>3, <2>2 DEF TakesOK
<1> QED BY <1>2, <1>3 DEF TakesOK

(* Values are taken from a line that is an UPDATE.                           *)
LEMMA SomeTaken ==
    ASSUME NEW d, IsSeq(d), NEW e, NEW line, NEW v, Longer(d, e, line, v), NEW took, TakesOK(d, took),
           NEW vals, Fitting(vals, line, v)
    PROVE  TakesOK(e, Append(took, [of |-> Len(d) + 1, vals |-> vals]))
<1> DEFINE x == [of |-> Len(d) + 1, vals |-> vals]
           more == Append(took, x)
           l == Len(took)
<1>1. Len(d) \in Nat /\ Len(e) = Len(d) + 1 /\ \A i \in 1 .. Len(d) : e[i] = d[i] /\ i \in 1 .. Len(e)
  BY SeqFacts DEF Longer
<1>2. x.of = Len(d) + 1 /\ x.vals = vals
  OBVIOUS
<1>3. l \in Nat /\ IsSeq(took)
  BY SeqFacts DEF TakesOK
<1> HIDE DEF x
<1>4. /\ IsSeq(more) /\ Len(more) = l + 1 /\ more[l + 1] = x
      /\ \A n \in 1 .. l : more[n] = took[n]
  BY <1>3, AppendFacts
<1> HIDE DEF more
<1>5. ASSUME NEW n \in 1 .. l + 1
      PROVE  /\ more[n].of \in 1 .. Len(e)
             /\ Fitting(more[n].vals, e[more[n].of].line, e[more[n].of].is)
             /\ n = l + 1 <=> more[n].of = Len(d) + 1
  <2>1. CASE n = l + 1
    <3>1. more[n].of = Len(d) + 1 /\ more[n].vals = vals
      BY <1>2, <1>4, <2>1
    <3>2. e[Len(d) + 1].line = line /\ e[Len(d) + 1].is = v
      BY DEF Longer
    <3> QED BY <1>1, <2>1, <3>1, <3>2
  <2>2. CASE n # l + 1
    <3>1. n \in 1 .. l
      BY <1>3, <2>2
    <3>2. more[n] = took[n] /\ took[n].of \in 1 .. Len(d)
      BY <1>4, <3>1 DEF TakesOK
    <3>3. e[more[n].of] = d[took[n].of] /\ Fitting(took[n].vals, d[took[n].of].line, d[took[n].of].is)
      BY <1>1, <3>1, <3>2 DEF TakesOK
    <3>4. more[n].of \in 1 .. Len(e) /\ more[n].of # Len(d) + 1
      BY <1>1, <3>2
    <3> QED BY <2>2, <3>2, <3>3, <3>4
  <2> QED BY <2>1, <2>2
<1>6. ASSUME NEW n \in 1 .. l + 1, NEW m \in 1 .. l + 1, more[n].of = more[m].of PROVE n = m
  <2>1. CASE more[n].of = Len(d) + 1
    BY <1>5, <1>6, <2>1
  <2>2. CASE more[n].of # Len(d) + 1
    <3>1. n \in 1 .. l /\ m \in 1 .. l
      <4>1. n # l + 1 /\ m # l + 1
        BY <1>5, <1>6, <2>2
      <4> QED BY <1>3, <4>1
    <3>2. took[n].of = took[m].of
      BY <1>4, <1>6, <3>1
    <3> QED BY <3>1, <3>2 DEF TakesOK
  <2> QED BY <2>1, <2>2
<1>7. ASSUME NEW i \in 1 .. Len(e), e[i].line.cmd = "UPDATE", e[i].is = "ok"
      PROVE  \E n \in 1 .. l + 1 : more[n].of = i
  <2>1. CASE i = Len(d) + 1
    <3>1. l + 1 \in 1 .. l + 1
      BY <1>3
    <3> QED BY <1>2, <1>4, <2>1, <3>1
  <2>2. CASE i # Len(d) + 1
    <3>1. i \in 1 .. Len(d)
      BY <1>1, <2>2
    <3>2. PICK n \in 1 .. l : took[n].of = i
      BY <1>1, <1>7, <3>1 DEF TakesOK
    <3>3. n \in 1 .. l + 1 /\ more[n] = took[n]
      BY <1>3, <1>4
    <3> QED BY <3>2, <3>3
  <2> QED BY <2>1, <2>2
<1>8. TakesOK(e, more)
  BY <1>4, <1>5, <1>6, <1>7 DEF TakesOK
<1> QED BY <1>8 DEF more, x

(* The answers that were sent keep their signs when no line that has one     *)
(* changes.                                                                  *)
LEMMA SignsStay ==
    ASSUME NEW d, NEW sent, DidOK(d), AnswersOK(d, sent), SignsOK(d, sent), NEW e,
           \A i \in 1 .. Len(d) : d[i].is # "none" => e[i].is = d[i].is
    PROVE  SignsOK(e, sent)
<1>1. ASSUME NEW i \in Statuses(sent) PROVE sent[i].n < 0 <=> e[sent[i].of].is = "err"
  <2>1. sent[i].of \in 1 .. Len(d) /\ d[sent[i].of].is # "none"
    BY AnsweredLines
  <2>2. e[sent[i].of].is = d[sent[i].of].is
    BY <2>1
  <2> QED BY <2>2 DEF SignsOK
<1> QED BY <1>1 DEF SignsOK

(* And so when the line n gets its answer.                                   *)
LEMMA SignsAnswered ==
    ASSUME NEW d, NEW sent, sent \in Seq(Sentences), DidOK(d), AnswersOK(d, sent), SignsOK(d, sent), NEW e,
           \A i \in 1 .. Len(d) : d[i].is # "none" => e[i].is = d[i].is,
           NEW n, NEW v, e[n].is = v, NEW a, Signed(a, n, v)
    PROVE  SignsOK(e, sent \o a)
<1> DEFINE s == sent \o a
           l == Len(sent)
<1>1. IsSeq(sent) /\ IsSeq(a) /\ a # <<>> /\ a[1].of = n /\ a[1].kind = "status"
      /\ \A i \in 2 .. Len(a) : a[i].kind # "status"
  BY DEF IsSeq, Signed, Answer
<1>2. /\ IsSeq(s) /\ Len(s) = l + Len(a) /\ (\A i \in 1 .. l : s[i] = sent[i])
      /\ \A i \in 1 .. Len(a) : s[l + i] = a[i]
  BY <1>1, ConcatFacts
<1>3. l \in Nat /\ Len(a) \in Nat /\ DOMAIN s = 1 .. Len(s) /\ DOMAIN sent = 1 .. l
  BY <1>1, <1>2, SeqFacts
<1> HIDE DEF s
<1>4. SignsOK(e, sent)
  BY SignsStay
<1>5. ASSUME NEW i \in Statuses(s) PROVE s[i].n < 0 <=> e[s[i].of].is = "err"
  <2>1. i \in 1 .. l + Len(a) /\ s[i].kind = "status"
    BY <1>2, <1>3 DEF Statuses
  <2>2. CASE i \in 1 .. l
    <3>1. s[i] = sent[i] /\ i \in Statuses(sent)
      BY <1>2, <1>3, <2>1, <2>2 DEF Statuses
    <3> QED BY <1>4, <3>1 DEF SignsOK
  <2>3. CASE i \notin 1 .. l
    <3>1. i - l \in 1 .. Len(a) /\ i = l + (i - l)
      BY <1>3, <2>1, <2>3
    <3>2. s[i] = a[i - l]
      BY <1>2, <3>1
    <3>3. i - l = 1
      BY <1>1, <1>3, <2>1, <3>1, <3>2
    <3> QED BY <1>1, <3>2, <3>3 DEF Signed
  <2> QED BY <2>2, <2>3
<1>6. SignsOK(e, s)
  BY <1>5 DEF SignsOK
<1> QED BY <1>6 DEF s

(* Answers to the line n, or that the client has not read.                   *)
NewFor(k, s, n) == \A i \in 1 .. Len(s) : s[i].kind = "status" => Unread(k, s[i].of) \/ s[i].of = n
(* The client has not read an answer that was just sent.                     *)
LEMMA NewlyUnread ==
    ASSUME NEW k, IsSeq(k.dn), NEW a, NEW n, NEW v, Signed(a, n, v), NEW s, s = k.dn \o a
    PROVE  NewFor(k, s, n)
<1> DEFINE l == Len(k.dn)
<1>1. IsSeq(a) /\ a[1].of = n /\ \A i \in 2 .. Len(a) : a[i].kind # "status"
  BY DEF IsSeq, Signed, Answer
<1>2. /\ Len(s) = l + Len(a) /\ (\A i \in 1 .. l : s[i] = k.dn[i])
      /\ \A i \in 1 .. Len(a) : s[l + i] = a[i]
  BY <1>1, ConcatFacts
<1>3. l \in Nat /\ Len(a) \in Nat
  BY <1>1, SeqFacts
<1> SUFFICES ASSUME NEW i \in 1 .. Len(s), s[i].kind = "status" PROVE Unread(k, s[i].of) \/ s[i].of = n
  BY DEF NewFor
<1>4. CASE i \in 1 .. l
  BY <1>2, <1>4 DEF Unread
<1>5. CASE i \notin 1 .. l
  <2>1. i - l \in 1 .. Len(a) /\ i = l + (i - l)
    BY <1>2, <1>3, <1>5
  <2>2. s[i] = a[i - l]
    BY <1>2, <2>1
  <2>3. i - l = 1
    BY <1>1, <1>3, <2>1, <2>2
  <2> QED BY <1>1, <2>2, <2>3
<1> QED BY <1>4, <1>5

-----------------------------------------------------------------------------
(* What a step does to a connection: nothing that concerns its lines;        *)
Stays(k, m) ==
    /\ m.did = k.did /\ m.sent = k.sent /\ m.dn = k.dn /\ m.took = k.took /\ m.asked = k.asked
    /\ m.wait \in {k.wait, None} /\ (k.st = "closed" => m.st = "closed")
(* that is no news;                                                          *)
LEMMA StaysTells == ASSUME NEW k, Sound(k), Told(k), NEW m, Stays(k, m) PROVE Tells(k, m)
<1>1. Len(k.did) \in Nat
  BY SoundFacts
<1> QED BY <1>1 DEF Tells, Stays, Told, Unread

(* it takes a line, and answers it or not;                                   *)
TakesALine(k, m) ==
    /\ k.st = "open" /\ m.asked = k.asked
    /\ \E v : /\ Longer(k.did, m.did, TheLine(k), v)
              /\ Untold(k, m) \/ \E a : /\ Signed(a, Len(k.did) + 1, v)
                                       /\ m.sent = k.sent \o a /\ m.dn = k.dn \o a
              /\ TakesNone(k, m, TheLine(k), v) \/ TakesSome(k, m, TheLine(k), v)
(* the next line comes behind those taken, and its answer is not read yet;   *)
LEMMA TakingTells == ASSUME NEW k, Sound(k), Told(k), NEW m, TakesALine(k, m) PROVE Tells(k, m)
<1>1. PICK v : /\ Longer(k.did, m.did, TheLine(k), v)
               /\ Untold(k, m) \/ \E a : /\ Signed(a, Len(k.did) + 1, v)
                                        /\ m.sent = k.sent \o a /\ m.dn = k.dn \o a
               /\ TakesNone(k, m, TheLine(k), v) \/ TakesSome(k, m, TheLine(k), v)
  BY DEF TakesALine
<1>2. /\ Len(k.did) \in Nat /\ IsSeq(k.did) /\ DidOK(k.did) /\ AnswersOK(k.did, k.sent)
      /\ IsSeq(k.dn) /\ k.sent \in Seq(Sentences) /\ TakesOK(k.did, k.took) /\ SignsOK(k.did, k.sent)
  BY SoundFacts DEF Told
<1>3. /\ Len(m.did) = Len(k.did) + 1 /\ \A i \in 1 .. Len(k.did) : m.did[i] = k.did[i]
      /\ m.did[Len(k.did) + 1].is = v
  BY <1>1 DEF Longer
<1>4. TakesOK(m.did, m.took)
  <2>0. PICK line : line = TheLine(k)
    OBVIOUS
  <2>1. CASE TakesNone(k, m, line, v)
    <3>1. TakesOK(m.did, k.took)
      BY <1>1, <1>2, <2>0, <2>1, NoneTaken DEF TakesNone
    <3> QED BY <2>1, <3>1 DEF TakesNone
  <2>2. CASE TakesSome(k, m, line, v)
    <3>1. PICK vals : m.took = Append(k.took, [of |-> Len(k.did) + 1, vals |-> vals]) /\ Fitting(vals, line, v)
      BY <2>2 DEF TakesSome
    <3>2. TakesOK(m.did, Append(k.took, [of |-> Len(k.did) + 1, vals |-> vals]))
      BY <1>1, <1>2, <2>0, <3>1, SomeTaken
    <3> QED BY <3>1, <3>2
  <2> QED BY <1>1, <2>0, <2>1, <2>2
<1>5. /\ SignsOK(m.did, m.sent)
      /\ \A i \in 1 .. Len(m.dn) : m.dn[i].kind = "status" => Unread(k, m.dn[i].of) \/ m.dn[i].of = Len(m.did)
  <2>1. CASE Untold(k, m)
    <3>1. SignsOK(m.did, m.sent)
      BY <1>2, <1>3, <2>1, SignsStay DEF Untold
    <3> QED BY <2>1, <3>1 DEF Untold, Unread
  <2>2. ASSUME NEW a, Signed(a, Len(k.did) + 1, v), m.sent = k.sent \o a, m.dn = k.dn \o a
        PROVE  /\ SignsOK(m.did, m.sent)
               /\ \A i \in 1 .. Len(m.dn) : m.dn[i].kind = "status" =>
                                             Unread(k, m.dn[i].of) \/ m.dn[i].of = Len(m.did)
    <3>1. SignsOK(m.did, k.sent \o a)
      <4>1. PICK n : n = Len(k.did) + 1
        OBVIOUS
      <4> QED BY <1>2, <1>3, <2>2, <4>1, SignsAnswered
    <3>2. \A i \in 1 .. Len(m.dn) : m.dn[i].kind = "status" => Unread(k, m.dn[i].of) \/ m.dn[i].of = Len(m.did)
      <4>1. PICK n : n = Len(k.did) + 1
        OBVIOUS
      <4>2. Signed(a, n, v) /\ IsSeq(k.dn) /\ n = Len(m.did)
        BY <1>2, <1>3, <2>2, <4>1
      <4>3. PICK s : s = m.dn
        OBVIOUS
      <4>4. s = k.dn \o a
        BY <2>2, <4>3
      <4>5. NewFor(k, s, n)
        BY <4>2, <4>4, NewlyUnread
      <4> QED BY <4>2, <4>3, <4>5 DEF NewFor
    <3> QED BY <2>2, <3>1, <3>2
  <2> QED BY <1>1, <2>1, <2>2
<1>6. m.asked = k.asked /\ k.st = "open" /\ Len(k.did) < Len(m.did)
  BY <1>2, <1>3 DEF TakesALine
<1> QED BY <1>2, <1>3, <1>4, <1>5, <1>6 DEF Tells, Told

(* what becomes of its last line, which is an UPDATE only when that is       *)
(* unsettled, changes;                                                       *)
LEMMA TakesStay ==
    ASSUME NEW d, DidOK(d), BatchesOK(d), NEW e, NEW v, Settles(d, e, v), NEW took, TakesOK(d, took),
           v = "none" \/ d[Len(d)].line.cmd # "UPDATE"
    PROVE  TakesOK(e, took)
<1> DEFINE n == Len(d)
<1>1. /\ n \in Nat \ {0} /\ Len(e) = n /\ e[n].is = v /\ e[n].line = d[n].line
      /\ \A i \in 1 .. n : i # n => e[i] = d[i]
  <2>1. SameBefore(d, e, n) /\ n \in Nat \ {0} /\ Len(e) = n /\ e[n].is = v /\ e[n].line = d[n].line
    BY Settling
  <2>2. \A i \in 1 .. n : i # n => i \in 1 .. n - 1
    BY <2>1
  <2>3. IsSeq(d) /\ DOMAIN d = 1 .. n
    BY SeqFacts DEF DidOK
  <2>4. \A i \in 1 .. n : i # n => e[i] = d[i]
    BY <2>3 DEF Settles
  <2> QED BY <2>1, <2>4
<1> HIDE DEF n
<1>2. v = "none" \/ d[n].line.cmd # "UPDATE"
  BY DEF n
<1>3. ASSUME NEW i \in 1 .. Len(took)
      PROVE  /\ took[i].of \in 1 .. n
             /\ Fitting(took[i].vals, e[took[i].of].line, e[took[i].of].is)
  <2>1. took[i].of \in 1 .. n /\ Fitting(took[i].vals, d[took[i].of].line, d[took[i].of].is)
    BY DEF TakesOK, n
  <2>2. CASE took[i].of # n
    BY <1>1, <2>1, <2>2
  <2>3. CASE took[i].of = n
    BY <1>1, <1>2, <2>1, <2>3 DEF Fitting
  <2> QED BY <2>1, <2>2, <2>3
<1>4. ASSUME NEW i \in 1 .. n, e[i].line.cmd = "UPDATE", e[i].is = "ok"
      PROVE  \E j \in 1 .. Len(took) : took[j].of = i
  <2>1. i # n
    BY <1>1, <1>2, <1>4
  <2>2. d[i].line.cmd = "UPDATE" /\ d[i].is = "ok"
    BY <1>1, <1>4, <2>1
  <2> QED BY <2>2 DEF TakesOK, n
<1> QED BY <1>1, <1>3, <1>4 DEF TakesOK

(* FLUSH is answered when its thread is woken,                               *)
Returns(k, m) ==
    /\ k.wait # None /\ m.asked = k.asked /\ m.took = k.took
    /\ m.did = [k.did EXCEPT ![Len(k.did)].is = "ok"]
    /\ Untold(k, m) \/ \E a : /\ Signed(a, Len(k.did), "ok")
                              /\ m.sent = k.sent \o a /\ m.dn = k.dn \o a
(* and only now is there an answer to it.                                    *)
LEMMA ReturnTells ==
    ASSUME NEW k, Sound(k), Told(k), NEW m, Returns(k, m), m.wait = None PROVE Tells(k, m)
<1> DEFINE d == k.did
           e == m.did
           n == Len(d)
<1>1. /\ k.st = "open" /\ n # 0 /\ d[n].is = "none" /\ d[n].line.cmd = "FLUSH" /\ DidOK(d) /\ BatchesOK(d)
  BY DEF Returns, Sound, Talk, Waiting, Speech
<1>2. /\ n \in Nat /\ IsSeq(d) /\ AnswersOK(d, k.sent) /\ DOMAIN d = 1 .. n
      /\ IsSeq(k.dn) /\ k.sent \in Seq(Sentences) /\ TakesOK(d, k.took) /\ SignsOK(d, k.sent)
  BY SoundFacts, SeqFacts DEF Told
<1>3. e = [d EXCEPT ![n].is = "ok"]
  BY DEF Returns
<1>4. e[n].line = d[n].line /\ e[n].is = "ok" /\ \A i \in 1 .. n : i # n => e[i] = d[i]
  <2>1. DOMAIN d[n] = {"line", "is"}
    BY <1>1, <1>2 DEF DidOK
  <2>2. n \in DOMAIN d
    BY <1>1, <1>2
  <2> HIDE DEF d, e, n
  <2>3. e[n] = [d[n] EXCEPT !.is = "ok"]
    BY <1>3, <2>2
  <2> QED BY <1>2, <1>3, <2>1, <2>3
<1>5. Settles(d, e, "ok")
  <2>1. ~Opens(e, n) /\ ~Ends(e, n)
    BY <1>1, <1>4 DEF Opens, Ends
  <2> QED BY <1>1, <1>3, <2>1 DEF Settles
<1>6. TakesOK(e, k.took) /\ Len(e) = n
  <2>1. PICK v : v = "ok"
    OBVIOUS
  <2>2. Settles(d, e, v) /\ DidOK(d) /\ BatchesOK(d) /\ d[Len(d)].line.cmd # "UPDATE" /\ TakesOK(d, k.took)
    BY <1>1, <1>2, <1>5, <2>1
  <2> HIDE DEF d, e
  <2>3. TakesOK(e, k.took)
    BY <2>2, TakesStay
  <2>4. Len(e) = n
    BY <2>2, Settling DEF n
  <2> QED BY <2>3, <2>4
<1>7. \A i \in 1 .. n : d[i].is # "none" => e[i].is = d[i].is
  BY <1>1, <1>4
<1> HIDE DEF d, e, n
<1>8. /\ SignsOK(e, m.sent)
      /\ \A i \in 1 .. Len(m.dn) : m.dn[i].kind = "status" => Unread(k, m.dn[i].of) \/ m.dn[i].of = n
  <2>0. DidOK(d) /\ AnswersOK(d, k.sent) /\ SignsOK(d, k.sent) /\ k.sent \in Seq(Sentences)
        /\ \A i \in 1 .. Len(d) : d[i].is # "none" => e[i].is = d[i].is
    BY <1>1, <1>2, <1>7 DEF n
  <2>1. CASE Untold(k, m)
    <3>1. SignsOK(e, k.sent)
      BY <2>0, SignsStay
    <3> QED BY <2>1, <3>1 DEF Untold, Unread
  <2>2. ASSUME NEW a, Signed(a, n, "ok"), m.sent = k.sent \o a, m.dn = k.dn \o a
        PROVE  /\ SignsOK(e, m.sent)
               /\ \A i \in 1 .. Len(m.dn) : m.dn[i].kind = "status" => Unread(k, m.dn[i].of) \/ m.dn[i].of = n
    <3>1. SignsOK(e, k.sent \o a)
      <4>1. PICK v : v = "ok"
        OBVIOUS
      <4> QED BY <1>4, <2>0, <2>2, <4>1, SignsAnswered
    <3>2. \A i \in 1 .. Len(m.dn) : m.dn[i].kind = "status" => Unread(k, m.dn[i].of) \/ m.dn[i].of = n
      <4>1. PICK v : v = "ok"
        OBVIOUS
      <4>2. Signed(a, n, v)
        BY <2>2, <4>1
      <4>3. PICK s : s = m.dn
        OBVIOUS
      <4>4. s = k.dn \o a
        BY <2>2, <4>3
      <4>5. NewFor(k, s, n)
        BY <1>2, <4>2, <4>4, NewlyUnread
      <4> QED BY <4>3, <4>5 DEF NewFor
    <3> QED BY <2>2, <3>1, <3>2
  <2> QED BY <2>1, <2>2 DEF Returns, n, d
<1>9. \A i \in 1 .. n : e[i].is = d[i].is \/ d[i].is = "none"
  BY <1>7
<1> QED BY <1>1, <1>2, <1>6, <1>8, <1>9 DEF Tells, Told, Returns, d, e, n

(* and a crash may come before its last answer is sent.                      *)
LEMMA CutTells == ASSUME NEW k, Sound(k), Told(k) PROVE Tells(k, Reset(Unsent(k)))
<1> DEFINE says(x) == k.dn[x].of = Len(k.did) /\ k.dn[x].kind = "status"
<1>1. ASSUME Unsent(k) = k PROVE Tells(k, Reset(Unsent(k)))
  <2>1. Stays(k, Reset(k))
    BY DEF Stays, Reset, Sound, Fields
  <2> QED BY <1>1, <2>1, StaysTells
<1>2. CASE ~(k.st = "open" /\ \E x \in DOMAIN k.dn : says(x))
  BY <1>1, <1>2 DEF Unsent
<1>3. CASE k.st = "open" /\ \E x \in DOMAIN k.dn : says(x)
  <2> DEFINE x == LastAnswer(k)
             d == k.did
             n == Len(d)
             e == [d EXCEPT ![n].is = "none"]
             p == Len(k.sent) - (Len(k.dn) - x + 1)
             t == SubSeq(k.sent, 1, p)
             w == SubSeq(k.dn, 1, x - 1)
             h == Unsent(k)
             m == Reset(h)
  <2>1. x \in DOMAIN k.dn /\ says(x)
    BY <1>3 DEF LastAnswer
  <2>2. /\ DidOK(d) /\ BatchesOK(d) /\ Speech(d, k.sent, k.dn) /\ DOMAIN k.dn = 1 .. Len(k.dn) /\ IsSeq(k.dn)
        /\ IsSeq(k.sent) /\ AnswersOK(d, k.sent) /\ TakesOK(d, k.took) /\ SignsOK(d, k.sent)
        /\ Len(k.dn) \in Nat /\ Len(k.sent) \in Nat /\ Len(k.dn) <= Len(k.sent) /\ DOMAIN d = 1 .. n /\ IsSeq(d)
        /\ \A i \in 1 .. Len(k.dn) : k.dn[i] = k.sent[Len(k.sent) - Len(k.dn) + i]
    BY SoundFacts, SeqFacts DEF Told, Sound, Talk, Speech, ReadOK
  <2> HIDE DEF x
  <2>3. x \in 1 .. Len(k.dn) /\ p \in 0 .. Len(k.sent)
    BY <2>1, <2>2
  <2>4. h = [k EXCEPT !.dn = w, !.sent = t, !.did = e]
    BY <1>3 DEF Unsent, x
  <2> HIDE DEF e, t, w, h
  <2>5. /\ m.did = e /\ m.sent = t /\ m.dn = w /\ m.took = k.took /\ m.asked = k.asked /\ m.wait = None
    <3>1. /\ h.st = "open" /\ h.did = e /\ h.sent = t /\ h.dn = w /\ h.took = k.took /\ h.asked = k.asked
          /\ DOMAIN h = Fields
      BY <1>3, <2>4 DEF Sound, Fields
    <3> QED BY <3>1 DEF Reset, Fields
  <2>6. Speech(e, t, w)
    BY <2>1, <2>2, <2>3, SpeechUnsent DEF e, t, w, p, says
  <2> HIDE DEF p
  <2>7. n \in 1 .. Len(d) /\ Unread(k, n)
    <3>1. Unread(k, n)
      BY <2>1, <2>3 DEF Unread
    <3>2. x \in 1 .. Len(k.dn) /\ Len(k.sent) - Len(k.dn) + x \in 1 .. Len(k.sent)
      <4>1. PICK a, b \in Nat : a = Len(k.dn) /\ b = Len(k.sent)
        BY <2>2
      <4>2. x \in 1 .. a /\ a <= b
        BY <2>2, <2>3, <4>1
      <4>3. b - a + x \in 1 .. b
        BY <4>2
      <4> QED BY <4>1, <4>2, <4>3
    <3>3. Len(k.sent) - Len(k.dn) + x \in Statuses(k.sent) /\ k.sent[Len(k.sent) - Len(k.dn) + x].of = n
      <4>1. k.sent[Len(k.sent) - Len(k.dn) + x] = k.dn[x]
        BY <2>2, <2>3
      <4>2. DOMAIN k.sent = 1 .. Len(k.sent)
        BY <2>2, SeqFacts
      <4> QED BY <2>1, <3>2, <4>1, <4>2 DEF Statuses
    <3>4. n \in 1 .. Len(d)
      <4> HIDE DEF n
      <4> QED BY <2>2, <3>3, AnsweredLines
    <3> QED BY <3>1, <3>4
  <2>8. /\ e[n].is = "none" /\ Len(e) = n /\ \A i \in 1 .. n : i # n => e[i] = d[i]
    <3>1. e[n].is = "none" /\ n # 0
      BY <2>2, <2>7 DEF e, DidOK
    <3>2. ~Opens(e, n) /\ ~Ends(e, n)
      BY <3>1 DEF Opens, Ends
    <3>3. Settles(d, e, "none")
      BY <3>1, <3>2 DEF Settles, e
    <3>4. Len(e) = n
      BY <2>2, <3>3, Settling
    <3> QED BY <2>2, <3>1, <3>4 DEF e
  <2>9. TakesOK(e, k.took)
    <3>1. PICK v : v = "none"
      OBVIOUS
    <3>2. ~Opens(e, n) /\ ~Ends(e, n) /\ n # 0
      BY <2>2, <2>7, <2>8 DEF Opens, Ends
    <3>3. Settles(d, e, v)
      BY <3>1, <3>2 DEF Settles, e
    <3> HIDE DEF d
    <3> QED BY <2>2, <3>1, <3>3, TakesStay
  <2>10. SignsOK(e, t)
    <3>1. /\ DidOK(e) /\ AnswersOK(e, t)
      BY <2>6 DEF Speech
    <3>2. IsSeq(t) /\ Len(t) = p /\ \A i \in 1 .. p : t[i] = k.sent[i]
      <4>1. PICK z \in Nat \ {0} : z = 1
        OBVIOUS
      <4>2. p - z + 1 = p /\ z <= p + 1 /\ p \in Nat /\ p <= Len(k.sent) /\ \A i \in 1 .. p : z + i - 1 = i
        BY <2>2, <2>3, <4>1
      <4>3. /\ IsSeq(SubSeq(k.sent, z, p)) /\ Len(SubSeq(k.sent, z, p)) = p - z + 1
            /\ \A i \in 1 .. p - z + 1 : SubSeq(k.sent, z, p)[i] = k.sent[z + i - 1]
        BY <2>2, <4>2, SubFacts
      <4> QED BY <4>1, <4>2, <4>3 DEF t
    <3>3. DOMAIN t = 1 .. p /\ DOMAIN k.sent = 1 .. Len(k.sent)
      BY <2>2, <3>2, SeqFacts
    <3>4. ASSUME NEW i \in Statuses(t) PROVE t[i].n < 0 <=> e[t[i].of].is = "err"
      <4>1. t[i].of \in 1 .. n /\ e[t[i].of].is # "none"
        BY <2>8, <3>1, AnsweredLines
      <4>2. e[t[i].of] = d[t[i].of]
        BY <2>8, <4>1
      <4>3. i \in 1 .. p /\ t[i] = k.sent[i] /\ t[i].kind = "status"
        BY <3>2, <3>3 DEF Statuses
      <4>4. i \in Statuses(k.sent)
        BY <2>2, <2>3, <3>3, <4>3 DEF Statuses
      <4> QED BY <2>2, <4>2, <4>3, <4>4 DEF SignsOK
    <3> QED BY <3>4 DEF SignsOK
  <2>11. \A i \in 1 .. n : e[i].is = d[i].is \/ Unread(k, i)
    BY <2>7, <2>8
  <2>12. \A i \in 1 .. Len(w) : w[i].kind = "status" => Unread(k, w[i].of)
    <3>1. x - 1 \in Nat /\ x - 1 <= Len(k.dn)
      BY <2>2, <2>3
    <3>2. Len(w) = x - 1 /\ \A i \in 1 .. x - 1 : w[i] = k.dn[i]
      <4>1. PICK z \in Nat \ {0} : z = 1
        OBVIOUS
      <4>2. x - 1 - z + 1 = x - 1 /\ z <= x - 1 + 1 /\ \A i \in 1 .. x - 1 : z + i - 1 = i
        BY <2>3, <3>1, <4>1
      <4>3. /\ Len(SubSeq(k.dn, z, x - 1)) = x - 1 - z + 1
            /\ \A i \in 1 .. x - 1 - z + 1 : SubSeq(k.dn, z, x - 1)[i] = k.dn[z + i - 1]
        BY <2>2, <3>1, <4>2, SubFacts
      <4> QED BY <4>1, <4>2, <4>3 DEF w
    <3>3. \A i \in 1 .. x - 1 : i \in 1 .. Len(k.dn)
      BY <2>2, <3>1
    <3> QED BY <3>2, <3>3 DEF Unread
  <2>13. Len(d) <= Len(e)
    BY <2>7, <2>8
  <2> HIDE DEF d, m, n
  <2>14. k.st # "closed"
    BY <1>3
  <2>15. Told(m)
    BY <2>5, <2>9, <2>10 DEF Told
  <2> QED BY <2>5, <2>11, <2>12, <2>13, <2>14, <2>15 DEF Tells, d, n, h, m
<1> QED BY <1>2, <1>3

-----------------------------------------------------------------------------
(* A line is taken, and what becomes of it is noted.                         *)
LEMMA TookLonger ==
    ASSUME NEW k, IsSeq(k.did), NEW v
    PROVE  /\ Longer(k.did, Took(k), TheLine(k), "none")
           /\ Longer(k.did, [Took(k) EXCEPT ![Len(Took(k))].is = v], TheLine(k), v)
           /\ Len(Took(k)) = Len(k.did) + 1
<1> DEFINE d == k.did
           x == [line |-> TheLine(k), is |-> "none"]
           t == Took(k)
           n == Len(d) + 1
           e == [t EXCEPT ![n].is = v]
<1>1. t = Append(d, x) /\ x.line = TheLine(k) /\ x.is = "none" /\ DOMAIN x = {"line", "is"}
  BY DEF Took
<1> HIDE DEF x, t, n
<1>2. /\ IsSeq(t) /\ Len(t) = n /\ t[n] = x /\ \A i \in 1 .. Len(d) : t[i] = d[i]
  BY <1>1, AppendFacts DEF n
<1>3. Len(d) \in Nat /\ n \in 1 .. n /\ DOMAIN t = 1 .. n /\ \A i \in 1 .. Len(d) : i # n
  BY <1>2, SeqFacts DEF n
<1>4. Longer(d, t, TheLine(k), "none")
  BY <1>1, <1>2 DEF Longer, n
<1>5. /\ IsSeq(e) /\ Len(e) = n
      /\ e[n] = [x EXCEPT !.is = v] /\ \A i \in 1 .. Len(d) : e[i] = t[i]
  <2>1. PICK S : t \in Seq(S)
    BY <1>2 DEF IsSeq
  <2> DEFINE y == [x EXCEPT !.is = v]
  <2>2. e = [t EXCEPT ![n] = y]
    BY <1>2
  <2> HIDE DEF y
  <2>3. e \in Seq(S \union {y}) /\ Len(e) = n /\ e[n] = y /\ \A i \in 1 .. Len(d) : e[i] = t[i]
    BY <1>2, <1>3, <2>1, <2>2
  <2> QED BY <2>3 DEF IsSeq, y
<1>6. e[n].line = TheLine(k) /\ e[n].is = v
  BY <1>1, <1>5
<1> HIDE DEF e
<1>7. Longer(d, e, TheLine(k), v)
  BY <1>2, <1>5, <1>6 DEF Longer, n
<1> QED BY <1>2, <1>4, <1>7 DEF t, e, n, d

(* An answer leaves alone what was taken and what was asked.                 *)
LEMMA ReplyLeaves ==
    ASSUME NEW k, DOMAIN k = Fields, NEW ok \in BOOLEAN, NEW info, NEW m \in send_response(k, ok, info)
    PROVE  m.took = k.took /\ m.asked = k.asked
<1>1. CASE m = Closed(k)
  BY <1>1 DEF Closed, Fields
<1>2. CASE m # Closed(k)
  <2> DEFINE h == Answered(k, ok, info)
  <2>1. DOMAIN h = Fields /\ h.took = k.took /\ h.asked = k.asked
    BY DEF Answered, Fields
  <2> HIDE DEF h
  <2>2. m = [h EXCEPT !.did = [h.did EXCEPT ![Len(h.did)].is = MarkOf(ok)]]
    <3>1. m = Marked(h, ok)
      BY <1>2 DEF h, send_response
    <3> QED BY <3>1 DEF Marked, MarkOf
  <2> QED BY <2>1, <2>2 DEF Fields
<1> QED BY <1>1, <1>2

(* Its sign says whether the command succeeded.                              *)
LEMMA AnswerSigned ==
    ASSUME NEW k, Len(k.did) \in Nat, NEW ok \in BOOLEAN, NEW lines, NoStatus(lines)
    PROVE  Signed(SentLines(k, ok, lines), Len(k.did), MarkOf(ok))
<1> DEFINE a == SentLines(k, ok, lines)
           s == Line(k, "status", StatusOf(k, ok, lines))
           f == Follow(k, ok, lines)
<1>1. Answer(a, Len(k.did))
  BY AnswerBuilt
<1>2. IsSeq(f) /\ Len(lines) \in Nat
  <2>1. f \in Seq(Sentences)
    BY DEF Follow, NoStatus
  <2> QED BY <2>1 DEF IsSeq, NoStatus
<1>3. s.n < 0 <=> MarkOf(ok) = "err"
  BY <1>2 DEF Line, StatusOf, MarkOf
<1>4. a = <<s>> \o f
  BY DEF SentLines
<1> HIDE DEF a, s, f
<1>5. IsSeq(<<s>>) /\ Len(<<s>>) = 1 /\ <<s>>[1] = s
  <2>1. <<s>> \in Seq({s})
    OBVIOUS
  <2> QED BY <2>1 DEF IsSeq
<1>6. a[1] = s
  <2>1. 1 \in 1 .. Len(<<s>>)
    BY <1>5
  <2> QED BY <1>2, <1>4, <1>5, <2>1, ConcatFacts
<1> QED BY <1>1, <1>3, <1>6 DEF Signed, a

(* Lines without a status line after such lines.                             *)
LEMMA StatusFree == ASSUME NEW s, NoStatus(s), NEW t, NoStatus(t) PROVE NoStatus(s \o t)
<1> DEFINE u == s \o t
<1>1. s \in Seq(Sentences) /\ t \in Seq(Sentences) /\ IsSeq(s) /\ IsSeq(t) /\ Len(s) \in Nat /\ Len(t) \in Nat
  BY DEF NoStatus, IsSeq
<1>2. /\ u \in Seq(Sentences) /\ Len(u) = Len(s) + Len(t)
      /\ \A i \in 1 .. Len(s) : u[i] = s[i]
      /\ \A i \in 1 .. Len(t) : u[Len(s) + i] = t[i]
  BY <1>1, ConcatFacts
<1> HIDE DEF u
<1>3. ASSUME NEW i \in 1 .. Len(u) PROVE u[i].kind # "status"
  <2>1. CASE i \in 1 .. Len(s)
    BY <1>2, <2>1 DEF NoStatus
  <2>2. CASE i \notin 1 .. Len(s)
    <3>1. i - Len(s) \in 1 .. Len(t) /\ i = Len(s) + (i - Len(s))
      BY <1>1, <1>2, <2>2
    <3> QED BY <1>2, <3>1 DEF NoStatus
  <2> QED BY <2>1, <2>2
<1>4. NoStatus(u)
  BY <1>2, <1>3 DEF NoStatus
<1> QED BY <1>4 DEF u

(* A command is taken and answered, and perhaps values are taken from it.    *)
Adds(k, h, v) == TakesNone(k, h, TheLine(k), v) \/ TakesSome(k, h, TheLine(k), v)
(* What may be taken of an answered line may be taken of one without answer. *)
LEMMA AddsUnsettled == ASSUME NEW k, NEW h, NEW v, Adds(k, h, v) PROVE Adds(k, h, "none")
<1>1. CASE TakesNone(k, h, TheLine(k), v)
  BY <1>1 DEF Adds, TakesNone
<1>2. CASE TakesSome(k, h, TheLine(k), v)
  <2>1. PICK vals : h.took = Append(k.took, [of |-> Len(k.did) + 1, vals |-> vals]) /\ Fitting(vals, TheLine(k), v)
    BY <1>2 DEF TakesSome
  <2>2. Fitting(vals, TheLine(k), "none")
    BY <2>1 DEF Fitting
  <2> QED BY <2>1, <2>2 DEF Adds, TakesSome
<1> QED BY <1>1, <1>2 DEF Adds

(* However the answer ends: sent, kept for a batch, or the connection lost.  *)
LEMMA ReplyTells ==
    ASSUME NEW k, Sound(k), Told(k), k.st = "open",
           NEW h, DOMAIN h = Fields, h.did = Took(k), h.sent = k.sent, h.dn = k.dn, h.asked = k.asked,
           h.wbuf = k.wbuf,
           NEW ok \in BOOLEAN, Adds(k, h, MarkOf(ok)),
           NEW info, NoStatus(info), NEW m \in send_response(h, ok, info)
    PROVE  Tells(k, m)
<1>1. IsSeq(k.did) /\ Len(k.did) \in Nat /\ NoStatus(k.wbuf) /\ IsSeq(k.wbuf)
  BY SoundFacts
<1>2. m.took = h.took /\ m.asked = k.asked
  BY ReplyLeaves
<1>3. /\ Longer(k.did, Took(k), TheLine(k), "none")
      /\ Longer(k.did, [Took(k) EXCEPT ![Len(Took(k))].is = MarkOf(ok)], TheLine(k), MarkOf(ok))
      /\ Len(Took(k)) = Len(k.did) + 1
  BY <1>1, TookLonger
<1>4. CASE m = Closed(h)
  <2>1. m.did = Took(k) /\ Untold(k, m)
    BY <1>4 DEF Closed, Fields, Untold
  <2>2. Adds(k, m, "none")
    <3>1. Adds(k, h, "none")
      BY AddsUnsettled
    <3> QED BY <1>2, <3>1 DEF Adds, TakesNone, TakesSome
  <2>3. TakesALine(k, m)
    BY <1>2, <1>3, <2>1, <2>2 DEF TakesALine, Adds
  <2> QED BY <2>3, TakingTells
<1>5. CASE Replied(h, ok, info, m)
  <2> DEFINE a == SentLines(h, ok, h.wbuf \o info)
  <2>1. /\ m.did = [Took(k) EXCEPT ![Len(Took(k))].is = MarkOf(ok)]
        /\ Untold(k, m) \/ (m.sent = k.sent \o a /\ m.dn = k.dn \o a)
    BY <1>5 DEF Replied, Untold
  <2>2. Signed(a, Len(k.did) + 1, MarkOf(ok))
    <3>1. NoStatus(h.wbuf \o info)
      BY <1>1, StatusFree
    <3>2. PICK lines : lines = h.wbuf \o info
      OBVIOUS
    <3>3. Len(h.did) \in Nat /\ NoStatus(lines) /\ Len(h.did) = Len(k.did) + 1
      BY <1>1, <1>3, <3>1, <3>2
    <3>4. Signed(SentLines(h, ok, lines), Len(h.did), MarkOf(ok))
      BY <3>3, AnswerSigned
    <3> QED BY <3>2, <3>3, <3>4
  <2>3. Adds(k, m, MarkOf(ok))
    BY <1>2 DEF Adds, TakesNone, TakesSome
  <2> HIDE DEF a
  <2>4. TakesALine(k, m)
    BY <1>2, <1>3, <2>1, <2>2, <2>3 DEF TakesALine, Adds
  <2> QED BY <2>4, TakingTells
<1> QED BY <1>4, <1>5, ReplyFields

(* All of a sequence.                                                        *)
LEMMA WholeSub == ASSUME NEW s, IsSeq(s) PROVE SubSeq(s, 1, Len(s)) = s
<1> DEFINE l == Len(s)
<1>1. PICK z \in Nat \ {0} : z = 1
  OBVIOUS
<1>2. l \in Nat
  BY SeqFacts
<1>3. z <= l + 1 /\ l - z + 1 = l /\ l <= Len(s) /\ \A i \in 1 .. l : z + i - 1 = i
  BY <1>1, <1>2
<1>4. /\ IsSeq(SubSeq(s, z, l)) /\ Len(SubSeq(s, z, l)) = l - z + 1
      /\ \A i \in 1 .. l - z + 1 : SubSeq(s, z, l)[i] = s[z + i - 1]
  BY <1>2, <1>3, SubFacts
<1>5. SubSeq(s, z, l) = s
  BY <1>3, <1>4, SameElements
<1> QED BY <1>1, <1>5

(* UPDATE takes values from the front, and all of them if it does not fail   *)
(* and they can be read (handle_request_update).                             *)
LEMMA TakenFits ==
    ASSUME NEW line, IsSeq(line.vals), line.cmd = "UPDATE", NEW stamp, NEW t, t = Taken(stamp, line.vals),
           NEW ok \in BOOLEAN, ok <=> Accepts(t)
    PROVE  Fitting(t.took, line, MarkOf(ok))
<1> DEFINE vals == line.vals
           forward(i) == vals[i] # -1 /\ vals[i] > (IF i = 1 THEN stamp ELSE vals[i - 1])
           M == {m \in 1 .. Len(vals) : \A i \in 1 .. m : forward(i)}
           n == Cardinality(M)
           s == SubSeq(vals, 1, n)
           l == Len(vals)
<1>1. l \in Nat /\ IsSeq(vals)
  BY SeqFacts
<1>2. /\ t.took = s
      /\ t.end = IF n = l THEN "all" ELSE IF vals[n + 1] = -1 THEN "cut" ELSE "refused"
  BY DEF Taken
<1> HIDE DEF forward
<1>3. M \in SUBSET (1 .. l)
  OBVIOUS
<1> HIDE DEF M
<1>4. IsFiniteSet(1 .. l) /\ Cardinality(1 .. l) <= l
  <2>1. 1 \in Int /\ l \in Int
    BY <1>1
  <2>2. IsFiniteSet(1 .. l) /\ Cardinality(1 .. l) = IF 1 > l THEN 0 ELSE l - 1 + 1
    BY <2>1, FS_Interval
  <2> QED BY <1>1, <2>2
<1>5. IsFiniteSet(M) /\ n <= Cardinality(1 .. l)
  BY <1>3, <1>4, FS_Subset
<1>6. n \in Nat /\ Cardinality(1 .. l) \in Nat
  BY <1>4, <1>5, FS_CardinalityType
<1> HIDE DEF n
<1>7. n \in 0 .. l
  BY <1>1, <1>4, <1>5, <1>6 DEF n
<1>8. IsSeq(s) /\ Len(s) = n /\ \A i \in 1 .. n : s[i] = vals[i]
  <2>1. PICK z \in Nat \ {0} : z = 1
    OBVIOUS
  <2>2. z <= n + 1 /\ n - z + 1 = n /\ n <= Len(vals) /\ \A i \in 1 .. n : z + i - 1 = i
    BY <1>7, <2>1
  <2>3. /\ IsSeq(SubSeq(vals, z, n)) /\ Len(SubSeq(vals, z, n)) = n - z + 1
        /\ \A i \in 1 .. n - z + 1 : SubSeq(vals, z, n)[i] = vals[z + i - 1]
    BY <1>1, <1>6, <2>2, SubFacts
  <2> QED BY <2>1, <2>2, <2>3
<1> HIDE DEF s
<1>9. IsPrefix(s, vals)
  <2>1. SubSeq(s, 1, Len(s)) = s
    BY <1>1, <1>7, <1>8, WholeSub
  <2>2. SubSeq(vals, 1, Len(s)) = s
    BY <1>8 DEF s
  <2> QED BY <1>7, <1>8, <2>1, <2>2 DEF IsPrefix, l
<1>10. ASSUME Readable(vals), MarkOf(ok) = "ok" PROVE s = vals
  <2>1. t.end # "refused"
    BY <1>10 DEF MarkOf, Accepts
  <2>2. n = l
    <3> SUFFICES ASSUME n # l PROVE FALSE
      OBVIOUS
    <3>1. n + 1 \in 1 .. l
      BY <1>7
    <3>2. vals[n + 1] \in Nat
      BY <1>10, <3>1 DEF Readable, l
    <3> QED BY <1>2, <2>1, <3>2
  <2> QED BY <1>1, <1>8, <2>2, SameElements DEF l
<1>11. ASSUME Readable(vals), MarkOf(ok) = "err" PROVE s # vals
  <2>1. t.end = "refused" \/ s = <<>>
    BY <1>2, <1>11 DEF MarkOf, Accepts
  <2>2. CASE t.end = "refused"
    <3>1. n # l
      BY <1>2, <2>2
    <3> QED BY <1>8, <3>1 DEF l
  <2>3. CASE s = <<>>
    BY <1>11, <2>3 DEF Readable
  <2> QED BY <2>1, <2>2, <2>3
<1> QED BY <1>2, <1>9, <1>10, <1>11 DEF Fitting

-----------------------------------------------------------------------------
(* What the daemons do to their connections.                                 *)
ToldInv == \A c \in Conns : Told(conn[c])
AllTell == \A c \in Conns : Tells(conn[c], conn'[c])

(* A connection that does not change tells nothing new.                      *)
LEMMA ItselfTells == ASSUME ConnsInv, ToldInv, NEW c \in Conns PROVE Tells(conn[c], conn[c])
<1>1. Stays(conn[c], conn[c])
  BY DEF Stays
<1> QED BY <1>1, StaysTells DEF ConnsInv, ToldInv
(* One connection changes,                                                   *)
LEMMA OneTells ==
    ASSUME ConnShape, ConnsInv, ToldInv, NEW c \in Conns, NEW k, Tells(conn[c], k), Change(c, k) PROVE AllTell
<1>1. conn' = [conn EXCEPT ![c] = k]
  BY DEF Change
<1>2. ASSUME NEW d \in Conns PROVE Tells(conn[d], conn'[d])
  BY <1>1, ItselfTells DEF ConnShape
<1> QED BY <1>2 DEF AllTell
(* or none.                                                                  *)
LEMMA NoneTells == ASSUME ConnsInv, ToldInv, conn' = conn PROVE AllTell
BY ItselfTells DEF AllTell

(* The batch that is begun or ended is of no concern here.                   *)
LEMMA SameTells ==
    ASSUME NEW k, NEW g, Tells(k, g), NEW m, m.did = g.did, m.sent = g.sent, m.dn = g.dn, m.took = g.took,
           m.asked = g.asked, m.wait = g.wait, m.st = g.st
    PROVE  Tells(k, m)
<1>1. Told(m)
  BY DEF Tells, Told
<1> QED BY <1>1 DEF Tells

(* The line that is taken, and nothing else.                                 *)
LEMMA TakeLeaves ==
    ASSUME NEW k, DOMAIN k = Fields, NEW h, h = TakeLine(k)
    PROVE  /\ DOMAIN h = Fields /\ h.did = Took(k) /\ h.sent = k.sent /\ h.dn = k.dn /\ h.asked = k.asked
           /\ h.wbuf = k.wbuf /\ h.took = k.took /\ h.st = k.st /\ h.wait = k.wait
BY DEF TakeLine, Fields

(* A command that is not an UPDATE, or fails before it takes values.         *)
LEMMA PlainTells ==
    ASSUME ConnShape, ConnsInv, ToldInv, NEW c \in Conns, HasCommand(c),
           NEW ok \in BOOLEAN, ok => TheLine(conn[c]).cmd # "UPDATE", NEW info, NoStatus(info),
           Reply(c, TakeLine(conn[c]), ok, info)
    PROVE  AllTell
<1> DEFINE k == conn[c]
           h == TakeLine(k)
<1>1. PICK m \in send_response(h, ok, info) : Change(c, m)
  BY DEF Reply
<1>2. Sound(k) /\ Told(k) /\ k.st = "open" /\ DOMAIN k = Fields
  BY DEF ConnsInv, ToldInv, HasCommand, Sound
<1>3. ok => TheLine(k).cmd # "UPDATE"
  OBVIOUS
<1> HIDE DEF k
<1>4. /\ DOMAIN h = Fields /\ h.did = Took(k) /\ h.sent = k.sent /\ h.dn = k.dn /\ h.asked = k.asked
      /\ h.wbuf = k.wbuf /\ h.took = k.took
  BY <1>2, TakeLeaves
<1>5. Adds(k, h, MarkOf(ok))
  BY <1>3, <1>4 DEF Adds, TakesNone, MarkOf
<1> HIDE DEF h
<1>6. Tells(k, m)
  BY <1>1, <1>2, <1>4, <1>5, ReplyTells
<1> QED BY <1>1, <1>6, OneTells DEF k

(* UPDATE.                                                                   *)
LEMMA UpdateTells == ASSUME ConnShape, ConnsInv, ToldInv, NEW c \in Conns, Update(c) PROVE AllTell
<1> DEFINE k == conn[c]
           t == Taken(Item(k.proc, get_abs_path(TheLine(k).path)).stamp, TheLine(k).vals)
           u == [TakeLine(k) EXCEPT !.took = Append(@, [of |-> Len(k.did) + 1, vals |-> t.took])]
<1>1. Reply(c, u, Accepts(t), <<>>) /\ HasCommand(c) /\ TheLine(k).cmd = "UPDATE"
  BY DEF Update, Gets
<1>2. Sound(k) /\ Told(k) /\ k.st = "open" /\ DOMAIN k = Fields /\ HasLine(k)
  BY <1>1 DEF ConnsInv, ToldInv, HasCommand, Sound
<1>3. PICK ok \in BOOLEAN : ok = Accepts(t)
  BY DEF Accepts
<1>4. PICK info : info = <<>>
  OBVIOUS
<1>5. NoStatus(info)
  BY <1>4, NoInfo
<1>6. PICK m \in send_response(u, ok, info) : Change(c, m)
  BY <1>1, <1>3, <1>4 DEF Reply
<1>7. Fitting(t.took, TheLine(k), MarkOf(ok))
  <2>1. IsSeq(TheLine(k).vals)
    <3>1. PICK g : g = TakeLine(k)
      OBVIOUS
    <3> HIDE DEF k
    <3> QED BY <1>2, <3>1, FlowTaken
  <2>2. PICK line : line = TheLine(k)
    OBVIOUS
  <2>3. PICK stamp : stamp = Item(k.proc, get_abs_path(TheLine(k).path)).stamp
    OBVIOUS
  <2>4. PICK x : x = t
    OBVIOUS
  <2>5. x = Taken(stamp, line.vals) /\ (ok <=> Accepts(x)) /\ IsSeq(line.vals) /\ line.cmd = "UPDATE"
    BY <1>1, <1>3, <2>1, <2>2, <2>3, <2>4
  <2> HIDE DEF t, k
  <2>6. Fitting(x.took, line, MarkOf(ok))
    BY <2>5, TakenFits
  <2> QED BY <2>2, <2>4, <2>6
<1> HIDE DEF t
<1>8. /\ DOMAIN u = Fields /\ u.did = Took(k) /\ u.sent = k.sent /\ u.dn = k.dn /\ u.asked = k.asked
      /\ u.wbuf = k.wbuf /\ u.took = Append(k.took, [of |-> Len(k.did) + 1, vals |-> t.took])
  <2> DEFINE h == TakeLine(k)
             more == Append(h.took, [of |-> Len(k.did) + 1, vals |-> t.took])
  <2>1. /\ DOMAIN h = Fields /\ h.did = Took(k) /\ h.sent = k.sent /\ h.dn = k.dn /\ h.asked = k.asked
        /\ h.wbuf = k.wbuf /\ h.took = k.took
    <3> HIDE DEF k
    <3> QED BY <1>2, TakeLeaves
  <2>2. u = [h EXCEPT !.took = more]
    OBVIOUS
  <2>3. more = Append(k.took, [of |-> Len(k.did) + 1, vals |-> t.took])
    BY <2>1
  <2> HIDE DEF u, h, more
  <2> QED BY <2>1, <2>2, <2>3 DEF Fields
<1>9. Adds(k, u, MarkOf(ok))
  BY <1>7, <1>8 DEF Adds, TakesSome
<1> HIDE DEF u
<1>10. Tells(k, m)
  <2> HIDE DEF k
  <2> QED BY <1>2, <1>5, <1>6, <1>8, <1>9, ReplyTells
<1> QED BY <1>6, <1>10, OneTells

(* Who is woken, or freed of what it waited for, says and hears what it did. *)
LEMMA WokenTells ==
    ASSUME ConnShape, ConnsInv, ToldInv, NEW p, NEW f
    PROVE  /\ DOMAIN Forgotten(conn, p, f) = Conns
           /\ \A c \in Conns : /\ Tells(conn[c], Woken(conn, p, f)[c])
                               /\ Tells(conn[c], Forgotten(conn, p, f)[c])
<1>1. ASSUME NEW c \in Conns
      PROVE  Stays(conn[c], Woken(conn, p, f)[c]) /\ DOMAIN Woken(conn, p, f)[c] = Fields
  BY DEF ConnShape, Stays, Fields, Woken
<1>2. ASSUME NEW c \in Conns PROVE Stays(conn[c], Forgotten(conn, p, f)[c])
  <2>1. CASE conn[c].wait = f
    <3> DEFINE w == Woken(conn, p, f)[c]
    <3>1. Stays(conn[c], w) /\ DOMAIN w = Fields
      BY <1>1
    <3>2. Forgotten(conn, p, f)[c] = [w EXCEPT !.due = <<>>]
      BY <2>1 DEF Forgotten
    <3> HIDE DEF w
    <3> QED BY <3>1, <3>2 DEF Stays, Fields
  <2>2. CASE conn[c].wait # f
    BY <2>2 DEF Forgotten, Stays
  <2> QED BY <2>1, <2>2
<1> QED BY <1>1, <1>2, StaysTells DEF Forgotten, ConnsInv, ToldInv

(* FORGET wakes others and is answered.                                      *)
LEMMA ForgetTells == ASSUME ConnShape, ConnsInv, ToldInv, NEW c \in Conns, Forget(c) PROVE AllTell
<1> DEFINE k == conn[c]
           p == k.proc
           f == get_abs_path(TheLine(k).path)
<1>0. HasCommand(c) /\ TheLine(k).cmd = "FORGET"
  BY DEF Forget, Gets
<1>1. PICK info : info = <<>>
  OBVIOUS
<1>2. NoStatus(info)
  BY <1>1, NoInfo
<1>3. CASE Allowed(TheLine(k)) /\ Cached(p, f)
  <2>1. PICK m \in send_response(TakeLine(k), TRUE, <<>>) : conn' = [Forgotten(conn, p, f) EXCEPT ![c] = m]
    BY <1>3 DEF Forget
  <2>2. Tells(k, m)
    <3> DEFINE h == TakeLine(k)
    <3>1. PICK ok \in BOOLEAN : ok = TRUE
      OBVIOUS
    <3>2. m \in send_response(h, ok, info)
      BY <1>1, <2>1, <3>1
    <3>3. Sound(k) /\ Told(k) /\ k.st = "open" /\ DOMAIN k = Fields
      BY <1>0 DEF ConnsInv, ToldInv, HasCommand, Sound
    <3>4. TheLine(k).cmd # "UPDATE"
      BY <1>0
    <3> HIDE DEF k
    <3>5. /\ DOMAIN h = Fields /\ h.did = Took(k) /\ h.sent = k.sent /\ h.dn = k.dn /\ h.asked = k.asked
          /\ h.wbuf = k.wbuf /\ h.took = k.took
      BY <3>3, TakeLeaves
    <3>6. Adds(k, h, MarkOf(ok))
      BY <3>4, <3>5 DEF Adds, TakesNone
    <3> HIDE DEF h
    <3> QED BY <1>2, <3>2, <3>3, <3>5, <3>6, ReplyTells
  <2> DEFINE F == Forgotten(conn, p, f)
  <2>3. DOMAIN F = Conns /\ \A d \in Conns : Tells(conn[d], F[d])
    BY WokenTells
  <2>4. conn' = [F EXCEPT ![c] = m]
    BY <2>1
  <2> HIDE DEF F
  <2> QED BY <2>2, <2>3, <2>4 DEF AllTell
<1>4. CASE ~(Allowed(TheLine(k)) /\ Cached(p, f))
  <2>1. PICK ok \in BOOLEAN : ok = FALSE
    OBVIOUS
  <2>2. Reply(c, TakeLine(k), ok, info)
    BY <1>1, <1>4, <2>1 DEF Forget
  <2> QED BY <1>0, <1>2, <2>1, <2>2, PlainTells
<1> QED BY <1>3, <1>4

(* FLUSH that waits, and one that is woken.                                  *)
LEMMA FlushTells ==
    ASSUME ConnShape, ConnsInv, ToldInv, NEW c \in Conns, FlushWaits(c) \/ FlushReturns(c) PROVE AllTell
<1>1. ASSUME FlushWaits(c) PROVE AllTell
  <2> DEFINE k == conn[c]
             f == get_abs_path(TheLine(k).path)
             busy == writing[k.proc].file = f
             due == IF busy THEN <<>> ELSE cache[k.proc][f].vals
             h == TakeLine(k)
             u == [h EXCEPT !.wait = f, !.woken = FALSE, !.due = due]
  <2>1. Change(c, u)
    BY <1>1 DEF FlushWaits
  <2>2. Sound(k) /\ Told(k) /\ k.st = "open" /\ DOMAIN k = Fields
    BY <1>1 DEF FlushWaits, Gets, HasCommand, ConnsInv, ToldInv, Sound
  <2> HIDE DEF due, f, k
  <2>3. /\ DOMAIN h = Fields /\ h.did = Took(k) /\ h.sent = k.sent /\ h.dn = k.dn /\ h.asked = k.asked
        /\ h.took = k.took
    BY <2>2, TakeLeaves
  <2> HIDE DEF h
  <2>4. u.did = Took(k) /\ Untold(k, u) /\ u.asked = k.asked /\ u.took = k.took
    BY <2>3 DEF Fields, Untold
  <2>5. Longer(k.did, u.did, TheLine(k), "none")
    BY <2>2, <2>4, SoundFacts, TookLonger
  <2> HIDE DEF u
  <2>6. TakesALine(k, u)
    BY <2>2, <2>4, <2>5 DEF TakesALine, TakesNone
  <2>7. Tells(k, u)
    BY <2>2, <2>6, TakingTells
  <2> QED BY <2>1, <2>7, OneTells DEF k
<1>2. ASSUME FlushReturns(c) PROVE AllTell
  <2> DEFINE k == conn[c]
             h == [k EXCEPT !.wait = None, !.woken = FALSE, !.due = <<>>]
  <2>1. PICK m \in send_response(h, TRUE, <<>>) : Change(c, m)
    BY <1>2 DEF FlushReturns, Reply
  <2>2. Sound(k) /\ Told(k) /\ k.wait # None /\ DOMAIN k = Fields
    BY <1>2 DEF FlushReturns, ConnsInv, ToldInv, Sound
  <2>3. k.st = "open"
    BY <2>2 DEF Sound, Talk
  <2> HIDE DEF k
  <2>4. /\ DOMAIN h = Fields /\ h.did = k.did /\ h.sent = k.sent /\ h.dn = k.dn /\ h.asked = k.asked
        /\ h.wbuf = k.wbuf /\ h.took = k.took /\ h.wait = None
    BY <2>2 DEF Fields
  <2>5. PICK ok \in BOOLEAN : ok = TRUE
    OBVIOUS
  <2>6. PICK info : info = <<>>
    OBVIOUS
  <2> HIDE DEF h
  <2>7. m \in send_response(h, ok, info)
    BY <2>1, <2>5, <2>6
  <2>8. m.took = k.took /\ m.asked = k.asked
    BY <2>4, <2>7, ReplyLeaves
  <2>9. CASE m = Closed(h)
    <3>1. Stays(k, m)
      BY <2>3, <2>4, <2>8, <2>9 DEF Stays, Closed, Fields
    <3>2. Tells(k, m)
      BY <2>2, <3>1, StaysTells
    <3> QED BY <2>1, <3>2, OneTells DEF k
  <2>10. CASE Replied(h, ok, info, m)
    <3> DEFINE a == SentLines(h, ok, h.wbuf \o info)
    <3>1. /\ m.did = [k.did EXCEPT ![Len(k.did)].is = "ok"] /\ m.wait = None
          /\ Untold(k, m) \/ (m.sent = k.sent \o a /\ m.dn = k.dn \o a)
      BY <2>4, <2>5, <2>10 DEF Replied, Untold, MarkOf
    <3>2. Signed(a, Len(k.did), "ok")
      <4>1. NoStatus(k.wbuf) /\ Len(k.did) \in Nat
        BY <2>2, <2>3, SoundFacts
      <4>2. NoStatus(k.wbuf \o info)
        BY <2>6, <4>1, NoInfo, StatusFree
      <4>3. PICK lines : lines = h.wbuf \o info
        OBVIOUS
      <4>4. Len(h.did) \in Nat /\ NoStatus(lines) /\ Len(h.did) = Len(k.did)
        BY <2>4, <4>1, <4>2, <4>3
      <4>5. Signed(SentLines(h, ok, lines), Len(h.did), MarkOf(ok))
        BY <4>4, AnswerSigned
      <4> QED BY <2>5, <4>3, <4>4, <4>5 DEF MarkOf
    <3> HIDE DEF a
    <3>3. Returns(k, m)
      BY <2>2, <2>8, <3>1, <3>2 DEF Returns
    <3>4. Tells(k, m)
      BY <2>2, <3>1, <3>3, ReturnTells
    <3> QED BY <2>1, <3>4, OneTells DEF k
  <2> QED BY <2>4, <2>7, <2>9, <2>10, ReplyFields
<1> QED BY <1>1, <1>2

(* BATCH and the dot.                                                        *)
LEMMA BatchTells ==
    ASSUME ConnShape, ConnsInv, ToldInv, NEW c \in Conns, BatchStart(c) \/ BatchDone(c) PROVE AllTell
<1> DEFINE k == conn[c]
           h == TakeLine(k)
<1>0. Sound(k) /\ Told(k) /\ k.st = "open" /\ DOMAIN k = Fields /\ TheLine(k).cmd # "UPDATE"
  BY DEF BatchStart, BatchDone, Gets, HasCommand, ConnsInv, ToldInv, Sound
<1>1. /\ DOMAIN h = Fields /\ h.did = Took(k) /\ h.sent = k.sent /\ h.dn = k.dn /\ h.asked = k.asked
      /\ h.wbuf = k.wbuf /\ h.took = k.took
  <2> HIDE DEF k
  <2> QED BY <1>0, TakeLeaves
<1>2. PICK ok \in BOOLEAN : ok = TRUE
  OBVIOUS
<1>3. PICK info : info = <<>>
  OBVIOUS
<1>4. NoStatus(info)
  BY <1>3, NoInfo
<1>5. ASSUME BatchStart(c) PROVE AllTell
  <2>1. PICK g \in send_response(h, TRUE, <<>>) :
           Change(c, IF g.st = "open" THEN [g EXCEPT !.batch = TRUE, !.cmds = 0] ELSE g)
    BY <1>5 DEF BatchStart
  <2> DEFINE m == IF g.st = "open" THEN [g EXCEPT !.batch = TRUE, !.cmds = 0] ELSE g
  <2>2. Change(c, m)
    BY <2>1
  <2> HIDE DEF k, h
  <2>3. g \in send_response(h, ok, info)
    BY <1>2, <1>3, <2>1
  <2>4. Adds(k, h, MarkOf(ok))
    BY <1>0, <1>1 DEF Adds, TakesNone
  <2>5. Tells(k, g)
    BY <1>0, <1>1, <1>4, <2>3, <2>4, ReplyTells
  <2>6. DOMAIN g = Fields
    <3>1. g = Closed(h) \/ Replied(h, ok, info, g)
      BY <1>1, <2>3, ReplyFields
    <3>2. DOMAIN Closed(h) = DOMAIN h
      BY DEF Closed
    <3> QED BY <1>1, <3>1, <3>2 DEF Replied
  <2>7. /\ m.did = g.did /\ m.sent = g.sent /\ m.dn = g.dn /\ m.took = g.took
        /\ m.asked = g.asked /\ m.wait = g.wait /\ m.st = g.st
    BY <2>6 DEF Fields
  <2> HIDE DEF m
  <2>8. Tells(k, m)
    BY <2>5, <2>7, SameTells
  <2> QED BY <2>2, <2>8, OneTells DEF k
<1>6. ASSUME BatchDone(c) PROVE AllTell
  <2> DEFINE u == [h EXCEPT !.batch = FALSE, !.cmds = 0]
  <2>1. PICK m \in send_response(u, TRUE, <<>>) : Change(c, m)
    BY <1>6 DEF BatchDone, Reply
  <2> HIDE DEF k, h
  <2>2. /\ DOMAIN u = Fields /\ u.did = Took(k) /\ u.sent = k.sent /\ u.dn = k.dn /\ u.asked = k.asked
        /\ u.wbuf = k.wbuf /\ u.took = k.took
    BY <1>1 DEF Fields
  <2> HIDE DEF u
  <2>3. m \in send_response(u, ok, info)
    BY <1>2, <1>3, <2>1
  <2>4. Adds(k, u, MarkOf(ok))
    BY <1>0, <2>2 DEF Adds, TakesNone
  <2>5. Tells(k, m)
    BY <1>0, <1>4, <2>2, <2>3, <2>4, ReplyTells
  <2> QED BY <2>1, <2>5, OneTells DEF k
<1> QED BY <1>5, <1>6

(* Every command, and what a thread does in between.                         *)
LEMMA ConnectionTells ==
    ASSUME ConnShape, ConnsInv, ToldInv, CacheInv, NEW c \in Conns, Accept(c) \/ Connection(c) PROVE AllTell
<1> DEFINE k == conn[c]
<1>0. Sound(k) /\ Told(k) /\ DOMAIN k = Fields
  BY DEF ConnsInv, ToldInv, Sound
<1>1. ASSUME NEW m, Stays(k, m), Change(c, m) PROVE AllTell
  <2>1. Tells(k, m)
    BY <1>0, <1>1, StaysTells
  <2> QED BY <1>1, <2>1, OneTells
<1>2. ASSUME Accept(c) PROVE AllTell
  <2>1. Stays(k, [k EXCEPT !.st = "open"])
    BY <1>0, <1>2 DEF Accept, Stays, Fields
  <2> QED BY <1>1, <1>2, <2>1 DEF Accept
<1>3. ASSUME Leave(c) PROVE AllTell
  <2>1. Stays(k, Closed(k))
    BY <1>0 DEF Closed, Stays, Fields
  <2> QED BY <1>1, <1>3, <2>1 DEF Leave
<1>4. ASSUME ReadSome(c) PROVE AllTell
  <2>1. PICK n \in 1 .. Len(k.up) :
           Change(c, [k EXCEPT !.rbuf = @ \o SubSeq(k.up, 1, n), !.up = SubSeq(k.up, n + 1, Len(k.up))])
    BY <1>4 DEF ReadSome
  <2> DEFINE m == [k EXCEPT !.rbuf = @ \o SubSeq(k.up, 1, n), !.up = SubSeq(k.up, n + 1, Len(k.up))]
  <2>2. Stays(k, m)
    <3> HIDE DEF k
    <3> QED BY <1>0 DEF Stays, Fields
  <2>3. Change(c, m)
    BY <2>1
  <2> HIDE DEF m
  <2> QED BY <1>1, <2>2, <2>3
<1>5. ASSUME Quit(c) PROVE AllTell
  <2> DEFINE h == TakeLine(k)
             m == Closed(h)
  <2>1. Change(c, m) /\ k.st = "open"
    BY <1>5 DEF Quit, HasCommand
  <2> HIDE DEF k
  <2>2. /\ DOMAIN h = Fields /\ h.did = Took(k) /\ h.sent = k.sent /\ h.dn = k.dn /\ h.asked = k.asked
        /\ h.took = k.took
    BY <1>0, TakeLeaves
  <2> HIDE DEF h
  <2>3. m.did = Took(k) /\ Untold(k, m) /\ m.asked = k.asked /\ m.took = k.took
    BY <2>2 DEF Closed, Fields, Untold
  <2>4. Longer(k.did, m.did, TheLine(k), "none")
    BY <1>0, <2>3, SoundFacts, TookLonger
  <2> HIDE DEF m
  <2>5. TakesALine(k, m)
    BY <2>1, <2>3, <2>4 DEF TakesALine, TakesNone
  <2>6. Tells(k, m)
    BY <1>0, <2>5, TakingTells
  <2> QED BY <2>1, <2>6, OneTells DEF k
<1>6. ASSUME NEW ok \in BOOLEAN, HasCommand(c), ok => TheLine(k).cmd # "UPDATE", Reply(c, TakeLine(k), ok, <<>>)
      PROVE  AllTell
  <2>1. PICK info : info = <<>>
    OBVIOUS
  <2>2. Reply(c, TakeLine(k), ok, info) /\ NoStatus(info)
    BY <1>6, <2>1, NoInfo
  <2> QED BY <1>6, <2>2, PlainTells
<1>7. ASSUME Refuse(c) \/ RefuseUpdate(c) PROVE AllTell
  <2>1. PICK ok \in BOOLEAN : ok = FALSE
    OBVIOUS
  <2>2. HasCommand(c) /\ Reply(c, TakeLine(k), ok, <<>>)
    BY <1>7, <2>1 DEF Refuse, RefuseUpdate, Gets
  <2> QED BY <1>6, <2>1, <2>2
<1>8. ASSUME FlushNothing(c) PROVE AllTell
  <2>1. HasCommand(c) /\ TheLine(k).cmd = "FLUSH"
    BY <1>8 DEF FlushNothing, Gets
  <2>2. PICK ok \in BOOLEAN : Reply(c, TakeLine(k), ok, <<>>)
    <3>1. CASE Reply(c, TakeLine(k), FALSE, <<>>)
      BY <3>1
    <3> DEFINE found == Cached(k.proc, get_abs_path(TheLine(k).path)) \/ Exists(get_abs_path(TheLine(k).path), "base")
    <3>2. CASE Reply(c, TakeLine(k), found, <<>>)
      <4>1. found \in BOOLEAN
        OBVIOUS
      <4> HIDE DEF found
      <4> QED BY <3>2, <4>1
    <3> QED BY <1>8, <3>1, <3>2 DEF FlushNothing
  <2> QED BY <1>6, <2>1, <2>2
<1>9. ASSUME FlushAll(c) PROVE AllTell
  <2>1. PICK ok \in BOOLEAN : ok = TRUE
    OBVIOUS
  <2>2. HasCommand(c) /\ TheLine(k).cmd = "FLUSHALL" /\ Reply(c, TakeLine(k), ok, <<>>)
    BY <1>9, <2>1 DEF FlushAll, Gets
  <2> QED BY <1>6, <2>1, <2>2
<1>10. ASSUME NEW cmd, cmd # "UPDATE", NEW b \in BOOLEAN, NEW count \in Nat, Show(c, cmd, b, count)
       PROVE  AllTell
  <2> DEFINE h == TakeLine(k)
             info == Info(h, count)
  <2>1. HasCommand(c) /\ TheLine(k).cmd = cmd /\ Reply(c, h, b, info)
    BY <1>10 DEF Show, Gets
  <2>2. Len(h.did) \in Nat
    <3>1. h.did = Took(k)
      BY <1>0, TakeLeaves
    <3>2. IsSeq(k.did) /\ Len(k.did) \in Nat
      BY <1>0, SoundFacts
    <3> HIDE DEF h, k
    <3>3. Len(Took(k)) = Len(k.did) + 1
      BY <3>2, TookLonger
    <3> QED BY <3>1, <3>2, <3>3
  <2>3. NoStatus(info)
    <3> HIDE DEF h
    <3> QED BY <2>2, InfoFacts
  <2> HIDE DEF info
  <2> QED BY <1>10, <2>1, <2>3, PlainTells
<1>11. ASSUME Stats(c) \/ Help(c) \/ Queue(c) PROVE AllTell
  <2>1. PICK b \in BOOLEAN : b = TRUE
    OBVIOUS
  <2>2. StatsLines \in Nat /\ HelpLines \in Nat
    BY DEF StatsLines, HelpLines
  <2>3. Len(queue[k.proc]) \in Nat
    <3>1. k.proc \in Procs
      BY <1>0, <1>11 DEF Stats, Help, Queue, Show, Gets, HasCommand, Sound, Flow
    <3> QED BY <3>1, SeqFacts DEF CacheInv, QueueOK, Distinct
  <2>4. ASSUME Stats(c) PROVE AllTell
    BY <1>10, <2>1, <2>2, <2>4 DEF Stats
  <2>5. ASSUME Help(c) PROVE AllTell
    BY <1>10, <2>1, <2>2, <2>5 DEF Help
  <2>6. ASSUME Queue(c) PROVE AllTell
    BY <1>10, <2>1, <2>3, <2>6 DEF Queue
  <2> QED BY <1>11, <2>4, <2>5, <2>6
<1>12. ASSUME ShowPending(c) PROVE AllTell
  <2>1. PICK b, count : Show(c, "PENDING", b, count) /\ b \in BOOLEAN /\ count \in Nat
    <3>1. k.proc \in Procs
      BY <1>0, <1>12 DEF ShowPending, Gets, HasCommand, Sound, Flow
    <3>2. CASE Show(c, "PENDING", FALSE, 0)
      BY <3>2
    <3>3. ASSUME NEW f, Cached(k.proc, f), Show(c, "PENDING", TRUE, Len(cache[k.proc][f].vals))
          PROVE  \E b, count : Show(c, "PENDING", b, count) /\ b \in BOOLEAN /\ count \in Nat
      <4>1. Len(cache[k.proc][f].vals) \in Nat
        BY <3>1, <3>3, SeqFacts DEF CacheInv, ItemsOK, Cached
      <4> QED BY <3>3, <4>1
    <3> QED BY <1>12, <3>2, <3>3 DEF ShowPending, PendingAt
  <2> QED BY <1>10, <2>1
<1> QED
  BY <1>2, <1>3, <1>4, <1>5, <1>7, <1>8, <1>9, <1>11, <1>12, UpdateTells, ForgetTells, FlushTells, BatchTells
  DEF Connection, Handle

(* Processes and signals.                                                    *)
LEMMA ProcessTells ==
    ASSUME ConnShape, ConnsInv, ToldInv, NEW p \in Procs, Process(p) \/ Crash(p) \/ Stop(p) PROVE AllTell
<1>1. ASSUME Start(p) \/ Check(p) \/ TakeOver(p) \/ BindUnix(p) \/ BindNetwork(p) PROVE AllTell
  BY <1>1, NoneTells DEF Start, Check, TakeOver, BindUnix, BindNetwork
<1>2. ASSUME WritePid(p) \/ Exit(p) \/ FlushThread(p) \/ TakeFirst(p) \/ Stop(p) PROVE AllTell
  BY <1>2, NoneTells DEF WritePid, Exit, FlushThread, TakeFirst, Stop
<1>3. ASSUME WriteOut(p) PROVE AllTell
  <2>1. conn' = conn \/ conn' = Woken(conn, p, writing[p].file)
    BY <1>3 DEF WriteOut, Announced
  <2> QED BY <2>1, NoneTells, WokenTells DEF AllTell
<1>4. ASSUME NEW c \in Conns PROVE Tells(conn[c], Reset(conn[c]))
  <2>1. Stays(conn[c], Reset(conn[c]))
    BY DEF Stays, Reset, ConnShape, Fields
  <2> QED BY <2>1, StaysTells DEF ConnsInv, ToldInv
<1>5. ASSUME CloseListenSockets(p) PROVE AllTell
  <2>1. conn' = [c \in Conns |-> IF conn[c].proc = p /\ conn[c].st = "backlog" THEN Reset(conn[c]) ELSE conn[c]]
    BY <1>5 DEF CloseListenSockets
  <2>2. ASSUME NEW c \in Conns PROVE Tells(conn[c], conn'[c])
    BY <1>4, <2>1, ItselfTells
  <2> QED BY <2>2 DEF AllTell
<1>6. ASSUME Crash(p) PROVE AllTell
  <2>1. PICK silent \in SUBSET {c \in Conns : conn[c].proc = p} :
           conn' = [c \in Conns |-> IF conn[c].proc # p THEN conn[c]
                                    ELSE Reset(IF c \in silent THEN Unsent(conn[c]) ELSE conn[c])]
    BY <1>6 DEF Crash
  <2>2. ASSUME NEW c \in Conns PROVE Tells(conn[c], conn'[c])
    <3>1. /\ Tells(conn[c], conn[c]) /\ Tells(conn[c], Reset(conn[c]))
          /\ Tells(conn[c], Reset(Unsent(conn[c])))
      BY <1>4, ItselfTells, CutTells DEF ConnsInv, ToldInv
    <3> QED BY <2>1, <3>1
  <2> QED BY <2>2 DEF AllTell
<1> QED BY <1>1, <1>2, <1>3, <1>5, <1>6 DEF Process

-----------------------------------------------------------------------------
(* What the library has said on its connection.                              *)

(* No more lines were taken than were sent.                                  *)
LEMMA StreamAhead ==
    ASSUME NEW T, NEW n, NEW asked, NEW L, Stream(T, n, asked, L)
    PROVE  n <= asked
<1> DEFINE m == Len(T)
<1>1. IsSeq(T) /\ n \in Nat /\ asked \in Nat /\ m \in Nat
  BY SeqFacts DEF Stream
<1>2. PICK f : Numbered(T, f, n, asked, L)
  BY DEF Stream
<1> HIDE DEF m
<1>3. CASE m = 0
  BY <1>1, <1>2, <1>3 DEF Numbered, m
<1>4. CASE m # 0
  <2>1. f[1] = n + 1 /\ f[m] = asked /\ \A i \in 1 .. m : f[i] \in Nat
    BY <1>2, <1>4 DEF Numbered, m
  <2>2. 1 \in 1 .. m /\ m \in 1 .. m
    BY <1>1, <1>4
  <2> DEFINE Bad == {i \in 1 .. m : ~(n < f[i])}
  <2> SUFFICES ASSUME Bad # {} PROVE FALSE
    <3>1. m \notin Bad
      OBVIOUS
    <3> QED BY <1>1, <2>1, <2>2, <3>1
  <2>3. PICK i \in Bad : \A j \in Bad : i <= j
    <3>1. Bad \in SUBSET Nat
      BY <1>1
    <3> HIDE DEF Bad
    <3> QED BY <3>1, Least
  <2>4. i \in 1 .. m /\ ~(n < f[i]) /\ i # 1
    BY <1>1, <2>1
  <2>5. i - 1 \in 1 .. m /\ i - 1 \in 1 .. m - 1 /\ (i - 1) + 1 = i /\ ~(i <= i - 1)
    BY <1>1, <2>4
  <2>6. f[i] = f[i - 1] + 1 \/ f[i] = f[i - 1]
    BY <1>2, <2>5 DEF Numbered, m
  <2>7. f[i - 1] \in Nat /\ f[i] \in Nat
    BY <2>1, <2>4, <2>5
  <2>8. ~(n < f[i - 1])
    BY <1>1, <2>4, <2>6, <2>7
  <2>9. i - 1 \in Bad
    BY <2>5, <2>8
  <2> HIDE DEF Bad
  <2> QED BY <2>3, <2>5, <2>9
<1> QED BY <1>3, <1>4

(* H are the lines that were sent, whatever will be sent after them.         *)
Heard(k, H) ==
    /\ IsSeq(H) /\ Len(H) = k.asked /\ \A i \in 1 .. k.asked : H[i].cmd # "endless"
    /\ \A L : Len(L) \in Nat /\ k.asked <= Len(L) /\ (\A i \in 1 .. k.asked : L[i] = H[i]) => RawFlow(k, L)

(* The lines that were taken are the first of those.                         *)
LEMMA HeardFacts ==
    ASSUME NEW k, NEW H, Heard(k, H)
    PROVE  /\ k.asked \in Nat /\ Len(k.did) \in Nat /\ Len(k.did) <= k.asked
           /\ \A i \in 1 .. Len(k.did) : k.did[i].line = H[i]
<1>1. k.asked \in Nat /\ Len(H) = k.asked
  BY SeqFacts DEF Heard
<1>2. RawFlow(k, H)
  BY <1>1 DEF Heard
<1> QED BY <1>1, <1>2, StreamAhead DEF RawFlow, SaidInOrder, Stream

(* Nothing was said at first.                                                *)
LEMMA HeardNothing == ASSUME NEW k, Silent(k), NEW H, H = <<>> PROVE Heard(k, H)
<1>1. IsSeq(H) /\ Len(H) = 0 /\ k.asked = 0
  BY NothingIsSeq DEF Silent
<1> QED BY <1>1, SilentSound DEF Heard

(* What the daemon does leaves it as it was said.                            *)
LEMMA HeardOn == ASSUME NEW k, NEW H, Heard(k, H), NEW m, Goes(k, m), m.asked = k.asked PROVE Heard(m, H)
BY DEF Heard, Goes

(* The next line is said.                                                    *)
LEMMA HeardNext ==
    ASSUME NEW k, Sound(k), NEW H, Heard(k, H), NEW line, line.size \in Nat \ {0}, IsSeq(line.vals),
           line.cmd # "endless", NEW m, Says(k, m, line), m.asked = k.asked + 1
    PROVE  Sound(m) /\ Heard(m, Append(H, line))
<1> DEFINE a == k.asked
           G == Append(H, line)
<1>1. a \in Nat /\ IsSeq(H) /\ Len(H) = a
  BY HeardFacts DEF Heard
<1>2. Sound(m) /\ m.rbuf \o m.up = (k.rbuf \o k.up) \o Pieces(line)
  BY SaysSound
<1> HIDE DEF a
<1>3. /\ IsSeq(G) /\ Len(G) = a + 1 /\ G[a + 1] = line
      /\ \A i \in 1 .. a : G[i] = H[i]
  BY <1>1, AppendFacts
<1> HIDE DEF G
<1>4. ASSUME NEW i \in 1 .. a + 1 PROVE G[i].cmd # "endless"
  <2>1. CASE i = a + 1
    BY <1>3, <2>1
  <2>2. CASE i # a + 1
    <3>1. i \in 1 .. a
      BY <1>1, <2>2
    <3> QED BY <1>3, <3>1 DEF Heard, a
  <2> QED BY <2>1, <2>2
<1>5. ASSUME NEW L, Len(L) \in Nat, a + 1 <= Len(L), \A i \in 1 .. a + 1 : L[i] = G[i]
      PROVE  RawFlow(m, L)
  <2>1. a <= Len(L) /\ (\A i \in 1 .. a : L[i] = H[i]) /\ L[a + 1] = line
    <3>1. a + 1 \in 1 .. a + 1 /\ \A i \in 1 .. a : i \in 1 .. a + 1
      BY <1>1
    <3>2. a <= Len(L)
      BY <1>1, <1>5
    <3> QED BY <1>3, <1>5, <3>1, <3>2
  <2>2. RawFlow(k, L)
    BY <1>5, <2>1 DEF Heard, a
  <2>3. a > 0 => L[a].cmd # "endless"
    <3>1. a > 0 => a \in 1 .. a
      BY <1>1
    <3> QED BY <2>1, <3>1 DEF Heard, a
  <2> DEFINE T == k.rbuf \o k.up
             n == Len(k.did)
  <2>4. Stream(T, n, a, L)
    BY <2>2 DEF RawFlow, a
  <2>5. L[a + 1].size \in Nat \ {0}
    BY <2>1
  <2> HIDE DEF T, n
  <2>6. Stream(T \o Pieces(L[a + 1]), n, a + 1, L)
    BY <1>5, <2>3, <2>4, <2>5, StreamSent
  <2>7. m.did = k.did /\ m.asked = a + 1 /\ m.rbuf \o m.up = T \o Pieces(L[a + 1])
    BY <1>2, <2>1 DEF Says, T, a
  <2> QED BY <2>2, <2>6, <2>7 DEF RawFlow, n
<1>6. m.asked = a + 1
  BY DEF a
<1>7. Heard(m, G)
  BY <1>3, <1>4, <1>5, <1>6 DEF Heard
<1> QED BY <1>2, <1>7 DEF G

(* Between two commands every line has got its answer and every answer was   *)
(* read; while the tool waits, this holds of all lines but the last one.     *)
Still(k) == k.dn = <<>> /\ k.wait = None /\ Len(k.did) = k.asked
Turn(k) ==
    /\ k.asked > 0 /\ k.asked - 1 <= Len(k.did)
    /\ \A i \in 1 .. Len(k.dn) : k.dn[i].kind = "status" => k.dn[i].of = k.asked
    /\ k.wait # None => Len(k.did) = k.asked

(* The tool waits for an answer, or keeps the connection, or has dropped it, *)
(* and closed it then or lost it before.                                     *)
Held(k, turn, kept) == IF turn THEN Turn(k) ELSE Still(k) \/ (~kept /\ k.st = "closed")
Asking(k, turn) == IF turn THEN k.asked - 1 ELSE k.asked

(* What was noted of the update cmd, whose line is among the first n.        *)
Noted(r, cmd, k, H, n) ==
    /\ r.no \in 1 .. n /\ H[r.no].cmd = "UPDATE" /\ H[r.no].vals = cmd.vals
    /\ r.out \in {"ok", "refused", "lost"}
    /\ r.out = "ok" => r.no <= Len(k.did) /\ k.did[r.no].is = "ok"
    /\ r.out = "refused" => r.no <= Len(k.did) /\ k.did[r.no].is = "err"

(* The daemon goes on without the tool.                                      *)
LEMMA HeldOn ==
    ASSUME NEW k, NEW H, Heard(k, H), NEW m, Goes(k, m), Tells(k, m), NEW turn \in BOOLEAN, NEW kept \in BOOLEAN,
           Held(k, turn, kept)
    PROVE  Heard(m, H) /\ Held(m, turn, kept) /\ Asking(m, turn) = Asking(k, turn)
<1>1. m.asked = k.asked /\ Asking(m, turn) = Asking(k, turn)
  BY DEF Tells, Asking
<1>2. Heard(m, H)
  BY <1>1, HeardOn
<1> DEFINE a == k.asked
           d == Len(k.did)
           e == Len(m.did)
<1>3. a \in Nat /\ d \in Nat /\ e \in Nat /\ d <= e /\ e <= a
  BY <1>1, <1>2, HeardFacts DEF Tells
<1>4. Sound(m)
  BY DEF Goes
<1>5. ReadOK(m.sent, m.dn) /\ IsSeq(m.dn)
  BY <1>4, SoundFacts
<1> HIDE DEF a, d, e
<1>6. CASE turn
  <2>1. Turn(k)
    BY <1>6 DEF Held
  <2>2. a > 0 /\ a - 1 <= d /\ a - 1 <= e
    BY <1>3, <2>1 DEF Turn, a, d
  <2>3. ASSUME NEW i \in 1 .. Len(m.dn), m.dn[i].kind = "status" PROVE m.dn[i].of = a
    <3>1. Unread(k, m.dn[i].of) \/ (m.dn[i].of = e /\ (d < e \/ k.wait # None))
      BY <2>3 DEF Tells, d, e
    <3>2. CASE Unread(k, m.dn[i].of)
      BY <2>1, <3>2 DEF Unread, Turn, a
    <3>3. CASE m.dn[i].of = e /\ d < e
      BY <1>3, <2>2, <3>3
    <3>4. CASE m.dn[i].of = e /\ k.wait # None
      BY <1>3, <2>1, <3>4 DEF Turn, a, d
    <3> QED BY <3>1, <3>2, <3>3, <3>4
  <2>4. ASSUME m.wait # None PROVE e = a
    <3>1. k.wait # None \/ d < e
      BY <2>4 DEF Tells, d, e
    <3>2. k.wait # None => d = a
      BY <2>1 DEF Turn, d, a
    <3> QED BY <1>3, <2>2, <3>1, <3>2
  <2>5. Turn(m)
    BY <1>1, <2>2, <2>3, <2>4 DEF Turn, a, e
  <2> QED BY <1>1, <1>2, <1>6, <2>5 DEF Held
<1>7. CASE ~turn /\ Still(k)
  <2>1. d = a /\ e = a /\ k.wait = None /\ k.dn = <<>>
    BY <1>3, <1>7 DEF Still, a, d
  <2>2. \A n : ~Unread(k, n)
    <3>1. Len(k.dn) = 0
      BY <2>1
    <3> QED BY <3>1 DEF Unread
  <2>3. ~(d < e)
    BY <1>3, <2>1
  <2>4. m.wait = None
    BY <2>1, <2>3 DEF Tells, d, e
  <2>5. m.dn = <<>>
    <3> SUFFICES ASSUME m.dn # <<>> PROVE FALSE
      OBVIOUS
    <3>1. m.dn[1].kind = "status" /\ 1 \in 1 .. Len(m.dn)
      BY <1>5, SeqFacts DEF ReadOK
    <3>2. Unread(k, m.dn[1].of) \/ d < e \/ k.wait # None
      BY <3>1 DEF Tells, d, e
    <3> QED BY <2>1, <2>2, <2>3, <3>2
  <2>6. Still(m)
    BY <1>1, <2>1, <2>4, <2>5 DEF Still, a, e
  <2> QED BY <1>1, <1>2, <1>7, <2>6 DEF Held
<1>8. CASE ~turn /\ ~kept /\ k.st = "closed"
  <2>1. m.st = "closed"
    BY <1>8 DEF Tells
  <2> QED BY <1>1, <1>2, <1>8, <2>1 DEF Held
<1> QED BY <1>6, <1>7, <1>8 DEF Held

(* What was noted stays true.                                                *)
LEMMA NotedOn ==
    ASSUME NEW k, NEW H, Heard(k, H), NEW m, Tells(k, m), NEW turn \in BOOLEAN, NEW kept \in BOOLEAN,
           Held(k, turn, kept), Len(m.did) \in Nat, NEW r, NEW cmd, Noted(r, cmd, k, H, Asking(k, turn))
    PROVE  Noted(r, cmd, m, H, Asking(k, turn))
<1>1. k.asked \in Nat /\ Len(k.did) \in Nat /\ Len(k.did) <= Len(m.did)
  BY HeardFacts DEF Tells
<1>2. r.no \in 1 .. Asking(k, turn) /\ Asking(k, turn) <= k.asked
  BY <1>1 DEF Noted, Asking
<1>3. ASSUME NEW v, v \in {"ok", "err"}, r.no <= Len(k.did) /\ k.did[r.no].is = v
      PROVE  r.no <= Len(m.did) /\ m.did[r.no].is = v
  <2>1. r.no \in Nat /\ r.no \in 1 .. Len(k.did) /\ r.no <= Len(m.did)
    <3>1. r.no \in Nat \ {0}
      <4>1. Asking(k, turn) \in Int
        BY <1>1 DEF Asking
      <4> QED BY <1>2, <4>1
    <3> QED BY <1>1, <1>3, <3>1
  <2>2. m.did = k.did \/ ~Unread(k, r.no)
    <3>1. CASE turn
      <4>1. r.no # k.asked
        BY <1>1, <1>2, <3>1 DEF Asking
      <4> QED BY <3>1, <4>1 DEF Held, Turn, Unread
    <3>2. CASE ~turn /\ Still(k)
      <4>1. Len(k.dn) = 0
        BY <3>2 DEF Still
      <4> QED BY <4>1 DEF Unread
    <3>3. CASE k.st = "closed"
      BY <3>3 DEF Tells
    <3> QED BY <3>1, <3>2, <3>3 DEF Held
  <2>3. m.did[r.no].is = k.did[r.no].is
    BY <1>3, <2>1, <2>2 DEF Tells
  <2> QED BY <1>3, <2>1, <2>3
<1> QED BY <1>3 DEF Noted

-----------------------------------------------------------------------------
(* The tool and its connections.                                             *)
InTurn(c) == lib.pc = "reply" /\ lib.sd = c
Kept(c) == lib.sd = c
Newest(H) == H[Len(H)]
Putting(cmd, H) == cmd.tool = "update" => Newest(H).cmd = "UPDATE" /\ Newest(H).vals = cmd.vals
NotedAll(c, k, H, n) ==
    \A i \in 1 .. Len(results) :
        results[i].conn = c /\ job.tool[i].tool = "update" => Noted(results[i], job.tool[i], k, H, n)
Said(c, H) ==
    /\ Heard(conn[c], H) /\ Held(conn[c], InTurn(c), Kept(c))
    /\ InTurn(c) => Putting(Cmd, H)
    /\ NotedAll(c, conn[c], H, Asking(conn[c], InTurn(c)))
Ours == Conns \ Raws
SaidInv ==
    /\ \A c \in Ours : \E H : Said(c, H)
    /\ \A i \in 1 .. Len(results) : results[i].conn # None => results[i].conn \in Ours

(* A command that is done has a result, on a connection or on none.          *)
Notes(r) == results' = Append(results, r)

(* What was noted before stays when a result of another connection follows.  *)
LEMMA NotedBefore ==
    ASSUME results \in Seq(Outcomes), job' = job, NEW c, NEW k, NEW H, NEW n, NotedAll(c, k, H, n), NEW r, Notes(r),
           r.conn = c /\ job.tool[Len(results) + 1].tool = "update" =>
              Noted(r, job.tool[Len(results) + 1], k, H, n)
    PROVE  NotedAll(c, k, H, n)'
<1> DEFINE l == Len(results)
<1>1. l \in Nat /\ IsSeq(results)
  BY DEF IsSeq
<1>2. Len(results') = l + 1 /\ results'[l + 1] = r /\ \A i \in 1 .. l : results'[i] = results[i]
  BY <1>1, AppendFacts DEF Notes
<1>3. ASSUME NEW i \in 1 .. l + 1, results'[i].conn = c, job.tool[i].tool = "update"
      PROVE  Noted(results'[i], job.tool[i], k, H, n)
  <2>1. CASE i = l + 1
    BY <1>2, <1>3, <2>1
  <2>2. CASE i # l + 1
    <3>1. i \in 1 .. l
      BY <1>1, <2>2
    <3> QED BY <1>2, <1>3, <3>1 DEF NotedAll
  <2> QED BY <2>1, <2>2
<1> QED BY <1>2, <1>3 DEF NotedAll, Noted

(* The tool has nothing to do with this connection, or waits for it.         *)
LEMMA SaidOn ==
    ASSUME results \in Seq(Outcomes), job' = job, NEW c \in Ours, NEW H, Said(c, H),
           Goes(conn[c], conn'[c]), Tells(conn[c], conn'[c]),
           InTurn(c)' <=> InTurn(c), Kept(c)' => Kept(c),
           results' = results \/ (~InTurn(c) /\ \E r : r.conn # c /\ Notes(r))
    PROVE  Said(c, H)'
<1>1. PICK k : k = conn[c]
  OBVIOUS
<1>2. PICK m : m = conn'[c]
  OBVIOUS
<1>3. PICK turn \in BOOLEAN : turn <=> InTurn(c)
  BY DEF InTurn
<1>4. PICK kept \in BOOLEAN : kept <=> Kept(c)
  BY DEF Kept
<1>5. /\ Goes(k, m) /\ Tells(k, m) /\ Heard(k, H) /\ Held(k, turn, kept)
      /\ NotedAll(c, k, H, Asking(k, turn))
  <2>1. Held(k, turn, kept) /\ Asking(k, turn) = Asking(conn[c], InTurn(c))
    BY <1>1, <1>3, <1>4 DEF Said, Held, Asking
  <2> QED BY <1>1, <1>2, <2>1 DEF Said
<1>6. Heard(m, H) /\ Held(m, turn, kept) /\ Asking(m, turn) = Asking(k, turn)
  BY <1>5, HeldOn
<1>7. Len(m.did) \in Nat
  BY <1>6, HeardFacts
<1>8. PICK n : n = Asking(k, turn)
  OBVIOUS
<1>9. NotedAll(c, m, H, n)
  BY <1>5, <1>7, <1>8, NotedOn DEF NotedAll
<1>10. NotedAll(c, m, H, n)'
  <2>1. CASE results' = results
    BY <1>9, <2>1 DEF NotedAll, Noted
  <2>2. ASSUME NEW r, r.conn # c, Notes(r) PROVE NotedAll(c, m, H, n)'
    BY <1>9, <2>2, NotedBefore
  <2> QED BY <2>1, <2>2
<1>11. Heard(conn'[c], H) /\ Held(conn'[c], InTurn(c)', Kept(c)')
  <2>1. (turn <=> InTurn(c)') /\ (Kept(c)' => kept)
    BY <1>3, <1>4
  <2> QED BY <1>2, <1>6, <2>1 DEF Held
<1>12. (InTurn(c) => Putting(Cmd, H))'
  <2>1. ASSUME InTurn(c)' PROVE Putting(Cmd', H)
    <3>1. InTurn(c) /\ results' = results
      BY <2>1
    <3> QED BY <3>1 DEF Said, Cmd, Putting
  <2> QED BY <2>1 DEF Putting
<1>13. n = Asking(conn'[c], InTurn(c)')
  BY <1>2, <1>3, <1>6, <1>8 DEF Asking
<1> QED BY <1>2, <1>10, <1>11, <1>12, <1>13 DEF Said, NotedAll, Noted

(* A connection that is opened.                                              *)
LEMMA NewTold == ASSUME NEW k, Silent(k), k.took = <<>> PROVE Told(k) /\ Still(k)
<1>1. /\ Len(k.did) = 0 /\ IsSeq(k.took) /\ Len(k.took) = 0 /\ IsSeq(k.sent) /\ Len(k.sent) = 0
      /\ DOMAIN k.sent = {}
  BY NothingIsSeq DEF Silent
<1>2. Told(k)
  BY <1>1 DEF Told, TakesOK, SignsOK, Statuses
<1> QED BY <1>1, <1>2 DEF Still, Silent

(* A request goes out.                                                       *)
LEMMA RequestTold ==
    ASSUME NEW k, Told(k), Still(k), NEW H, Heard(k, H), NEW line, NEW m, Says(k, m, line), m.asked = k.asked + 1,
           m.took = k.took
    PROVE  Told(m) /\ Turn(m) /\ Asking(m, TRUE) = k.asked
<1>1. m.did = k.did /\ m.sent = k.sent /\ m.dn = <<>> /\ m.wait = None /\ Len(k.did) = k.asked /\ k.asked \in Nat
  BY HeardFacts DEF Says, Still
<1>2. Told(m)
  BY <1>1 DEF Told
<1>3. m.asked > 0 /\ m.asked - 1 = k.asked
  BY <1>1
<1>4. Len(m.dn) = 0
  BY <1>1
<1>5. Turn(m)
  BY <1>1, <1>3, <1>4 DEF Turn
<1> QED BY <1>2, <1>3, <1>5 DEF Asking

(* The answer comes: it is the one to the last line, and there is no other.  *)
LEMMA AnswerTold ==
    ASSUME NEW k, Sound(k), Told(k), NEW H, Heard(k, H), Turn(k), k.dn # <<>>,
           NEW m, m = [k EXCEPT !.dn = SubSeq(k.dn, AnswerLength(k.dn) + 1, Len(k.dn))]
    PROVE  /\ Told(m) /\ Still(m) /\ Heard(m, H) /\ m.asked = k.asked /\ k.asked > 0
           /\ m.did[k.asked].is = IF k.dn[1].n < 0 THEN "err" ELSE "ok"
<1> DEFINE a == k.asked
           l == Len(k.dn)
           s == Len(k.sent)
           w == SubSeq(k.dn, AnswerLength(k.dn) + 1, Len(k.dn))
<1>1. Goes(k, m)
  BY AnswerReadGoes
<1>2. /\ m.did = k.did /\ m.sent = k.sent /\ m.took = k.took /\ m.asked = k.asked /\ m.dn = w
      /\ m.wait = k.wait
  BY DEF Sound, Fields
<1>3. /\ DidOK(k.did) /\ AnswersOK(k.did, k.sent) /\ ReadOK(k.sent, k.dn) /\ ReadOK(k.sent, w)
      /\ s \in Nat /\ l \in Nat \ {0} /\ l <= s /\ IsSeq(k.dn) /\ IsSeq(k.sent) /\ IsSeq(w)
  <2>1. ReadOK(m.sent, m.dn) /\ IsSeq(m.dn)
    BY <1>1, SoundFacts DEF Goes
  <2> QED BY <1>2, <2>1, SoundFacts, SeqFacts DEF ReadOK
<1>4. AnswerLength(k.dn) \in Nat \ {0}
  <2>1. k.dn[1].n \in Int
    <3>1. 1 \in 1 .. l /\ k.dn \in Seq(Sentences)
      BY <1>3 DEF ReadOK
    <3>2. k.dn[1] \in Sentences
      BY <3>1
    <3> QED BY <3>2 DEF Sentences
  <2> QED BY <2>1 DEF AnswerLength
<1>5. w # <<>> => Len(w) \in Nat \ {0} /\ Len(w) < l
  <2>1. k.dn \in Seq(Sentences)
    BY <1>3 DEF ReadOK
  <2> DEFINE x == AnswerLength(k.dn) + 1
             dn == k.dn
  <2>2. x \in Nat /\ x > 1
    BY <1>4
  <2>3. SubSeq(dn, x, l) # <<>> => Len(SubSeq(dn, x, l)) = l - x + 1 /\ x <= l
    <3> HIDE DEF x, dn
    <3>1. dn \in Seq(Sentences) /\ l = Len(dn)
      BY <2>1 DEF dn
    <3> QED BY <2>2, <3>1
  <2>4. Len(SubSeq(dn, x, l)) = l - x + 1 /\ x <= l =>
           Len(SubSeq(dn, x, l)) \in Nat \ {0} /\ Len(SubSeq(dn, x, l)) < l
    <3> HIDE DEF x, dn
    <3>1. l \in Nat
      BY <1>3
    <3> HIDE DEF l
    <3> QED BY <2>2, <3>1
  <2> QED BY <2>3, <2>4
<1> HIDE DEF w
<1> DEFINE i == (s - l) + 1
<1>6. i \in 1 .. s /\ k.dn[1] = k.sent[i] /\ k.dn[1].kind = "status"
  <2>1. i \in 1 .. s /\ 1 \in 1 .. l /\ s - l + 1 = i
    <3>1. s \in Nat /\ l \in Nat \ {0} /\ l <= s
      BY <1>3
    <3> HIDE DEF s, l
    <3> QED BY <3>1
  <2>2. k.dn[1] = k.sent[s - l + 1]
    BY <1>3, <2>1 DEF ReadOK
  <2> QED BY <1>3, <2>1, <2>2 DEF ReadOK
<1>7. i \in Statuses(k.sent) /\ k.sent[i].of = a
  <2>1. 1 \in 1 .. l
    BY <1>3
  <2>2. k.dn[1].of = a
    BY <1>6, <2>1 DEF Turn
  <2> QED BY <1>3, <1>6, <2>2, SeqFacts DEF Statuses
<1>8. a \in 1 .. Len(k.did) /\ k.did[a].is # "none"
  BY <1>3, <1>7, AnsweredLines
<1>9. a \in Nat \ {0} /\ Len(k.did) = a
  <2>1. a \in Nat /\ Len(k.did) \in Nat /\ Len(k.did) <= a
    BY HeardFacts
  <2> QED BY <1>8, <2>1
<1>10. k.wait = None
  BY <1>8, <1>9 DEF Sound, Talk, Waiting
<1>11. w = <<>>
  <2> SUFFICES ASSUME w # <<>> PROVE FALSE
    OBVIOUS
  <2> DEFINE j == (s - Len(w)) + 1
  <2>1. j \in 1 .. s /\ i < j /\ 1 \in 1 .. Len(w)
    <3>1. Len(w) \in Nat \ {0} /\ Len(w) < l /\ s \in Nat /\ l \in Nat \ {0} /\ l <= s
      BY <1>3, <1>5
    <3> HIDE DEF s, l
    <3> QED BY <3>1
  <2>2. w[1] = k.sent[j] /\ w[1].kind = "status"
    <3>1. w[1] = k.sent[Len(k.sent) - Len(w) + 1]
      BY <1>3, <2>1 DEF ReadOK
    <3> QED BY <1>3, <3>1 DEF ReadOK
  <2> HIDE DEF j, i
  <2>3. j \in Statuses(k.sent)
    BY <1>3, <2>1, <2>2, SeqFacts DEF Statuses
  <2>4. k.sent[j].of \in 1 .. Len(k.did) /\ a < k.sent[j].of
    <3>1. k.sent[i].of < k.sent[j].of
      BY <1>3, <1>7, <2>1, <2>3 DEF AnswersOK
    <3>2. k.sent[j].of \in 1 .. Len(k.did)
      BY <1>3, <2>3, AnsweredLines
    <3> QED BY <1>7, <3>1, <3>2
  <2> QED BY <1>9, <2>4
<1>12. k.did[a].is = IF k.dn[1].n < 0 THEN "err" ELSE "ok"
  <2>1. k.sent[i].n < 0 <=> k.did[k.sent[i].of].is = "err"
    BY <1>7 DEF Told, SignsOK
  <2>2. k.dn[1].n < 0 <=> k.did[a].is = "err"
    BY <1>6, <1>7, <2>1
  <2>3. k.did[a].is \in {"ok", "err"}
    BY <1>3, <1>8 DEF DidOK
  <2> QED BY <2>2, <2>3
<1>13. Told(m)
  BY <1>2 DEF Told
<1>14. Still(m)
  BY <1>2, <1>9, <1>10, <1>11 DEF Still
<1>15. Heard(m, H)
  BY <1>1, <1>2, HeardOn
<1> QED BY <1>2, <1>9, <1>12, <1>13, <1>14, <1>15

(* What a step has to show.                                                  *)
LEMMA SaidHolds ==
    ASSUME results \in Seq(Outcomes), job' = job, SaidInv, \A c \in Conns : Told(conn'[c]),
           \A c \in Ours : \E H : Said(c, H)',
           results' = results \/ \E r : Notes(r) /\ r.conn \in Ours \union {None}
    PROVE  ToldInv' /\ SaidInv'
<1>1. Ours' = Ours
  BY DEF Ours, Raws
<1>2. ASSUME NEW i \in 1 .. Len(results'), results'[i].conn # None PROVE results'[i].conn \in Ours
  <2>1. CASE results' = results
    BY <1>2, <2>1 DEF SaidInv
  <2>2. ASSUME NEW r, Notes(r), r.conn \in Ours \union {None} PROVE results'[i].conn \in Ours
    <3>1. IsSeq(results) /\ Len(results) \in Nat
      BY DEF IsSeq
    <3>2. /\ Len(results') = Len(results) + 1 /\ results'[Len(results) + 1] = r
          /\ \A j \in 1 .. Len(results) : results'[j] = results[j]
      BY <2>2, <3>1, AppendFacts DEF Notes
    <3>3. i = Len(results) + 1 \/ i \in 1 .. Len(results)
      BY <3>1, <3>2
    <3> QED BY <1>2, <2>2, <3>2, <3>3 DEF SaidInv
  <2> QED BY <2>1, <2>2
<1> QED BY <1>1, <1>2 DEF ToldInv, SaidInv

(* The daemon's steps, and those of the tool that leave its connections.     *)
LEMMA AllSaid ==
    ASSUME results \in Seq(Outcomes), job' = job, SaidInv, AllGo, AllTell,
           \A c \in Ours : (InTurn(c)' <=> InTurn(c)) /\ (Kept(c)' => Kept(c)),
           results' = results \/ ((\A c \in Ours : ~InTurn(c)) /\ \E r : r.conn = None /\ Notes(r))
    PROVE  ToldInv' /\ SaidInv'
<1>1. \A c \in Conns : Told(conn'[c])
  BY DEF AllTell, Tells
<1>2. ASSUME NEW c \in Ours PROVE \E H : Said(c, H)'
  <2>1. c \in Conns /\ c # None
    BY RrdProtocolAssumption DEF Ours
  <2>2. PICK H : Said(c, H)
    BY DEF SaidInv
  <2>3. Goes(conn[c], conn'[c]) /\ Tells(conn[c], conn'[c])
    BY <2>1 DEF AllGo, AllTell
  <2>4. results' = results \/ (~InTurn(c) /\ \E r : r.conn # c /\ Notes(r))
    BY <2>1
  <2>5. Said(c, H)'
    BY <2>2, <2>3, <2>4, SaidOn
  <2> QED BY <2>5
<1> QED BY <1>1, <1>2, SaidHolds

(* One connection changes in a way of its own.                               *)
LEMMA OneSaid ==
    ASSUME results \in Seq(Outcomes), job' = job, SaidInv, NEW c \in Conns, Told(conn'[c]),
           c \in Ours => \E H : Said(c, H)',
           \A d \in Conns : d # c => Goes(conn[d], conn'[d]) /\ Tells(conn[d], conn'[d]),
           \A d \in Ours : d # c => (InTurn(d)' <=> InTurn(d)) /\ (Kept(d)' => Kept(d)),
           results' = results \/ (c \in Ours /\ (\A d \in Ours : d # c => ~InTurn(d))
                                    /\ \E r : r.conn = c /\ Notes(r))
    PROVE  ToldInv' /\ SaidInv'
<1>1. \A d \in Conns : Told(conn'[d])
  BY DEF Tells
<1>2. ASSUME NEW d \in Ours, d # c PROVE \E H : Said(d, H)'
  <2>1. d \in Conns
    BY DEF Ours
  <2>2. PICK H : Said(d, H)
    BY DEF SaidInv
  <2>3. Goes(conn[d], conn'[d]) /\ Tells(conn[d], conn'[d])
    BY <1>2, <2>1
  <2>4. results' = results \/ (~InTurn(d) /\ \E r : r.conn # d /\ Notes(r))
    BY <1>2
  <2>5. (InTurn(d)' <=> InTurn(d)) /\ (Kept(d)' => Kept(d))
    BY <1>2
  <2>6. Said(d, H)'
    BY <2>2, <2>3, <2>4, <2>5, SaidOn
  <2> QED BY <2>6
<1>3. \A d \in Ours : \E H : Said(d, H)'
  BY <1>2
<1>4. results' = results \/ \E r : Notes(r) /\ r.conn \in Ours \union {None}
  OBVIOUS
<1> QED BY <1>1, <1>3, <1>4, SaidHolds

(* Clients that pipeline go on beside the tool.                              *)
LEMMA RawSaid ==
    ASSUME ConnShape, ConnsInv, SocketInv, job \in Jobs, results \in Seq(Outcomes), ToldInv, SaidInv,
           NEW c \in Conns, Raw(c)
    PROVE  ToldInv' /\ SaidInv'
<1> DEFINE k == conn[c]
<1>0. job' = job /\ lib' = lib /\ results' = results /\ c \in Raws /\ c \notin Ours
  BY DEF Raw, RawConnect, RawSend, RawLeave, rawUnchanged, libVars, Ours
<1>1. DOMAIN k = Fields /\ Told(k)
  BY DEF ConnsInv, Sound, ToldInv
<1>2. ASSUME NEW m, Told(m), Change(c, m) PROVE ToldInv' /\ SaidInv'
  <2>1. conn' = [conn EXCEPT ![c] = m]
    BY <1>2 DEF Change
  <2>2. conn'[c] = m /\ \A d \in Conns : d # c => conn'[d] = conn[d]
    BY <2>1 DEF ConnShape
  <2>3. \A d \in Conns : d # c => Goes(conn[d], conn'[d]) /\ Tells(conn[d], conn'[d])
    BY <2>2, SoundGoes, ItselfTells DEF ConnsInv
  <2>4. \A d \in Ours : (InTurn(d)' <=> InTurn(d)) /\ (Kept(d)' => Kept(d))
    BY <1>0 DEF InTurn, Kept
  <2> QED BY <1>0, <1>2, <2>2, <2>3, <2>4, OneSaid
<1>3. ASSUME RawConnect(c) PROVE ToldInv' /\ SaidInv'
  <2> DEFINE a == job.raw[c].addr
             m == Opened(a)
  <2>1. Reachable(a) /\ Change(c, m) /\ a \in job.addrs
    BY <1>0, <1>3, RrdProtocolAssumption DEF RawConnect, Raws
  <2>2. Silent(m) /\ m.took = <<>>
    <3>1. m.took = <<>>
      BY DEF Opened, Idle
    <3> HIDE DEF a
    <3> QED BY <2>1, <3>1, OpenedSilent
  <2> HIDE DEF m
  <2>3. Told(m)
    BY <2>2, NewTold
  <2> QED BY <1>2, <2>1, <2>3
<1>4. ASSUME NEW m, m.did = k.did, m.sent = k.sent, m.took = k.took, Change(c, m) PROVE ToldInv' /\ SaidInv'
  <2>1. Told(m)
    BY <1>1, <1>4 DEF Told
  <2> QED BY <1>2, <1>4, <2>1
<1>5. ASSUME RawSend(c) PROVE ToldInv' /\ SaidInv'
  <2> DEFINE next == k.asked + 1
             m == [k EXCEPT !.up = @ \o Pieces(job.raw[c].lines[next]), !.asked = next]
  <2>1. Change(c, m)
    BY <1>5 DEF RawSend
  <2>2. m.did = k.did /\ m.sent = k.sent /\ m.took = k.took
    BY <1>1 DEF Fields
  <2> HIDE DEF m
  <2> QED BY <1>4, <2>1, <2>2
<1>6. ASSUME RawLeave(c) PROVE ToldInv' /\ SaidInv'
  <2> DEFINE m == [k EXCEPT !.hup = TRUE]
  <2>1. Change(c, m)
    BY <1>6 DEF RawLeave
  <2>2. m.did = k.did /\ m.sent = k.sent /\ m.took = k.took
    BY <1>1 DEF Fields
  <2> HIDE DEF m
  <2> QED BY <1>4, <2>1, <2>2
<1> QED BY <1>3, <1>5, <1>6 DEF Raw

-----------------------------------------------------------------------------
(* The tool.                                                                 *)
ToolKnows ==
    /\ LInv /\ ConnsInv /\ SocketInv /\ job \in Jobs /\ ToldInv /\ SaidInv
    /\ AtWork => Len(results) + 1 \in 1 .. Len(job.tool)

(* What it knows of its connection.                                          *)
LEMMA Known ==
    ASSUME ToolKnows
    PROVE  /\ ConnShape /\ lib \in LibTypes /\ results \in Seq(Outcomes)
           /\ lib.sd # None => lib.sd \in Ours /\ lib.sd \in Conns
           /\ None \notin Conns /\ (lib.pc = "reply" => lib.sd # None)
BY RrdProtocolAssumption DEF ToolKnows, LInv, Shape, LibraryInv, Ours, Carries, AtWork

(* Hanging up is neither heard nor said.                                     *)
LEMMA HungTells ==
    ASSUME ConnShape, ConnsInv, ToldInv
    PROVE  /\ DOMAIN Hung(conn) = Conns
           /\ \A c \in Conns : Goes(conn[c], Hung(conn)[c]) /\ Tells(conn[c], Hung(conn)[c])
<1>1. ASSUME NEW c \in Conns PROVE Tells(conn[c], Hung(conn)[c])
  <2>1. CASE lib.sd = None
    BY <2>1, ItselfTells DEF Hung
  <2>2. CASE lib.sd # None
    <3> DEFINE h == [conn EXCEPT ![lib.sd].hup = TRUE]
    <3>1. Hung(conn) = h
      BY <2>2 DEF Hung
    <3>2. Stays(conn[c], h[c])
      BY DEF ConnShape, Stays, Fields
    <3> HIDE DEF h
    <3> QED BY <3>1, <3>2, StaysTells DEF ConnsInv, ToldInv
  <2> QED BY <2>1, <2>2
<1> QED BY <1>1, HungGoes

(* What it reads or writes itself, and what fails before it is sent.         *)
LEMMA AloneSaid ==
    ASSUME ToolKnows, job' = job, ToolFails \/ UpdatesItself \/ ReadsFile PROVE ToldInv' /\ SaidInv'
<1>1. PICK out : Finish(out, lib) /\ lib.pc = "ready" /\ conn' = conn
  BY DEF ToolFails, UpdatesItself, ReadsFile, ReadsItself
<1>2. ConnShape /\ lib \in LibTypes /\ results \in Seq(Outcomes) /\ ConnsInv /\ ToldInv /\ SaidInv
  BY Known DEF ToolKnows
<1>3. lib'.pc = "next" /\ lib'.sd = lib.sd
  BY <1>1, <1>2 DEF Finish, LibTypes
<1>4. Notes(Result(out)) /\ Result(out).conn = None
  BY <1>1 DEF Finish, Notes, Result
<1>5. \A c \in Ours : ~InTurn(c) /\ ~InTurn(c)' /\ (Kept(c)' => Kept(c))
  BY <1>1, <1>3 DEF InTurn, Kept
<1>6. AllGo /\ AllTell
  BY <1>1, <1>2, NoneGoes, NoneTells
<1> QED BY <1>2, <1>4, <1>5, <1>6, AllSaid

(* It hangs up when it exits.                                                *)
LEMMA ExitSaid == ASSUME ToolKnows, job' = job, ToolExits PROVE ToldInv' /\ SaidInv'
<1>1. ConnShape /\ lib \in LibTypes /\ results \in Seq(Outcomes) /\ ConnsInv /\ ToldInv /\ SaidInv
      /\ None \notin Conns
  BY Known DEF ToolKnows
<1>2. conn' = Hung(conn) /\ results' = results /\ lib'.sd = None /\ lib.pc # "reply" /\ lib'.pc = lib.pc
  BY DEF ToolExits, LibInit
<1>3. \A c \in Ours : ~InTurn(c) /\ ~InTurn(c)' /\ ~Kept(c)'
  BY <1>1, <1>2 DEF InTurn, Kept, Ours
<1>4. AllGo /\ AllTell
  BY <1>1, <1>2, HungTells DEF AllGo, AllTell
<1> QED BY <1>1, <1>2, <1>3, <1>4, AllSaid

(* It keeps its connection, or drops it and opens another or none.           *)
LEMMA ConnectSaid == ASSUME ToolKnows, job' = job, rrdc_connect PROVE ToldInv' /\ SaidInv'
<1>1. ConnShape /\ lib \in LibTypes /\ results \in Seq(Outcomes) /\ ConnsInv /\ ToldInv /\ SaidInv
      /\ None \notin Conns /\ SocketInv /\ job \in Jobs /\ LInv
  BY Known DEF ToolKnows
<1>2. results' = results /\ lib.pc = "next" /\ Len(results) < Len(job.tool)
  BY DEF rrdc_connect
<1>3. CASE conn' = conn /\ lib' = [lib EXCEPT !.pc = "ready", !.failed = FALSE, !.file = 1]
  <2>1. lib'.pc = "ready" /\ lib'.sd = lib.sd
    BY <1>1, <1>3 DEF LibTypes
  <2>2. \A c \in Ours : ~InTurn(c) /\ ~InTurn(c)' /\ (Kept(c)' => Kept(c))
    BY <1>2, <2>1 DEF InTurn, Kept
  <2> QED BY <1>1, <1>2, <1>3, <2>2, NoneGoes, NoneTells, AllSaid
<1>4. CASE conn' = Hung(conn) /\ lib' = [LibInit EXCEPT !.pc = "ready", !.failed = TRUE]
  <2>1. lib'.pc = "ready" /\ lib'.sd = None
    BY <1>4 DEF LibInit
  <2>2. \A c \in Ours : ~InTurn(c) /\ ~InTurn(c)' /\ ~Kept(c)'
    BY <1>1, <1>2, <2>1 DEF InTurn, Kept, Ours
  <2>3. AllGo /\ AllTell
    BY <1>1, <1>4, HungTells DEF AllGo, AllTell
  <2> QED BY <1>1, <1>2, <2>2, <2>3, AllSaid
<1>5. ASSUME NEW c \in Conns, Named # None, Reachable(Named), IsFresh(c),
             conn' = [Hung(conn) EXCEPT ![c] = Opened(Named)],
             lib' = [LibInit EXCEPT !.pc = "ready", !.sd = c, !.sd_path = Named]
      PROVE  ToldInv' /\ SaidInv'
  <2> DEFINE m == Opened(Named)
             h == Hung(conn)
  <2>1. Silent(m) /\ m.took = <<>>
    <3>1. Len(results) + 1 \in 1 .. Len(job.tool)
      <4>1. Len(results) \in Nat /\ Len(job.tool) \in Nat
        BY <1>1, RrdProtocolAssumption
      <4> QED BY <1>2, <4>1
    <3>2. Named \in job.addrs
      BY <1>1, <1>5, <3>1, NamedAddress
    <3>3. m.took = <<>>
      BY DEF Opened, Idle
    <3> QED BY <1>1, <1>5, <3>2, <3>3, OpenedSilent
  <2> HIDE DEF m
  <2>2. Told(m) /\ Still(m)
    BY <2>1, NewTold
  <2>3. lib'.pc = "ready" /\ lib'.sd = c
    BY <1>5 DEF LibInit
  <2>4. DOMAIN h = Conns /\ \A d \in Conns : Goes(conn[d], h[d]) /\ Tells(conn[d], h[d])
    BY <1>1, HungTells
  <2> HIDE DEF h
  <2>5. conn'[c] = m /\ \A d \in Conns : d # c => conn'[d] = h[d]
    BY <1>5, <2>4 DEF m, h
  <2>6. \E H : Said(c, H)'
    <3>1. PICK H : H = <<>>
      OBVIOUS
    <3>2. Heard(m, H)
      BY <2>1, <3>1, HeardNothing
    <3>3. ~InTurn(c)'
      BY <2>3 DEF InTurn
    <3>4. Held(m, InTurn(c)', Kept(c)')
      BY <2>2, <3>3 DEF Held
    <3>5. \A i \in 1 .. Len(results) : results[i].conn # c
      <4>1. conn[c].st = "new" /\ c # None
        BY <1>1, <1>5 DEF IsFresh
      <4> QED BY <1>1, <4>1 DEF LInv, ResultsInv, Rightly, Carries
    <3>6. Said(c, H)'
      BY <1>2, <2>5, <3>2, <3>3, <3>4, <3>5 DEF Said, NotedAll
    <3> QED BY <3>6
  <2>7. \A d \in Ours : d # c => ~InTurn(d) /\ ~InTurn(d)' /\ ~Kept(d)'
    BY <1>2, <2>3 DEF InTurn, Kept
  <2>8. \A d \in Conns : d # c => Goes(conn[d], conn'[d]) /\ Tells(conn[d], conn'[d])
    BY <2>4, <2>5
  <2> QED BY <1>1, <1>2, <2>2, <2>5, <2>6, <2>7, <2>8, OneSaid
<1> QED BY <1>3, <1>4, <1>5 DEF rrdc_connect

(* The request is a line of an UPDATE with its values, or none of an UPDATE. *)
LEMMA RequestPuts ==
    ASSUME job \in Jobs, Len(results) + 1 \in 1 .. Len(job.tool)
    PROVE  /\ Request.size \in Nat \ {0} /\ IsSeq(Request.vals) /\ Request.cmd # "endless"
           /\ Cmd.tool = "update" => Request.cmd = "UPDATE" /\ Request.vals = Cmd.vals
<1>1. Cmd.tool \in {"update", "flushcached", "fetch", "stats"}
  BY RrdProtocolAssumption DEF Cmd
<1>2. Cmd.tool = "update" => Request.cmd = "UPDATE" /\ Request.vals = Cmd.vals
  BY DEF Request
<1>3. Cmd.tool # "update" => Request.cmd \in {"FLUSH", "STATS"}
  BY <1>1 DEF Request
<1>4. Request.cmd # "endless"
  BY <1>2, <1>3
<1> QED BY <1>2, <1>4, RequestIsLine

(* It asks, or dies of asking.                                               *)
LEMMA SendSaid == ASSUME ToolKnows, job' = job, Send PROVE ToldInv' /\ SaidInv'
<1>1. ConnShape /\ lib \in LibTypes /\ results \in Seq(Outcomes) /\ ConnsInv /\ ToldInv /\ SaidInv
      /\ None \notin Conns
  BY Known DEF ToolKnows
<1>2. lib.pc = "ready" /\ lib.sd \in Ours /\ lib.sd \in Conns /\ AtWork
  BY Known DEF Send, rrdc_is_connected, AtWork
<1>3. CASE conn' = conn /\ lib' = [lib EXCEPT !.pc = "dead"] /\ results' = Append(results, Result("killed"))
  <2>1. lib'.pc = "dead" /\ lib'.sd = lib.sd
    BY <1>1, <1>3 DEF LibTypes
  <2>2. \A c \in Ours : ~InTurn(c) /\ ~InTurn(c)' /\ (Kept(c)' => Kept(c))
    BY <1>2, <2>1 DEF InTurn, Kept
  <2>3. Notes(Result("killed")) /\ Result("killed").conn = None
    BY <1>2, <1>3 DEF Notes, Result
  <2>4. AllGo /\ AllTell
    BY <1>1, <1>3, NoneGoes, NoneTells
  <2> QED BY <1>1, <2>2, <2>3, <2>4, AllSaid
<1>4. CASE /\ lib' = [lib EXCEPT !.pc = "reply"] /\ results' = results
           /\ Change(lib.sd, [conn[lib.sd] EXCEPT !.up = @ \o Pieces(Request), !.asked = @ + 1])
  <2>1. PICK c \in Ours : c = lib.sd
    BY <1>2
  <2>2. PICK line : line = Request
    OBVIOUS
  <2>3. PICK cmd : cmd = Cmd
    OBVIOUS
  <2>4. /\ line.size \in Nat \ {0} /\ IsSeq(line.vals) /\ line.cmd # "endless"
        /\ cmd.tool = "update" => line.cmd = "UPDATE" /\ line.vals = cmd.vals
    BY <1>2, <2>2, <2>3, RequestPuts DEF ToolKnows
  <2> DEFINE k == conn[c]
             m == [k EXCEPT !.up = @ \o Pieces(line), !.asked = @ + 1]
  <2>5. conn' = [conn EXCEPT ![c] = m] /\ c \in Conns
    BY <1>2, <1>4, <2>1, <2>2 DEF Change
  <2>6. Sound(k) /\ Told(k) /\ DOMAIN k = Fields
    BY <2>5 DEF ConnsInv, Sound, ToldInv, ToolKnows
  <2>7. PICK H : Said(c, H)
    BY <1>1 DEF SaidInv
  <2>8. Heard(k, H) /\ Still(k) /\ NotedAll(c, k, H, k.asked)
    <3>1. ~InTurn(c) /\ Kept(c)
      BY <1>2, <2>1 DEF InTurn, Kept
    <3> QED BY <2>7, <3>1 DEF Said, Held, Asking
  <2>9. Says(k, m, line) /\ m.asked = k.asked + 1 /\ m.took = k.took
    <3> HIDE DEF k
    <3> QED BY <2>6 DEF Says, Fields
  <2>10. \A d \in Conns : d # c => conn'[d] = conn[d]
    BY <1>1, <2>5 DEF ConnShape
  <2>11. conn'[c] = m
    BY <1>1, <2>5 DEF ConnShape
  <2> HIDE DEF m
  <2>12. Sound(m) /\ Heard(m, Append(H, line)) /\ Told(m) /\ Turn(m) /\ Asking(m, TRUE) = k.asked
    <3> HIDE DEF k
    <3>1. Sound(m) /\ Heard(m, Append(H, line))
      BY <2>4, <2>6, <2>8, <2>9, HeardNext
    <3>2. Told(m) /\ Turn(m) /\ Asking(m, TRUE) = k.asked
      BY <2>6, <2>8, <2>9, RequestTold
    <3> QED BY <3>1, <3>2
  <2>13. PICK G : G = Append(H, line)
    OBVIOUS
  <2>14. /\ Len(H) = k.asked /\ k.asked \in Nat /\ Len(G) = k.asked + 1 /\ G[Len(H) + 1] = line
         /\ \A i \in 1 .. k.asked : G[i] = H[i]
    <3>1. IsSeq(H) /\ Len(H) = k.asked /\ k.asked \in Nat
      BY <2>8, HeardFacts DEF Heard
    <3> HIDE DEF k
    <3> QED BY <2>13, <3>1, AppendFacts
  <2>15. NotedAll(c, m, G, k.asked)
    <3>1. m.did = k.did
      BY <2>9 DEF Says
    <3> HIDE DEF k
    <3>2. ASSUME NEW r, NEW x, Noted(r, x, k, H, k.asked) PROVE Noted(r, x, m, G, k.asked)
      BY <2>14, <3>1, <3>2 DEF Noted
    <3> QED BY <2>8, <3>2 DEF NotedAll
  <2>16. lib'.pc = "reply" /\ lib'.sd = c
    BY <1>1, <1>4, <2>1 DEF LibTypes
  <2>17. Said(c, G)'
    <3>1. Putting(cmd, G)
      BY <2>4, <2>14 DEF Putting, Newest
    <3>2. Cmd' = cmd
      BY <1>4, <2>3 DEF Cmd
    <3>3. InTurn(c)' /\ Asking(conn'[c], InTurn(c)') = k.asked
      <4>1. InTurn(c)'
        BY <2>16 DEF InTurn
      <4> QED BY <2>11, <2>12, <4>1 DEF Asking
    <3>4. Heard(conn'[c], G) /\ Held(conn'[c], InTurn(c)', Kept(c)')
      BY <2>11, <2>12, <2>13, <3>3 DEF Held
    <3>5. NotedAll(c, conn[c], G, Asking(conn[c], InTurn(c)))'
      <4> HIDE DEF k
      <4>1. NotedAll(c, m, G, Asking(conn'[c], InTurn(c)'))
        BY <2>15, <3>3
      <4> QED BY <1>4, <2>11, <4>1 DEF NotedAll
    <3>6. (InTurn(c) => Putting(Cmd, G))'
      BY <3>1, <3>2 DEF Putting
    <3> QED BY <3>4, <3>5, <3>6 DEF Said
  <2>18. \A d \in Ours : d # c => ~InTurn(d) /\ ~InTurn(d)' /\ ~Kept(d)'
    BY <2>1, <2>16 DEF InTurn, Kept
  <2>19. \A d \in Conns : d # c => Goes(conn[d], conn'[d]) /\ Tells(conn[d], conn'[d])
    BY <1>1, <2>10, SoundGoes, ItselfTells DEF ConnsInv
  <2>20. Told(conn'[c])
    BY <2>11, <2>12
  <2>21. \E F : Said(c, F)'
    BY <2>17
  <2> QED BY <1>1, <1>4, <2>5, <2>18, <2>19, <2>20, <2>21, OneSaid
<1> QED BY <1>3, <1>4 DEF Send

(* The answer, or the end of the file, is noted of the command.              *)
LEMMA LastNoted ==
    ASSUME ToolKnows, job' = job, lib.pc = "reply", NEW c \in Ours, c = lib.sd, NEW m, NEW H, Heard(m, H),
           m.asked = conn[c].asked, m.asked > 0, Putting(Cmd, H), NotedAll(c, m, H, m.asked - 1),
           NEW out, Notes(Result(out)),
           Cmd.tool = "update" => /\ out \in {"ok", "refused", "lost"}
                                  /\ out = "ok" => Len(m.did) = m.asked /\ m.did[m.asked].is = "ok"
                                  /\ out = "refused" => Len(m.did) = m.asked /\ m.did[m.asked].is = "err"
    PROVE  NotedAll(c, m, H, m.asked)'
<1> DEFINE a == m.asked
<1>1. a \in Nat \ {0} /\ Len(H) = a /\ results \in Seq(Outcomes)
  BY HeardFacts, Known DEF Heard
<1>2. Result(out).conn = c /\ Result(out).no = a /\ Result(out).out = out
  BY DEF Result
<1> HIDE DEF a
<1>3. NotedAll(c, m, H, a)
  <2>1. \A n : n \in 1 .. a - 1 => n \in 1 .. a
    BY <1>1
  <2>2. ASSUME NEW r, NEW x, Noted(r, x, m, H, a - 1) PROVE Noted(r, x, m, H, a)
    BY <2>1, <2>2 DEF Noted
  <2> QED BY <2>2 DEF NotedAll, a
<1>4. Cmd.tool = "update" => Noted(Result(out), Cmd, m, H, a)
  <2> SUFFICES ASSUME Cmd.tool = "update" PROVE Noted(Result(out), Cmd, m, H, a)
    OBVIOUS
  <2>1. H[a].cmd = "UPDATE" /\ H[a].vals = Cmd.vals
    BY <1>1 DEF Putting, Newest
  <2>2. PICK cmd : cmd = Cmd
    OBVIOUS
  <2>3. PICK r : r = Result(out)
    OBVIOUS
  <2>4. r.no = a /\ r.out = out /\ a \in 1 .. a
    BY <1>1, <1>2, <2>3
  <2>5. Noted(r, cmd, m, H, a)
    BY <1>1, <2>1, <2>2, <2>4 DEF Noted, a
  <2> QED BY <2>2, <2>3, <2>5
<1>5. Cmd = job.tool[Len(results) + 1]
  BY DEF Cmd
<1>6. PICK r : r = Result(out)
  OBVIOUS
<1>7. NotedAll(c, m, H, a)'
  BY <1>1, <1>3, <1>4, <1>5, <1>6, NotedBefore
<1> QED BY <1>7 DEF a, NotedAll, Noted

(* The answer is read, and the tool notes what it says or goes on asking.    *)
LEMMA AnswerSaid == ASSUME ToolKnows, job' = job, GotAnswer PROVE ToldInv' /\ SaidInv'
<1>1. ConnShape /\ lib \in LibTypes /\ results \in Seq(Outcomes) /\ ConnsInv /\ ToldInv /\ SaidInv
  BY Known DEF ToolKnows
<1>2. lib.pc = "reply" /\ lib.sd \in Ours /\ lib.sd \in Conns /\ conn[lib.sd].dn # <<>>
  BY Known DEF GotAnswer
<1>3. PICK c \in Ours : c = lib.sd
  BY <1>2
<1> DEFINE k == conn[c]
           left == [k EXCEPT !.dn = SubSeq(k.dn, AnswerLength(k.dn) + 1, Len(k.dn))]
           n == k.dn[1].n
<1>0. PICK m : m = left
  OBVIOUS
<1>4. conn' = [conn EXCEPT ![c] = m] /\ c \in Conns
  BY <1>0, <1>2, <1>3 DEF GotAnswer
<1>5. Sound(k) /\ Told(k) /\ k.dn # <<>>
  BY <1>1, <1>2, <1>3, <1>4 DEF ConnsInv, ToldInv
<1>6. PICK H : Said(c, H)
  BY <1>1 DEF SaidInv
<1>7. InTurn(c)
  BY <1>2, <1>3 DEF InTurn
<1>8. Heard(k, H) /\ Turn(k) /\ Putting(Cmd, H) /\ NotedAll(c, k, H, k.asked - 1)
  BY <1>6, <1>7 DEF Said, Held, Asking
<1>9. conn'[c] = m /\ \A d \in Conns : d # c => conn'[d] = conn[d]
  BY <1>1, <1>4 DEF ConnShape
<1>10. m.did = k.did
  BY <1>0, <1>5 DEF Sound, Fields
<1>11. /\ Told(m) /\ Still(m) /\ Heard(m, H) /\ m.asked = k.asked /\ k.asked > 0
       /\ m.did[k.asked].is = IF n < 0 THEN "err" ELSE "ok"
  <2> HIDE DEF k
  <2> QED BY <1>0, <1>5, <1>8, AnswerTold
<1>12. NotedAll(c, m, H, m.asked - 1)
  <2> HIDE DEF k
  <2> QED BY <1>8, <1>10, <1>11 DEF NotedAll, Noted
<1>13. lib'.pc # "reply" /\ lib'.sd = c /\ (results' = results \/ \E out : Notes(Result(out)))
  <2>1. ASSUME NEW out, Finish(out, lib) PROVE lib'.pc = "next" /\ lib'.sd = c /\ Notes(Result(out))
    BY <1>1, <1>3, <2>1 DEF Finish, LibTypes, Notes
  <2>2. CASE lib' = [lib EXCEPT !.pc = "ready", !.file = @ + 1] /\ results' = results
    BY <1>1, <1>3, <2>2 DEF LibTypes
  <2>3. (\E out : Finish(out, lib)) \/ (lib' = [lib EXCEPT !.pc = "ready", !.file = @ + 1] /\ results' = results)
    BY DEF GotAnswer, UpdateAnswered, StatsAnswered, FlushAnswered, FlushcachedAnswered, ReadsItself
  <2> QED BY <2>1, <2>2, <2>3
<1>14. NotedAll(c, m, H, m.asked)'
  <2>1. CASE Cmd.tool = "update"
    <3>1. Finish(IF n < 0 THEN "refused" ELSE "ok", lib)
      BY <1>3, <2>1 DEF GotAnswer, UpdateAnswered, StatsAnswered, FlushAnswered, FlushcachedAnswered
    <3>2. PICK out : out = IF n < 0 THEN "refused" ELSE "ok"
      OBVIOUS
    <3>3. Notes(Result(out))
      BY <3>1, <3>2 DEF Finish, Notes
    <3>4. /\ out \in {"ok", "refused", "lost"}
          /\ out = "ok" => m.did[m.asked].is = "ok"
          /\ out = "refused" => m.did[m.asked].is = "err"
      BY <1>11, <3>2
    <3>5. Len(m.did) = m.asked
      BY <1>11 DEF Still
    <3> QED BY <1>2, <1>3, <1>8, <1>11, <1>12, <3>3, <3>4, <3>5, LastNoted
  <2>2. CASE Cmd.tool # "update"
    <3>1. ASSUME NEW out, Notes(Result(out)) PROVE NotedAll(c, m, H, m.asked)'
      <4> HIDE DEF k
      <4> QED BY <1>2, <1>3, <1>8, <1>11, <1>12, <2>2, <3>1, LastNoted DEF k
    <3>2. ASSUME results' = results PROVE NotedAll(c, m, H, m.asked)'
      <4>1. m.asked \in Nat \ {0}
        BY <1>11, HeardFacts
      <4>2. \A i : i \in 1 .. m.asked - 1 => i \in 1 .. m.asked
        BY <4>1
      <4>3. NotedAll(c, m, H, m.asked)
        BY <1>12, <4>2 DEF NotedAll, Noted
      <4> QED BY <3>2, <4>3 DEF NotedAll, Noted
    <3> QED BY <1>13, <3>1, <3>2
  <2> QED BY <2>1, <2>2
<1>15. Said(c, H)'
  <2>1. ~InTurn(c)'
    BY <1>13 DEF InTurn
  <2>2. Heard(conn'[c], H) /\ Held(conn'[c], InTurn(c)', Kept(c)') /\ Asking(conn'[c], InTurn(c)') = m.asked
    BY <1>9, <1>11, <2>1 DEF Held, Asking
  <2>3. NotedAll(c, conn[c], H, Asking(conn[c], InTurn(c)))'
    BY <1>9, <1>14, <2>2 DEF NotedAll, Noted
  <2> QED BY <2>1, <2>2, <2>3 DEF Said
<1>16. \A d \in Ours : d # c => ~InTurn(d) /\ ~InTurn(d)' /\ (Kept(d)' => Kept(d))
  BY <1>3, <1>13 DEF InTurn, Kept
<1>17. \A d \in Conns : d # c => Goes(conn[d], conn'[d]) /\ Tells(conn[d], conn'[d])
  BY <1>1, <1>9, SoundGoes, ItselfTells DEF ConnsInv
<1>18. results' = results \/ \E r : r.conn = c /\ Notes(r)
  BY <1>2, <1>3, <1>13 DEF Result
<1>19. Told(conn'[c])
  BY <1>9, <1>11
<1>20. \E F : Said(c, F)'
  BY <1>15
<1> QED BY <1>1, <1>4, <1>16, <1>17, <1>18, <1>19, <1>20, OneSaid

(* There is no answer to come.                                               *)
LEMMA NothingSaid == ASSUME ToolKnows, job' = job, GotNothing PROVE ToldInv' /\ SaidInv'
<1>1. ConnShape /\ lib \in LibTypes /\ results \in Seq(Outcomes) /\ ConnsInv /\ ToldInv /\ SaidInv
      /\ None \notin Conns
  BY Known DEF ToolKnows
<1>2. lib.pc = "reply" /\ lib.sd \in Ours /\ lib.sd \in Conns /\ conn[lib.sd].st = "closed"
  BY Known DEF GotNothing
<1>3. PICK c \in Ours : c = lib.sd
  BY <1>2
<1> DEFINE h == Hung(conn)
           k == conn[c]
<1>4. lib'.sd = None /\ lib'.pc = "next" /\ Notes(Result("lost")) /\ conn' = h /\ c \in Conns
  <2>1. lib' = [[lib EXCEPT !.sd = None, !.sd_path = None] EXCEPT !.pc = "next"]
    BY DEF GotNothing, Finish
  <2>2. lib'.sd = None /\ lib'.pc = "next"
    BY <1>1, <2>1 DEF LibTypes
  <2> QED BY <1>2, <1>3, <2>2 DEF GotNothing, Finish, Notes
<1>5. \A d \in Conns : Goes(conn[d], conn'[d]) /\ Tells(conn[d], conn'[d])
  BY <1>1, <1>4, HungTells
<1> HIDE DEF h
<1>6. PICK H : Said(c, H)
  BY <1>1 DEF SaidInv
<1>7. InTurn(c)
  BY <1>2, <1>3 DEF InTurn
<1>8. Heard(k, H) /\ Turn(k) /\ Putting(Cmd, H) /\ NotedAll(c, k, H, k.asked - 1)
  BY <1>6, <1>7 DEF Said, Held, Asking
<1>9. PICK m : m = conn'[c]
  OBVIOUS
<1>10. Goes(k, m) /\ Tells(k, m) /\ m.asked = k.asked /\ m.st = "closed" /\ m.did = k.did /\ Told(m)
  <2>1. Goes(k, m) /\ Tells(k, m) /\ k.st = "closed"
    BY <1>2, <1>3, <1>4, <1>5, <1>9
  <2> QED BY <2>1 DEF Tells
<1>11. Heard(m, H)
  <2> HIDE DEF k
  <2> QED BY <1>8, <1>10, HeardOn
<1>12. NotedAll(c, m, H, m.asked - 1)
  <2> HIDE DEF k
  <2> QED BY <1>8, <1>10 DEF NotedAll, Noted
<1>13. NotedAll(c, m, H, m.asked)'
  <2>1. PICK out : out = "lost"
    OBVIOUS
  <2>2. Notes(Result(out)) /\ out \in {"ok", "refused", "lost"} /\ out # "ok" /\ out # "refused"
    BY <1>4, <2>1
  <2>3. m.asked > 0 /\ m.asked = conn[c].asked
    BY <1>8, <1>10 DEF Turn
  <2> QED BY <1>2, <1>3, <1>8, <1>11, <1>12, <2>2, <2>3, LastNoted
<1>14. Said(c, H)'
  <2>1. ~InTurn(c)' /\ ~Kept(c)'
    BY <1>1, <1>4 DEF InTurn, Kept
  <2>2. Heard(conn'[c], H) /\ Held(conn'[c], InTurn(c)', Kept(c)') /\ Asking(conn'[c], InTurn(c)') = m.asked
    BY <1>9, <1>10, <1>11, <2>1 DEF Held, Asking
  <2>3. NotedAll(c, conn[c], H, Asking(conn[c], InTurn(c)))'
    BY <1>9, <1>13, <2>2 DEF NotedAll, Noted
  <2> QED BY <2>1, <2>2, <2>3 DEF Said
<1>15. \A d \in Ours : d # c => ~InTurn(d) /\ ~InTurn(d)' /\ ~Kept(d)'
  BY <1>1, <1>3, <1>4 DEF InTurn, Kept, Ours
<1>16. \E r : r.conn = c /\ Notes(r)
  <2>1. Result("lost").conn = c
    BY <1>2, <1>3 DEF Result
  <2> QED BY <1>4, <2>1
<1>17. Told(conn'[c]) /\ \E F : Said(c, F)'
  BY <1>9, <1>10, <1>14
<1> QED BY <1>1, <1>4, <1>5, <1>15, <1>16, <1>17, OneSaid

-----------------------------------------------------------------------------
(* The invariant: from each line that a daemon took, values were taken once  *)
(* and as its answer says, and what is noted of an update is the answer to   *)
(* the line that carried its values.                                         *)
OutcomesInv == ToldInv /\ SaidInv

(* Nothing was said or noted at the beginning.                               *)
LEMMA OutcomesInit == ClientInit => OutcomesInv
<1> SUFFICES ASSUME ClientInit PROVE OutcomesInv
  OBVIOUS
<1>1. conn = [c \in Conns |-> Idle] /\ lib = LibInit /\ results = <<>>
  BY DEF ClientInit, Init
<1>2. Len(results) = 0 /\ lib.pc = "next"
  BY <1>1 DEF LibInit
<1>3. ASSUME NEW c \in Conns PROVE Silent(conn[c]) /\ conn[c].took = <<>>
  BY <1>1 DEF Silent, Idle, Fields
<1>4. \A c \in Conns : Told(conn[c]) /\ Still(conn[c])
  BY <1>3, NewTold
<1>5. ASSUME NEW c \in Ours PROVE \E H : Said(c, H)
  <2>1. c \in Conns
    BY DEF Ours
  <2>2. PICK H : H = <<>>
    OBVIOUS
  <2>3. Heard(conn[c], H)
    BY <1>3, <2>1, <2>2, HeardNothing
  <2>4. Said(c, H)
    BY <1>2, <1>4, <2>1, <2>3 DEF Said, Held, InTurn, NotedAll
  <2> QED BY <2>4
<1> QED BY <1>2, <1>4, <1>5 DEF OutcomesInv, ToldInv, SaidInv

(* It holds after every step, with the invariants before it.                 *)
LEMMA OutcomesStep == IInv /\ LInv /\ TInv /\ OutcomesInv /\ [Next]_vars => OutcomesInv'
<1> SUFFICES ASSUME IInv, LInv, TInv, OutcomesInv, [Next]_vars PROVE OutcomesInv'
  OBVIOUS
<1>0. /\ CacheInv /\ SocketInv /\ ConnsInv /\ ToolInv /\ job \in Jobs /\ ConnShape
      /\ ToldInv /\ SaidInv /\ results \in Seq(Outcomes)
  BY DEF TInv, IInv, Types, LInv, Shape, OutcomesInv
<1>1. CASE Next
  <2>1. job' = job
    BY <1>1, JobStays
  <2>2. CASE (Server \/ Signals) /\ UNCHANGED libVars
    <3>1. AllGo /\ AllTell
      BY <1>0, <2>2, ProcessGoes, ConnectionGoes, ProcessTells, ConnectionTells DEF Server, Signals
    <3>2. lib' = lib /\ results' = results
      BY <2>2 DEF libVars
    <3>3. \A c \in Ours : (InTurn(c)' <=> InTurn(c)) /\ (Kept(c)' => Kept(c))
      BY <3>2 DEF InTurn, Kept
    <3> QED BY <1>0, <2>1, <3>1, <3>2, <3>3, AllSaid DEF OutcomesInv
  <2>3. CASE \E c \in Conns : Raw(c)
    BY <1>0, <2>3, RawSaid DEF OutcomesInv
  <2>4. CASE Tool
    <3>1. ToolKnows
      BY <1>0 DEF ToolKnows, ToolInv
    <3> QED BY <2>1, <2>4, <3>1, AloneSaid, ExitSaid, ConnectSaid, SendSaid, AnswerSaid, NothingSaid
            DEF Tool, OutcomesInv
  <2> QED BY <1>1, <2>2, <2>3, <2>4 DEF Next
<1>2. CASE UNCHANGED vars
  <2>1. UNCHANGED <<job, conn, lib, results>>
    BY <1>2 DEF vars, serverVars
  <2>2. ToldInv'
    BY <1>0, <2>1 DEF ToldInv
  <2>3. AllGo /\ AllTell
    BY <1>0, <2>1, NoneGoes, NoneTells
  <2>4. \A c \in Ours : (InTurn(c)' <=> InTurn(c)) /\ (Kept(c)' => Kept(c))
    BY <2>1 DEF InTurn, Kept
  <2> QED BY <1>0, <2>1, <2>2, <2>3, <2>4, AllSaid DEF OutcomesInv
<1> QED BY <1>1, <1>2

(* What is noted of one update is what became of its values.                 *)
LEMMA NotedTrue ==
    ASSUME NEW k, Told(k), NEW H, Heard(k, H), NEW r, NEW cmd, Noted(r, cmd, k, H, k.asked), Readable(cmd.vals),
           NEW taken, taken = {n \in DOMAIN k.took : k.took[n].of = r.no}
    PROVE  /\ \A n, m \in taken : n = m
           /\ r.out = "ok" => \E n \in taken : k.took[n].vals = cmd.vals
           /\ r.out = "refused" => \A n \in taken : IsStrictPrefix(k.took[n].vals, cmd.vals)
           /\ \A n \in taken : IsPrefix(k.took[n].vals, cmd.vals)
<1>1. IsSeq(k.took) /\ DOMAIN k.took = 1 .. Len(k.took)
  BY SeqFacts DEF Told, TakesOK
<1>2. r.no \in 1 .. k.asked /\ H[r.no].cmd = "UPDATE" /\ H[r.no].vals = cmd.vals
  BY DEF Noted
<1>3. k.asked \in Nat /\ Len(k.did) \in Nat /\ \A i \in 1 .. Len(k.did) : k.did[i].line = H[i]
  BY HeardFacts
<1>4. ASSUME NEW n \in taken
      PROVE  /\ IsPrefix(k.took[n].vals, cmd.vals)
             /\ k.did[r.no].is = "ok" => k.took[n].vals = cmd.vals
             /\ k.did[r.no].is = "err" => k.took[n].vals # cmd.vals
  <2>1. /\ r.no \in 1 .. Len(k.did)
        /\ Fitting(k.took[n].vals, k.did[r.no].line, k.did[r.no].is)
    BY <1>1 DEF Told, TakesOK
  <2>2. k.did[r.no].line.vals = cmd.vals
    BY <1>2, <1>3, <2>1
  <2> QED BY <2>1, <2>2 DEF Fitting
<1>5. \A n, m \in taken : n = m
  BY <1>1 DEF Told, TakesOK
<1>6. ASSUME r.out = "ok" PROVE \E n \in taken : k.took[n].vals = cmd.vals
  <2>1. r.no \in 1 .. Len(k.did) /\ k.did[r.no].is = "ok"
    BY <1>2, <1>3, <1>6 DEF Noted
  <2>2. k.did[r.no].line.cmd = "UPDATE"
    BY <1>2, <1>3, <2>1
  <2>3. PICK n \in 1 .. Len(k.took) : k.took[n].of = r.no
    BY <2>1, <2>2 DEF Told, TakesOK
  <2> QED BY <1>1, <1>4, <2>1, <2>3
<1>7. ASSUME r.out = "refused", NEW n \in taken PROVE IsStrictPrefix(k.took[n].vals, cmd.vals)
  BY <1>4, <1>7 DEF Noted, IsStrictPrefix
<1> QED BY <1>4, <1>5, <1>6, <1>7

(* What rrdtool says of an update is what became of its values: all of them  *)
(* were taken, and once, when it says so; not all of them, but some from the *)
(* front or none, when the daemon refused; some from the front or none or    *)
(* all when the answer was lost - whatever the daemon does in between with   *)
(* other clients, and however it stops or crashes (rrdc_update,              *)
(* response_read, handle_request_update, send_response).                     *)
THEOREM OutcomesTold == Spec => []OutcomesAreTrue
<1>1. ClientInit => IInv /\ LInv /\ TInv /\ OutcomesInv
  BY NobodyClaims, InitHolds, AnswersInit, OutcomesInit DEF ClientInit
<1>2. IInv /\ LInv /\ TInv /\ OutcomesInv /\ [Next]_vars => (IInv /\ LInv /\ TInv /\ OutcomesInv)'
  BY NextHolds, LibraryNext, AnswersStep, OutcomesStep
<1>3. IInv /\ LInv /\ TInv /\ OutcomesInv => OutcomesAreTrue
  <2> SUFFICES ASSUME IInv, LInv, TInv, OutcomesInv PROVE OutcomesAreTrue
    OBVIOUS
  <2> SUFFICES ASSUME NEW i \in 1 .. Len(results) PROVE OutcomeTrue(results[i], job.tool[i])
    <3>1. results \in Seq(Outcomes)
      BY DEF LInv, Shape
    <3> QED BY <3>1 DEF OutcomesAreTrue
  <2> SUFFICES ASSUME results[i].conn # None, job.tool[i].tool = "update"
               PROVE  OutcomeTrue(results[i], job.tool[i])
    BY DEF OutcomeTrue
  <2>1. PICK c \in Ours : c = results[i].conn
    BY DEF OutcomesInv, SaidInv
  <2>2. PICK H : Said(c, H)
    BY DEF OutcomesInv, SaidInv
  <2>3. PICK r : r = results[i]
    OBVIOUS
  <2>4. PICK cmd : cmd = job.tool[i]
    OBVIOUS
  <2>5. PICK k : k = conn[c]
    OBVIOUS
  <2>6. Told(k) /\ Heard(k, H)
    BY <2>2, <2>5 DEF OutcomesInv, ToldInv, Ours, Said
  <2>7. Noted(r, cmd, k, H, k.asked)
    <3>1. Noted(r, cmd, k, H, Asking(k, InTurn(c)))
      BY <2>1, <2>2, <2>3, <2>4, <2>5 DEF Said, NotedAll
    <3>2. k.asked \in Nat
      BY <2>6, HeardFacts
    <3>3. \A n : n \in 1 .. k.asked - 1 => n \in 1 .. k.asked
      BY <3>2
    <3> QED BY <3>1, <3>3 DEF Noted, Asking
  <2>8. Readable(cmd.vals)
    <3>1. job \in Jobs /\ i \in 1 .. Len(job.tool)
      <4>1. job \in Jobs /\ results \in Seq(Outcomes) /\ Len(results) <= Len(job.tool)
        BY DEF IInv, Types, LInv, Shape, TInv, ToolInv
      <4>2. Len(results) \in Nat /\ Len(job.tool) \in Nat
        BY <4>1, RrdProtocolAssumption
      <4> QED BY <4>1, <4>2
    <3> QED BY <2>4, <3>1, RrdProtocolAssumption DEF Readable
  <2>9. PICK taken : taken = {n \in DOMAIN k.took : k.took[n].of = r.no}
    OBVIOUS
  <2>10. /\ \A n, m \in taken : n = m
         /\ r.out = "ok" => \E n \in taken : k.took[n].vals = cmd.vals
         /\ r.out = "refused" => \A n \in taken : IsStrictPrefix(k.took[n].vals, cmd.vals)
         /\ \A n \in taken : IsPrefix(k.took[n].vals, cmd.vals)
    BY <2>6, <2>7, <2>8, <2>9, NotedTrue
  <2>11. taken = Takings(r.conn, r.no) /\ r.conn = c
    BY <2>1, <2>3, <2>5, <2>9 DEF Takings
  <2>12. r.out \in {"ok", "refused", "lost"}
    BY <2>7 DEF Noted
  <2>13. OutcomeTrue(r, cmd)
    BY <2>5, <2>10, <2>11, <2>12 DEF OutcomeTrue
  <2> QED BY <2>3, <2>4, <2>13
<1> QED BY <1>1, <1>2, <1>3, PTL DEF Spec

-----------------------------------------------------------------------------
(* What a FLUSH waits for.                                                   *)

(* Values as the cache keeps them: each can be read, and is younger than the *)
(* one before it.                                                            *)
Rising(v) == IsSeq(v) /\ \A i \in 1 .. Len(v) : v[i] # -1 /\ (i # 1 => v[i] > v[i - 1])
ItemRises(item) == Rising(item.vals) /\ (item.vals # <<>> => item.stamp = item.vals[Len(item.vals)])
Starts(s, t) == IsSeq(s) /\ Len(s) <= Len(t) /\ \A i \in 1 .. Len(s) : t[i] = s[i]

Forward(stamp, vals, i) == vals[i] # -1 /\ vals[i] > (IF i = 1 THEN stamp ELSE vals[i - 1])

(* What Taken takes: values from the front, as far as each is younger than   *)
(* the one before it (handle_request_update, rrd_update_r).                  *)
LEMMA TakenForward ==
    ASSUME NEW stamp, NEW vals, IsSeq(vals), NEW t, t = Taken(stamp, vals)
    PROVE  \E n \in 0 .. Len(vals) :
              /\ IsSeq(t.took) /\ Len(t.took) = n
              /\ \A i \in 1 .. n : t.took[i] = vals[i] /\ Forward(stamp, vals, i)
              /\ t.stamp = IF n = 0 THEN stamp ELSE vals[n]
              /\ n # Len(vals) => ~Forward(stamp, vals, n + 1)
<1> DEFINE M == {m \in 1 .. Len(vals) : \A i \in 1 .. m : Forward(stamp, vals, i)}
           n == Cardinality(M)
           l == Len(vals)
<1>1. l \in Nat
  BY SeqFacts
<1>2. t.took = SubSeq(vals, 1, n) /\ t.stamp = IF n = 0 THEN stamp ELSE vals[n]
  BY DEF Taken, Forward
<1>3. PICK q \in 1 .. l + 1 : q \notin M /\ \A m \in 1 .. l + 1 : m \notin M => q <= m
  <2> DEFINE T == {m \in 1 .. l + 1 : m \notin M}
  <2>1. T \in SUBSET Nat /\ l + 1 \in T
    BY <1>1
  <2>2. T # {}
    BY <2>1
  <2>3. PICK q \in T : \A m \in T : q <= m
    <3> HIDE DEF T
    <3> QED BY <2>1, <2>2, Least
  <2> QED BY <2>3
<1>4. M = 1 .. q - 1
  <2>1. ASSUME NEW m \in 1 .. q - 1 PROVE m \in M
    <3>1. m \in 1 .. l + 1 /\ ~(q <= m)
      BY <1>1
    <3> QED BY <1>3, <3>1
  <2>2. ASSUME NEW m \in M PROVE m \in 1 .. q - 1
    <3> SUFFICES ASSUME q <= m PROVE FALSE
      BY <1>1
    <3>1. q \in 1 .. l /\ \A i \in 1 .. q : i \in 1 .. m
      BY <1>1
    <3>2. q \in M
      BY <3>1
    <3> QED BY <1>3, <3>2
  <2> QED BY <2>1, <2>2
<1>5. n = q - 1
  <2>1. 1 \in Int /\ q - 1 \in Int
    OBVIOUS
  <2>2. Cardinality(1 .. q - 1) = IF 1 > q - 1 THEN 0 ELSE q - 1 - 1 + 1
    BY <2>1, FS_Interval
  <2>3. q \in Int /\ q >= 1
    BY <1>1
  <2> HIDE DEF M
  <2> QED BY <1>4, <2>2, <2>3
<1>6. n \in 0 .. l
  BY <1>1, <1>5
<1>7. \A i \in 1 .. n : Forward(stamp, vals, i)
  <2> SUFFICES ASSUME NEW i \in 1 .. n PROVE Forward(stamp, vals, i)
    OBVIOUS
  <2>1. i \in M
    BY <1>4, <1>5
  <2> QED BY <2>1
<1>8. n # l => ~Forward(stamp, vals, n + 1)
  <2> SUFFICES ASSUME n # l, Forward(stamp, vals, n + 1) PROVE FALSE
    OBVIOUS
  <2>1. q \in 1 .. l /\ q = n + 1
    BY <1>1, <1>5, <1>6
  <2>2. \A i \in 1 .. q : i \in 1 .. n \/ i = n + 1
    BY <1>5, <1>6
  <2>3. \A i \in 1 .. q : Forward(stamp, vals, i)
    BY <1>7, <2>2
  <2> QED BY <1>3, <2>1, <2>3
<1> HIDE DEF n, M
<1>9. IsSeq(t.took) /\ Len(t.took) = n /\ \A i \in 1 .. n : t.took[i] = vals[i]
  <2>1. PICK z \in Nat \ {0} : z = 1
    OBVIOUS
  <2>2. z <= n + 1 /\ n - z + 1 = n /\ n <= Len(vals) /\ n \in Nat /\ \A i \in 1 .. n : z + i - 1 = i
    BY <1>6, <2>1
  <2>3. /\ IsSeq(SubSeq(vals, z, n)) /\ Len(SubSeq(vals, z, n)) = n - z + 1
        /\ \A i \in 1 .. n - z + 1 : SubSeq(vals, z, n)[i] = vals[z + i - 1]
    BY <2>2, SubFacts
  <2> QED BY <1>2, <2>1, <2>2, <2>3
<1> QED BY <1>2, <1>6, <1>7, <1>8, <1>9

(* An item takes values behind those it has ...                              *)
LEMMA ItemGrows ==
    ASSUME NEW old, ItemRises(old), NEW vals, IsSeq(vals), NEW t, t = Taken(old.stamp, vals),
           NEW new, new.vals = old.vals \o t.took, new.stamp = t.stamp
    PROVE  ItemRises(new) /\ Starts(old.vals, new.vals)
<1> DEFINE a == old.vals
           w == t.took
           b == new.vals
<1>1. PICK n \in 0 .. Len(vals) :
         /\ IsSeq(w) /\ Len(w) = n
         /\ \A i \in 1 .. n : w[i] = vals[i] /\ Forward(old.stamp, vals, i)
         /\ t.stamp = IF n = 0 THEN old.stamp ELSE vals[n]
  BY TakenForward
<1>2. IsSeq(a) /\ Rising(a) /\ Len(a) \in Nat /\ Len(vals) \in Nat /\ (a # <<>> => old.stamp = a[Len(a)])
  BY SeqFacts DEF ItemRises, Rising
<1>3. b = a \o w
  OBVIOUS
<1> HIDE DEF a, w, b
<1>4. /\ IsSeq(b) /\ Len(b) = Len(a) + n
      /\ \A i \in 1 .. Len(a) : b[i] = a[i]
      /\ \A i \in 1 .. n : b[Len(a) + i] = w[i]
  <2>1. IsSeq(w) /\ Len(w) = n
    BY <1>1
  <2>2. IsSeq(a \o w) /\ Len(a \o w) = Len(a) + Len(w) /\ \A i \in 1 .. Len(a) : (a \o w)[i] = a[i]
    BY <1>2, <2>1, ConcatFacts
  <2>3. \A i \in 1 .. Len(w) : (a \o w)[Len(a) + i] = w[i]
    BY <1>2, <2>1, ConcatFacts
  <2> QED BY <1>3, <2>1, <2>2, <2>3
<1>5. ASSUME NEW i \in 1 .. Len(b) PROVE b[i] # -1 /\ (i # 1 => b[i] > b[i - 1])
  <2>1. CASE i \in 1 .. Len(a)
    <3>1. b[i] = a[i] /\ (i # 1 => b[i - 1] = a[i - 1])
      BY <1>2, <1>4, <2>1
    <3> QED BY <1>2, <2>1, <3>1 DEF Rising
  <2>2. CASE i \notin 1 .. Len(a)
    <3> DEFINE j == i - Len(a)
    <3>1. j \in 1 .. n /\ i = Len(a) + j
      BY <1>1, <1>2, <1>4, <2>2
    <3>2. b[i] = vals[j] /\ Forward(old.stamp, vals, j)
      <4>1. b[Len(a) + j] = w[j]
        BY <1>4, <3>1
      <4> QED BY <1>1, <3>1, <4>1
    <3>3. CASE j = 1
      <4>1. i # 1 => a # <<>> /\ b[i - 1] = a[Len(a)]
        <5> SUFFICES ASSUME i # 1 PROVE a # <<>> /\ b[i - 1] = a[Len(a)]
          OBVIOUS
        <5>1. i - 1 = Len(a) /\ Len(a) \in 1 .. Len(a)
          BY <1>2, <3>1, <3>3
        <5>2. a # <<>>
          BY <1>2, <5>1, SeqFacts
        <5> QED BY <1>4, <5>1, <5>2
      <4> QED BY <1>2, <3>2, <3>3, <4>1 DEF Forward
    <3>4. CASE j # 1
      <4>1. j - 1 \in 1 .. n /\ i - 1 = Len(a) + (j - 1)
        BY <1>1, <1>2, <3>1, <3>4
      <4>2. b[i - 1] = vals[j - 1]
        BY <1>1, <1>4, <4>1
      <4> QED BY <3>2, <3>4, <4>2 DEF Forward
    <3> QED BY <3>3, <3>4
  <2> QED BY <2>1, <2>2
<1>6. b # <<>> => t.stamp = b[Len(b)]
  <2>1. CASE n = 0
    <3>1. Len(b) = Len(a) /\ (Len(a) # 0 => Len(a) \in 1 .. Len(a))
      BY <1>2, <1>4, <2>1
    <3>2. (a = <<>> <=> Len(a) = 0) /\ (b = <<>> <=> Len(b) = 0)
      BY <1>2, <1>4, SeqFacts
    <3>3. b # <<>> => a # <<>> /\ b[Len(b)] = a[Len(a)]
      BY <1>4, <3>1, <3>2
    <3> QED BY <1>1, <1>2, <2>1, <3>3
  <2>2. CASE n # 0
    <3>1. n \in 1 .. n
      BY <1>1, <1>2, <2>2
    <3> QED BY <1>1, <1>4, <2>2, <3>1
  <2> QED BY <2>1, <2>2
<1>7. Starts(a, b)
  BY <1>1, <1>2, <1>4 DEF Starts
<1> QED BY <1>4, <1>5, <1>6, <1>7 DEF ItemRises, Rising, a, b

(* ... and a file takes all of them if the first is younger than its last.   *)
LEMMA AllWritten ==
    ASSUME NEW v, Rising(v), v # <<>>, NEW stamp, v[1] > stamp
    PROVE  Taken(stamp, v).took = v
<1>1. PICK t : t = Taken(stamp, v)
  OBVIOUS
<1>2. PICK n \in 0 .. Len(v) :
         /\ IsSeq(t.took) /\ Len(t.took) = n
         /\ \A i \in 1 .. n : t.took[i] = v[i] /\ Forward(stamp, v, i)
         /\ n # Len(v) => ~Forward(stamp, v, n + 1)
  BY <1>1, TakenForward DEF Rising
<1>3. IsSeq(v) /\ Len(v) \in Nat
  BY SeqFacts DEF Rising
<1>4. n = Len(v)
  <2> SUFFICES ASSUME n # Len(v) PROVE FALSE
    OBVIOUS
  <2>1. n + 1 \in 1 .. Len(v) /\ (n + 1 # 1 => (n + 1) - 1 = n)
    BY <1>2, <1>3
  <2> DEFINE m == n + 1
  <2>2. v[m] # -1 /\ (m # 1 => v[m] > v[m - 1])
    BY <2>1 DEF Rising
  <2>3. Forward(stamp, v, m)
    BY <2>2 DEF Forward
  <2> QED BY <1>2, <2>3
<1> QED BY <1>1, <1>2, <1>3, <1>4, SameElements

-----------------------------------------------------------------------------
(* The invariant.  Files and items rise, what a queue thread has taken does, *)
(* and a FLUSH that has not been woken waits for values that are at the      *)
(* front of its item or, once they were taken, of what is being written.     *)
DiskInv == DOMAIN disk = job.files /\ \A f \in job.files : IsSeq(disk[f])
CachedInv == \A p \in Procs : \A f \in DOMAIN cache[p] : Exists(f, "base") /\ ItemRises(cache[p][f])
WritingInv ==
    /\ DOMAIN writing = Procs
    /\ \A p \in Procs : DOMAIN writing[p] = {"file", "vals"}
    /\ \A p \in Procs : writing[p].file # None => Exists(writing[p].file, "base") /\ Rising(writing[p].vals)
Awaited(p, f, due) ==
    Cached(p, f) /\ Starts(due, IF writing[p].file = f THEN writing[p].vals ELSE cache[p][f].vals)
Awaiting(k) == k.wait # None /\ ~k.woken /\ k.due # <<>>
WaitInv == \A c \in Conns : Awaiting(conn[c]) => conn[c].proc \in Procs /\ Awaited(conn[c].proc, conn[c].wait, conn[c].due)
FlushInv == DiskInv /\ CachedInv /\ WritingInv /\ WaitInv

(* What FlushedIsWritten says of a step.                                     *)
FlushStep ==
    \A c \in Conns :
        LET due == conn'[c].due
            f == Real(conn'[c].wait, "base")
        IN  Wakes(conn[c], conn'[c]) /\ due # <<>> /\ due[1] > LastOn(f) =>
               Range(due) \subseteq Range(disk'[f])

(* A connection waits as before, or for nothing.                             *)
Rests(k, m) ==
    \/ m.wait = None \/ m.due = <<>>
    \/ m.wait = k.wait /\ m.woken = k.woken /\ m.due = k.due /\ m.proc = k.proc
AllRest == \A c \in Conns : Rests(conn[c], conn'[c])
WaitKeeps ==
    \A c \in Conns : \A p \in Procs : \A f, due :
        /\ Awaiting(conn'[c]) /\ conn'[c].proc = p /\ conn'[c].wait = f /\ conn'[c].due = due
        /\ Awaited(p, f, due)
        => Awaited(p, f, due)'

(* Then what it waits for stays where it was, and nobody is woken.           *)
LEMMA RestKeeps == ASSUME WaitInv, AllRest, WaitKeeps PROVE WaitInv' /\ FlushStep
<1>1. ASSUME NEW c \in Conns, Awaiting(conn[c])'
      PROVE  (conn[c].proc \in Procs /\ Awaited(conn[c].proc, conn[c].wait, conn[c].due))'
  <2>1. PICK k, m : k = conn[c] /\ m = conn'[c]
    OBVIOUS
  <2>2. m.wait = k.wait /\ m.woken = k.woken /\ m.due = k.due /\ m.proc = k.proc /\ Awaiting(k) /\ Awaiting(m)
    BY <1>1, <2>1 DEF AllRest, Rests, Awaiting
  <2>3. k.proc \in Procs /\ Awaited(k.proc, k.wait, k.due)
    BY <2>1, <2>2 DEF WaitInv
  <2>4. Awaited(k.proc, k.wait, k.due)'
    BY <2>1, <2>2, <2>3 DEF WaitKeeps
  <2>5. (conn[c].proc)' = k.proc /\ (conn[c].wait)' = k.wait /\ (conn[c].due)' = k.due
    BY <2>1, <2>2
  <2> QED BY <2>3, <2>4, <2>5 DEF Awaited, Cached
<1>2. WaitInv'
  BY <1>1 DEF WaitInv
<1>3. FlushStep
  BY DEF FlushStep, AllRest, Rests, Wakes
<1> QED BY <1>2, <1>3

CacheKeeps ==
    \A p \in Procs : \A f, due : f # None /\ due # <<>> /\ Awaited(p, f, due) => Awaited(p, f, due)'

(* In particular when the cache and the queue threads keep what somebody may *)
(* wait for.                                                                 *)
LEMMA CacheRests == ASSUME WaitInv, AllRest, CacheKeeps PROVE WaitInv' /\ FlushStep
<1>1. WaitKeeps
  BY DEF WaitKeeps, CacheKeeps, Awaiting
<1> QED BY <1>1, RestKeeps

(* What has nothing to do with the cache.                                    *)
LEMMA CacheUntouched == UNCHANGED <<cache, writing>> => CacheKeeps
BY DEF CacheKeeps, Awaited, Cached

(* A step without any of it keeps the invariant.                             *)
LEMMA RestStep ==
    ASSUME FlushInv, AllRest, job' = job, UNCHANGED <<cache, writing, disk>> PROVE FlushInv' /\ FlushStep
<1>1. WaitInv' /\ FlushStep
  BY CacheUntouched, CacheRests DEF FlushInv
<1>2. DiskInv' /\ CachedInv' /\ WritingInv'
  BY DEF FlushInv, DiskInv, CachedInv, WritingInv, Exists
<1> QED BY <1>1, <1>2 DEF FlushInv

(* If one connection changes, the others wait as before ...                  *)
LEMMA OneRests ==
    ASSUME ConnShape, NEW c \in Conns, NEW m, Rests(conn[c], m), Change(c, m) PROVE AllRest
BY DEF ConnShape, AllRest, Change, Rests

(* ... and if none does, all wait as before.                                 *)
LEMMA NoneRests == ASSUME conn' = conn PROVE AllRest
BY DEF AllRest, Rests

(* Who is answered does not wait.                                            *)
LEMMA ReplyWaits ==
    ASSUME NEW h, DOMAIN h = Fields, h.wait = None, NEW ok \in BOOLEAN, NEW info, NEW m \in send_response(h, ok, info)
    PROVE  m.wait = None /\ DOMAIN m = Fields
<1>1. m = Closed(h) \/ Replied(h, ok, info, m)
  BY ReplyFields
<1>2. Closed(h).wait = None /\ DOMAIN Closed(h) = Fields
  BY DEF Closed, Fields
<1>3. Replied(h, ok, info, m) => m.wait = h.wait /\ DOMAIN m = Fields
  BY DEF Replied
<1> QED BY <1>1, <1>2, <1>3

(* An answer changes nothing for the others.                                 *)
LEMMA ReplyRests ==
    ASSUME ConnShape, NEW c \in Conns, NEW h, DOMAIN h = Fields, h.wait = None,
           NEW ok \in BOOLEAN, NEW info, Reply(c, h, ok, info)
    PROVE  AllRest
<1>1. PICK m \in send_response(h, ok, info) : Change(c, m)
  BY DEF Reply
<1> QED BY <1>1, ReplyWaits, OneRests DEF Rests

(* Who has a command does not wait before it is worked off ...               *)
LEMMA TakenRests ==
    ASSUME ConnShape, NEW c \in Conns, HasCommand(c)
    PROVE  DOMAIN TakeLine(conn[c]) = Fields /\ TakeLine(conn[c]).wait = None
BY DEF ConnShape, HasCommand, TakeLine, Fields

(* ... nor after it is answered.                                             *)
LEMMA CommandRests ==
    ASSUME ConnShape, NEW c \in Conns, HasCommand(c), NEW ok \in BOOLEAN, NEW info,
           Reply(c, TakeLine(conn[c]), ok, info)
    PROVE  AllRest
<1> DEFINE h == TakeLine(conn[c])
<1>1. DOMAIN h = Fields /\ h.wait = None /\ Reply(c, h, ok, info)
  BY TakenRests
<1> HIDE DEF h
<1> QED BY <1>1, ReplyRests

-----------------------------------------------------------------------------
(* The steps that touch neither the cache nor what is being written.         *)
LEMMA ConnectionRests ==
    ASSUME ConnShape, NEW c \in Conns,
           \/ Accept(c) \/ Leave(c) \/ ReadSome(c) \/ Quit(c) \/ Refuse(c) \/ BatchStart(c) \/ BatchDone(c)
           \/ Stats(c) \/ Help(c) \/ Queue(c) \/ ShowPending(c)
           \/ RefuseUpdate(c) \/ FlushNothing(c) \/ FlushReturns(c)
    PROVE  AllRest /\ UNCHANGED <<job, cache, writing, disk>>
<1> DEFINE k == conn[c]
           h == TakeLine(k)
<1>0. DOMAIN k = Fields
  BY DEF ConnShape
<1>1. ASSUME Accept(c) \/ Leave(c) \/ ReadSome(c) \/ Quit(c)
      PROVE  AllRest /\ UNCHANGED <<job, cache, writing, disk>>
  <2>1. CASE Accept(c)
    BY <1>0, <2>1, OneRests DEF Accept, Rests, Fields, cacheVars
  <2>2. CASE Leave(c)
    BY <1>0, <2>2, OneRests DEF Leave, Closed, Rests, Fields, cacheVars
  <2>3. CASE ReadSome(c)
    BY <1>0, <2>3, OneRests DEF ReadSome, Rests, Fields, cacheVars
  <2>4. CASE Quit(c)
    BY <1>0, <2>4, OneRests DEF Quit, Closed, TakeLine, Rests, Fields, cacheVars
  <2> QED BY <1>1, <2>1, <2>2, <2>3, <2>4
<1>2. ASSUME Refuse(c) \/ RefuseUpdate(c) PROVE AllRest /\ UNCHANGED <<job, cache, writing, disk>>
  <2>1. HasCommand(c) /\ Reply(c, h, FALSE, <<>>) /\ UNCHANGED <<job, cache, writing, disk>>
    BY <1>2 DEF Refuse, RefuseUpdate, Gets, cacheVars
  <2> QED BY <2>1, CommandRests
<1>3. ASSUME BatchStart(c) PROVE AllRest /\ UNCHANGED <<job, cache, writing, disk>>
  <2>1. /\ HasCommand(c) /\ UNCHANGED <<job, cache, writing, disk>>
        /\ \E g \in send_response(h, TRUE, <<>>) :
              Change(c, IF g.st = "open" THEN [g EXCEPT !.batch = TRUE, !.cmds = 0] ELSE g)
    BY <1>3 DEF BatchStart, Gets, cacheVars
  <2>2. PICK g \in send_response(h, TRUE, <<>>) :
           Change(c, IF g.st = "open" THEN [g EXCEPT !.batch = TRUE, !.cmds = 0] ELSE g)
    BY <2>1
  <2>3. g.wait = None /\ DOMAIN g = Fields
    BY <2>1, TakenRests, ReplyWaits
  <2> DEFINE m == IF g.st = "open" THEN [g EXCEPT !.batch = TRUE, !.cmds = 0] ELSE g
  <2>4. m.wait = None
    BY <2>3 DEF Fields
  <2> QED BY <2>1, <2>2, <2>4, OneRests DEF Rests
<1>4. ASSUME BatchDone(c) PROVE AllRest /\ UNCHANGED <<job, cache, writing, disk>>
  <2> DEFINE u == [h EXCEPT !.batch = FALSE, !.cmds = 0]
  <2>1. HasCommand(c) /\ Reply(c, u, TRUE, <<>>) /\ UNCHANGED <<job, cache, writing, disk>>
    BY <1>4 DEF BatchDone, Gets, cacheVars
  <2>2. DOMAIN u = Fields /\ u.wait = None
    BY <2>1, TakenRests DEF Fields
  <2> HIDE DEF u
  <2> QED BY <2>1, <2>2, ReplyRests
<1>5. ASSUME NEW cmd, NEW ok \in BOOLEAN, NEW count, Show(c, cmd, ok, count)
      PROVE  AllRest /\ UNCHANGED <<job, cache, writing, disk>>
  <2>1. HasCommand(c) /\ Reply(c, h, ok, Info(h, count)) /\ UNCHANGED <<job, cache, writing, disk>>
    BY <1>5 DEF Show, Gets, cacheVars
  <2> QED BY <2>1, CommandRests
<1>6. ASSUME Stats(c) \/ Help(c) \/ Queue(c) \/ ShowPending(c) PROVE AllRest /\ UNCHANGED <<job, cache, writing, disk>>
  <2>1. \E cmd, count : \E ok \in BOOLEAN : Show(c, cmd, ok, count)
    BY <1>6 DEF Stats, Help, Queue, ShowPending, PendingAt
  <2> QED BY <1>5, <2>1
<1>7. ASSUME FlushNothing(c) PROVE AllRest /\ UNCHANGED <<job, cache, writing, disk>>
  <2> DEFINE found == Cached(k.proc, get_abs_path(TheLine(k).path)) \/ Exists(get_abs_path(TheLine(k).path), "base")
  <2>1. /\ HasCommand(c) /\ UNCHANGED <<job, cache, writing, disk>>
        /\ Reply(c, h, FALSE, <<>>) \/ Reply(c, h, found, <<>>)
    BY <1>7 DEF FlushNothing, Gets, cacheVars
  <2>2. found \in BOOLEAN
    OBVIOUS
  <2> HIDE DEF found
  <2> QED BY <2>1, <2>2, CommandRests
<1>8. ASSUME FlushReturns(c) PROVE AllRest /\ UNCHANGED <<job, cache, writing, disk>>
  <2> DEFINE u == [k EXCEPT !.wait = None, !.woken = FALSE, !.due = <<>>]
  <2>1. Reply(c, u, TRUE, <<>>) /\ UNCHANGED <<job, cache, writing, disk>>
    BY <1>8 DEF FlushReturns, cacheVars
  <2>2. DOMAIN u = Fields /\ u.wait = None
    BY <1>0 DEF Fields
  <2> HIDE DEF u
  <2> QED BY <2>1, <2>2, ReplyRests
<1> QED BY <1>1, <1>2, <1>3, <1>4, <1>6, <1>7, <1>8

(* Processes that start, stop and crash.                                     *)
LEMMA ProcessRests ==
    ASSUME ConnShape, NEW p \in Procs,
           \/ Start(p) \/ Check(p) \/ TakeOver(p) \/ BindUnix(p) \/ BindNetwork(p) \/ WritePid(p)
           \/ CloseListenSockets(p) \/ Exit(p) \/ Crash(p) \/ Stop(p)
    PROVE  AllRest /\ UNCHANGED <<job, cache, writing, disk>>
<1>1. CASE Start(p) \/ Check(p) \/ TakeOver(p) \/ BindUnix(p) \/ BindNetwork(p)
  BY <1>1, NoneRests DEF Start, Check, TakeOver, BindUnix, BindNetwork, cacheVars
<1>2. CASE WritePid(p) \/ Exit(p) \/ Stop(p)
  BY <1>2, NoneRests DEF WritePid, Exit, Stop, cacheVars
<1>3. ASSUME NEW k, DOMAIN k = Fields PROVE Rests(k, k) /\ Rests(k, Reset(k)) /\ Rests(k, Reset(Unsent(k)))
  <2>1. PICK u : u = Unsent(k)
    OBVIOUS
  <2>2. DOMAIN u = Fields /\ u.wait = k.wait /\ u.woken = k.woken /\ u.due = k.due /\ u.proc = k.proc
    BY <1>3, <2>1 DEF Unsent, Fields
  <2>3. Rests(k, Reset(u))
    BY <2>2 DEF Rests, Reset, Fields
  <2>4. Rests(k, k) /\ Rests(k, Reset(k))
    BY <1>3 DEF Rests, Reset, Fields
  <2> QED BY <2>1, <2>3, <2>4
<1>4. CASE CloseListenSockets(p)
  <2>1. /\ conn' = [c \in Conns |-> IF conn[c].proc = p /\ conn[c].st = "backlog" THEN Reset(conn[c]) ELSE conn[c]]
        /\ UNCHANGED <<job, cache, writing, disk>>
    BY <1>4 DEF CloseListenSockets, cacheVars
  <2> QED BY <1>3, <2>1 DEF AllRest, ConnShape
<1>5. CASE Crash(p)
  <2>1. UNCHANGED <<job, cache, writing, disk>>
    BY <1>5 DEF Crash, cacheVars
  <2>2. PICK silent \in SUBSET {c \in Conns : conn[c].proc = p} :
           conn' = [c \in Conns |-> IF conn[c].proc # p THEN conn[c]
                                    ELSE Reset(IF c \in silent THEN Unsent(conn[c]) ELSE conn[c])]
    BY <1>5 DEF Crash
  <2>3. ASSUME NEW c \in Conns PROVE Rests(conn[c], conn'[c])
    <3>1. Rests(conn[c], conn[c]) /\ Rests(conn[c], Reset(conn[c])) /\ Rests(conn[c], Reset(Unsent(conn[c])))
      BY <1>3 DEF ConnShape
    <3> QED BY <2>2, <3>1
  <2> QED BY <2>1, <2>3 DEF AllRest
<1> QED BY <1>1, <1>2, <1>4, <1>5

(* Clients.                                                                  *)
LEMMA RawRests ==
    ASSUME ConnShape, NEW c \in Conns, Raw(c) PROVE AllRest /\ UNCHANGED <<job, cache, writing, disk>>
<1>1. UNCHANGED <<job, cache, writing, disk>>
  BY DEF Raw, RawConnect, RawSend, RawLeave, rawUnchanged, cacheVars
<1>2. CASE RawConnect(c)
  <2> DEFINE m == Opened(job.raw[c].addr)
  <2>1. Change(c, m)
    BY <1>2 DEF RawConnect
  <2>2. m.wait = None
    BY DEF Opened, Idle
  <2> HIDE DEF m
  <2> QED BY <1>1, <2>1, <2>2, OneRests DEF Rests
<1>3. CASE RawSend(c)
  <2>1. PICK next : Change(c, [conn[c] EXCEPT !.up = @ \o Pieces(job.raw[c].lines[next]), !.asked = next])
    BY <1>3 DEF RawSend
  <2> DEFINE m == [conn[c] EXCEPT !.up = @ \o Pieces(job.raw[c].lines[next]), !.asked = next]
  <2>2. Rests(conn[c], m)
    BY DEF Rests, ConnShape, Fields
  <2> QED BY <1>1, <2>1, <2>2, OneRests
<1>4. CASE RawLeave(c)
  <2> DEFINE m == [conn[c] EXCEPT !.hup = TRUE]
  <2>1. Change(c, m)
    BY <1>4 DEF RawLeave
  <2>2. Rests(conn[c], m)
    BY DEF Rests, ConnShape, Fields
  <2> QED BY <1>1, <2>1, <2>2, OneRests
<1> QED BY <1>1, <1>2, <1>3, <1>4 DEF Raw

(* The library and the tool, which may write a file itself.                  *)
LEMMA ToolRests ==
    ASSUME LInv, Tool
    PROVE  /\ AllRest /\ UNCHANGED <<job, cache, writing>>
           /\ ~UpdatesItself => UNCHANGED disk
<1>0. ConnShape
  BY DEF LInv, Shape
<1>1. UNCHANGED <<job, cache, writing>> /\ (~UpdatesItself => UNCHANGED disk)
  BY DEF Tool, rrdc_connect, ToolFails, UpdatesItself, Send, ReadsFile, GotAnswer, GotNothing, ToolExits,
         toolUnchanged, cacheVars
<1>2. \A c \in Conns : Rests(conn[c], Hung(conn)[c])
  BY <1>0 DEF ConnShape, Hung, Rests, Fields
<1>3. ASSUME conn' = conn \/ conn' = Hung(conn) PROVE AllRest
  <2>1. CASE conn' = conn
    BY <2>1, NoneRests
  <2>2. CASE conn' = Hung(conn)
    BY <1>2, <2>2 DEF AllRest
  <2> QED BY <1>3, <2>1, <2>2
<1>4. ASSUME NEW c \in Conns, NEW a, conn' = [Hung(conn) EXCEPT ![c] = Opened(a)] PROVE AllRest
  <2> DEFINE hung == Hung(conn)
             m == Opened(a)
  <2>1. m.wait = None /\ DOMAIN hung = Conns
    BY <1>0 DEF Opened, Idle, Hung, ConnShape
  <2>2. conn' = [hung EXCEPT ![c] = m] /\ \A d \in Conns : Rests(conn[d], hung[d])
    BY <1>2, <1>4
  <2> HIDE DEF hung, m
  <2> QED BY <2>1, <2>2 DEF AllRest, Rests
<1>5. ASSUME rrdc_connect PROVE AllRest
  <2>1. \/ conn' = conn \/ conn' = Hung(conn)
        \/ \E c \in Conns : conn' = [Hung(conn) EXCEPT ![c] = Opened(Named)]
    BY <1>5 DEF rrdc_connect
  <2> QED BY <1>3, <1>4, <2>1
<1>6. ASSUME ToolFails \/ UpdatesItself \/ ReadsFile PROVE AllRest
  BY <1>3, <1>6 DEF ToolFails, UpdatesItself, ReadsFile
<1>7. ASSUME GotNothing \/ ToolExits PROVE AllRest
  BY <1>3, <1>7 DEF GotNothing, ToolExits
<1>8. ASSUME Send \/ GotAnswer PROVE AllRest
  <2>1. PICK c \in Conns : c = lib.sd
    BY <1>8 DEF Send, GotAnswer, rrdc_is_connected, LInv, LibraryInv, Carries, AtWork
  <2>2. CASE Send
    <3>1. conn' = conn \/ Change(c, [conn[c] EXCEPT !.up = @ \o Pieces(Request), !.asked = @ + 1])
      BY <2>1, <2>2 DEF Send
    <3> QED BY <1>0, <1>3, <3>1, OneRests DEF Rests, ConnShape, Fields
  <2>3. CASE GotAnswer
    <3>1. Change(c, [conn[c] EXCEPT !.dn = SubSeq(conn[c].dn, AnswerLength(conn[c].dn) + 1, Len(conn[c].dn))])
      BY <2>1, <2>3 DEF GotAnswer, Change
    <3> QED BY <1>0, <3>1, OneRests DEF Rests, ConnShape, Fields
  <2> QED BY <1>8, <2>2, <2>3
<1> QED BY <1>1, <1>5, <1>6, <1>7, <1>8 DEF Tool

-----------------------------------------------------------------------------
(* The steps that do touch them.                                             *)

(* What an item begins with it begins with later.                            *)
LEMMA StartsOn == ASSUME NEW s, NEW t, NEW u, Starts(s, t), Starts(t, u) PROVE Starts(s, u)
<1>1. Len(s) \in Nat /\ Len(t) \in Nat /\ IsSeq(s)
  BY SeqFacts DEF Starts
<1>2. Len(s) <= Len(t) /\ Len(t) <= Len(u)
  BY DEF Starts
<1>3. \A i \in 1 .. Len(s) : u[i] = s[i]
  BY <1>1, <1>2 DEF Starts
<1> QED BY <1>1, <1>2, <1>3 DEF Starts

(* UPDATE appends to an item.                                                *)
LEMMA UpdateFlush ==
    ASSUME FlushInv, TInv, ConnShape, NEW c \in Conns, Update(c), job' = job PROVE FlushInv' /\ FlushStep
<1> DEFINE k == conn[c]
           p == k.proc
           f == get_abs_path(TheLine(k).path)
           vals == TheLine(k).vals
           old == Item(p, f)
           t == Taken(old.stamp, vals)
           item == [vals |-> old.vals \o t.took, stamp |-> t.stamp]
           items == Put(cache[p], f, item)
<1>1. /\ cache' = [cache EXCEPT ![p] = items] /\ UNCHANGED <<writing, disk>>
      /\ HasCommand(c) /\ MayUpdate(p, TheLine(k))
  BY DEF Update, Gets
<1>2. AllRest
  <2> DEFINE u == [TakeLine(k) EXCEPT !.took = Append(@, [of |-> Len(k.did) + 1, vals |-> t.took])]
  <2>1. Reply(c, u, Accepts(t), <<>>) /\ Accepts(t) \in BOOLEAN
    BY DEF Update, Accepts
  <2>2. DOMAIN u = Fields /\ u.wait = None
    BY <1>1, TakenRests DEF Fields
  <2> HIDE DEF u, t
  <2> QED BY <2>1, <2>2, ReplyRests
<1>3. p \in Procs /\ IsSeq(vals) /\ DOMAIN cache = Procs
  <2>1. Sound(k) /\ k.st = "open" /\ HasLine(k)
    BY <1>1 DEF TInv, ConnsInv, HasCommand
  <2>2. p \in Procs /\ DOMAIN cache = Procs
    BY <2>1 DEF Sound, Flow, TInv, CacheInv
  <2>3. IsSeq(vals)
    <3> HIDE DEF k
    <3> QED BY <2>1, FlowTaken
  <2> QED BY <2>2, <2>3
<1>4. Exists(f, "base")
  BY <1>1, <1>3 DEF MayUpdate, Cached, FlushInv, CachedInv
<1>5. ItemRises(old)
  <2>1. CASE Cached(p, f)
    BY <1>3, <2>1 DEF Item, Cached, FlushInv, CachedInv
  <2>2. CASE ~Cached(p, f)
    <3>1. old.vals = <<>>
      BY <2>2 DEF Item, NewItem
    <3>2. IsSeq(old.vals) /\ Len(old.vals) = 0
      BY <3>1, NothingIsSeq
    <3> QED BY <3>1, <3>2 DEF ItemRises, Rising
  <2> QED BY <2>1, <2>2
<1>6. ItemRises(item) /\ Starts(old.vals, item.vals)
  <2>1. item.vals = old.vals \o t.took /\ item.stamp = t.stamp
    OBVIOUS
  <2> HIDE DEF item, old, vals
  <2> QED BY <1>3, <1>5, <2>1, ItemGrows
<1>7. Cached(p, f) => old = cache[p][f]
  BY DEF Item
<1> HIDE DEF item, old, t, k, f, p
<1>8. /\ DOMAIN items = DOMAIN cache[p] \union {f} /\ items[f] = item
      /\ \A g \in DOMAIN cache[p] : g # f => items[g] = cache[p][g]
  BY DEF Put
<1> HIDE DEF items
<1>9. cache'[p] = items /\ \A q \in Procs : q # p => cache'[q] = cache[q]
  BY <1>1, <1>3
<1>10. CachedInv'
  <2>1. \A g \in DOMAIN items : Exists(g, "base") /\ ItemRises(items[g])
    BY <1>3, <1>4, <1>6, <1>8 DEF FlushInv, CachedInv
  <2> QED BY <1>9, <2>1 DEF FlushInv, CachedInv, Exists
<1>11. CacheKeeps
  <2> SUFFICES ASSUME NEW q \in Procs, NEW g, NEW due, Awaited(q, g, due) PROVE Awaited(q, g, due)'
    BY DEF CacheKeeps
  <2>1. CASE q # p
    BY <1>1, <1>9, <2>1 DEF Awaited, Cached
  <2>2. CASE q = p /\ g # f
    BY <1>1, <1>8, <1>9, <2>2 DEF Awaited, Cached
  <2>3. CASE q = p /\ g = f
    <3>1. Cached(q, g)' /\ Cached(p, f) /\ (cache[q][g])' = item
      BY <1>8, <1>9, <2>3 DEF Cached, Awaited
    <3>2. Starts(due, old.vals) => Starts(due, item.vals)
      BY <1>6, StartsOn
    <3> QED BY <1>1, <1>7, <2>3, <3>1, <3>2 DEF Awaited
  <2> QED BY <2>1, <2>2, <2>3
<1>12. WaitInv' /\ FlushStep
  BY <1>2, <1>11, CacheRests DEF FlushInv
<1>13. DiskInv' /\ WritingInv'
  BY <1>1 DEF FlushInv, DiskInv, WritingInv, Exists
<1> QED BY <1>10, <1>12, <1>13 DEF FlushInv

(* What is purged nobody waits for.                                          *)
LEMMA OldFlush ==
    ASSUME FlushInv, CacheInv, AllRest, NEW p \in Procs, NEW old, NEW idle, FlushOldValues(p, old, idle),
           job' = job, UNCHANGED <<writing, disk>>
    PROVE  FlushInv' /\ FlushStep
<1> DEFINE gone == Purged(p, idle)
           items == Without(cache[p], gone)
<1>1. cache' = [cache EXCEPT ![p] = items] /\ DOMAIN cache = Procs
  BY DEF FlushOldValues, CacheInv
<1>2. DOMAIN items = DOMAIN cache[p] \ gone /\ \A g \in DOMAIN items : items[g] = cache[p][g]
  BY DEF Without
<1>3. \A g \in gone : writing[p].file # g /\ (g \in DOMAIN cache[p] => cache[p][g].vals = <<>>)
  BY DEF Purged, Pending, Cached
<1> HIDE DEF items, gone
<1>4. cache'[p] = items /\ \A q \in Procs : q # p => cache'[q] = cache[q]
  BY <1>1
<1>5. CachedInv'
  BY <1>2, <1>4 DEF FlushInv, CachedInv, Exists
<1>6. CacheKeeps
  <2> SUFFICES ASSUME NEW q \in Procs, NEW g, NEW due, due # <<>>, Awaited(q, g, due) PROVE Awaited(q, g, due)'
    BY DEF CacheKeeps
  <2>1. CASE q # p
    BY <1>4, <2>1 DEF Awaited, Cached
  <2>2. CASE q = p
    <3>1. g \notin gone
      <4> SUFFICES ASSUME g \in gone PROVE FALSE
        OBVIOUS
      <4>1. g \in DOMAIN cache[p] /\ Starts(due, cache[p][g].vals) /\ cache[p][g].vals = <<>>
        BY <1>3, <2>2 DEF Awaited, Cached
      <4>2. IsSeq(due) /\ Len(due) <= 0
        BY <4>1 DEF Starts
      <4> QED BY <4>2, SeqFacts
    <3>2. Cached(q, g)' /\ (cache[q][g])' = cache[q][g]
      BY <1>2, <1>4, <2>2, <3>1 DEF Awaited, Cached
    <3> QED BY <3>2 DEF Awaited
  <2> QED BY <2>1, <2>2
<1>7. WaitInv' /\ FlushStep
  BY <1>6, CacheRests DEF FlushInv
<1>8. DiskInv' /\ WritingInv'
  BY DEF FlushInv, DiskInv, WritingInv, Exists
<1> QED BY <1>5, <1>7, <1>8 DEF FlushInv

(* A queue thread takes the values of an item, whoever waits for them.       *)
LEMMA TakeFlush ==
    ASSUME FlushInv, CacheInv, NEW p \in Procs, TakeFirst(p) PROVE FlushInv' /\ FlushStep
<1> DEFINE f == Head(queue[p])
           items == [cache[p] EXCEPT ![f].vals = <<>>]
           w == [file |-> f, vals |-> cache[p][f].vals]
<1>1. /\ writing[p].file = None /\ queue[p] # <<>>
      /\ writing' = [writing EXCEPT ![p] = w] /\ cache' = [cache EXCEPT ![p] = items]
      /\ UNCHANGED <<job, disk, conn>>
  BY DEF TakeFirst
<1>2. DOMAIN cache = Procs /\ DOMAIN writing = Procs /\ ItemsOK(cache[p]) /\ QueueOK(queue[p], cache[p])
  BY DEF CacheInv, FlushInv, WritingInv
<1>3. f \in DOMAIN cache[p]
  <2>1. IsSeq(queue[p]) /\ 1 \in 1 .. Len(queue[p])
    BY <1>1, <1>2, SeqFacts DEF QueueOK, Distinct
  <2>2. f = queue[p][1]
    OBVIOUS
  <2> QED BY <1>2, <2>1, <2>2 DEF QueueOK, Elems
<1>4. Exists(f, "base") /\ ItemRises(cache[p][f]) /\ DOMAIN cache[p][f] = {"vals", "stamp"}
  BY <1>2, <1>3 DEF FlushInv, CachedInv, ItemsOK
<1> HIDE DEF f
<1>5. /\ DOMAIN items = DOMAIN cache[p] /\ \A g \in DOMAIN items : g # f => items[g] = cache[p][g]
      /\ items[f].vals = <<>>
  BY <1>3, <1>4
<1>6. w.file = f /\ w.vals = cache[p][f].vals /\ DOMAIN w = {"file", "vals"}
  OBVIOUS
<1> HIDE DEF items, w
<1>7. /\ cache'[p] = items /\ writing'[p] = w
      /\ \A q \in Procs : q # p => cache'[q] = cache[q] /\ writing'[q] = writing[q]
  BY <1>1, <1>2
<1>8. ItemRises(items[f])
  <2>1. IsSeq(items[f].vals) /\ Len(items[f].vals) = 0
    BY <1>5, NothingIsSeq
  <2> QED BY <1>5, <2>1 DEF ItemRises, Rising
<1>9. CachedInv'
  BY <1>1, <1>5, <1>7, <1>8 DEF FlushInv, CachedInv, Exists
<1>10. WritingInv'
  <2>1. DOMAIN writing' = Procs
    BY <1>1, <1>2
  <2>2. Rising(w.vals)
    BY <1>4, <1>6 DEF ItemRises
  <2> QED BY <1>1, <1>4, <1>6, <1>7, <2>1, <2>2 DEF FlushInv, WritingInv, Exists
<1>11. CacheKeeps
  <2> SUFFICES ASSUME NEW q \in Procs, NEW g, NEW due, g # None, Awaited(q, g, due) PROVE Awaited(q, g, due)'
    BY DEF CacheKeeps
  <2>1. CASE q # p
    BY <1>7, <2>1 DEF Awaited, Cached
  <2>2. CASE q = p
    <3>1. g \in DOMAIN cache[p] /\ Starts(due, cache[p][g].vals)
      BY <1>1, <2>2 DEF Awaited, Cached
    <3>2. Cached(q, g)'
      BY <1>5, <1>7, <2>2, <3>1 DEF Cached
    <3>3. CASE g = f
      BY <1>6, <1>7, <2>2, <3>1, <3>2, <3>3 DEF Awaited
    <3>4. CASE g # f
      BY <1>5, <1>6, <1>7, <2>2, <3>1, <3>2, <3>4 DEF Awaited
    <3> QED BY <3>3, <3>4
  <2> QED BY <2>1, <2>2
<1>12. WaitInv' /\ FlushStep
  BY <1>1, <1>11, NoneRests, CacheRests DEF FlushInv
<1>13. DiskInv'
  BY <1>1 DEF FlushInv, DiskInv
<1> QED BY <1>9, <1>10, <1>12, <1>13 DEF FlushInv

(* A queue thread writes what it has taken, and wakes who waits for it.      *)
LEMMA WriteFlush ==
    ASSUME FlushInv, ConnShape, NEW p \in Procs, WriteOut(p) PROVE FlushInv' /\ FlushStep
<1> DEFINE g == writing[p].file
           w == writing[p].vals
           r == Real(g, "base")
           t == Taken(LastOn(r), w)
           old == disk[r]
           Wakens(c) == Cached(p, g) /\ conn[c].proc = p /\ conn[c].wait = g
<1>1. /\ g # None /\ disk' = [disk EXCEPT ![r] = old \o t.took] /\ writing' = [writing EXCEPT ![p] = Nothing]
      /\ UNCHANGED <<job, cache>>
  BY DEF WriteOut, Written
<1>2. r \in job.files /\ Rising(w) /\ DOMAIN disk = job.files /\ IsSeq(old)
  BY <1>1 DEF FlushInv, WritingInv, DiskInv, Exists
<1>3. \A c \in Conns : conn'[c] = IF Wakens(c) THEN [conn[c] EXCEPT !.woken = TRUE] ELSE conn[c]
  BY DEF WriteOut, Announced, Woken
<1>4. IsSeq(t.took) /\ IsSeq(w)
  BY <1>2, TakenFacts DEF Rising
<1> DEFINE ts == t.took
<1> HIDE DEF t
<1>5. disk'[r] = old \o ts /\ \A f \in job.files : f # r => disk'[f] = disk[f]
  BY <1>1, <1>2
<1>6. DiskInv'
  <2>1. IsSeq(old \o ts)
    BY <1>2, <1>4, ConcatFacts
  <2>2. DOMAIN disk' = job.files
    BY <1>1, <1>2
  <2> QED BY <1>1, <1>5, <2>1, <2>2 DEF FlushInv, DiskInv
<1>7. CachedInv'
  BY <1>1 DEF FlushInv, CachedInv, Exists
<1>8. writing'[p] = Nothing /\ DOMAIN writing' = Procs /\ \A q \in Procs : q # p => writing'[q] = writing[q]
  BY <1>1 DEF FlushInv, WritingInv
<1>9. WritingInv'
  BY <1>1, <1>8 DEF FlushInv, WritingInv, Nothing, Exists
<1>10. WaitInv'
  <2> SUFFICES ASSUME NEW c \in Conns, Awaiting(conn[c])'
               PROVE  (conn[c].proc \in Procs /\ Awaited(conn[c].proc, conn[c].wait, conn[c].due))'
    BY DEF WaitInv
  <2>1. PICK k : k = conn[c]
    OBVIOUS
  <2>2. conn'[c] = k /\ Awaiting(k) /\ ~Wakens(c)
    <3>1. DOMAIN k = Fields
      BY <2>1 DEF ConnShape
    <3>2. ~Wakens(c)
      <4> SUFFICES ASSUME Wakens(c) PROVE FALSE
        OBVIOUS
      <4>1. conn'[c].woken
        BY <1>3, <2>1, <3>1 DEF Fields
      <4> QED BY <4>1 DEF Awaiting
    <3> QED BY <1>3, <2>1, <3>2 DEF Awaiting
  <2>3. k.proc \in Procs /\ Awaited(k.proc, k.wait, k.due)
    BY <2>1, <2>2 DEF FlushInv, WaitInv
  <2>4. Awaited(k.proc, k.wait, k.due)'
    <3>1. CASE k.proc # p
      BY <1>1, <1>8, <2>3, <3>1 DEF Awaited, Cached
    <3>2. CASE k.proc = p
      <4>1. k.wait # g
        BY <2>1, <2>2, <2>3, <3>2 DEF Awaited
      <4>2. Cached(p, k.wait) /\ Starts(k.due, cache[p][k.wait].vals)
        BY <2>3, <3>2, <4>1 DEF Awaited
      <4>3. writing'[p].file # k.wait
        BY <1>8, <2>2 DEF Nothing, Awaiting
      <4> QED BY <1>1, <3>2, <4>2, <4>3 DEF Awaited, Cached
    <3> QED BY <3>1, <3>2
  <2>5. (conn[c].proc)' = k.proc /\ (conn[c].wait)' = k.wait /\ (conn[c].due)' = k.due
    BY <2>2
  <2> QED BY <2>3, <2>4, <2>5 DEF Awaited, Cached
<1>11. FlushStep
  <2> SUFFICES ASSUME NEW c \in Conns, Wakes(conn[c], conn'[c]), conn'[c].due # <<>>,
                      conn'[c].due[1] > LastOn(Real(conn'[c].wait, "base"))
               PROVE  Range(conn'[c].due) \subseteq Range(disk'[Real(conn'[c].wait, "base")])
    BY DEF FlushStep
  <2>1. PICK k : k = conn[c]
    OBVIOUS
  <2>2. Wakens(c) /\ conn'[c] = [k EXCEPT !.woken = TRUE]
    BY <1>3, <2>1 DEF Wakes
  <2>3. DOMAIN k = Fields
    BY <2>1 DEF ConnShape
  <2>4. conn'[c].due = k.due /\ conn'[c].wait = k.wait /\ k.wait = g /\ k.proc = p /\ ~k.woken
    BY <2>1, <2>2, <2>3 DEF Fields, Wakes
  <2>5. Awaiting(k) /\ k.due # <<>> /\ k.due[1] > LastOn(r)
    BY <1>1, <2>4 DEF Awaiting
  <2>6. Starts(k.due, w)
    BY <2>1, <2>4, <2>5 DEF FlushInv, WaitInv, Awaited
  <2> DEFINE due == k.due
  <2>7. IsSeq(due) /\ DOMAIN due = 1 .. Len(due) /\ Len(due) \in Nat /\ Len(due) # 0
    BY <2>5, <2>6, SeqFacts DEF Starts
  <2>8. IsSeq(w) /\ DOMAIN w = 1 .. Len(w) /\ Len(w) \in Nat
    BY <1>4, SeqFacts
  <2>9. Len(due) <= Len(w) /\ \A i \in 1 .. Len(due) : w[i] = due[i]
    BY <2>6 DEF Starts
  <2>10. w # <<>> /\ w[1] > LastOn(r)
    <3>1. 1 \in 1 .. Len(due) /\ Len(w) # 0
      BY <2>7, <2>8, <2>9
    <3>2. w[1] = due[1]
      BY <2>9, <3>1
    <3> QED BY <2>5, <2>8, <3>1, <3>2, SeqFacts
  <2>11. ts = w
    BY <1>2, <2>10, AllWritten DEF t
  <2>12. IsSeq(old \o w) /\ Len(old \o w) = Len(old) + Len(w) /\ \A i \in 1 .. Len(w) : (old \o w)[Len(old) + i] = w[i]
    BY <1>2, <2>8, ConcatFacts
  <2> DEFINE all == old \o w
  <2>13. disk'[r] = all
    BY <1>5, <2>11
  <2>14. ASSUME NEW i \in 1 .. Len(due) PROVE due[i] \in Range(all)
    <3>1. Len(old) \in Nat /\ DOMAIN all = 1 .. Len(all)
      BY <1>2, <2>12, SeqFacts
    <3> DEFINE j == Len(old) + i
    <3>2. i \in 1 .. Len(w) /\ j \in DOMAIN all
      <4>1. i \in 1 .. Len(w) /\ Len(all) = Len(old) + Len(w)
        BY <2>7, <2>8, <2>9, <2>12
      <4> HIDE DEF all, due, w, old
      <4> QED BY <2>8, <3>1, <4>1
    <3>3. all[j] = due[i]
      BY <2>9, <2>12, <3>2
    <3> HIDE DEF j, all
    <3> QED BY <3>2, <3>3 DEF Range
  <2>15. Range(due) \subseteq Range(all)
    BY <2>7, <2>14 DEF Range
  <2>16. conn'[c].due = due /\ Real(conn'[c].wait, "base") = r
    BY <2>4
  <2> HIDE DEF all, due, r
  <2> QED BY <2>13, <2>15, <2>16
<1> QED BY <1>6, <1>7, <1>9, <1>10, <1>11 DEF FlushInv

(* FLUSH waits for the values that its item has, if nothing is being         *)
(* written.                                                                  *)
LEMMA WaitsFlush ==
    ASSUME FlushInv, TInv, ConnShape, NEW c \in Conns, FlushWaits(c) PROVE FlushInv' /\ FlushStep
<1> DEFINE k == conn[c]
           p == k.proc
           f == get_abs_path(TheLine(k).path)
           busy == writing[p].file = f
           vals == cache[p][f].vals
           h == TakeLine(k)
           due == IF busy THEN <<>> ELSE vals
           u == [h EXCEPT !.wait = f, !.woken = FALSE, !.due = due]
<1>1. /\ HasCommand(c) /\ Cached(p, f) /\ Change(c, u) /\ UNCHANGED <<job, cache, writing, disk>>
  BY DEF FlushWaits, Gets, Pending
<1>2. p \in Procs
  <2>1. Sound(k) /\ k.st = "open"
    BY <1>1 DEF TInv, ConnsInv, HasCommand
  <2> QED BY <2>1 DEF Sound, Flow
<1>3. h.proc = p /\ DOMAIN h = Fields
  BY <1>1, TakenRests DEF ConnShape, TakeLine, Fields
<1>4. u.wait = f /\ u.woken = FALSE /\ u.due = due /\ u.proc = p
  BY <1>3 DEF Fields
<1>5. ~busy => Starts(due, vals)
  <2>1. IsSeq(vals) /\ Len(vals) \in Nat
    BY <1>1, <1>2, SeqFacts DEF FlushInv, CachedInv, Cached, ItemRises, Rising
  <2> QED BY <2>1 DEF Starts
<1>6. busy => due = <<>>
  OBVIOUS
<1>7. Awaiting(u) => Awaited(p, f, due)
  BY <1>1, <1>4, <1>5, <1>6 DEF Awaiting, Awaited
<1> HIDE DEF u, due, h, f, p
<1>8. conn'[c] = u /\ \A d \in Conns : d # c => conn'[d] = conn[d]
  BY <1>1 DEF Change, ConnShape
<1>9. WaitInv'
  <2> SUFFICES ASSUME NEW d \in Conns, Awaiting(conn[d])'
               PROVE  (conn[d].proc \in Procs /\ Awaited(conn[d].proc, conn[d].wait, conn[d].due))'
    BY DEF WaitInv
  <2>1. PICK m : m = conn'[d]
    OBVIOUS
  <2>2. m.proc \in Procs /\ Awaited(m.proc, m.wait, m.due)
    <3>1. CASE d = c
      BY <1>2, <1>4, <1>7, <1>8, <2>1, <3>1 DEF Awaiting
    <3>2. CASE d # c
      BY <1>8, <2>1, <3>2 DEF FlushInv, WaitInv, Awaiting
    <3> QED BY <3>1, <3>2
  <2>3. (conn[d].proc)' = m.proc /\ (conn[d].wait)' = m.wait /\ (conn[d].due)' = m.due
    BY <2>1
  <2> QED BY <1>1, <2>2, <2>3 DEF Awaited, Cached
<1>10. FlushStep
  BY <1>4, <1>8 DEF FlushStep, Wakes
<1>11. DiskInv' /\ CachedInv' /\ WritingInv'
  BY <1>1 DEF FlushInv, DiskInv, CachedInv, WritingInv, Exists
<1> QED BY <1>9, <1>10, <1>11 DEF FlushInv

(* FORGET takes from the cache what nobody waits for any more.               *)
LEMMA ForgetFlush ==
    ASSUME FlushInv, TInv, ConnShape, NEW c \in Conns, Forget(c) PROVE FlushInv' /\ FlushStep
<1> DEFINE k == conn[c]
           p == k.proc
           f == get_abs_path(TheLine(k).path)
           h == TakeLine(k)
<1>1. HasCommand(c) /\ UNCHANGED <<job, writing, disk>> /\ DOMAIN h = Fields /\ h.wait = None
  BY TakenRests DEF Forget, Gets
<1>2. PICK yes \in BOOLEAN, no \in BOOLEAN : yes = TRUE /\ no = FALSE
  OBVIOUS
<1>2a. PICK info : info = <<>>
  OBVIOUS
<1>3. CASE ~(Allowed(TheLine(k)) /\ Cached(p, f))
  <2>1. Reply(c, h, no, info) /\ UNCHANGED cache
    BY <1>2, <1>3, <1>2a DEF Forget
  <2>2. AllRest
    BY <1>1, <2>1, CommandRests
  <2> QED BY <1>1, <2>1, <2>2, RestStep
<1>4. CASE Allowed(TheLine(k)) /\ Cached(p, f)
  <2> DEFINE items == Without(cache[p], {f})
             F == Forgotten(conn, p, f)
  <2>1. PICK m \in send_response(h, yes, info) : conn' = [F EXCEPT ![c] = m]
    BY <1>2, <1>4, <1>2a DEF Forget
  <2>2. cache' = [cache EXCEPT ![p] = items] /\ DOMAIN cache = Procs
    BY <1>4 DEF Forget, TInv, CacheInv
  <2> HIDE DEF h
  <2>3. m.wait = None
    BY <1>1, ReplyWaits
  <2>4. DOMAIN F = Conns
    BY DEF Forgotten
  <2>5. ASSUME NEW d \in Conns, conn[d].wait = f PROVE F[d].due = <<>> /\ DOMAIN F[d] = Fields
    <3>1. PICK v : v = Woken(conn, p, f)[d]
      OBVIOUS
    <3>2. DOMAIN v = Fields
      BY <3>1 DEF Woken, ConnShape
    <3>3. F[d] = [v EXCEPT !.due = <<>>]
      BY <2>5, <3>1 DEF Forgotten
    <3> QED BY <3>2, <3>3 DEF Fields
  <2>6. ASSUME NEW d \in Conns, conn[d].wait # f PROVE F[d] = conn[d]
    BY <2>6 DEF Forgotten
  <2> HIDE DEF F
  <2>7. conn'[c] = m /\ \A d \in Conns : d # c => conn'[d] = F[d]
    BY <2>1, <2>4
  <2>8. AllRest
    <3> SUFFICES ASSUME NEW d \in Conns PROVE Rests(conn[d], conn'[d])
      BY DEF AllRest
    <3>1. CASE d = c
      BY <2>3, <2>7, <3>1 DEF Rests
    <3>2. CASE d # c /\ conn[d].wait = f
      BY <2>5, <2>7, <3>2 DEF Rests
    <3>3. CASE d # c /\ conn[d].wait # f
      BY <2>6, <2>7, <3>3 DEF Rests
    <3> QED BY <3>1, <3>2, <3>3
  <2>9. DOMAIN items = DOMAIN cache[p] \ {f} /\ \A g \in DOMAIN items : items[g] = cache[p][g]
    BY DEF Without
  <2> HIDE DEF items
  <2>10. \A q \in Procs : (q = p => cache'[q] = items) /\ (q # p => cache'[q] = cache[q])
    BY <2>2
  <2>11. CachedInv'
    <3> SUFFICES ASSUME NEW q \in Procs, NEW g \in DOMAIN cache'[q] PROVE Exists(g, "base")' /\ ItemRises(cache'[q][g])
      BY DEF CachedInv
    <3>1. g \in DOMAIN cache[q] /\ cache'[q][g] = cache[q][g]
      BY <2>9, <2>10
    <3> QED BY <1>1, <3>1 DEF FlushInv, CachedInv, Exists
  <2>12. WaitKeeps
    <3> SUFFICES ASSUME NEW d \in Conns, NEW q \in Procs, NEW g, NEW due, Awaiting(conn'[d]),
                        conn'[d].proc = q, conn'[d].wait = g, conn'[d].due = due, Awaited(q, g, due)
                 PROVE  Awaited(q, g, due)'
      BY DEF WaitKeeps
    <3>1. g # f
      <4> SUFFICES ASSUME g = f PROVE FALSE
        OBVIOUS
      <4>1. d # c
        BY <2>3, <2>7 DEF Awaiting
      <4>2. conn[d].wait # f
        BY <2>5, <2>7, <4>1 DEF Awaiting
      <4> QED BY <2>6, <2>7, <4>1, <4>2
    <3>2. g \in DOMAIN cache[q] /\ g \in DOMAIN cache'[q] /\ cache'[q][g] = cache[q][g]
      BY <2>9, <2>10, <3>1 DEF Awaited, Cached
    <3> QED BY <1>1, <3>2 DEF Awaited, Cached
  <2>13. WaitInv' /\ FlushStep
    BY <2>8, <2>12, RestKeeps DEF FlushInv
  <2>14. DiskInv' /\ WritingInv'
    BY <1>1 DEF FlushInv, DiskInv, WritingInv, Exists
  <2> QED BY <2>11, <2>13, <2>14 DEF FlushInv
<1> QED BY <1>3, <1>4

-----------------------------------------------------------------------------
(* Everything else that writes.                                              *)

(* A tool without a daemon writes the values of its command itself.          *)
LEMMA SelfFlush ==
    ASSUME FlushInv, LInv, TInv, job \in Jobs, UpdatesItself, AllRest, UNCHANGED <<job, cache, writing>>
    PROVE  FlushInv' /\ FlushStep
<1> DEFINE r == Real(Path, "cwd")
           vals == Cmd.vals
           old == disk[r]
           ts == Taken(LastOn(r), vals).took
<1>1. WaitInv' /\ FlushStep
  BY CacheUntouched, CacheRests DEF FlushInv
<1>2. CachedInv' /\ WritingInv'
  BY DEF FlushInv, CachedInv, WritingInv, Exists
<1>3. CASE UNCHANGED disk
  BY <1>1, <1>2, <1>3 DEF FlushInv, DiskInv
<1>4. CASE Exists(Path, "cwd") /\ disk' = Written(r, vals)
  <2>1. r \in job.files /\ DOMAIN disk = job.files /\ \A f \in job.files : IsSeq(disk[f])
    BY <1>4 DEF Exists, FlushInv, DiskInv
  <2>2. IsSeq(vals)
    <3>1. Len(results) + 1 \in 1 .. Len(job.tool)
      BY DEF TInv, ToolInv, AtWork, UpdatesItself
    <3>2. vals \in Seq(Int)
      BY <3>1, RrdProtocolAssumption DEF Cmd
    <3> QED BY <3>2 DEF IsSeq
  <2>3. IsSeq(ts)
    <3> HIDE DEF vals, r
    <3> QED BY <2>2, TakenFacts
  <2>4. disk' = [disk EXCEPT ![r] = old \o ts]
    BY <1>4 DEF Written
  <2> HIDE DEF ts, r, vals
  <2>5. IsSeq(old \o ts)
    BY <2>1, <2>3, ConcatFacts
  <2>6. DiskInv'
    BY <2>1, <2>4, <2>5 DEF DiskInv
  <2> QED BY <1>1, <1>2, <2>6 DEF FlushInv
<1> QED BY <1>3, <1>4 DEF UpdatesItself

(* At the beginning nothing is cached, written or waited for.                *)
LEMMA FlushInit == ClientInit => FlushInv
<1> SUFFICES ASSUME ClientInit PROVE FlushInv
  OBVIOUS
<1>1. PICK e : e = <<>>
  OBVIOUS
<1>2. IsSeq(e) /\ Len(e) = 0 /\ DOMAIN e = {}
  BY <1>1, NothingIsSeq
<1>3. /\ disk = [f \in job.files |-> e] /\ cache = [p \in Procs |-> e]
      /\ writing = [p \in Procs |-> Nothing] /\ conn = [c \in Conns |-> Idle]
  BY <1>1 DEF ClientInit, Init
<1>4. DiskInv /\ CachedInv
  BY <1>2, <1>3 DEF DiskInv, CachedInv
<1>5. WritingInv
  BY <1>3 DEF WritingInv, Nothing
<1>6. WaitInv
  BY <1>3 DEF WaitInv, Awaiting, Idle
<1> QED BY <1>4, <1>5, <1>6 DEF FlushInv

(* Every step keeps it, and does what is said of it.                         *)
LEMMA FlushNext ==
    IInv /\ LInv /\ TInv /\ FlushInv /\ [Next]_vars => FlushInv' /\ (FlushStep \/ UNCHANGED vars)
<1> SUFFICES ASSUME IInv, LInv, TInv, FlushInv, [Next]_vars PROVE FlushInv' /\ (FlushStep \/ UNCHANGED vars)
  OBVIOUS
<1>0. CacheInv /\ ConnShape /\ job \in Jobs
  BY DEF TInv, LInv, Shape, IInv, Types
<1>1. CASE UNCHANGED vars
  <2>1. UNCHANGED <<job, cache, writing, disk, conn>>
    BY <1>1 DEF vars, serverVars
  <2>2. FlushInv'
    BY <1>0, <2>1, NoneRests, RestStep
  <2> QED BY <1>1, <2>2
<1>2. ASSUME Next PROVE FlushInv' /\ FlushStep
  <2>0. job' = job
    BY <1>2, JobStays
  <2>1. ASSUME AllRest, UNCHANGED <<job, cache, writing, disk>> PROVE FlushInv' /\ FlushStep
    BY <2>1, RestStep
  <2>2. ASSUME NEW p \in Procs, Process(p) \/ Crash(p) \/ Stop(p) PROVE FlushInv' /\ FlushStep
    <3>1. CASE \/ Start(p) \/ Check(p) \/ TakeOver(p) \/ BindUnix(p) \/ BindNetwork(p) \/ WritePid(p)
               \/ CloseListenSockets(p) \/ Exit(p) \/ Crash(p) \/ Stop(p)
      BY <1>0, <2>1, <3>1, ProcessRests
    <3>2. CASE FlushThread(p)
      <4>1. \E old, idle : FlushOldValues(p, old, idle)
        BY <3>2 DEF FlushThread
      <4>2. conn' = conn /\ UNCHANGED <<writing, disk>>
        BY <3>2 DEF FlushThread
      <4> QED BY <1>0, <2>0, <4>1, <4>2, NoneRests, OldFlush
    <3>3. CASE TakeFirst(p)
      BY <1>0, <3>3, TakeFlush
    <3>4. CASE WriteOut(p)
      BY <1>0, <3>4, WriteFlush
    <3> QED BY <2>2, <3>1, <3>2, <3>3, <3>4 DEF Process
  <2>3. ASSUME NEW c \in Conns, Accept(c) \/ Connection(c) PROVE FlushInv' /\ FlushStep
    <3>1. CASE \/ Accept(c) \/ Leave(c) \/ ReadSome(c) \/ Quit(c) \/ Refuse(c) \/ BatchStart(c)
               \/ BatchDone(c) \/ Stats(c) \/ Help(c) \/ Queue(c) \/ ShowPending(c)
               \/ RefuseUpdate(c) \/ FlushNothing(c) \/ FlushReturns(c)
      BY <1>0, <2>1, <3>1, ConnectionRests
    <3>2. CASE Update(c)
      BY <1>0, <2>0, <3>2, UpdateFlush
    <3>3. CASE FlushWaits(c)
      BY <1>0, <3>3, WaitsFlush
    <3>4. CASE Forget(c)
      BY <1>0, <3>4, ForgetFlush
    <3>5. CASE FlushAll(c)
      <4>1. HasCommand(c) /\ Reply(c, TakeLine(conn[c]), TRUE, <<>>) /\ UNCHANGED <<writing, disk>>
        BY <3>5 DEF FlushAll, Gets
      <4>2. AllRest
        <5>1. TRUE \in BOOLEAN
          OBVIOUS
        <5> QED BY <1>0, <4>1, <5>1, CommandRests
      <4>3. \E old, idle : FlushOldValues(conn[c].proc, old, idle)
        BY <3>5 DEF FlushAll
      <4>4. conn[c].proc \in Procs
        BY <4>1 DEF TInv, ConnsInv, HasCommand, Sound, Flow
      <4> QED BY <1>0, <2>0, <4>1, <4>2, <4>3, <4>4, OldFlush
    <3> QED BY <2>3, <3>1, <3>2, <3>3, <3>4, <3>5 DEF Connection, Handle
  <2>4. ASSUME NEW c \in Conns, Raw(c) PROVE FlushInv' /\ FlushStep
    BY <1>0, <2>1, <2>4, RawRests
  <2>5. ASSUME Tool PROVE FlushInv' /\ FlushStep
    <3>1. AllRest /\ UNCHANGED <<job, cache, writing>> /\ (~UpdatesItself => UNCHANGED disk)
      BY <2>5, ToolRests
    <3>2. CASE UpdatesItself
      BY <1>0, <3>1, <3>2, SelfFlush
    <3>3. CASE ~UpdatesItself
      BY <2>1, <3>1, <3>3
    <3> QED BY <3>2, <3>3
  <2> QED BY <1>2, <2>2, <2>3, <2>4, <2>5 DEF Next, Server, Signals
<1> QED BY <1>1, <1>2

(* A FLUSH that waited for values and is woken finds them in its file, if no *)
(* write of it was going on before, nobody forgot it, and the file was not   *)
(* ahead of them: whatever is updated, queued, purged or written meanwhile,  *)
(* by the daemon or beside it (flush_file, queue_thread_main).               *)
THEOREM FlushWrites == Spec => FlushedIsWritten
<1>1. ClientInit => IInv /\ LInv /\ TInv /\ FlushInv
  BY NobodyClaims, InitHolds, AnswersInit, FlushInit DEF ClientInit
<1>2. IInv /\ LInv /\ TInv /\ FlushInv /\ [Next]_vars => (IInv /\ LInv /\ TInv /\ FlushInv)'
  BY NextHolds, LibraryNext, AnswersStep, FlushNext
<1>3. IInv /\ LInv /\ TInv /\ FlushInv /\ [Next]_vars => [FlushStep]_vars
  BY FlushNext
<1>4. Spec => [][FlushStep]_vars
  BY <1>1, <1>2, <1>3, PTL DEF Spec
<1> QED BY <1>4 DEF FlushStep, FlushedIsWritten

==============================================================================
