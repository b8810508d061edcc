--------------------------- MODULE SourceSync_proofs ---------------------------
(***************************************************************************)
(* Theorems about SourceSync for every set of sources, workers and tests.  *)
(*                                                                         *)
(* LoginKept is about the provider's answers.  The proof needs to know     *)
(* where the newest token pair is (Paired): in the row, with the one actor *)
(* who locks the row (OneOwner), or lost.  DeletedStaysSilent and          *)
(* StatusFinal need what a heartbeat that has looked, and an error that    *)
(* was written, still know when they commit (Heard, Reported).  NoCircle   *)
(* needs the order of the labels: what a pass has failed with stands       *)
(* before what it works on, and that before what it has left (Ordered).    *)
(* NoCircle says of passes that agree on the labels what the order of the  *)
(* labels is worth; what the labels do not decide, nothing does.           *)
(* LettersKept needs what an import has read of a mailbox, and that no     *)
(* cursor is taken for another server's (Aligned, Apart).                  *)
(***************************************************************************)
EXTENDS SourceSync, SequenceTheorems, WellFoundedInduction, TLAPS

Busy == Inner \cup {"waiting", "failing", "checking"}
AtProvider == {"rejected", "exchanging", "exchanged", "checking"}

\* What the job of actor a may be.
Fits(a, x) ==
    /\ x \in Job
    /\ x.pc \in IF a \in Worker THEN PC ELSE TestPC
    /\ x.pc \in Busy => x.src \in Source
    /\ x.pc \in AtProvider => x.src \in Mts
    /\ x.pc = "exchanged" => x.pair >= 1

TypeInv == TypeOK /\ \A a \in Actor : Fits(a, job[a])

------------------------------------------------------------------------------
(* Types *)

LEMMA IdleType == NoCursor \in Cursor /\ \A a \in Actor : Fits(a, Idle)
<1>1. 0 \in 0..MaxLabel
  BY SourceAssumption
<1> QED
  BY <1>1, SourceAssumption DEF Idle, Job, NoCursor, Cursor, PC, TestPC, Inner, Letter, Fits, Busy, AtProvider

LEMMA FailedType ==
    ASSUME TypeInv, NEW a \in Actor, job[a].pc \in Busy
    PROVE  Fits(a, Failed(a))
<1>1. CASE a \in Worker
  BY <1>1 DEF TypeInv, Failed, Fits, Job, PC, TestPC, Inner, Busy, AtProvider
<1>2. CASE a \notin Worker
  BY <1>2, IdleType DEF Failed
<1> QED
  BY <1>1, <1>2

LEMMA ListedType ==
    ASSUME TypeInv, NEW a \in Worker, NEW errors \in SUBSET Source
    PROVE  Fits(a, Listed(job[a], errors))
BY IdleType DEF TypeInv, Listed, Idle, Fits, Job, PC, TestPC, Inner, Busy, AtProvider, Actor

\* One job changes.
LEMMA GoesType ==
    ASSUME TypeInv, NEW a \in Actor, NEW x, Fits(a, x), Goes(a, x)
    PROVE  /\ job' \in [Actor -> Job]
           /\ \A b \in Actor : Fits(b, job'[b])
           /\ \A b \in Actor : job'[b].pc \in IF b \in Worker THEN PC ELSE TestPC
           /\ job'[a] = x
           /\ \A b \in Actor \ {a} : job'[b] = job[b]
BY DEF TypeInv, TypeOK, Goes, Fits

\* It changes and nothing else does.
LEMMA OnlyGoes ==
    ASSUME TypeInv, NEW a \in Actor, NEW x, Fits(a, x), Goes(a, x),
           UNCHANGED <<row, cursor, events, status, beat, world, provider>>
    PROVE  TypeInv'
BY GoesType DEF TypeInv, TypeOK, world, provider

LEMMA LoopType ==
    ASSUME TypeInv, NEW w \in Worker, Loop(w)
    PROVE  TypeInv'
<1> w \in Actor
  BY DEF Actor
<1> Fits(w, job[w])
  BY DEF TypeInv
<1>1. CASE Pass(w)
  <2>1. PICK due \in SUBSET Source : Goes(w, Listing(due))
    BY <1>1 DEF Pass
  <2>2. [s \in Source |-> IF s \in due THEN row[s].label ELSE 0] \in [Source -> 0..MaxLabel]
    BY SourceAssumption DEF TypeInv, TypeOK, Row
  <2>3. Fits(w, Listing(due))
    BY <2>2, IdleType DEF Listing, Fits, Idle, Job, PC, TestPC, Inner, Busy, AtProvider
  <2> QED
    BY <1>1, <2>1, <2>3, OnlyGoes DEF Pass
<1>2. CASE Take(w)
  <2>1. PICK s \in Source : Goes(w, [job[w] EXCEPT !.pc = "waiting", !.src = s, !.todo = @ \ {s}])
    BY <1>2 DEF Take
  <2>2. Fits(w, [job[w] EXCEPT !.pc = "waiting", !.src = s, !.todo = @ \ {s}])
    BY DEF Fits, Job, PC, TestPC, Inner, Busy, AtProvider
  <2> QED
    BY <1>2, <2>1, <2>2, OnlyGoes DEF Take
<1>3. CASE Enter(w)
  <2> DEFINE s == job[w].src
             x == [job[w] EXCEPT !.pc = "entered", !.endpoint = row[s].endpoint, !.pair = row[s].pair]
             y == [job[w] EXCEPT !.pc = "failing"]
  <2>1. s \in Source
    BY <1>3 DEF Enter, Fits, Busy
  <2>2. row[s].endpoint \in Endpoint /\ row[s].pair \in 0..MaxPair
    <3>1. row[s] \in Row
      BY <2>1 DEF TypeInv, TypeOK
    <3> QED
      BY <3>1, SourceAssumption DEF Row
  <2>3. Fits(w, x)
    BY <2>1, <2>2 DEF Fits, Job, PC, TestPC, Inner, Busy, AtProvider
  <2>4. Fits(w, y)
    BY <2>1 DEF Fits, Job, PC, TestPC, Inner, Busy, AtProvider
  <2>5. CASE row[s].state = "enabled"
    <3>1. Goes(w, x) /\ beat' = [beat EXCEPT ![w].on = TRUE]
      BY <1>3, <2>5 DEF Enter
    <3>2. beat' \in [Worker -> [on : BOOLEAN, writes : Source \cup {NoSource}]]
      BY <3>1 DEF TypeInv, TypeOK
    <3> HIDE DEF x
    <3> QED
      BY <1>3, <3>1, <3>2, <2>3, GoesType DEF Enter, TypeInv, TypeOK, world, provider
  <2>6. CASE row[s].state # "enabled"
    BY <1>3, <2>4, <2>6, OnlyGoes DEF Enter
  <2> QED
    BY <2>5, <2>6
<1>4. CASE Select(w)
  <2> DEFINE s == job[w].src
             e == job[w].endpoint
             from == ReadFrom(cursor[s], validity[s][e])
             l == SubSeq(box[s][e], from + 1, Len(box[s][e]))
             x == [job[w] EXCEPT !.pc = "loading", !.last = from, !.validity = validity[s][e], !.list = l]
  <2>1. s \in Mail /\ s \in Source /\ e \in Endpoint
    BY <1>4 DEF Select, Fits, Job, Source
  <2>2. cursor[s] \in Cursor /\ validity[s][e] \in Nat /\ box[s][e] \in Seq(Letter)
    BY <2>1 DEF TypeInv, TypeOK
  <2>3. from \in Nat
    BY <2>2 DEF ReadFrom, Cursor
  <2>4. l \in Seq(Letter)
    <3>1. Len(box[s][e]) \in Nat
      BY <2>2, LenProperties
    <3>2. \A i \in (from + 1)..Len(box[s][e]) : box[s][e][i] \in Letter
      BY <2>2, <2>3, <3>1, ElementOfSeq
    <3> QED
      BY <2>2, <2>3, <3>1, SubSeqProperties
  <2>5. Fits(w, x)
    <3> HIDE DEF from, l
    <3> QED
      BY <2>1, <2>2, <2>3, <2>4 DEF Fits, Job, PC, TestPC, Inner, Busy, AtProvider
  <2>6. Goes(w, x)
    BY <1>4 DEF Select
  <2> HIDE DEF x
  <2> QED
    BY <1>4, <2>5, <2>6, OnlyGoes DEF Select
<1>5. CASE ListTranscripts(w)
  <2> DEFINE s == job[w].src
             x == [job[w] EXCEPT !.pc = "loading", !.retry = FALSE, !.list = box[s][job[w].endpoint]]
  <2>1. s \in Source /\ job[w].endpoint \in Endpoint
    BY <1>5 DEF ListTranscripts, Fits, Job, Source
  <2>2. box[s][job[w].endpoint] \in Seq(Letter)
    BY <2>1 DEF TypeInv, TypeOK
  <2>3. Fits(w, x)
    BY <2>1, <2>2 DEF Fits, Job, PC, TestPC, Inner, Busy, AtProvider
  <2>4. Goes(w, x)
    BY <1>5 DEF ListTranscripts
  <2> HIDE DEF x
  <2> QED
    BY <1>5, <2>3, <2>4, OnlyGoes DEF ListTranscripts
<1>6. CASE Load(w)
  <2> DEFINE n == IF job[w].src \in Mail THEN job[w].last + 1 ELSE 0
             x(got) == [job[w] EXCEPT !.list = Tail(@), !.got = got, !.retry = FALSE, !.last = n]
  <2>1. job[w].list \in Seq(Letter) /\ job[w].list # <<>> /\ job[w].pc = "loading"
    BY <1>6 DEF Load, Fits, Job
  <2>2. Tail(job[w].list) \in Seq(Letter) /\ Head(job[w].list) \in Letter
    BY <2>1, HeadTailProperties
  <2>3. PICK got \in {job[w].got, job[w].got \cup {Item(w)}} : Advance(w, got)
    BY <1>6 DEF Load
  <2>4. got \in SUBSET (Endpoint \X Letter)
    BY <2>2 DEF Item, Fits, Job
  <2>5. Fits(w, x(got))
    <3>1. n \in Nat
      BY DEF Fits, Job
    <3> HIDE DEF n
    <3> QED
      BY <3>1, <2>1, <2>2, <2>4 DEF Fits, Job, PC, TestPC, Inner, Busy, AtProvider
  <2>6. Goes(w, x(got))
    BY <2>3 DEF Advance
  <2> HIDE DEF x
  <2> QED
    BY <1>6, <2>5, <2>6, OnlyGoes DEF Load
<1>7. CASE Close(w)
  <2> DEFINE s == job[w].src
  <2>1. s \in Source /\ job[w].got \in SUBSET (Endpoint \X Letter) /\ job[w].failed \in SUBSET Source
    BY <1>7 DEF Close, Fits, Job, Busy, Inner
  <2>2. Goes(w, Listed(job[w], job[w].failed)) /\ Fits(w, Listed(job[w], job[w].failed))
    BY <1>7, <2>1, ListedType DEF Close
  <2>3. events' \in [Source -> SUBSET (Endpoint \X Letter)]
    BY <1>7, <2>1 DEF Close, TypeInv, TypeOK
  <2>4. [endpoint |-> job[w].endpoint, validity |-> job[w].validity, last |-> job[w].last] \in Cursor
    BY DEF Cursor, Fits, Job
  <2>5. cursor' \in [Source -> Cursor]
    BY <1>7, <2>1, <2>4 DEF Close, TypeInv, TypeOK
  <2>6. status' \in [Source -> {"none", "BUSY", "OK", "ERROR"}]
    BY <1>7 DEF Close, TypeInv, TypeOK
  <2>7. beat' \in [Worker -> [on : BOOLEAN, writes : Source \cup {NoSource}]]
    BY <1>7 DEF Close, TypeInv, TypeOK
  <2> QED
    BY <1>7, <2>2, <2>3, <2>5, <2>6, <2>7, GoesType DEF Close, TypeInv, TypeOK, world, provider
<1>8. CASE Unwind(w)
  <2> DEFINE x == [job[w] EXCEPT !.pc = "failing", !.got = {}, !.list = <<>>]
  <2>1. Goes(w, x)
    BY <1>8 DEF Unwind
  <2>2. Fits(w, x)
    BY <1>8, EmptySeq DEF Unwind, Fits, Job, PC, TestPC, Inner, Busy, AtProvider
  <2>3. beat' \in [Worker -> [on : BOOLEAN, writes : Source \cup {NoSource}]]
    BY <1>8 DEF Unwind, TypeInv, TypeOK
  <2> HIDE DEF x
  <2> QED
    BY <1>8, <2>1, <2>2, <2>3, GoesType DEF Unwind, TypeInv, TypeOK, world, provider
<1>9. CASE Report(w)
  <2>1. job[w].src \in Source /\ job[w].failed \in SUBSET Source
    BY <1>9 DEF Report, Fits, Job, Busy
  <2>2. PICK x : Fits(w, x) /\ Goes(w, x)
    BY <1>9, <2>1, IdleType, ListedType DEF Report
  <2> QED
    BY <1>9, <2>2, OnlyGoes DEF Report
<1>10. CASE Finish(w)
  <2>1. status' \in [Source -> {"none", "BUSY", "OK", "ERROR"}]
    BY <1>10 DEF Finish, TypeInv, TypeOK
  <2>2. Goes(w, Idle) /\ Fits(w, Idle)
    BY <1>10, IdleType DEF Finish
  <2> QED
    BY <1>10, <2>1, <2>2, GoesType DEF Finish, TypeInv, TypeOK, world, provider
<1> QED
  BY <1>1, <1>2, <1>3, <1>4, <1>5, <1>6, <1>7, <1>8, <1>9, <1>10 DEF Loop

LEMMA CallType ==
    ASSUME TypeInv, NEW a \in Actor, Call(a)
    PROVE  TypeInv'
<1> Fits(a, job[a])
  BY DEF TypeInv
<1> DEFINE s == job[a].src
<1>1. job[a].pc \in Busy /\ s \in Mts /\ s \in Source /\ Fits(a, Failed(a))
  BY FailedType DEF Call, Reject, Rotate, Exchange, Renew, Calls, Fits, Busy, Inner, AtProvider, Source
<1>2. row[s] \in Row
  BY <1>1 DEF TypeInv, TypeOK
<1>3. issued[s] \in 1..MaxPair /\ MaxPair \in Nat
  BY <1>1, SourceAssumption DEF TypeInv, TypeOK
<1>4. ASSUME NEW p \in 0..MaxPair
      PROVE  Fits(a, [job[a] EXCEPT !.pc = CallOf(a), !.pair = p, !.retry = TRUE])
  <2>1. CallOf(a) \in IF a \in Worker THEN {"entered", "loading"} ELSE {"checking"}
    BY SourceAssumption DEF CallOf, Actor
  <2> QED
    BY <1>1, <2>1 DEF Fits, Job, PC, TestPC, Inner, Busy, AtProvider
<1>5. CASE Reject(a)
  <2>1. Fits(a, [job[a] EXCEPT !.pc = "rejected"])
    BY <1>1 DEF Fits, Job, PC, TestPC, Inner, Busy, AtProvider
  <2>2. PICK x : Fits(a, x) /\ Goes(a, x)
    BY <1>1, <1>5, <2>1 DEF Reject
  <2> QED
    BY <1>5, <2>2, OnlyGoes DEF Reject
<1>6. CASE Rotate(a)
  <2>1. Fits(a, [job[a] EXCEPT !.pc = "exchanging"])
    BY <1>1 DEF Fits, Job, PC, TestPC, Inner, Busy, AtProvider
  <2>2. row[s].pair \in 0..MaxPair
    BY <1>2, <1>3 DEF Row
  <2>3. Fits(a, [job[a] EXCEPT !.pc = CallOf(a), !.pair = row[s].pair, !.retry = TRUE])
    BY <1>4, <2>2
  <2>4. PICK x : Fits(a, x) /\ Goes(a, x)
    BY <1>1, <1>6, <2>1, <2>3 DEF Rotate
  <2> QED
    BY <1>6, <2>4, OnlyGoes DEF Rotate
<1>7. CASE Exchange(a)
  <2>1. ASSUME issued[s] < MaxPair
        PROVE  Fits(a, [job[a] EXCEPT !.pc = "exchanged", !.pair = issued[s] + 1])
    <3>1. issued[s] + 1 \in 0..MaxPair /\ issued[s] + 1 >= 1
      BY <1>3, <2>1
    <3> QED
      BY <1>1, <3>1 DEF Fits, Job, PC, TestPC, Inner, Busy, AtProvider
  <2>2. PICK x : Fits(a, x) /\ Goes(a, x)
    BY <1>1, <1>7, <2>1 DEF Exchange
  <2>3. /\ issued' \in [Source -> 1..MaxPair] /\ live' \in [Source -> BOOLEAN]
        /\ lost' \subseteq Mts /\ refused' \subseteq Mts
    <3>1. CASE issued[s] < MaxPair /\ issued' = [issued EXCEPT ![s] = @ + 1]
      <4>1. issued[s] + 1 \in 1..MaxPair
        BY <1>3, <3>1
      <4> QED
        BY <1>1, <1>7, <3>1, <4>1 DEF Exchange, TypeInv, TypeOK
    <3>2. CASE UNCHANGED <<issued, live, lost>>
      BY <1>1, <1>7, <3>2 DEF Exchange, TypeInv, TypeOK
    <3> QED
      BY <1>7, <3>1, <3>2 DEF Exchange
  <2> QED
    BY <1>7, <2>2, <2>3, GoesType DEF Exchange, TypeInv, TypeOK, world
<1>8. CASE Renew(a)
  <2>1. job[a].pair \in 1..MaxPair
    <3>1. job[a].pair \in 0..MaxPair /\ job[a].pair >= 1
      BY <1>8 DEF Renew, Fits, Job
    <3> QED
      BY <3>1, <1>3
  <2>2. row' \in [Source -> Row]
    <3>1. [row[s] EXCEPT !.pair = job[a].pair] \in Row
      BY <1>2, <2>1 DEF Row
    <3> QED
      BY <1>8, <1>1, <3>1 DEF Renew, TypeInv, TypeOK
  <2> DEFINE x == [job[a] EXCEPT !.pc = CallOf(a), !.pair = job[a].pair, !.retry = TRUE]
  <2>3. x = [job[a] EXCEPT !.pc = CallOf(a), !.retry = TRUE]
    BY DEF Fits, Job
  <2>4. job[a].pair \in 0..MaxPair
    BY <2>1, <1>3
  <2>5. Fits(a, x)
    BY <1>4, <2>4
  <2>6. Goes(a, x)
    BY <1>8, <2>3 DEF Renew
  <2> HIDE DEF x
  <2> QED
    BY <1>8, <2>2, <2>5, <2>6, GoesType DEF Renew, TypeInv, TypeOK, world, provider
<1> QED
  BY <1>5, <1>6, <1>7, <1>8 DEF Call

LEMMA TestType ==
    ASSUME TypeInv, NEW c \in Checker, Test(c) \/ TestEnds(c)
    PROVE  TypeInv'
<1> c \in Actor /\ c \notin Worker
  BY SourceAssumption DEF Actor
<1> Fits(c, job[c])
  BY DEF TypeInv
<1>1. CASE Test(c)
  <2>1. PICK s \in Mts : Goes(c, [job[c] EXCEPT !.pc = "checking", !.src = s, !.pair = row[s].pair])
    BY <1>1 DEF Test
  <2>2. row[s].pair \in 0..MaxPair
    <3>1. row[s] \in Row
      BY DEF TypeInv, TypeOK, Source
    <3> QED
      BY <3>1, SourceAssumption DEF Row
  <2>3. Fits(c, [job[c] EXCEPT !.pc = "checking", !.src = s, !.pair = row[s].pair])
    BY <2>2 DEF Fits, Job, TestPC, Inner, Busy, AtProvider, Source
  <2> QED
    BY <1>1, <2>1, <2>3, OnlyGoes DEF Test
<1>2. CASE TestEnds(c)
  BY <1>2, IdleType, OnlyGoes DEF TestEnds
<1> QED
  BY <1>1, <1>2

LEMMA RowType ==
    ASSUME TypeInv
    PROVE  \A s \in Source : row[s] \in Row
BY DEF TypeInv, TypeOK

LEMMA PulseType ==
    ASSUME TypeInv
    PROVE  \A w \in Worker : beat[w] \in [on : BOOLEAN, writes : Source \cup {NoSource}]
BY DEF TypeInv, TypeOK

\* Steps that leave the jobs alone, and Stop.
LEMMA SurroundType ==
    ASSUME TypeInv, Environment
    PROVE  TypeInv'
<1>1. ASSUME NEW s \in Source, Delete(s) PROVE TypeInv'
  <2>1. row' \in [Source -> Row]
    <3>1. [row[s] EXCEPT !.state = "gone"] \in Row
      BY RowType DEF Row
    <3> QED
      BY <1>1, <3>1 DEF Delete, TypeInv, TypeOK
  <2> QED
    BY <1>1, <2>1, IdleType DEF Delete, TypeInv, TypeOK, world, provider, Fits
<1>2. ASSUME NEW s \in Source, NEW e \in Endpoint, NEW state \in {"enabled", "disabled"},
             NEW l \in 0..MaxLabel, Configure(s, e, state, l)
      PROVE  TypeInv'
  <2>1. row' \in [Source -> Row]
    <3>1. row[s] \in Row
      BY DEF TypeInv, TypeOK
    <3>2. [row[s] EXCEPT !.endpoint = e, !.state = state, !.label = l] \in Row
      BY <3>1 DEF Row
    <3> QED
      BY <1>2, <3>2 DEF Configure, TypeInv, TypeOK
  <2>2. cursor' \in [Source -> Cursor]
    BY <1>2, IdleType DEF Configure, TypeInv, TypeOK
  <2> QED
    BY <1>2, <2>1, <2>2 DEF Configure, TypeInv, TypeOK, world, provider, Fits
<1>3. ASSUME NEW s \in Source, NEW state \in {"enabled", "disabled"}, Login(s, state)
      PROVE  TypeInv'
  <2>1. issued[s] + 1 \in 1..MaxPair
    <3>1. issued[s] \in 1..MaxPair /\ MaxPair \in Nat /\ issued[s] < MaxPair
      BY <1>3, SourceAssumption DEF Login, TypeInv, TypeOK
    <3> QED
      BY <3>1
  <2>2. row' \in [Source -> Row]
    <3>1. row[s] \in Row
      BY DEF TypeInv, TypeOK
    <3>2. [row[s] EXCEPT !.pair = issued[s] + 1, !.state = state] \in Row
      BY <2>1, <3>1 DEF Row
    <3> QED
      BY <1>3, <3>2 DEF Login, TypeInv, TypeOK
  <2>3. issued' \in [Source -> 1..MaxPair] /\ live' \in [Source -> BOOLEAN]
    BY <1>3, <2>1 DEF Login, TypeInv, TypeOK
  <2>4. lost' \subseteq Mts /\ refused' \subseteq Mts
    BY <1>3 DEF Login, TypeInv, TypeOK
  <2> QED
    BY <1>3, <2>2, <2>3, <2>4 DEF Login, TypeInv, TypeOK, world, Fits
<1>4. ASSUME NEW s \in Source, Expire(s) PROVE TypeInv'
  BY <1>4 DEF Expire, TypeInv, TypeOK, world, Fits
<1>5. ASSUME NEW s \in Source, NEW e \in Endpoint, Renumber(s, e) PROVE TypeInv'
  <2>1. box[s][e] \in Seq(Letter) /\ validity[s][e] \in Nat \ {0}
    BY DEF TypeInv, TypeOK
  <2>2. Reverse(box[s][e]) \in Seq(Letter)
    BY <2>1 DEF Reverse
  <2>3. validity[s][e] + 1 \in Nat \ {0}
    BY <2>1
  <2>4. box' \in [Source -> [Endpoint -> Seq(Letter)]]
    BY <1>5, <2>2 DEF Renumber, TypeInv, TypeOK
  <2>5. validity' \in [Source -> [Endpoint -> Nat \ {0}]]
    BY <1>5, <2>3 DEF Renumber, TypeInv, TypeOK
  <2> QED
    BY <1>5, <2>4, <2>5 DEF Renumber, TypeInv, TypeOK, provider, Fits
<1>6. ASSUME NEW s \in Source, NEW e \in Endpoint, Arrive(s, e) PROVE TypeInv'
  <2>1. box[s][e] \in Seq(Letter)
    BY DEF TypeInv, TypeOK
  <2>2. Len(box[s][e]) + 1 \in Letter
    BY <2>1, LenProperties DEF Letter
  <2>3. Append(box[s][e], Len(box[s][e]) + 1) \in Seq(Letter)
    BY <2>1, <2>2, AppendProperties
  <2>4. box' \in [Source -> [Endpoint -> Seq(Letter)]]
    BY <1>6, <2>3 DEF Arrive, TypeInv, TypeOK
  <2> QED
    BY <1>6, <2>4 DEF Arrive, TypeInv, TypeOK, provider, Fits
<1>7. ASSUME NEW a \in Actor, Stop(a) PROVE TypeInv'
  <2>1. lost' \subseteq Mts
    BY <1>7 DEF Stop, TypeInv, TypeOK, Fits, AtProvider
  <2>2. beat' \in [Worker -> [on : BOOLEAN, writes : Source \cup {NoSource}]]
    BY <1>7 DEF Stop, TypeInv, TypeOK, Silent
  <2>3. Goes(a, Idle) /\ Fits(a, Idle)
    BY <1>7, IdleType DEF Stop
  <2> QED
    BY <1>7, <2>1, <2>2, <2>3, GoesType DEF Stop, TypeInv, TypeOK, world
<1>8. \A s \in Source : row[s].endpoint \in Endpoint /\ row[s].label \in 0..MaxLabel
  BY RowType DEF Row
<1>9. \A s \in Source : Label[s] \subseteq 0..MaxLabel
  BY SourceAssumption
<1> QED
  BY <1>1, <1>2, <1>3, <1>4, <1>5, <1>6, <1>7, <1>8, <1>9 DEF Environment

LEMMA BeatType ==
    ASSUME TypeInv, NEW w \in Worker, Panic(w) \/ Beat(w) \/ BeatCommit(w)
    PROVE  TypeInv'
<1> w \in Actor /\ Fits(w, job[w])
  BY DEF Actor, TypeInv
<1>1. CASE Panic(w)
  <2>1. Fits(w, [job[w] EXCEPT !.pc = "panicking"])
    BY <1>1 DEF Panic, Fits, Job, PC, TestPC, Inner, Busy, AtProvider
  <2> QED
    BY <1>1, <2>1, OnlyGoes DEF Panic
<1>2. CASE Beat(w)
  <2>1. job[w].src \in Source
    BY <1>2 DEF Beat, Fits, Busy
  <2>2. beat' \in [Worker -> [on : BOOLEAN, writes : Source \cup {NoSource}]]
    BY <1>2, <2>1 DEF Beat, TypeInv, TypeOK, Silent
  <2> QED
    BY <1>2, <2>2 DEF Beat, TypeInv, TypeOK, world, provider, Fits
<1>3. CASE BeatCommit(w)
  <2>1. beat[w].writes \in Source
    BY <1>3 DEF BeatCommit, TypeInv, TypeOK
  <2>2. beat' \in [Worker -> [on : BOOLEAN, writes : Source \cup {NoSource}]]
    <3>1. [beat[w] EXCEPT !.writes = NoSource] \in [on : BOOLEAN, writes : Source \cup {NoSource}]
      BY PulseType
    <3> QED
      BY <1>3, <3>1 DEF BeatCommit, TypeInv, TypeOK
  <2>3. status' \in [Source -> {"none", "BUSY", "OK", "ERROR"}]
    BY <1>3, <2>1 DEF BeatCommit, TypeInv, TypeOK
  <2> QED
    BY <1>3, <2>2, <2>3 DEF BeatCommit, TypeInv, TypeOK, world, provider, Fits
<1> QED
  BY <1>1, <1>2, <1>3

LEMMA TypeInit == Init => TypeInv
<1> SUFFICES ASSUME Init PROVE TypeInv
  OBVIOUS
<1>1. NoCursor.endpoint \in Endpoint /\ 1 \in 1..MaxPair
  BY SourceAssumption DEF NoCursor
<1>2. \A a \in Actor : Fits(a, [Idle EXCEPT !.pc = "off"])
  BY IdleType DEF Fits, Idle, Job, PC, TestPC, Inner, Busy, AtProvider
<1>3. job \in [Actor -> Job] /\ \A a \in Actor : Fits(a, job[a])
  BY <1>2, IdleType DEF Init, Fits
<1>4. row \in [Source -> Row]
  BY <1>1 DEF Init, Row
<1>5. box \in [Source -> [Endpoint -> Seq(Letter)]]
  BY EmptySeq DEF Init
<1> QED
  BY <1>1, <1>3, <1>4, <1>5, IdleType, SourceAssumption DEF Init, TypeInv, TypeOK, Silent, Fits

LEMMA TypeNext == TypeInv /\ [Next]_vars => TypeInv'
<1> SUFFICES ASSUME TypeInv, [Next]_vars PROVE TypeInv'
  OBVIOUS
<1>1. CASE UNCHANGED vars
  BY <1>1 DEF vars, world, provider, TypeInv, TypeOK, Fits
<1>2. CASE Next
  BY <1>2, LoopType, CallType, TestType, SurroundType, BeatType DEF Next
<1> QED
  BY <1>1, <1>2

\* Every variable keeps its type, whatever overlaps, fails or is deleted: the
\* jobs of workers and tests, the heartbeats, rows and cursors (syncSources).
THEOREM TypeCorrect == Spec => []TypeOK
<1>1. TypeInv => TypeOK
  BY DEF TypeInv
<1> QED
  BY TypeInit, TypeNext, <1>1, PTL DEF Spec

------------------------------------------------------------------------------
(* Statuses *)

\* A heartbeat runs beside an import; the row it has locked is still there.
Heard(w) ==
    /\ beat[w].on \/ beat[w].writes # NoSource => job[w].pc \in Inner
    /\ beat[w].writes # NoSource =>
        beat[w].writes = job[w].src /\ row[beat[w].writes].state # "gone"

\* So is the row of a source whose error has been written.
Reported(a) == \A s \in job[a].failed : row[s].state # "gone"

SilentInv ==
    /\ TypeInv
    /\ \A w \in Worker : Heard(w)
    /\ \A a \in Actor : Reported(a)
    /\ DeletedStaysSilent

\* One job moves on; an import that was open stays open.
LEMMA JobSilent ==
    ASSUME SilentInv, NEW a \in Actor, NEW x, Fits(a, x), Goes(a, x),
           a \in Worker /\ job[a].pc \in Inner => x.pc \in Inner /\ x.src = job[a].src,
           x.failed \subseteq job[a].failed,
           \A s \in Source : row'[s].state = row[s].state,
           UNCHANGED <<cursor, events, status, beat>>
    PROVE  /\ \A w \in Worker : Heard(w)'
           /\ \A b \in Actor : Reported(b)'
           /\ DeletedStaysSilent'
<1>1. job'[a] = x /\ \A b \in Actor \ {a} : job'[b] = job[b]
  BY GoesType DEF SilentInv
<1>2. ASSUME NEW w \in Worker PROVE Heard(w)'
  <2>1. w \in Actor /\ Heard(w) /\ beat[w].writes \in Source \cup {NoSource}
    BY PulseType DEF Actor, SilentInv
  <2> QED
    BY <1>1, <2>1 DEF Heard
<1>3. ASSUME NEW b \in Actor PROVE Reported(b)'
  <2>1. job[b].failed \subseteq Source
    BY DEF SilentInv, TypeInv, Fits, Job
  <2> QED
    BY <1>1, <2>1 DEF SilentInv, Reported
<1>4. DeletedStaysSilent'
  BY DEF SilentInv, DeletedStaysSilent
<1> QED
  BY <1>2, <1>3, <1>4

LEMMA LoopSilent ==
    ASSUME SilentInv, NEW w \in Worker, Loop(w)
    PROVE  /\ \A v \in Worker : Heard(v)'
           /\ \A a \in Actor : Reported(a)'
           /\ DeletedStaysSilent'
<1> w \in Actor /\ Fits(w, job[w]) /\ TypeInv /\ Heard(w) /\ Reported(w)
  BY DEF Actor, SilentInv, TypeInv
<1> job[w] \in Job
  BY DEF Fits
<1>0. TypeInv'
  BY LoopType
<1>f. \A a \in Actor : Fits(a, job'[a])
  BY <1>0 DEF TypeInv, Fits
<1>j. \A x : Goes(w, x) => job'[w] = x /\ Fits(w, x)
  <2> SUFFICES ASSUME NEW x, Goes(w, x) PROVE job'[w] = x /\ Fits(w, x)
    OBVIOUS
  <2>1. job'[w] = x
    BY DEF Goes, TypeInv, TypeOK
  <2> QED
    BY <2>1, <1>f
<1>o. \A x : Goes(w, x) => \A a \in Actor \ {w} : job'[a] = job[a]
  BY DEF Goes, TypeInv, TypeOK
<1>1. CASE Pass(w)
  <2>1. PICK due : Goes(w, Listing(due))
    BY <1>1 DEF Pass
  <2>2. Listing(due).failed = {}
    BY DEF Listing, Idle
  <2>3. job[w].pc \notin Inner
    BY <1>1 DEF Pass, Inner
  <2> QED
    BY <1>1, <1>j, <2>1, <2>2, <2>3, JobSilent DEF Pass
<1>2. CASE Take(w)
  <2> DEFINE x(s) == [job[w] EXCEPT !.pc = "waiting", !.src = s, !.todo = @ \ {s}]
  <2>1. PICK s : Goes(w, x(s))
    BY <1>2 DEF Take
  <2>2. x(s).failed = job[w].failed
    BY DEF Job
  <2>3. job[w].pc \notin Inner
    BY <1>2 DEF Take, Inner
  <2> HIDE DEF x
  <2> QED
    BY <1>2, <1>j, <2>1, <2>2, <2>3, JobSilent DEF Take
<1>3. CASE Enter(w)
  <2> DEFINE s == job[w].src
             x == [job[w] EXCEPT !.pc = "entered", !.endpoint = row[s].endpoint, !.pair = row[s].pair]
             y == [job[w] EXCEPT !.pc = "failing"]
  <2>1. job[w].pc \notin Inner /\ beat[w].writes = NoSource
    BY <1>3 DEF Enter, Inner, Heard
  <2>2. x.pc \in Inner /\ x.src = s /\ x.failed = job[w].failed /\ y.failed = job[w].failed
    BY DEF Inner, Job
  <2>3. CASE row[s].state = "enabled"
    <3>1. Goes(w, x) /\ beat' = [beat EXCEPT ![w].on = TRUE]
      BY <1>3, <2>3 DEF Enter
    <3> HIDE DEF x
    <3>2. Heard(w)'
      BY <1>3, <1>j, <2>1, <2>2, <3>1 DEF Enter, Heard, TypeInv, TypeOK
    <3>3. \A v \in Worker \ {w} : Heard(v)'
      BY <1>3, <1>o, <3>1 DEF Enter, Heard, SilentInv, Actor
    <3>4. \A a \in Actor : Reported(a)'
      BY <1>3, <1>j, <1>o, <2>2, <3>1 DEF Enter, Reported, SilentInv
    <3>5. DeletedStaysSilent'
      BY <1>3 DEF Enter, SilentInv, DeletedStaysSilent
    <3> QED
      BY <3>2, <3>3, <3>4, <3>5
  <2>4. CASE row[s].state # "enabled"
    <3> HIDE DEF y
    <3>1. Goes(w, y)
      BY <1>3, <2>4 DEF Enter, y
    <3> QED
      BY <1>3, <1>j, <2>1, <2>2, <2>4, <3>1, JobSilent DEF Enter
  <2> QED
    BY <2>3, <2>4
<1>4. CASE Select(w)
  <2> DEFINE x(n, v, l) == [job[w] EXCEPT !.pc = "loading", !.last = n, !.validity = v, !.list = l]
  <2>1. PICK n, v, l : Goes(w, x(n, v, l))
    BY <1>4 DEF Select
  <2>2. x(n, v, l).pc \in Inner /\ x(n, v, l).src = job[w].src /\ x(n, v, l).failed = job[w].failed
    BY DEF Inner, Job
  <2> HIDE DEF x
  <2> QED
    BY <1>4, <1>j, <2>1, <2>2, JobSilent DEF Select
<1>5. CASE ListTranscripts(w)
  <2> DEFINE x(l) == [job[w] EXCEPT !.pc = "loading", !.retry = FALSE, !.list = l]
  <2>1. PICK l : Goes(w, x(l))
    BY <1>5 DEF ListTranscripts
  <2>2. x(l).pc \in Inner /\ x(l).src = job[w].src /\ x(l).failed = job[w].failed
    BY DEF Inner, Job
  <2> HIDE DEF x
  <2> QED
    BY <1>5, <1>j, <2>1, <2>2, JobSilent DEF ListTranscripts
<1>6. CASE Load(w)
  <2> DEFINE x(l, g, n) == [job[w] EXCEPT !.list = l, !.got = g, !.retry = FALSE, !.last = n]
  <2>1. PICK l, g, n : Goes(w, x(l, g, n))
    BY <1>6 DEF Load, Advance
  <2>2. /\ x(l, g, n).pc = job[w].pc /\ x(l, g, n).src = job[w].src
        /\ x(l, g, n).failed = job[w].failed
    BY DEF Job
  <2> HIDE DEF x
  <2> QED
    BY <1>6, <1>j, <2>1, <2>2, JobSilent DEF Load
<1>7. CASE Close(w)
  <2> DEFINE s == job[w].src
             x == Listed(job[w], job[w].failed)
  <2>1. Goes(w, x) /\ beat' = [beat EXCEPT ![w].on = FALSE] /\ beat[w].writes = NoSource
    BY <1>7 DEF Close, Joined
  <2>2. x.failed = job[w].failed
    BY DEF Listed, Idle
  <2>3. Heard(w)'
    BY <2>1 DEF Heard, TypeInv, TypeOK
  <2>4. \A v \in Worker \ {w} : Heard(v)'
    BY <1>7, <1>o, <2>1 DEF Close, Heard, SilentInv, Actor
  <2>5. \A a \in Actor : Reported(a)'
    BY <1>7, <1>j, <1>o, <2>1, <2>2 DEF Close, Reported, SilentInv
  <2>6. DeletedStaysSilent'
    BY <1>7 DEF Close, SilentInv, DeletedStaysSilent
  <2> QED
    BY <2>3, <2>4, <2>5, <2>6
<1>8. CASE Unwind(w)
  <2> DEFINE x == [job[w] EXCEPT !.pc = "failing", !.got = {}, !.list = <<>>]
  <2>1. Goes(w, x) /\ beat' = [beat EXCEPT ![w].on = FALSE] /\ beat[w].writes = NoSource
    BY <1>8 DEF Unwind, Joined
  <2>2. x.failed = job[w].failed
    BY DEF Job
  <2> HIDE DEF x
  <2>3. Heard(w)'
    BY <2>1 DEF Heard, TypeInv, TypeOK
  <2>4. \A v \in Worker \ {w} : Heard(v)'
    BY <1>8, <1>o, <2>1 DEF Unwind, Heard, SilentInv, Actor
  <2>5. \A a \in Actor : Reported(a)'
    BY <1>8, <1>j, <1>o, <2>1, <2>2 DEF Unwind, Reported, SilentInv
  <2>6. DeletedStaysSilent'
    BY <1>8 DEF Unwind, SilentInv, DeletedStaysSilent
  <2> QED
    BY <2>3, <2>4, <2>5, <2>6
<1>9. CASE Report(w)
  <2>1. job[w].pc \notin Inner
    BY <1>9 DEF Report, Inner
  <2>2. CASE row[job[w].src].state = "gone"
    <3>1. Goes(w, Idle) /\ Idle.failed = {}
      BY <1>9, <2>2 DEF Report, Idle
    <3> QED
      BY <1>9, <1>j, <2>1, <3>1, JobSilent DEF Report
  <2>3. CASE row[job[w].src].state # "gone"
    <3> DEFINE x == Listed(job[w], job[w].failed \cup {job[w].src})
    <3>1. Goes(w, x) /\ x.failed = job[w].failed \cup {job[w].src}
      BY <1>9, <2>3 DEF Report, Listed, Idle
    <3> HIDE DEF x
    <3>2. Heard(w)'
      BY <1>9, <2>1 DEF Report, Heard
    <3>3. \A v \in Worker \ {w} : Heard(v)'
      BY <1>9, <1>o, <3>1 DEF Report, Heard, SilentInv, Actor
    <3>4. \A a \in Actor : Reported(a)'
      BY <1>9, <1>j, <1>o, <2>3, <3>1 DEF Report, Reported, SilentInv
    <3>5. DeletedStaysSilent'
      BY <1>9 DEF Report, SilentInv, DeletedStaysSilent
    <3> QED
      BY <3>2, <3>3, <3>4, <3>5
  <2> QED
    BY <2>2, <2>3
<1>10. CASE Finish(w)
  <2>1. Goes(w, Idle) /\ Idle.failed = {} /\ job[w].pc \notin Inner
    BY <1>10 DEF Finish, Idle, Inner
  <2>2. \A v \in Worker : Heard(v)'
    BY <1>10, <1>o, <2>1 DEF Finish, Heard, SilentInv, Actor
  <2>3. \A a \in Actor : Reported(a)'
    BY <1>10, <1>j, <1>o, <2>1 DEF Finish, Reported, SilentInv
  <2>4. DeletedStaysSilent'
    BY <1>10 DEF Finish, SilentInv, DeletedStaysSilent, Reported
  <2> QED
    BY <2>2, <2>3, <2>4
<1> QED
  BY <1>1, <1>2, <1>3, <1>4, <1>5, <1>6, <1>7, <1>8, <1>9, <1>10 DEF Loop

LEMMA CallSilent ==
    ASSUME SilentInv, NEW a \in Actor, Call(a)
    PROVE  /\ \A v \in Worker : Heard(v)'
           /\ \A b \in Actor : Reported(b)'
           /\ DeletedStaysSilent'
<1> Fits(a, job[a]) /\ TypeInv /\ job[a] \in Job
  BY DEF SilentInv, TypeInv, Fits
<1> DEFINE Keeping(x) ==
             /\ a \in Worker /\ job[a].pc \in Inner => x.pc \in Inner /\ x.src = job[a].src
             /\ x.failed \subseteq job[a].failed
<1>1. Keeping(Failed(a))
  BY DEF Failed, Idle, Inner, Job
<1>2. \A p : Keeping([job[a] EXCEPT !.pc = CallOf(a), !.pair = p, !.retry = TRUE])
  <2>1. a \in Worker => CallOf(a) \in Inner
    BY SourceAssumption DEF CallOf, Inner
  <2> QED
    BY <2>1 DEF Job
<1>3. \A p : \A c \in {"rejected", "exchanging", "exchanged"} :
        Keeping([job[a] EXCEPT !.pc = c, !.pair = p])
  BY DEF Inner, Job
<1>4. /\ \A p : [job[a] EXCEPT !.pc = p] = [job[a] EXCEPT !.pc = p, !.pair = job[a].pair]
      /\ [job[a] EXCEPT !.pc = CallOf(a), !.retry = TRUE]
            = [job[a] EXCEPT !.pc = CallOf(a), !.pair = job[a].pair, !.retry = TRUE]
  BY DEF Job
<1> HIDE DEF Keeping
<1>5. PICK x : Keeping(x) /\ Goes(a, x)
  <2>1. CASE Reject(a)
    BY <1>1, <1>3, <1>4, <2>1 DEF Reject
  <2>2. CASE Rotate(a)
    BY <1>1, <1>2, <1>3, <1>4, <2>2 DEF Rotate
  <2>3. CASE Exchange(a)
    BY <1>1, <1>3, <2>3 DEF Exchange
  <2>4. CASE Renew(a)
    BY <1>2, <1>4, <2>4 DEF Renew
  <2> QED
    BY <2>1, <2>2, <2>3, <2>4 DEF Call
<1>6. job'[a] = x
  BY <1>5 DEF Goes, TypeInv, TypeOK
<1>7. Fits(a, x)
  BY <1>6, CallType DEF TypeInv, Fits
<1>8. /\ \A s \in Source : row'[s].state = row[s].state
      /\ UNCHANGED <<cursor, events, status, beat>>
  <2>1. CASE Renew(a)
    <3>1. \A s \in Source : row[s] \in Row
      BY RowType
    <3>2. \A s \in Source : row'[s] = [row[s] EXCEPT !.pair = job[a].pair] \/ row'[s] = row[s]
      BY <2>1 DEF Renew, TypeInv, TypeOK
    <3> QED
      BY <2>1, <3>1, <3>2 DEF Renew, Row
  <2>2. CASE ~Renew(a)
    BY <2>2 DEF Call, Reject, Rotate, Exchange
  <2> QED
    BY <2>1, <2>2
<1> QED
  BY <1>5, <1>7, <1>8, JobSilent DEF Keeping

LEMMA TestSilent ==
    ASSUME SilentInv, NEW c \in Checker, Test(c) \/ TestEnds(c)
    PROVE  /\ \A v \in Worker : Heard(v)'
           /\ \A b \in Actor : Reported(b)'
           /\ DeletedStaysSilent'
<1> c \in Actor /\ c \notin Worker /\ TypeInv
  BY SourceAssumption DEF Actor, SilentInv
<1>1. job[c] \in Job
  BY DEF TypeInv, Fits
<1>2. PICK x : Goes(c, x) /\ x.failed \subseteq job[c].failed
  <2>1. CASE Test(c)
    <3> DEFINE x(s) == [job[c] EXCEPT !.pc = "checking", !.src = s, !.pair = row[s].pair]
    <3>1. PICK s : Goes(c, x(s))
      BY <2>1 DEF Test
    <3>2. x(s).failed = job[c].failed
      BY <1>1 DEF Job
    <3> QED
      BY <3>1, <3>2
  <2>2. CASE TestEnds(c)
    BY <2>2 DEF TestEnds, Idle
  <2> QED
    BY <2>1, <2>2
<1>3. job'[c] = x
  BY <1>2 DEF Goes, TypeInv, TypeOK
<1>4. Fits(c, x)
  BY <1>3, TestType DEF TypeInv, Fits
<1> QED
  BY <1>2, <1>4, JobSilent DEF Test, TestEnds

LEMMA BeatSilent ==
    ASSUME SilentInv, NEW w \in Worker, Panic(w) \/ Beat(w) \/ BeatCommit(w)
    PROVE  /\ \A v \in Worker : Heard(v)'
           /\ \A b \in Actor : Reported(b)'
           /\ DeletedStaysSilent'
<1> w \in Actor /\ TypeInv /\ Heard(w)
  BY DEF Actor, SilentInv
<1>1. CASE Panic(w)
  <2> DEFINE x == [job[w] EXCEPT !.pc = "panicking"]
  <2>1. x.pc \in Inner /\ x.src = job[w].src /\ x.failed = job[w].failed
    BY DEF TypeInv, Fits, Job, Inner
  <2>2. Goes(w, x)
    BY <1>1 DEF Panic
  <2> HIDE DEF x
  <2>3. job'[w] = x
    BY <2>2 DEF Goes, TypeInv, TypeOK
  <2>4. Fits(w, x)
    BY <1>1, <2>3, BeatType DEF TypeInv, Fits
  <2> QED
    BY <1>1, <2>1, <2>2, <2>4, JobSilent DEF Panic
<1>2. CASE Beat(w)
  <2>1. \A v \in Worker \ {w} : beat'[v] = beat[v]
    BY <1>2 DEF Beat, TypeInv, TypeOK
  <2>2. Heard(w)'
    <3>1. CASE row[job[w].src].state = "enabled"
      <4>1. beat'[w] = [on |-> TRUE, writes |-> job[w].src]
        BY <1>2, <3>1 DEF Beat, TypeInv, TypeOK
      <4> QED
        BY <1>2, <3>1, <4>1 DEF Beat, Heard
    <3>2. CASE row[job[w].src].state # "enabled"
      BY <1>2, <3>2 DEF Beat, Heard, TypeInv, TypeOK, Silent
    <3> QED
      BY <3>1, <3>2
  <2>3. \A v \in Worker : Heard(v)'
    BY <1>2, <2>1, <2>2 DEF Beat, Heard, SilentInv
  <2> QED
    BY <1>2, <2>3 DEF Beat, SilentInv, Reported, DeletedStaysSilent
<1>3. CASE BeatCommit(w)
  <2>1. \A v \in Worker \ {w} : beat'[v] = beat[v]
    BY <1>3 DEF BeatCommit, TypeInv, TypeOK
  <2>2. Heard(w)'
    <3>1. beat'[w] = [beat[w] EXCEPT !.writes = NoSource] /\ beat[w].writes # NoSource
      BY <1>3 DEF BeatCommit, TypeInv, TypeOK
    <3>2. beat'[w].writes = NoSource
      BY <3>1, PulseType
    <3> QED
      BY <1>3, <3>1, <3>2 DEF BeatCommit, Heard
  <2>3. \A v \in Worker : Heard(v)'
    BY <1>3, <2>1, <2>2 DEF BeatCommit, Heard, SilentInv
  <2>4. DeletedStaysSilent'
    BY <1>3 DEF BeatCommit, Heard, SilentInv, DeletedStaysSilent, TypeInv, TypeOK
  <2> QED
    BY <1>3, <2>3, <2>4 DEF BeatCommit, SilentInv, Reported
<1> QED
  BY <1>1, <1>2, <1>3

\* The row of one source changes; a source that is gone stays gone.
LEMMA RowSilent ==
    ASSUME SilentInv, UNCHANGED <<job, beat>>,
           \A s \in Source : row'[s].state # "gone"
                \/ (row[s].state = "gone" /\ UNCHANGED <<status[s], events[s], cursor[s]>>)
    PROVE  /\ \A v \in Worker : Heard(v)'
           /\ \A b \in Actor : Reported(b)'
           /\ DeletedStaysSilent'
<1>1. ASSUME NEW w \in Worker PROVE Heard(w)'
  <2>1. Heard(w) /\ beat[w].writes \in Source \cup {NoSource}
    BY PulseType DEF SilentInv
  <2> QED
    BY <2>1 DEF Heard
<1>2. ASSUME NEW b \in Actor PROVE Reported(b)'
  <2>1. job[b].failed \subseteq Source
    BY DEF SilentInv, TypeInv, Fits, Job
  <2> QED
    BY <2>1 DEF SilentInv, Reported
<1>3. DeletedStaysSilent'
  BY DEF SilentInv, DeletedStaysSilent
<1> QED
  BY <1>1, <1>2, <1>3

LEMMA SurroundSilent ==
    ASSUME SilentInv, Environment
    PROVE  /\ \A v \in Worker : Heard(v)'
           /\ \A b \in Actor : Reported(b)'
           /\ DeletedStaysSilent'
<1> DEFINE Good == /\ \A v \in Worker : Heard(v)'
                   /\ \A b \in Actor : Reported(b)'
                   /\ DeletedStaysSilent'
<1> TypeInv /\ \A s \in Source : row[s] \in Row
  BY RowType DEF SilentInv
<1>1. ASSUME NEW s \in Source, Delete(s) PROVE Good
  <2>1. \A r \in Source \ {s} : row'[r] = row[r]
    BY <1>1 DEF Delete, TypeInv, TypeOK
  <2>2. \A a \in Actor : s \notin job[a].failed
    BY <1>1 DEF Delete, CanOwn, Keeps
  <2>3. \A w \in Worker : beat[w].writes # s
    BY <1>1 DEF Delete, CanOwn, Keeps, Actor
  <2>4. ASSUME NEW w \in Worker PROVE Heard(w)'
    <3>1. Heard(w) /\ beat[w].writes \in Source \cup {NoSource}
      BY PulseType DEF SilentInv
    <3> QED
      BY <1>1, <2>1, <2>3, <3>1 DEF Delete, Heard
  <2>5. ASSUME NEW b \in Actor PROVE Reported(b)'
    <3>1. job[b].failed \subseteq Source /\ Reported(b)
      BY DEF SilentInv, TypeInv, Fits, Job
    <3> QED
      BY <1>1, <2>1, <2>2, <3>1 DEF Delete, Reported
  <2>6. DeletedStaysSilent'
    BY <1>1, <2>1 DEF Delete, SilentInv, DeletedStaysSilent, TypeInv, TypeOK
  <2> QED
    BY <2>4, <2>5, <2>6
<1>2. ASSUME NEW s \in Source, NEW e \in Endpoint, NEW state \in {"enabled", "disabled"},
             NEW l \in 0..MaxLabel, Configure(s, e, state, l)
      PROVE  Good
  <2>1. \A r \in Source \ {s} : row'[r] = row[r]
    BY <1>2 DEF Configure, TypeInv, TypeOK
  <2>2. row'[s].state = state
    BY <1>2 DEF Configure, TypeInv, TypeOK, Row
  <2>3. \A r \in Source \ {s} : UNCHANGED <<status[r], events[r], cursor[r]>>
    BY <1>2 DEF Configure, TypeInv, TypeOK
  <2> QED
    BY <1>2, <2>1, <2>2, <2>3, RowSilent DEF Configure
<1>3. ASSUME NEW s \in Source, NEW state \in {"enabled", "disabled"}, Login(s, state)
      PROVE  Good
  <2>1. \A r \in Source \ {s} : row'[r] = row[r]
    BY <1>3 DEF Login, TypeInv, TypeOK
  <2>2. row'[s].state = state
    BY <1>3 DEF Login, TypeInv, TypeOK, Row
  <2> QED
    BY <1>3, <2>1, <2>2, RowSilent DEF Login
<1>4. ASSUME NEW a \in Actor, Stop(a) PROVE Good
  <2>1. job' = [job EXCEPT ![a] = Idle]
    BY <1>4 DEF Stop, Goes
  <2>2. ASSUME NEW w \in Worker PROVE Heard(w)'
    <3>1. CASE w = a
      BY <1>4, <3>1 DEF Stop, Heard, Silent, TypeInv, TypeOK
    <3>2. CASE w # a
      <4>1. job'[w] = job[w] /\ beat'[w] = beat[w]
        BY <1>4, <2>1, <3>2 DEF Stop, TypeInv, TypeOK, Actor
      <4> QED
        BY <1>4, <4>1 DEF Stop, Heard, SilentInv
    <3> QED
      BY <3>1, <3>2
  <2>3. ASSUME NEW b \in Actor PROVE Reported(b)'
    <3>1. job'[b] = job[b] \/ job'[b].failed = {}
      BY <2>1 DEF TypeInv, TypeOK, Idle
    <3> QED
      BY <1>4, <3>1 DEF Stop, SilentInv, Reported
  <2>4. DeletedStaysSilent'
    BY <1>4 DEF Stop, SilentInv, DeletedStaysSilent
  <2> QED
    BY <2>2, <2>3, <2>4
<1>5. ASSUME NEW s \in Source, NEW e \in Endpoint, Expire(s) \/ Renumber(s, e) \/ Arrive(s, e) PROVE Good
  BY <1>5 DEF Expire, Renumber, Arrive, SilentInv, Heard, Reported, DeletedStaysSilent
<1>6. \A s \in Source : /\ row[s].endpoint \in Endpoint /\ row[s].label \in 0..MaxLabel
                        /\ Label[s] \subseteq 0..MaxLabel
  BY SourceAssumption DEF Row
<1>7. Endpoint # {}
  BY SourceAssumption
<1> HIDE DEF Good
<1>8. Good
  BY <1>1, <1>2, <1>3, <1>4, <1>5, <1>6, <1>7 DEF Environment
<1> QED
  BY <1>8 DEF Good

LEMMA SilentInit == Init => SilentInv
<1> SUFFICES ASSUME Init PROVE SilentInv
  OBVIOUS
<1>1. TypeInv
  BY TypeInit
<1>2. \A w \in Worker : Heard(w)
  BY DEF Init, Heard, Silent
<1>3. \A a \in Actor : job[a].failed = {}
  BY DEF Init, Idle
<1>4. DeletedStaysSilent
  BY DEF Init, DeletedStaysSilent
<1> QED
  BY <1>1, <1>2, <1>3, <1>4 DEF SilentInv, Reported

LEMMA SilentNext == SilentInv /\ [Next]_vars => SilentInv'
<1> SUFFICES ASSUME SilentInv, [Next]_vars PROVE SilentInv'
  OBVIOUS
<1>1. TypeInv'
  BY TypeNext DEF SilentInv
<1>2. CASE UNCHANGED vars
  BY <1>1, <1>2 DEF vars, SilentInv, Heard, Reported, DeletedStaysSilent
<1>3. CASE Next
  BY <1>1, <1>3, LoopSilent, CallSilent, TestSilent, BeatSilent, SurroundSilent DEF Next, SilentInv
<1> QED
  BY <1>2, <1>3

\* "Serialize with deletion" (source_heartbeat.go:24): a deletion waits for the
\* heartbeats and reported errors that still know the row, and what comes later
\* sees that it is gone.
THEOREM DeletedStaysSilentAlways == Spec => []DeletedStaysSilent
<1>1. SilentInv => DeletedStaysSilent
  BY DEF SilentInv
<1> QED
  BY SilentInit, SilentNext, <1>1, PTL DEF Spec

\* A status says BUSY only from a heartbeat that the import has yet to join: the
\* final status of an import is never overwritten (source_heartbeat.go:11).
THEOREM StatusFinalAlways == Spec => StatusFinal
<1> DEFINE Late == \A s \in Source : status'[s] = "BUSY" /\ status[s] # "BUSY"
                        => \E w \in Worker : Importing(w, s)
<1>1. SilentInv /\ Next => Late
  <2> SUFFICES ASSUME SilentInv, Next, NEW s \in Source, status'[s] = "BUSY", status[s] # "BUSY"
               PROVE  \E w \in Worker : Importing(w, s)
    OBVIOUS
  <2>1. status \in [Source -> {"none", "BUSY", "OK", "ERROR"}]
    BY DEF SilentInv, TypeInv, TypeOK
  <2>2. CASE \E w \in Worker : BeatCommit(w)
    <3>1. PICK w \in Worker : BeatCommit(w)
      BY <2>2
    <3>2. beat[w].writes = s /\ beat[w].writes # NoSource
      BY <2>1, <3>1 DEF BeatCommit
    <3> QED
      BY <3>2 DEF SilentInv, Heard, Importing
  <2>3. CASE \E w \in Worker : Close(w) \/ Finish(w)
    BY <2>1, <2>3 DEF Close, Finish
  <2>4. CASE \E r \in Source : Delete(r)
    BY <2>1, <2>4 DEF Delete
  <2>5. CASE UNCHANGED status
    BY <2>5
  <2> QED
    BY <2>2, <2>3, <2>4, <2>5 DEF Next, Loop, Call, Environment, Pass, Take, Enter, Select,
       ListTranscripts, Load, Advance, Unwind, Report, Panic, Beat, Reject, Rotate, Exchange,
       Renew, Test, TestEnds, Configure, Login, Expire, Renumber, Arrive, Stop
<1>2. SilentInv /\ [Next]_vars => [Late]_vars
  BY <1>1
<1> QED
  BY SilentInit, SilentNext, <1>2, PTL DEF Spec, StatusFinal

\* No status outlives its import or its source.
THEOREM StatusKeptAlways == Spec => StatusKept
BY DeletedStaysSilentAlways, StatusFinalAlways, PTL DEF StatusKept

------------------------------------------------------------------------------
(* Tokens *)

Owning == {"exchanging", "exchanged"}

OneOwner == \A a, b \in Actor, s \in Source : Owns(a, s) /\ Owns(b, s) => a = b

\* Who holds a pair between reading the row and writing it.
Holds(a) ==
    /\ job[a].pc = "exchanging" => job[a].pair = row[job[a].src].pair
    /\ job[a].pc = "exchanged" => job[a].pair = issued[job[a].src]

\* The newest pair of s is in the row, on its way there, or lost.
Paired(s) ==
    \/ s \in lost
    \/ row[s].pair = issued[s]
    \/ \E a \in Actor : job[a].pc = "exchanged" /\ job[a].src = s

LoginInv ==
    /\ TypeInv /\ OneOwner
    /\ \A a \in Actor : Holds(a)
    /\ \A s \in Mts : Paired(s)
    /\ LoginKept

\* What the steps below must keep besides the types.
Kept == OneOwner /\ (\A a \in Actor : Holds(a)) /\ (\A s \in Mts : Paired(s)) /\ LoginKept

\* A job moves on that does not renew tokens afterwards.
LEMMA JobLogin ==
    ASSUME LoginInv, NEW a \in Actor, NEW x, Goes(a, x),
           x.pc \notin Owning, job[a].pc # "exchanged",
           \A s \in Source : row'[s].pair = row[s].pair,
           UNCHANGED <<issued, lost, refused>>
    PROVE  Kept'
<1>1. job'[a] = x /\ \A b \in Actor \ {a} : job'[b] = job[b]
  BY DEF LoginInv, TypeInv, TypeOK, Goes
<1>2. OneOwner'
  BY <1>1 DEF LoginInv, OneOwner, Owns, Owning
<1>3. ASSUME NEW b \in Actor PROVE Holds(b)'
  <2>1. CASE b = a
    BY <1>1, <2>1 DEF Holds, Owning
  <2>2. CASE b # a
    <3>1. job'[b] = job[b] /\ Holds(b) /\ (job[b].pc \in Owning => job[b].src \in Source)
      BY <1>1, <2>2 DEF LoginInv, TypeInv, Fits, Busy, Inner, Owning
    <3> QED
      BY <3>1 DEF Holds, Owning
  <2> QED
    BY <2>1, <2>2
<1>4. ASSUME NEW s \in Mts PROVE Paired(s)'
  <2>1. s \in Source /\ Paired(s)
    BY DEF LoginInv, Source
  <2>2. \A b \in Actor : job[b].pc = "exchanged" => job'[b] = job[b]
    BY <1>1
  <2> QED
    BY <2>1, <2>2 DEF Paired
<1>5. LoginKept'
  BY DEF LoginInv, LoginKept
<1> QED
  BY <1>2, <1>3, <1>4, <1>5 DEF Kept

LEMMA LoopLogin ==
    ASSUME LoginInv, NEW w \in Worker, Loop(w)
    PROVE  Kept'
<1> w \in Actor /\ job[w] \in Job
  BY DEF Actor, LoginInv, TypeInv, Fits
<1>1. job[w].pc # "exchanged" /\ UNCHANGED <<row, issued, lost, refused>>
  BY DEF Loop, Pass, Take, Enter, Select, ListTranscripts, Load, Close, Unwind, Report, Finish, provider
<1>a. Idle.pc = "idle" /\ (\A e : Listed(job[w], e).pc = "listed")
  BY DEF Listed, Idle
<1>2. PICK x : Goes(w, x) /\ x.pc \notin Owning
  <2>1. CASE Pass(w)
    <3>1. PICK due : Goes(w, Listing(due))
      BY <2>1 DEF Pass
    <3>2. Listing(due).pc = "listed"
      BY DEF Listing, Idle
    <3> QED
      BY <3>1, <3>2 DEF Owning
  <2>2. CASE Take(w)
    <3> DEFINE y(s) == [job[w] EXCEPT !.pc = "waiting", !.src = s, !.todo = @ \ {s}]
    <3>1. PICK s : Goes(w, y(s))
      BY <2>2 DEF Take
    <3>2. y(s).pc = "waiting"
      BY DEF Job
    <3> QED
      BY <3>1, <3>2 DEF Owning
  <2>3. CASE Enter(w)
    <3> DEFINE s == job[w].src
               y == [job[w] EXCEPT !.pc = "entered", !.endpoint = row[s].endpoint, !.pair = row[s].pair]
               z == [job[w] EXCEPT !.pc = "failing"]
    <3>1. y.pc = "entered" /\ z.pc = "failing"
      BY DEF Job
    <3>2. Goes(w, y) \/ Goes(w, z)
      BY <2>3 DEF Enter
    <3> QED
      BY <3>1, <3>2 DEF Owning
  <2>4. CASE Select(w)
    <3> DEFINE y(n, v, l) == [job[w] EXCEPT !.pc = "loading", !.last = n, !.validity = v, !.list = l]
    <3>1. PICK n, v, l : Goes(w, y(n, v, l))
      BY <2>4 DEF Select
    <3>2. y(n, v, l).pc = "loading"
      BY DEF Job
    <3> QED
      BY <3>1, <3>2 DEF Owning
  <2>5. CASE ListTranscripts(w)
    <3> DEFINE y(l) == [job[w] EXCEPT !.pc = "loading", !.retry = FALSE, !.list = l]
    <3>1. PICK l : Goes(w, y(l))
      BY <2>5 DEF ListTranscripts
    <3>2. y(l).pc = "loading"
      BY DEF Job
    <3> QED
      BY <3>1, <3>2 DEF Owning
  <2>6. CASE Load(w)
    <3> DEFINE y(l, g, n) == [job[w] EXCEPT !.list = l, !.got = g, !.retry = FALSE, !.last = n]
    <3>1. PICK l, g, n : Goes(w, y(l, g, n))
      BY <2>6 DEF Load, Advance
    <3>2. y(l, g, n).pc = "loading"
      BY <2>6 DEF Load, Job
    <3> QED
      BY <3>1, <3>2 DEF Owning
  <2>7. CASE Close(w)
    BY <1>a, <2>7 DEF Close, Owning
  <2>8. CASE Unwind(w)
    <3> DEFINE y == [job[w] EXCEPT !.pc = "failing", !.got = {}, !.list = <<>>]
    <3>1. Goes(w, y)
      BY <2>8 DEF Unwind
    <3>2. y.pc = "failing"
      BY DEF Job
    <3> QED
      BY <3>1, <3>2 DEF Owning
  <2>9. CASE Report(w)
    BY <1>a, <2>9 DEF Report, Owning
  <2>10. CASE Finish(w)
    BY <1>a, <2>10 DEF Finish, Owning
  <2> QED
    BY <2>1, <2>2, <2>3, <2>4, <2>5, <2>6, <2>7, <2>8, <2>9, <2>10 DEF Loop
<1> QED
  BY <1>1, <1>2, JobLogin

LEMMA CallLogin ==
    ASSUME LoginInv, NEW a \in Actor, Call(a)
    PROVE  Kept'
<1> DEFINE s == job[a].src
<1>0. TypeInv /\ job[a] \in Job /\ s \in Mts /\ s \in Source
  BY DEF LoginInv, TypeInv, Fits, Call, Reject, Rotate, Exchange, Renew, AtProvider, Source
<1>f. Failed(a).pc \notin Owning
  BY <1>0 DEF Failed, Idle, Job, Owning
<1>c. CallOf(a) \notin Owning
  BY DEF CallOf, Owning
<1>o. \A x : Goes(a, x) => job'[a] = x /\ \A b \in Actor \ {a} : job'[b] = job[b]
  BY <1>0 DEF TypeInv, TypeOK, Goes
<1>1. CASE Reject(a)
  <2>1. [job[a] EXCEPT !.pc = "rejected"].pc = "rejected"
    BY <1>0 DEF Job
  <2>2. PICK x : Goes(a, x) /\ x.pc \notin Owning
    BY <1>1, <1>f, <2>1 DEF Reject, Owning
  <2>3. job[a].pc # "exchanged"
    BY <1>1, SourceAssumption DEF Reject, Calls
  <2> QED
    BY <1>1, <2>2, <2>3, JobLogin DEF Reject, provider
<1>2. CASE Rotate(a)
  <2> DEFINE x == [job[a] EXCEPT !.pc = "exchanging"]
             y == [job[a] EXCEPT !.pc = CallOf(a), !.pair = row[s].pair, !.retry = TRUE]
  <2>1. /\ x.pc = "exchanging" /\ x.src = s /\ x.pair = job[a].pair
        /\ y.pc = CallOf(a)
    BY <1>0 DEF Job
  <2> HIDE DEF x, y
  <2>2. CASE Goes(a, Failed(a)) \/ Goes(a, y)
    BY <1>2, <1>f, <1>c, <2>1, <2>2, JobLogin DEF Rotate, provider
  <2>3. CASE Goes(a, x) /\ row[s].pair = job[a].pair
    <3>1. OneOwner'
      BY <1>2, <1>o, <2>1, <2>3 DEF Rotate, CanOwn, LoginInv, OneOwner, Owns
    <3>2. \A b \in Actor : Holds(b)'
      BY <1>2, <1>o, <2>1, <2>3 DEF Rotate, LoginInv, Holds, provider
    <3>3. \A r \in Mts : Paired(r)'
      <4>1. \A b \in Actor : job[b].pc = "exchanged" => job'[b] = job[b]
        BY <1>2, <1>o, <2>3 DEF Rotate
      <4> QED
        BY <1>2, <4>1 DEF Rotate, LoginInv, Paired, provider
    <3>4. LoginKept'
      BY <1>2 DEF Rotate, LoginInv, LoginKept, provider
    <3> QED
      BY <3>1, <3>2, <3>3, <3>4 DEF Kept
  <2> QED
    BY <1>2, <2>2, <2>3 DEF Rotate, x, y
<1>3. CASE Exchange(a)
  <2>1. \A b \in Actor \ {a} : job[b].pc \in Owning => job[b].src # s
    BY <1>0, <1>3 DEF Exchange, LoginInv, OneOwner, Owns, Owning
  <2>2. row' = row
    BY <1>3 DEF Exchange
  <2>3. CASE issued' = [issued EXCEPT ![s] = @ + 1] /\ UNCHANGED refused
    <3> DEFINE x == [job[a] EXCEPT !.pc = "exchanged", !.pair = issued[s] + 1]
    <3>1. x.pc = "exchanged" /\ x.pair = issued[s] + 1 /\ x.src = s
      BY <1>0 DEF Job
    <3>2. issued'[s] = issued[s] + 1 /\ \A r \in Source \ {s} : issued'[r] = issued[r]
      BY <1>0, <2>3 DEF TypeInv, TypeOK
    <3> HIDE DEF x
    <3>3. issued[s] \in Nat /\ issued[s] + 1 # issued[s]
      <4>1. issued[s] \in 1..MaxPair
        BY <1>0 DEF TypeInv, TypeOK
      <4> QED
        BY <4>1, SourceAssumption
    <3>4. \/ Goes(a, x) /\ lost' = lost
          \/ Goes(a, Failed(a)) /\ lost' = lost \cup {s}
      BY <1>3, <2>3, <3>2, <3>3 DEF Exchange, x
    <3>5. OneOwner'
      BY <1>3, <1>o, <1>f, <3>1, <3>4 DEF Exchange, LoginInv, OneOwner, Owns, Owning
    <3>6. ASSUME NEW b \in Actor PROVE Holds(b)'
      <4>1. CASE b = a
        BY <1>o, <1>f, <2>2, <3>1, <3>2, <3>4, <4>1 DEF Holds, Owning
      <4>2. CASE b # a
        <5>1. job'[b] = job[b] /\ Holds(b) /\ (job[b].pc \in Owning => job[b].src \in Source \ {s})
          BY <1>o, <2>1, <3>4, <4>2 DEF LoginInv, TypeInv, Fits, Busy, Inner, Owning
        <5> QED
          BY <2>2, <3>2, <5>1 DEF Holds, Owning
      <4> QED
        BY <4>1, <4>2
    <3>7. ASSUME NEW r \in Mts PROVE Paired(r)'
      <4>1. CASE r = s
        BY <1>o, <3>1, <3>4, <4>1 DEF Paired
      <4>2. CASE r # s
        <5>1. r \in Source /\ Paired(r)
          BY DEF LoginInv, Source
        <5>2. \A b \in Actor : job[b].src = r => job'[b] = job[b]
          BY <1>o, <3>4, <4>2
        <5> QED
          BY <2>2, <3>2, <3>4, <4>2, <5>1, <5>2 DEF Paired
      <4> QED
        BY <4>1, <4>2
    <3>8. LoginKept'
      BY <2>3, <3>4 DEF LoginInv, LoginKept
    <3> QED
      BY <3>5, <3>6, <3>7, <3>8 DEF Kept
  <2>4. CASE /\ UNCHANGED <<issued, live, lost>> /\ Goes(a, Failed(a))
             /\ refused' = IF job[a].pair # issued[s] THEN refused \cup {s} ELSE refused
    <3>1. job[a].pair # issued[s] => s \in lost
      <4>1. Holds(a) /\ Paired(s) /\ job[a].pc = "exchanging"
        BY <1>0, <1>3 DEF Exchange, LoginInv
      <4> QED
        BY <2>1, <4>1 DEF Holds, Paired, Owning
    <3>2. OneOwner'
      BY <1>o, <1>f, <2>4 DEF LoginInv, OneOwner, Owns, Owning
    <3>3. \A b \in Actor : Holds(b)'
      BY <1>o, <1>f, <2>2, <2>4 DEF LoginInv, Holds, Owning
    <3>4. \A r \in Mts : Paired(r)'
      <4>1. \A b \in Actor : job[b].pc = "exchanged" => job'[b] = job[b]
        BY <1>3, <1>o, <2>4 DEF Exchange
      <4> QED
        BY <2>2, <2>4, <4>1 DEF LoginInv, Paired
    <3>5. LoginKept'
      BY <2>4, <3>1 DEF LoginInv, LoginKept
    <3> QED
      BY <3>2, <3>3, <3>4, <3>5 DEF Kept
  <2> QED
    BY <1>3, <2>3, <2>4 DEF Exchange
<1>4. CASE Renew(a)
  <2> DEFINE x == [job[a] EXCEPT !.pc = CallOf(a), !.retry = TRUE]
  <2>1. x.pc = CallOf(a) /\ Goes(a, x)
    BY <1>0, <1>4 DEF Renew, Job
  <2> HIDE DEF x
  <2>2. \A b \in Actor \ {a} : job[b].pc \in Owning => job[b].src # s
    BY <1>0, <1>4 DEF Renew, LoginInv, OneOwner, Owns, Owning
  <2>3. row'[s].pair = job[a].pair /\ \A r \in Source \ {s} : row'[r] = row[r]
    <3>1. row[s] \in Row
      BY <1>0, RowType
    <3>2. row'[s] = [row[s] EXCEPT !.pair = job[a].pair] /\ \A r \in Source \ {s} : row'[r] = row[r]
      BY <1>0, <1>4 DEF Renew, TypeInv, TypeOK
    <3> QED
      BY <3>1, <3>2 DEF Row
  <2>4. job[a].pair = issued[s]
    BY <1>4 DEF Renew, LoginInv, Holds
  <2>5. UNCHANGED <<issued, lost, refused>>
    BY <1>4 DEF Renew, provider
  <2>6. OneOwner'
    BY <1>o, <1>c, <2>1 DEF LoginInv, OneOwner, Owns, Owning
  <2>7. ASSUME NEW b \in Actor PROVE Holds(b)'
    <3>1. CASE b = a
      BY <1>o, <1>c, <2>1, <3>1 DEF Holds, Owning
    <3>2. CASE b # a
      <4>1. job'[b] = job[b] /\ Holds(b) /\ (job[b].pc \in Owning => job[b].src \in Source \ {s})
        BY <1>o, <2>1, <2>2, <3>2 DEF LoginInv, TypeInv, Fits, Busy, Inner, Owning
      <4> QED
        BY <2>3, <2>5, <4>1 DEF Holds, Owning
    <3> QED
      BY <3>1, <3>2
  <2>8. ASSUME NEW r \in Mts PROVE Paired(r)'
    <3>1. CASE r = s
      BY <2>3, <2>4, <2>5, <3>1 DEF Paired
    <3>2. CASE r # s
      <4>1. r \in Source /\ Paired(r)
        BY DEF LoginInv, Source
      <4>2. \A b \in Actor : job[b].src = r => job'[b] = job[b]
        BY <1>o, <2>1, <3>2
      <4> QED
        BY <2>3, <2>5, <3>2, <4>1, <4>2 DEF Paired
    <3> QED
      BY <3>1, <3>2
  <2>9. LoginKept'
    BY <2>5 DEF LoginInv, LoginKept
  <2> QED
    BY <2>6, <2>7, <2>8, <2>9 DEF Kept
<1> QED
  BY <1>1, <1>2, <1>3, <1>4 DEF Call

LEMMA OtherLogin ==
    ASSUME LoginInv,
           \/ \E w \in Worker : Panic(w) \/ Beat(w) \/ BeatCommit(w)
           \/ \E c \in Checker : Test(c) \/ TestEnds(c)
    PROVE  Kept'
<1>1. ASSUME NEW w \in Worker, Panic(w) PROVE Kept'
  <2>1. w \in Actor /\ job[w] \in Job
    BY DEF Actor, LoginInv, TypeInv, Fits
  <2>2. [job[w] EXCEPT !.pc = "panicking"].pc = "panicking"
    BY <2>1 DEF Job
  <2> QED
    BY <1>1, <2>1, <2>2, JobLogin DEF Panic, provider, Owning
<1>2. ASSUME NEW w \in Worker, Beat(w) \/ BeatCommit(w) PROVE Kept'
  BY <1>2 DEF Beat, BeatCommit, Kept, LoginInv, OneOwner, Owns, Holds, Paired, LoginKept, provider
<1>3. ASSUME NEW c \in Checker, Test(c) \/ TestEnds(c) PROVE Kept'
  <2>1. c \in Actor /\ job[c] \in Job
    BY DEF Actor, LoginInv, TypeInv, Fits
  <2>2. PICK x : Goes(c, x) /\ x.pc \notin Owning
    <3>1. CASE Test(c)
      <4> DEFINE y(s) == [job[c] EXCEPT !.pc = "checking", !.src = s, !.pair = row[s].pair]
      <4>1. PICK s : Goes(c, y(s))
        BY <3>1 DEF Test
      <4>2. y(s).pc = "checking"
        BY <2>1 DEF Job
      <4> QED
        BY <4>1, <4>2 DEF Owning
    <3>2. CASE TestEnds(c)
      BY <3>2 DEF TestEnds, Idle, Owning
    <3> QED
      BY <1>3, <3>1, <3>2
  <2> QED
    BY <1>3, <2>1, <2>2, JobLogin DEF Test, TestEnds, provider
<1> QED
  BY <1>1, <1>2, <1>3

LEMMA SurroundLogin ==
    ASSUME LoginInv, Environment
    PROVE  Kept'
<1> TypeInv /\ \A s \in Source : row[s] \in Row
  BY RowType DEF LoginInv
<1>e. Endpoint # {} /\ \A s \in Source : row[s].endpoint \in Endpoint
  BY SourceAssumption DEF Row
<1>1. ASSUME NEW s \in Source, NEW e \in Endpoint,
             Delete(s) \/ (\E l : Configure(s, e, "enabled", l)) \/ Configure(s, row[s].endpoint, "disabled", row[s].label)
      PROVE  Kept'
  <2>1. \A r \in Source : row'[r].pair = row[r].pair
    <3>1. CASE row' = [row EXCEPT ![s].state = "gone"]
      <4>1. \A r \in Source : row'[r] = row[r] \/ row'[r] = [row[r] EXCEPT !.state = "gone"]
        BY <3>1 DEF TypeInv, TypeOK
      <4> QED
        BY <4>1 DEF Row
    <3>2. ASSUME NEW f, NEW g, NEW l,
                 row' = [row EXCEPT ![s] = [@ EXCEPT !.endpoint = f, !.state = g, !.label = l]]
          PROVE  \A r \in Source : row'[r].pair = row[r].pair
      <4>1. \A r \in Source : \/ row'[r] = row[r]
                            \/ row'[r] = [row[r] EXCEPT !.endpoint = f, !.state = g, !.label = l]
        BY <3>2 DEF TypeInv, TypeOK
      <4> QED
        BY <4>1 DEF Row
    <3>3. \/ row' = [row EXCEPT ![s].state = "gone"]
          \/ \E f, g, l : row' = [row EXCEPT ![s] = [@ EXCEPT !.endpoint = f, !.state = g, !.label = l]]
      BY <1>1 DEF Delete, Configure
    <3> QED
      BY <3>1, <3>2, <3>3
  <2>2. UNCHANGED <<job, issued, lost, refused>>
    BY <1>1 DEF Delete, Configure, provider
  <2>3. \A a \in Actor : job[a].pc \in Owning => job[a].src \in Source
    BY DEF TypeInv, Fits, Busy, Inner, Owning
  <2>4. OneOwner' /\ LoginKept'
    BY <2>2 DEF LoginInv, OneOwner, Owns, LoginKept
  <2>5. \A a \in Actor : Holds(a)'
    BY <2>1, <2>2, <2>3 DEF LoginInv, Holds, Owning
  <2>6. \A r \in Mts : Paired(r)'
    BY <2>1, <2>2 DEF LoginInv, Paired, Source
  <2> QED
    BY <2>4, <2>5, <2>6 DEF Kept
<1>2. ASSUME NEW s \in Source, NEW state \in {"enabled", "disabled"}, Login(s, state)
      PROVE  Kept'
  <2>1. row'[s].pair = issued'[s] /\ \A r \in Source \ {s} : row'[r] = row[r] /\ issued'[r] = issued[r]
    <3>1. /\ row'[s] = [row[s] EXCEPT !.pair = issued[s] + 1, !.state = state]
          /\ issued'[s] = issued[s] + 1
          /\ \A r \in Source \ {s} : row'[r] = row[r] /\ issued'[r] = issued[r]
      BY <1>2 DEF Login, TypeInv, TypeOK
    <3> QED
      BY <3>1 DEF Row
  <2>2. \A a \in Actor : job[a].pc \in Owning => job[a].src \in Source \ {s}
    BY <1>2 DEF Login, CanOwn, Owns, TypeInv, Fits, Busy, Inner, Owning
  <2>3. OneOwner' /\ LoginKept'
    BY <1>2 DEF Login, LoginInv, OneOwner, Owns, LoginKept
  <2>4. \A a \in Actor : Holds(a)'
    BY <1>2, <2>1, <2>2 DEF Login, LoginInv, Holds, Owning
  <2>5. \A r \in Mts : Paired(r)'
    BY <1>2, <2>1 DEF Login, LoginInv, Paired, Source
  <2> QED
    BY <2>3, <2>4, <2>5 DEF Kept
<1>3. ASSUME NEW s \in Source, NEW e \in Endpoint, Expire(s) \/ Renumber(s, e) \/ Arrive(s, e)
      PROVE  Kept'
  BY <1>3 DEF Expire, Renumber, Arrive, Kept, LoginInv, OneOwner, Owns, Holds, Paired, LoginKept, provider
<1>4. ASSUME NEW a \in Actor, Stop(a) PROVE Kept'
  <2>1. job'[a] = Idle /\ \A b \in Actor \ {a} : job'[b] = job[b]
    BY <1>4 DEF Stop, Goes, TypeInv, TypeOK
  <2>2. Idle.pc \notin Owning
    BY DEF Idle, Owning
  <2>3. OneOwner' /\ LoginKept'
    BY <1>4, <2>1, <2>2 DEF Stop, LoginInv, OneOwner, Owns, LoginKept, Owning
  <2>4. \A b \in Actor : Holds(b)'
    BY <1>4, <2>1, <2>2 DEF Stop, LoginInv, Holds, Owning
  <2>5. \A s \in Mts : Paired(s)'
    BY <1>4, <2>1, <2>2 DEF Stop, LoginInv, Paired, Owning
  <2> QED
    BY <2>3, <2>4, <2>5 DEF Kept
<1> QED
  BY <1>e, <1>1, <1>2, <1>3, <1>4 DEF Environment

LEMMA LoginInit == Init => LoginInv
<1> SUFFICES ASSUME Init PROVE LoginInv
  OBVIOUS
<1>1. TypeInv
  BY TypeInit
<1>2. \A a \in Actor : job[a].pc \notin Owning
  BY DEF Init, Idle, Owning
<1>3. \A s \in Mts : row[s].pair = issued[s]
  BY DEF Init, Source
<1> QED
  BY <1>1, <1>2, <1>3 DEF LoginInv, OneOwner, Owns, Holds, Paired, LoginKept, Owning, Init

LEMMA LoginNext == LoginInv /\ [Next]_vars => LoginInv'
<1> SUFFICES ASSUME LoginInv, [Next]_vars PROVE LoginInv'
  OBVIOUS
<1>1. TypeInv'
  BY TypeNext DEF LoginInv
<1>2. CASE UNCHANGED vars
  BY <1>1, <1>2 DEF vars, LoginInv, OneOwner, Owns, Holds, Paired, LoginKept
<1>3. CASE Next
  <2>1. Kept'
    BY <1>3, LoopLogin, CallLogin, OtherLogin, SurroundLogin DEF Next
  <2> QED
    BY <1>1, <2>1 DEF Kept, LoginInv
<1> QED
  BY <1>2, <1>3

\* A refresh token is spent once, whoever meets the expired access token: the
\* provider refuses only where an answer or a process was lost before the new pair
\* was stored (mtsJSON's renewal under FOR UPDATE, which reads the pair again).
THEOREM LoginKeptAlways == Spec => []LoginKept
<1>1. LoginInv => LoginKept
  BY DEF LoginInv
<1> QED
  BY LoginInit, LoginNext, <1>1, PTL DEF Spec

------------------------------------------------------------------------------
(* The order of the labels *)

\* The label of s comes before that of t, or is the same.
Before(j, s, t) == s # t /\ j.labels[s] <= j.labels[t]

\* A pass goes through its sources in the order of their labels.
Ordered(w) ==
    LET j == job[w] IN
    /\ \A f \in j.failed, t \in j.todo : Before(j, f, t)
    /\ j.src # NoSource => /\ \A f \in j.failed : Before(j, f, j.src)
                           /\ \A t \in j.todo : Before(j, j.src, t)

\* An import has the advisory lock of its source to itself, and only an import
\* keeps letters.
OneImport == \A v, w \in Worker, s \in Source : Importing(v, s) /\ Importing(w, s) => v = w
Collects(w) == job[w].got # {} => job[w].pc \in Inner

TurnInv == TypeInv /\ OneImport /\ \A w \in Worker : Ordered(w) /\ Collects(w)

\* The least element of a set of numbers.
Less == {ss \in Nat \X Nat : ss[1] < ss[2]}

LEMMA Least ==
    ASSUME NEW T \in SUBSET Nat, T # {}
    PROVE  \E x \in T : \A y \in T : x <= y
<1>1. OpToRel(<, Nat) = Less
  BY DEF OpToRel, Less
<1>2. IsWellFoundedOn(Less, Nat)
  BY <1>1, NatLessThanWellFounded
<1>3. PICK x \in T : \A y \in T : ~(<<y, x>> \in Less)
  BY <1>2, WFMin
<1>4. ASSUME NEW y \in T PROVE x <= y
  <2>1. ~(<<y, x>> \in Less) /\ x \in Nat /\ y \in Nat
    BY <1>3
  <2>2. ~(y < x)
    BY <2>1 DEF Less
  <2> QED
    BY <2>1, <2>2
<1> QED
  BY <1>4

\* The label of the source at hand.
Rank(w) == job[w].labels[job[w].src]

LEMMA RankType ==
    ASSUME TypeInv, NEW w \in Worker, job[w].src \in Source
    PROVE  Rank(w) \in 0..MaxLabel
<1>1. job[w] \in Job
  BY DEF TypeInv, TypeOK, Actor
<1> QED
  BY <1>1 DEF Rank, Job

\* What a step may do to the job of a worker, but for the three that choose a source,
\* open its import and write down its failure.
Tame(w, x) ==
    /\ x.todo \subseteq job[w].todo /\ x.failed \subseteq job[w].failed
    /\ x.src \in {job[w].src, NoSource}
    /\ x.labels = job[w].labels \/ (x.failed = {} /\ x.src = NoSource)
    /\ x.pc \in Inner => job[w].pc \in Inner /\ x.src = job[w].src
    /\ x.got # {} => x.pc \in Inner

LEMMA WorkerJob ==
    ASSUME TypeInv, NEW w \in Worker
    PROVE  /\ w \in Actor /\ job[w] \in Job /\ Fits(w, job[w])
           /\ job[w].todo \subseteq Source /\ job[w].failed \subseteq Source
           /\ job[w].src \in Source \cup {NoSource} /\ (job[w].pc \in Inner => job[w].src \in Source)
BY DEF TypeInv, TypeOK, Actor, Fits, Job, Busy

LEMMA GoesTurn ==
    ASSUME TypeInv, NEW a \in Actor, NEW x, Goes(a, x)
    PROVE  job'[a] = x /\ \A b \in Actor \ {a} : job'[b] = job[b]
BY DEF TypeInv, TypeOK, Goes

LEMMA TameTurn ==
    ASSUME TurnInv, NEW a \in Actor, NEW x, Goes(a, x), a \in Worker => Tame(a, x)
    PROVE  OneImport' /\ \A w \in Worker : Ordered(w)' /\ Collects(w)'
<1>1. job'[a] = x /\ \A b \in Actor \ {a} : job'[b] = job[b]
  BY GoesTurn DEF TurnInv
<1>2. \A w \in Worker : w \in Actor /\ (job'[w] = job[w] \/ (w = a /\ Tame(w, job'[w])))
  BY <1>1 DEF Actor
<1>3. OneImport'
  <2>1. \A w \in Worker, s \in Source : Importing(w, s)' => Importing(w, s)
    BY <1>2 DEF Importing, Tame
  <2> QED
    BY <2>1 DEF TurnInv, OneImport
<1>4. ASSUME NEW w \in Worker PROVE Ordered(w)' /\ Collects(w)'
  <2>1. Ordered(w) /\ Collects(w)
    BY DEF TurnInv
  <2>2. CASE job'[w] = job[w]
    BY <2>1, <2>2 DEF Ordered, Collects
  <2>3. CASE Tame(w, job'[w])
    BY <2>1, <2>3 DEF Ordered, Before, Collects, Tame
  <2> QED
    BY <1>2, <2>2, <2>3
<1> QED
  BY <1>3, <1>4

\* Whoever waits has a source, and those who exchange tokens wait for nobody.
LEMMA Waits ==
    ASSUME TurnInv, NEW w \in Worker, Awaits(w) # {}
    PROVE  job[w].src \in Source /\ job[w].pc \in {"waiting", "loading", "failing", "rejected"}
<1>1. job[w].pc \in {"waiting", "loading", "failing", "rejected"}
  BY DEF Awaits
<1> QED
  BY <1>1 DEF TurnInv, TypeInv, Fits, Actor, Busy, Inner

LEMMA TurnNoCircle == TurnInv => NoCircle
<1> SUFFICES ASSUME TurnInv, NEW S \in (SUBSET Worker) \ {{}}, OneOrder(S),
                    \A w \in S : Awaits(w) \cap S # {}
             PROVE  FALSE
  BY DEF NoCircle
<1>1. \A w \in S : /\ w \in Worker /\ job[w].src \in Source
                   /\ job[w].pc \in {"waiting", "loading", "failing", "rejected"}
                   /\ Rank(w) \in 0..MaxLabel
  BY Waits, RankType DEF TurnInv
<1>m. MaxLabel \in Nat /\ NoSource \notin Source
  BY SourceAssumption
<1>2. PICK w \in S : \A v \in S : Rank(v) <= Rank(w)
  <2> DEFINE T == {MaxLabel - Rank(v) : v \in S}
  <2>2. T \in SUBSET Nat /\ T # {}
    <3>1. \A v \in S : MaxLabel - Rank(v) \in Nat
      BY <1>1, <1>m
    <3> QED
      BY <3>1
  <2>3. PICK n \in T : \A m \in T : n <= m
    BY <2>2, Least
  <2>4. PICK w \in S : n = MaxLabel - Rank(w)
    BY <2>3
  <2>5. ASSUME NEW v \in S PROVE Rank(v) <= Rank(w)
    <3>1. n <= MaxLabel - Rank(v)
      BY <2>3
    <3>2. Rank(v) \in 0..MaxLabel /\ Rank(w) \in 0..MaxLabel
      BY <1>1
    <3> QED
      BY <1>m, <2>4, <3>1, <3>2
  <2> QED
    BY <2>5
<1> DEFINE s == job[w].src
<1>3. ASSUME NEW v \in S, job[v].src = s, job[v].pc # "waiting" PROVE FALSE
  <2>1. PICK u \in S : u \in Awaits(v)
    OBVIOUS
  <2>2. /\ u \in Worker /\ u # v /\ s \in Source
        /\ Owns(u, s) \/ s \in job[u].failed \/ (job[v].pc = "rejected" /\ Shares(u, s))
    BY <1>1, <1>3, <2>1 DEF Awaits
  <2>3. ~Owns(u, s)
    BY <1>1 DEF Owns
  <2>4. CASE s \in job[u].failed
    <3> DEFINE t == job[u].src
    <3>1. t \in Source /\ s # t /\ job[u].labels[s] <= Rank(u)
      BY <1>1, <1>m, <2>2, <2>4 DEF TurnInv, Ordered, Before, Rank
    <3>2. s \in Met(u) /\ t \in Met(u) /\ s \in Met(w)
      BY <1>1, <1>m, <2>4, <3>1 DEF Met
    <3>3. job[u].labels[s] = Rank(w) /\ job[u].labels[s] # Rank(u)
      <4>1. \A v1 \in S, v2 \in S : \A x \in Met(v1), y \in Met(v2) :
               job[v1].labels[x] = job[v2].labels[y] <=> x = y
        BY DEF OneOrder
      <4>2. job[u].labels[s] = job[w].labels[s]
        BY <3>2, <4>1
      <4>3. job[u].labels[s] # job[u].labels[t]
        BY <3>1, <3>2, <4>1
      <4> QED
        BY <4>2, <4>3 DEF Rank
    <3>4. Rank(u) <= Rank(w) /\ Rank(u) \in 0..MaxLabel /\ Rank(w) \in 0..MaxLabel
      BY <1>1, <1>2
    <3> QED
      BY <1>m, <3>1, <3>3, <3>4
  <2>5. CASE job[v].pc = "rejected" /\ Shares(u, s)
    <3>1. Importing(u, s) /\ Importing(v, s)
      BY <1>3, <2>2, <2>5 DEF TurnInv, Collects, Shares, Importing, Inner
    <3> QED
      BY <1>1, <2>2, <3>1 DEF TurnInv, OneImport
  <2> QED
    BY <2>2, <2>3, <2>4, <2>5
<1>4. job[w].pc = "waiting"
  BY <1>3
<1>5. PICK v \in S : v \in Awaits(w)
  OBVIOUS
<1>6. Importing(v, s)
  BY <1>4, <1>5 DEF Awaits
<1>7. job[v].src = s /\ job[v].pc # "waiting"
  BY <1>6 DEF Importing, Inner
<1> QED
  BY <1>3, <1>7

\* The four things a step of the loop, a call or a test leaves as they were.
Turned == OneImport' /\ \A w \in Worker : Ordered(w)' /\ Collects(w)'

LEMMA LoopTurn ==
    ASSUME TurnInv, NEW w \in Worker, Loop(w)
    PROVE  Turned
<1> DEFINE j == job[w]
<1> TypeInv /\ w \in Actor /\ j \in Job /\ Fits(w, j) /\ Collects(w) /\ Ordered(w)
  BY WorkerJob DEF TurnInv
<1> j.todo \subseteq Source /\ j.failed \subseteq Source
  BY DEF Job
<1>t. \A x : Goes(w, x) /\ Tame(w, x) => Turned
  BY TameTurn DEF Turned
<1>1. CASE Pass(w)
  <2>1. PICK due \in SUBSET Source : Goes(w, Listing(due))
    BY <1>1 DEF Pass
  <2> DEFINE x == Listing(due)
  <2>2. x.failed = {} /\ x.src = NoSource /\ x.pc = "listed" /\ x.got = {}
    BY DEF Listing, Idle
  <2> HIDE DEF x
  <2>3. job'[w] = x /\ \A b \in Actor \ {w} : job'[b] = job[b]
    BY <2>1, GoesTurn DEF x
  <2> QED
    BY <2>2, <2>3 DEF Turned, TurnInv, OneImport, Ordered, Collects, Importing, Inner, Actor
<1>2. CASE Take(w)
  <2>1. PICK s \in Source : NextInTurn(j, s)
                            /\ Goes(w, [job[w] EXCEPT !.pc = "waiting", !.src = s, !.todo = @ \ {s}])
    BY <1>2 DEF Take
  <2> DEFINE x == [job[w] EXCEPT !.pc = "waiting", !.src = s, !.todo = @ \ {s}]
  <2>2. x.failed = j.failed /\ x.src = s /\ x.pc = "waiting" /\ x.got = j.got /\ x.todo = j.todo \ {s}
        /\ x.labels = j.labels
    BY DEF Job
  <2> HIDE DEF x
  <2>3. job'[w] = x /\ \A b \in Actor \ {w} : job'[b] = job[b]
    BY <2>1, GoesTurn DEF x
  <2>4. \A f \in j.failed : Before(j, f, s) /\ \A t \in j.todo : Before(j, f, t)
    BY <2>1 DEF NextInTurn, Ordered
  <2>5. \A t \in j.todo \ {s} : Before(j, s, t)
    BY <2>1 DEF NextInTurn, Before
  <2>6. Ordered(w)' /\ Collects(w)'
    BY <1>2, <2>2, <2>3, <2>4, <2>5 DEF Take, Ordered, Before, Collects, Inner
  <2>7. \A v \in Worker \ {w} : Ordered(v)' /\ Collects(v)'
    BY <2>3 DEF TurnInv, Ordered, Collects, Actor
  <2>8. OneImport'
    BY <2>2, <2>3 DEF TurnInv, OneImport, Importing, Inner, Actor
  <2> QED
    BY <2>6, <2>7, <2>8 DEF Turned
<1>3. CASE Enter(w)
  <2> DEFINE s == j.src
             x == [job[w] EXCEPT !.pc = "entered", !.endpoint = row[s].endpoint, !.pair = row[s].pair]
             y == [job[w] EXCEPT !.pc = "failing"]
  <2>1. CASE row[s].state = "enabled"
    <3>1. x.failed = j.failed /\ x.src = s /\ x.pc = "entered" /\ x.got = j.got /\ x.todo = j.todo
          /\ x.labels = j.labels
      BY DEF Job
    <3>2. Goes(w, x)
      BY <1>3, <2>1 DEF Enter
    <3> HIDE DEF x
    <3>3. job'[w] = x /\ \A b \in Actor \ {w} : job'[b] = job[b]
      BY <3>2, GoesTurn
    <3>4. \A v \in Worker : Ordered(v)' /\ Collects(v)'
      BY <3>1, <3>3 DEF TurnInv, Ordered, Before, Collects, Actor, Inner
    <3>5. \A v \in Worker \ {w}, r \in Source : r = s => ~Importing(v, r)'
      <4>1. \A v \in Worker \ {w} : ~Importing(v, s) /\ job'[v] = job[v]
        BY <1>3, <3>3 DEF Enter, Actor
      <4> QED
        BY <4>1 DEF Importing
    <3>6. \A v \in Worker \ {w}, r \in Source : Importing(v, r)' <=> Importing(v, r)
      BY <3>3 DEF Importing, Actor
    <3>7. \A r \in Source : Importing(w, r)' => r = s
      BY <3>1, <3>3 DEF Importing
    <3>8. OneImport'
      <4>1. SUFFICES ASSUME NEW u \in Worker, NEW v \in Worker, NEW r \in Source,
                            Importing(u, r)', Importing(v, r)'
                     PROVE  u = v
        BY DEF OneImport
      <4>2. CASE u # w /\ v # w
        BY <3>6, <4>1, <4>2 DEF TurnInv, OneImport
      <4>3. CASE u = w \/ v = w
        BY <3>5, <3>7, <4>1, <4>3
      <4> QED
        BY <4>2, <4>3
    <3> QED
      BY <3>4, <3>8 DEF Turned
  <2>2. CASE row[s].state # "enabled"
    <3>1. Tame(w, y)
      BY <1>3 DEF Enter, Tame, Job, Inner, Collects
    <3> QED
      BY <1>3, <1>t, <2>2, <3>1 DEF Enter
  <2> QED
    BY <2>1, <2>2
<1>4. CASE Select(w)
  <2>1. PICK n, v, l : Goes(w, [job[w] EXCEPT !.pc = "loading", !.last = n, !.validity = v, !.list = l])
    BY <1>4 DEF Select
  <2>2. Tame(w, [job[w] EXCEPT !.pc = "loading", !.last = n, !.validity = v, !.list = l])
    BY <1>4 DEF Select, Tame, Job, Inner
  <2> QED
    BY <1>t, <2>1, <2>2
<1>5. CASE ListTranscripts(w)
  <2>1. PICK l : Goes(w, [job[w] EXCEPT !.pc = "loading", !.retry = FALSE, !.list = l])
    BY <1>5 DEF ListTranscripts
  <2>2. Tame(w, [job[w] EXCEPT !.pc = "loading", !.retry = FALSE, !.list = l])
    BY <1>5 DEF ListTranscripts, Tame, Job, Inner
  <2> QED
    BY <1>t, <2>1, <2>2
<1>6. CASE Load(w)
  <2>1. PICK l, g, n : Goes(w, [job[w] EXCEPT !.list = l, !.got = g, !.retry = FALSE, !.last = n])
    BY <1>6 DEF Load, Advance
  <2>2. Tame(w, [job[w] EXCEPT !.list = l, !.got = g, !.retry = FALSE, !.last = n])
    BY <1>6 DEF Load, Tame, Job, Inner
  <2> QED
    BY <1>t, <2>1, <2>2
<1>7. CASE Close(w)
  <2>1. Tame(w, Listed(job[w], job[w].failed))
    BY DEF Tame, Listed, Idle, Inner
  <2> QED
    BY <1>7, <1>t, <2>1 DEF Close
<1>8. CASE Unwind(w)
  <2>1. Tame(w, [job[w] EXCEPT !.pc = "failing", !.got = {}, !.list = <<>>])
    BY DEF Tame, Job, Inner
  <2> QED
    BY <1>8, <1>t, <2>1 DEF Unwind
<1>9. CASE Report(w)
  <2> DEFINE s == j.src
             x == Listed(job[w], j.failed \cup {s})
  <2>1. CASE row[s].state = "gone"
    <3>1. Tame(w, Idle)
      BY DEF Tame, Idle, Inner
    <3> QED
      BY <1>9, <1>t, <2>1, <3>1 DEF Report
  <2>2. CASE row[s].state # "gone"
    <3>1. /\ x.failed = j.failed \cup {s} /\ x.src = NoSource /\ x.pc = "listed"
          /\ x.got = {} /\ x.todo = j.todo /\ x.labels = j.labels
      BY DEF Listed, Idle
    <3>2. Goes(w, x)
      BY <1>9, <2>2 DEF Report
    <3>s. s \in Source /\ s # NoSource
      BY <1>9, SourceAssumption DEF Report, Fits, Busy
    <3> HIDE DEF x
    <3>3. job'[w] = x /\ \A b \in Actor \ {w} : job'[b] = job[b]
      BY <3>2, GoesTurn
    <3>4. \A f \in j.failed \cup {s}, t \in j.todo : Before(j, f, t)
      BY <3>s DEF Ordered
    <3>5. Ordered(w)' /\ Collects(w)'
      BY <3>1, <3>3, <3>4 DEF Ordered, Before, Collects
    <3>6. \A v \in Worker \ {w} : Ordered(v)' /\ Collects(v)'
      BY <3>3 DEF TurnInv, Ordered, Collects, Actor
    <3>7. OneImport'
      BY <3>1, <3>3 DEF TurnInv, OneImport, Importing, Inner, Actor
    <3> QED
      BY <3>5, <3>6, <3>7 DEF Turned
  <2> QED
    BY <2>1, <2>2
<1>10. CASE Finish(w)
  <2>1. Tame(w, Idle)
    BY DEF Tame, Idle, Inner
  <2> QED
    BY <1>10, <1>t, <2>1 DEF Finish
<1> QED
  BY <1>1, <1>2, <1>3, <1>4, <1>5, <1>6, <1>7, <1>8, <1>9, <1>10 DEF Loop

LEMMA CallTurn ==
    ASSUME TurnInv, NEW a \in Actor, Call(a)
    PROVE  Turned
<1> TypeInv /\ job[a] \in Job
  BY DEF TurnInv, TypeInv, Fits
<1>0. a \in Worker => job[a].pc \in Inner
  BY SourceAssumption DEF Call, Reject, Rotate, Exchange, Renew, Calls, Inner, TurnInv, TypeInv, TypeOK, PC
<1>t. \A x : Goes(a, x) /\ (a \in Worker => Tame(a, x)) => Turned
  BY TameTurn DEF Turned
<1>1. a \in Worker => Tame(a, Failed(a))
  BY <1>0 DEF Failed, Tame, Job, Inner
<1>2. \A p : a \in Worker => Tame(a, [job[a] EXCEPT !.pc = CallOf(a), !.pair = p, !.retry = TRUE])
  <2>1. a \in Worker => CallOf(a) \in Inner
    BY SourceAssumption DEF CallOf, Inner
  <2> QED
    BY <1>0, <2>1 DEF Job, Tame
<1>3. a \in Worker => Tame(a, [job[a] EXCEPT !.pc = CallOf(a), !.retry = TRUE])
  <2>1. a \in Worker => CallOf(a) \in Inner
    BY SourceAssumption DEF CallOf, Inner
  <2> QED
    BY <1>0, <2>1 DEF Job, Tame
<1>4. \A c \in {"rejected", "exchanging"} : a \in Worker => Tame(a, [job[a] EXCEPT !.pc = c])
  BY <1>0 DEF Inner, Job, Tame
<1>5. \A p : a \in Worker => Tame(a, [job[a] EXCEPT !.pc = "exchanged", !.pair = p])
  BY <1>0 DEF Inner, Job, Tame
<1>6. CASE Reject(a)
  BY <1>t, <1>1, <1>4, <1>6 DEF Reject
<1>7. CASE Rotate(a)
  BY <1>t, <1>1, <1>2, <1>4, <1>7 DEF Rotate
<1>8. CASE Exchange(a)
  BY <1>t, <1>1, <1>5, <1>8 DEF Exchange
<1>9. CASE Renew(a)
  BY <1>t, <1>3, <1>9 DEF Renew
<1> QED
  BY <1>6, <1>7, <1>8, <1>9 DEF Call

\* The steps of tests, of heartbeats and of the world.
LEMMA OtherTurn ==
    ASSUME TurnInv,
           \/ UNCHANGED job
           \/ \E w \in Worker : Panic(w)
           \/ \E c \in Checker : Test(c) \/ TestEnds(c)
           \/ \E a \in Actor : Stop(a)
    PROVE  Turned
<1>1. CASE UNCHANGED job
  BY <1>1 DEF Turned, TurnInv, OneImport, Ordered, Collects, Importing
<1>2. ASSUME NEW w \in Worker, Panic(w) PROVE Turned
  <2>1. w \in Actor /\ job[w] \in Job
    BY WorkerJob DEF TurnInv
  <2>2. Tame(w, [job[w] EXCEPT !.pc = "panicking"])
    BY <1>2, <2>1 DEF Panic, Tame, Job, Inner
  <2> QED
    BY <1>2, <2>1, <2>2, TameTurn DEF Panic, Turned
<1>3. ASSUME NEW c \in Checker, Test(c) \/ TestEnds(c) PROVE Turned
  <2>1. c \in Actor /\ c \notin Worker
    BY SourceAssumption DEF Actor
  <2>2. PICK x : Goes(c, x)
    BY <1>3 DEF Test, TestEnds
  <2> QED
    BY <2>1, <2>2, TameTurn DEF Turned
<1>4. ASSUME NEW a \in Actor, Stop(a) PROVE Turned
  <2>1. Tame(a, Idle)
    BY DEF Tame, Idle, Inner
  <2> QED
    BY <1>4, <2>1, TameTurn DEF Stop, Turned
<1> QED
  BY <1>1, <1>2, <1>3, <1>4

LEMMA TurnInit == Init => TurnInv
<1> SUFFICES ASSUME Init PROVE TurnInv
  OBVIOUS
<1>1. \A a \in Actor : job[a].todo = {} /\ job[a].failed = {} /\ job[a].src = NoSource
                       /\ job[a].got = {} /\ job[a].pc \notin Inner
  BY DEF Init, Idle, Inner
<1> QED
  BY <1>1, TypeInit DEF TurnInv, OneImport, Ordered, Collects, Importing, Actor

LEMMA TurnNext == TurnInv /\ [Next]_vars => TurnInv'
<1> SUFFICES ASSUME TurnInv, [Next]_vars PROVE TurnInv'
  OBVIOUS
<1>1. TypeInv'
  BY TypeNext DEF TurnInv
<1>2. Turned
  <2>1. CASE UNCHANGED vars
    BY <2>1, OtherTurn DEF vars
  <2>2. ASSUME NEW w \in Worker, Loop(w) \/ Panic(w) \/ Beat(w) \/ BeatCommit(w) PROVE Turned
    BY <2>2, LoopTurn, OtherTurn DEF Beat, BeatCommit
  <2>3. ASSUME NEW a \in Actor, Call(a) PROVE Turned
    BY <2>3, CallTurn
  <2>4. ASSUME NEW c \in Checker, Test(c) \/ TestEnds(c) PROVE Turned
    BY <2>4, OtherTurn
  <2>5. CASE Environment
    BY <2>5, OtherTurn
       DEF Environment, Delete, Configure, Login, Expire, Arrive, Renumber
  <2> QED
    BY <2>1, <2>2, <2>3, <2>4, <2>5 DEF Next
<1> QED
  BY <1>1, <1>2 DEF TurnInv, Turned

\* Workers whose passes agree on the labels never wait for each other in a circle,
\* which neither they nor PostgreSQL would ever see: whoever waits for the source with
\* the last label waits for an import that waits for nobody (syncSources).  Labels are
\* any, and renamed at any time: passes that disagree are left to NeverACircle.
THEOREM NoCircleAlways == Spec => []NoCircle
BY TurnInit, TurnNext, TurnNoCircle, PTL DEF Spec

------------------------------------------------------------------------------
(* The cursor of a mailbox *)

\* No two servers ever give a mailbox the same UIDVALIDITY.
Apart == \A s \in Mail, e, f \in Endpoint :
    FirstValidity[e] <= FirstValidity[f] + MaxRenumber[s]
        /\ FirstValidity[f] <= FirstValidity[e] + MaxRenumber[s] => e = f

\* The UIDVALIDITY v is one that e has given the mailbox of s.
Given(s, e, v) == FirstValidity[e] <= v /\ v <= validity[s][e]

\* If v is still its UIDVALIDITY, the letters up to n are stored, or will be with got.
Covered(s, e, v, n, got) ==
    v = validity[s][e] =>
        /\ n <= Len(box[s][e])
        /\ row[s].state # "gone" => \A i \in 1..n :
            box[s][e][i] \notin Bodiless => <<e, box[s][e][i]>> \in events[s] \cup got

Counted(s) == \A e \in Endpoint :
    FirstValidity[e] <= validity[s][e] /\ validity[s][e] <= FirstValidity[e] + MaxRenumber[s]

Cursored(s) ==
    LET c == cursor[s] IN
    IF c.validity = 0 THEN c.last = 0
    ELSE Given(s, c.endpoint, c.validity) /\ Covered(s, c.endpoint, c.validity, c.last, {})

\* What an import still has to load are the letters after those it has dealt with.
Aligned(j) ==
    j.pc = "loading" /\ j.src \in Mail =>
        /\ Given(j.src, j.endpoint, j.validity)
        /\ Covered(j.src, j.endpoint, j.validity, j.last, j.got)
        /\ j.validity = validity[j.src][j.endpoint] =>
            /\ j.last + Len(j.list) <= Len(box[j.src][j.endpoint])
            /\ \A i \in 1..Len(j.list) : j.list[i] = box[j.src][j.endpoint][j.last + i]

Filed ==
    /\ \A s \in Mail : Counted(s) /\ Cursored(s)
    /\ \A w \in Worker : Aligned(job[w])

MailInv == TypeInv /\ Filed

LEMMA MailTypes ==
    ASSUME TypeInv, NEW s \in Mail, NEW e \in Endpoint
    PROVE  /\ s \in Source /\ s \notin Mts
           /\ box[s] \in [Endpoint -> Seq(Letter)] /\ box[s][e] \in Seq(Letter) /\ Len(box[s][e]) \in Nat
           /\ validity[s][e] \in Nat \ {0} /\ FirstValidity[e] \in Nat \ {0} /\ MaxRenumber[s] \in Nat
           /\ cursor[s] \in Cursor
<1>1. s \in Source /\ s \notin Mts
  BY SourceAssumption DEF Source
<1>2. /\ box[s] \in [Endpoint -> Seq(Letter)] /\ box[s][e] \in Seq(Letter)
      /\ validity[s][e] \in Nat \ {0} /\ cursor[s] \in Cursor
  BY <1>1 DEF TypeInv, TypeOK
<1>3. FirstValidity[e] \in Nat \ {0} /\ MaxRenumber[s] \in Nat
  BY <1>1, SourceAssumption
<1> QED
  BY <1>1, <1>2, <1>3, LenProperties

\* A mailbox that does not change, with letters that are kept.
LEMMA CoveredStays ==
    ASSUME NEW s \in Source, NEW e, NEW v, NEW n, NEW got, Covered(s, e, v, n, got),
           box'[s][e] = box[s][e], validity'[s][e] = validity[s][e],
           row'[s].state # "gone" => row[s].state # "gone" /\ events[s] \subseteq events'[s]
    PROVE  Covered(s, e, v, n, got)'
BY DEF Covered

\* The job of one actor changes.
LEMMA FiledGoes ==
    ASSUME MailInv, NEW a \in Actor, NEW x, Goes(a, x), a \in Worker => Aligned(x),
           UNCHANGED <<cursor, events, world>>, \A s \in Source : row'[s].state = row[s].state
    PROVE  Filed'
<1>1. job'[a] = x /\ \A b \in Actor \ {a} : job'[b] = job[b]
  BY GoesTurn DEF MailInv
<1>2. \A s \in Mail : s \in Source
  BY DEF Source
<1>3. ASSUME NEW s \in Source, NEW e, NEW v, NEW n, NEW got
      PROVE  Covered(s, e, v, n, got)' <=> Covered(s, e, v, n, got)
  <2>1. box' = box /\ validity' = validity /\ events' = events /\ row'[s].state = row[s].state
    BY DEF world
  <2> QED
    BY <2>1 DEF Covered
<1>4. \A s \in Mail : Counted(s)' /\ Cursored(s)'
  BY <1>2, <1>3 DEF MailInv, Filed, Counted, Cursored, Given, world
<1>5. \A j : Aligned(j)' <=> Aligned(j)
  BY <1>2, <1>3 DEF Aligned, Given, world
<1>6. \A w \in Worker : Aligned(job'[w])
  BY <1>1 DEF MailInv, Filed, Actor
<1> QED
  BY <1>4, <1>5, <1>6 DEF Filed

\* What follows the first n of a sequence.
LEMMA Rest ==
    ASSUME NEW b \in Seq(Letter), NEW n \in Nat, n <= Len(b)
    PROVE  LET l == SubSeq(b, n + 1, Len(b)) IN
           /\ l \in Seq(Letter) /\ Len(l) + n = Len(b)
           /\ \A i \in 1..Len(l) : l[i] = b[n + i]
<1> DEFINE l == SubSeq(b, n + 1, Len(b))
<1>1. Len(b) \in Nat /\ \A i \in (n + 1)..Len(b) : b[i] \in Letter
  BY LenProperties, ElementOfSeq
<1> DEFINE m == Len(b)
<1>2. /\ l \in Seq(Letter)
      /\ Len(l) = IF n + 1 <= m THEN m - (n + 1) + 1 ELSE 0
      /\ \A i \in 1..(m - (n + 1) + 1) : l[i] = b[(n + 1) + i - 1]
  BY <1>1, SubSeqProperties
<1>3. m \in Nat /\ n <= m
  BY <1>1
<1> HIDE DEF m, l
<1>4. Len(l) + n = m /\ m - (n + 1) + 1 = Len(l)
  BY <1>2, <1>3
<1>5. ASSUME NEW i \in 1..Len(l) PROVE l[i] = b[n + i]
  <2>1. (n + 1) + i - 1 = n + i
    BY <1>2, <1>3
  <2> QED
    BY <1>2, <1>4, <2>1
<1> QED
  BY <1>2, <1>4, <1>5 DEF l, m

LEMMA SelectFiled ==
    ASSUME Apart, MailInv, NEW w \in Worker, Select(w)
    PROVE  Filed'
<1> DEFINE s == job[w].src
           e == job[w].endpoint
           v == validity[s][e]
           c == cursor[s]
           from == ReadFrom(c, v)
           l == SubSeq(box[s][e], from + 1, Len(box[s][e]))
           x == [job[w] EXCEPT !.pc = "loading", !.last = from, !.validity = v, !.list = l]
<1>1. w \in Actor /\ job[w] \in Job /\ s \in Mail /\ e \in Endpoint /\ TypeInv
  BY WorkerJob DEF MailInv, Select, Job
<1>2. /\ s \in Source /\ box[s][e] \in Seq(Letter) /\ Len(box[s][e]) \in Nat
      /\ v \in Nat \ {0} /\ FirstValidity[e] \in Nat \ {0} /\ c \in Cursor
  BY <1>1, MailTypes
<1>3. c.endpoint \in Endpoint /\ c.validity \in Nat /\ c.last \in Nat
  BY <1>2 DEF Cursor
<1>4. Cursored(s) /\ Counted(s)
  BY <1>1 DEF MailInv, Filed
<1>5. from \in Nat /\ (from = 0 \/ (from = c.last /\ c.validity = v /\ Given(s, c.endpoint, v)
                                     /\ Covered(s, c.endpoint, v, c.last, {})))
  BY <1>2, <1>3, <1>4 DEF ReadFrom, Cursored
<1>6. ASSUME from # 0 PROVE c.endpoint = e
  <2>1. FirstValidity[c.endpoint] <= v /\ v <= validity[s][c.endpoint]
    BY <1>5, <1>6 DEF Given
  <2>2. validity[s][c.endpoint] <= FirstValidity[c.endpoint] + MaxRenumber[s]
        /\ FirstValidity[e] <= v /\ v <= FirstValidity[e] + MaxRenumber[s]
    BY <1>1, <1>3, <1>4 DEF Counted
  <2>3. /\ FirstValidity[c.endpoint] \in Nat /\ validity[s][c.endpoint] \in Nat
        /\ MaxRenumber[s] \in Nat /\ FirstValidity[e] \in Nat /\ v \in Nat
    BY <1>1, <1>3, MailTypes
  <2>4. /\ FirstValidity[c.endpoint] <= FirstValidity[e] + MaxRenumber[s]
        /\ FirstValidity[e] <= FirstValidity[c.endpoint] + MaxRenumber[s]
    <3> HIDE DEF v, c, s, e
    <3> QED
      BY <2>1, <2>2, <2>3
  <2> QED
    BY <1>1, <1>3, <2>4 DEF Apart
<1>7. Covered(s, e, v, from, {}) /\ from <= Len(box[s][e])
  <2>1. CASE from = 0
    BY <1>2, <2>1 DEF Covered
  <2>2. CASE from # 0
    <3>1. Covered(s, e, v, from, {})
      BY <1>5, <1>6, <2>2
    <3> QED
      BY <3>1 DEF Covered
  <2> QED
    BY <2>1, <2>2
<1>8. Len(l) + from = Len(box[s][e]) /\ \A i \in 1..Len(l) : l[i] = box[s][e][from + i]
  BY <1>2, <1>5, <1>7, Rest
<1>9. Aligned(x)
  <2>1. /\ x.src = s /\ x.endpoint = e /\ x.validity = v /\ x.last = from /\ x.list = l
        /\ x.got = job[w].got
    BY <1>1 DEF Job
  <2>2. Given(s, e, v)
    BY <1>1, <1>2, <1>4 DEF Given, Counted
  <2>3. Covered(s, e, v, from, job[w].got)
    BY <1>7 DEF Covered
  <2>4. l \in Seq(Letter) /\ from + Len(l) <= Len(box[s][e])
    <3>1. l \in Seq(Letter) /\ Len(l) \in Nat
      BY <1>2, <1>5, <1>7, Rest, LenProperties
    <3> HIDE DEF l, from, s, e
    <3> QED
      BY <1>2, <1>5, <1>8, <3>1
  <2> HIDE DEF x, l, from, v, e, s
  <2> QED
    BY <1>8, <2>1, <2>2, <2>3, <2>4 DEF Aligned, v
<1>10. Goes(w, x)
  BY DEF Select
<1> HIDE DEF x
<1> QED
  BY <1>1, <1>9, <1>10, FiledGoes DEF Select

LEMMA LoadFiled ==
    ASSUME MailInv, NEW w \in Worker, Load(w)
    PROVE  Filed'
<1> DEFINE s == job[w].src
           e == job[w].endpoint
           l == job[w].list
           n == job[w].last
           y(got) == [job[w] EXCEPT !.list = Tail(@), !.got = got, !.retry = FALSE,
                                    !.last = IF job[w].src \in Mail THEN @ + 1 ELSE 0]
<1>1. w \in Actor /\ job[w] \in Job /\ TypeInv /\ Aligned(job[w])
  BY WorkerJob DEF MailInv, Filed
<1>2. /\ e \in Endpoint /\ l \in Seq(Letter) /\ l # <<>> /\ n \in Nat /\ job[w].pc = "loading"
  BY <1>1 DEF Load, Job
<1>3. PICK got : /\ Advance(w, got) /\ job[w].got \subseteq got
                 /\ s \in Mail => Head(l) \in Bodiless \/ Item(w) \in events[s] \cup got
  BY SourceAssumption DEF Load, Known
<1>4. Aligned(y(got))
  <2> DEFINE x == y(got)
  <2>1. /\ x.pc = "loading" /\ x.src = s /\ x.endpoint = e /\ x.validity = job[w].validity
        /\ x.last = (IF s \in Mail THEN n + 1 ELSE 0) /\ x.list = Tail(l) /\ x.got = got
    BY <1>1, <1>2 DEF Job
  <2>2. SUFFICES ASSUME s \in Mail PROVE Aligned(x)
    BY <2>1 DEF Aligned
  <2>3. /\ s \in Source /\ box[s][e] \in Seq(Letter) /\ Len(box[s][e]) \in Nat
    BY <1>1, <1>2, <2>2, MailTypes
  <2>4. /\ Len(Tail(l)) = Len(l) - 1 /\ Len(l) \in Nat \ {0} /\ Head(l) = l[1]
        /\ \A i \in 1..Len(Tail(l)) : Tail(l)[i] = l[i + 1]
    BY <1>2, HeadTailProperties, LenProperties, EmptySeq
  <2>5. Given(s, e, job[w].validity) /\ Covered(s, e, job[w].validity, n, job[w].got)
    BY <1>1, <1>2, <2>2 DEF Aligned
  <2>6. ASSUME job[w].validity = validity[s][e]
        PROVE  /\ n + 1 <= Len(box[s][e]) /\ n + 1 + Len(Tail(l)) <= Len(box[s][e])
               /\ Item(w) = <<e, box[s][e][n + 1]>> /\ Head(l) = box[s][e][n + 1]
               /\ \A i \in 1..Len(Tail(l)) : Tail(l)[i] = box[s][e][(n + 1) + i]
    <3>1. n + Len(l) <= Len(box[s][e]) /\ \A i \in 1..Len(l) : l[i] = box[s][e][n + i]
      BY <1>1, <1>2, <2>2, <2>6 DEF Aligned
    <3>2. n + 1 <= Len(box[s][e]) /\ n + 1 + Len(Tail(l)) <= Len(box[s][e])
      <4> DEFINE k == Len(l)
                 m == Len(box[s][e])
                 t == Len(Tail(l))
      <4>1. n \in Nat /\ m \in Nat /\ k \in Nat \ {0} /\ t = k - 1 /\ n + k <= m
        BY <1>2, <2>3, <2>4, <3>1
      <4> HIDE DEF k, m, t
      <4>2. n + 1 <= m /\ n + 1 + t <= m
        BY <4>1
      <4> QED
        BY <4>2 DEF k, m, t
    <3>3. 1 \in 1..Len(l)
      BY <2>4
    <3>4. Item(w) = <<e, box[s][e][n + 1]>> /\ Head(l) = box[s][e][n + 1]
      BY <2>4, <3>1, <3>3 DEF Item
    <3>5. ASSUME NEW i \in 1..Len(Tail(l)) PROVE Tail(l)[i] = box[s][e][(n + 1) + i]
      <4>1. i + 1 \in 1..Len(l) /\ n + (i + 1) = (n + 1) + i
        BY <1>2, <2>4
      <4> QED
        BY <2>4, <3>1, <4>1
    <3> QED
      BY <3>2, <3>4, <3>5
  <2>7. Covered(s, e, job[w].validity, n + 1, got)
    <3>1. SUFFICES ASSUME job[w].validity = validity[s][e], row[s].state # "gone",
                          NEW i \in 1..(n + 1), box[s][e][i] \notin Bodiless
                   PROVE  <<e, box[s][e][i]>> \in events[s] \cup got
      BY <2>6 DEF Covered
    <3>2. i \in 1..n \/ i = n + 1
      BY <1>2
    <3>3. CASE i \in 1..n
      BY <1>3, <2>5, <3>1, <3>3 DEF Covered
    <3>4. CASE i = n + 1
      BY <1>3, <2>2, <2>6, <3>1, <3>4
    <3> QED
      BY <3>2, <3>3, <3>4
  <2> HIDE DEF x, s, e, l, n
  <2> QED
    BY <2>1, <2>2, <2>5, <2>6, <2>7 DEF Aligned
<1>5. Goes(w, y(got))
  BY <1>3 DEF Advance
<1> HIDE DEF y
<1> QED
  BY <1>1, <1>4, <1>5, FiledGoes DEF Load

LEMMA CloseFiled ==
    ASSUME MailInv, NEW w \in Worker, Close(w)
    PROVE  Filed'
<1> DEFINE s == job[w].src
           e == job[w].endpoint
           v == job[w].validity
           n == job[w].last
           g == job[w].got
<1>1. /\ w \in Actor /\ job[w] \in Job /\ TypeInv /\ Aligned(job[w])
      /\ job[w].pc = "loading" /\ s \in Source /\ e \in Endpoint /\ v \in Nat /\ n \in Nat
  BY WorkerJob DEF MailInv, Filed, Close, Job, Inner
<1>2. Goes(w, Listed(job[w], job[w].failed)) /\ Listed(job[w], job[w].failed).pc = "listed"
  BY DEF Close, Listed, Idle
<1>3. job'[w] = Listed(job[w], job[w].failed) /\ \A b \in Actor \ {w} : job'[b] = job[b]
  BY <1>1, <1>2, GoesTurn
<1>4. /\ \A r \in Source : events[r] \subseteq events'[r]
      /\ events'[s] = events[s] \cup g /\ UNCHANGED <<row, box, validity>>
  BY <1>1 DEF Close, TypeInv, TypeOK, world
<1>5. \A r \in Source : \A f, u, k, got : Covered(r, f, u, k, got) => Covered(r, f, u, k, got)'
  BY <1>4, CoveredStays
<1>6. ASSUME NEW r \in Mail PROVE Counted(r)' /\ Cursored(r)'
  <2>1. r \in Source /\ Counted(r) /\ Cursored(r)
    BY DEF Source, MailInv, Filed
  <2>2. CASE cursor'[r] = cursor[r]
    BY <1>4, <1>5, <2>1, <2>2 DEF Counted, Cursored, Given
  <2>3. CASE cursor'[r] # cursor[r]
    <3>1. r = s /\ cursor'[s] = [endpoint |-> e, validity |-> v, last |-> n]
      BY <1>1, <2>1, <2>3 DEF Close, TypeInv, TypeOK
    <3>2. Given(s, e, v) /\ Covered(s, e, v, n, g)
      BY <1>1, <3>1 DEF Aligned
    <3>3. v # 0
      <4>1. FirstValidity[e] \in Nat \ {0} /\ FirstValidity[e] <= v
        BY <1>1, <3>2, SourceAssumption DEF Given
      <4> QED
        BY <1>1, <4>1
    <3>4. PICK f, u, k : f = e /\ u = v /\ k = n
      OBVIOUS
    <3>5. Covered(r, f, u, k, {})' /\ Given(r, f, u)'
      BY <1>4, <3>1, <3>2, <3>4 DEF Covered, Given
    <3>6. cursor'[r].endpoint = f /\ cursor'[r].validity = u /\ cursor'[r].last = k /\ u # 0
      BY <3>1, <3>3, <3>4
    <3> QED
      BY <1>4, <2>1, <3>5, <3>6 DEF Counted, Cursored
  <2> QED
    BY <2>2, <2>3
<1>7. ASSUME NEW u \in Worker PROVE Aligned(job[u])'
  <2>1. CASE u = w
    BY <1>2, <1>3, <2>1 DEF Aligned
  <2>2. CASE u # w
    <3>1. job'[u] = job[u] /\ Aligned(job[u])
      BY <1>3, <2>2 DEF Actor, MailInv, Filed
    <3> QED
      BY <1>4, <1>5, <3>1 DEF Aligned, Given, Source
  <2> QED
    BY <2>1, <2>2
<1> QED
  BY <1>6, <1>7 DEF Filed

\* Steps that change a row, or nothing of these: a source that is gone stays gone.
LEMMA RowFiled ==
    ASSUME MailInv, UNCHANGED <<job, world>>,
           \A s \in Mail : cursor'[s] \in {cursor[s], NoCursor},
           \A s \in Mail : row'[s].state # "gone" =>
                row[s].state # "gone" /\ events[s] \subseteq events'[s]
    PROVE  Filed'
<1>1. \A s \in Mail : s \in Source
  BY DEF Source
<1>2. \A s \in Mail : \A e, v, n, got : Covered(s, e, v, n, got) => Covered(s, e, v, n, got)'
  BY <1>1, CoveredStays DEF world
<1>3. ASSUME NEW s \in Mail PROVE Counted(s)' /\ Cursored(s)'
  <2>1. Counted(s) /\ Cursored(s)
    BY DEF MailInv, Filed
  <2>2. CASE cursor'[s] = cursor[s]
    BY <1>2, <2>1, <2>2 DEF Counted, Cursored, Given, world
  <2>3. CASE cursor'[s] = NoCursor
    BY <2>1, <2>3 DEF Counted, Cursored, NoCursor, world
  <2> QED
    BY <2>2, <2>3
<1>4. ASSUME NEW w \in Worker PROVE Aligned(job[w])'
  <2>1. Aligned(job[w])
    BY DEF MailInv, Filed
  <2> QED
    BY <1>2, <2>1 DEF Aligned, Given, world
<1> QED
  BY <1>3, <1>4 DEF Filed

LEMMA ArriveFiled ==
    ASSUME MailInv, NEW s \in Source, NEW e \in Endpoint, Arrive(s, e)
    PROVE  Filed'
<1> TypeInv
  BY DEF MailInv
<1> DEFINE b == box[s][e]
<1>1. /\ UNCHANGED <<row, cursor, events, job, validity>>
      /\ box' = [box EXCEPT ![s][e] = Append(b, Len(b) + 1)]
      /\ b \in Seq(Letter) /\ Len(b) \in Nat /\ Len(b) + 1 \in Letter
  <2>1. b \in Seq(Letter)
    BY DEF TypeInv, TypeOK
  <2> QED
    BY <2>1, LenProperties DEF Arrive, Letter
<1>2. \A r \in Source, f \in Endpoint :
        box'[r][f] = IF r = s /\ f = e THEN Append(b, Len(b) + 1) ELSE box[r][f]
  BY <1>1 DEF TypeInv, TypeOK
<1>3. \A r \in Source, f \in Endpoint :
        /\ Len(box[r][f]) <= Len(box'[r][f])
        /\ \A i \in 1..Len(box[r][f]) : box'[r][f][i] = box[r][f][i]
  <2>1. SUFFICES ASSUME NEW r \in Source, NEW f \in Endpoint
                 PROVE  /\ Len(box[r][f]) <= Len(box'[r][f])
                        /\ \A i \in 1..Len(box[r][f]) : box'[r][f][i] = box[r][f][i]
    OBVIOUS
  <2>2. box[r][f] \in Seq(Letter) /\ Len(box[r][f]) \in Nat
    <3>1. box[r][f] \in Seq(Letter)
      BY DEF TypeInv, TypeOK
    <3> QED
      BY <3>1, LenProperties
  <2>3. CASE r = s /\ f = e
    <3>1. /\ Len(Append(b, Len(b) + 1)) = Len(b) + 1
          /\ \A i \in 1..Len(b) : Append(b, Len(b) + 1)[i] = b[i]
      BY <1>1, AppendProperties
    <3> QED
      BY <1>1, <1>2, <2>3, <3>1
  <2>4. CASE ~(r = s /\ f = e)
    BY <1>2, <2>2, <2>4
  <2> QED
    BY <2>3, <2>4
<1>4. \A r \in Source, f \in Endpoint, n \in Nat : \A v, got :
        Covered(r, f, v, n, got) => Covered(r, f, v, n, got)'
  <2>1. SUFFICES ASSUME NEW r \in Source, NEW f \in Endpoint, NEW v, NEW n \in Nat, NEW got,
                        Covered(r, f, v, n, got)
                 PROVE  Covered(r, f, v, n, got)'
    OBVIOUS
  <2>2. Len(box[r][f]) \in Nat /\ Len(box'[r][f]) \in Nat
    <3>1. TypeInv'
      BY TypeNext DEF Next, Environment
    <3>2. box[r][f] \in Seq(Letter) /\ box'[r][f] \in Seq(Letter)
      BY <3>1 DEF TypeInv, TypeOK
    <3> QED
      BY <3>2, LenProperties
  <2> QED
    BY <1>1, <1>3, <2>1, <2>2 DEF Covered
<1>5. ASSUME NEW r \in Mail PROVE Counted(r)' /\ Cursored(r)'
  <2>1. r \in Source /\ Counted(r) /\ Cursored(r) /\ cursor[r].endpoint \in Endpoint /\ cursor[r].last \in Nat
    BY DEF Source, MailInv, Filed, TypeInv, TypeOK, Cursor
  <2> QED
    BY <1>1, <1>4, <2>1 DEF Counted, Cursored, Given
<1>6. ASSUME NEW w \in Worker PROVE Aligned(job[w])'
  <2>1. Aligned(job[w]) /\ job[w] \in Job
    BY WorkerJob DEF MailInv, Filed
  <2>2. SUFFICES ASSUME job[w].pc = "loading", job[w].src \in Mail PROVE Aligned(job[w])'
    BY <1>1 DEF Aligned
  <2> DEFINE r == job[w].src
             f == job[w].endpoint
             l == job[w].list
             n == job[w].last
  <2>3. r \in Source /\ f \in Endpoint /\ n \in Nat /\ Len(l) \in Nat
    BY <2>1, <2>2, LenProperties DEF Source, Job
  <2>4. box[r][f] \in Seq(Letter) /\ Len(box[r][f]) \in Nat
    BY <2>2, <2>3, MailTypes
  <2>5. Given(r, f, job[w].validity) /\ Covered(r, f, job[w].validity, n, job[w].got)
    BY <2>1, <2>2 DEF Aligned
  <2>6. Covered(r, f, job[w].validity, n, job[w].got)'
    BY <1>1, <1>4, <2>3, <2>5
  <2>7. ASSUME job[w].validity = validity[r][f]
        PROVE  n + Len(l) <= Len(box'[r][f]) /\ \A i \in 1..Len(l) : l[i] = box'[r][f][n + i]
    <3>1. n + Len(l) <= Len(box[r][f]) /\ \A i \in 1..Len(l) : l[i] = box[r][f][n + i]
      BY <2>1, <2>2, <2>7 DEF Aligned
    <3>2. Len(box'[r][f]) \in Nat /\ Len(box[r][f]) <= Len(box'[r][f])
      <4>1. TypeInv'
        BY TypeNext DEF Next, Environment
      <4>2. box'[r][f] \in Seq(Letter)
        BY <2>3, <4>1 DEF TypeInv, TypeOK
      <4> QED
        BY <1>3, <2>3, <4>2, LenProperties
    <3>3. n + Len(l) <= Len(box'[r][f])
      <4> DEFINE p == Len(l)
                 q == Len(box[r][f])
                 m == Len(box'[r][f])
      <4>1. n \in Nat /\ p \in Nat /\ q \in Nat /\ m \in Nat /\ n + p <= q /\ q <= m
        BY <2>3, <2>4, <3>1, <3>2
      <4> HIDE DEF n, p, q, m
      <4>2. n + p <= m
        BY <4>1
      <4> QED
        BY <4>2 DEF p, m
    <3>4. ASSUME NEW i \in 1..Len(l) PROVE n + i \in 1..Len(box[r][f])
      <4> DEFINE p == Len(l)
                 q == Len(box[r][f])
      <4>1. n \in Nat /\ p \in Nat /\ q \in Nat /\ n + p <= q /\ i \in 1..p
        BY <2>3, <2>4, <3>1
      <4> HIDE DEF n, p, q
      <4>2. n + i \in 1..q
        BY <4>1
      <4> QED
        BY <4>2 DEF q
    <3> QED
      BY <1>3, <2>3, <3>1, <3>3, <3>4
  <2> QED
    BY <1>1, <2>5, <2>6, <2>7 DEF Aligned, Given
<1> QED
  BY <1>5, <1>6 DEF Filed

\* A new UIDVALIDITY is none that a cursor or an import has.
LEMMA RenumberFiled ==
    ASSUME MailInv, NEW s \in Source, NEW e \in Endpoint, Renumber(s, e)
    PROVE  Filed'
<1>1. /\ TypeInv /\ s \in Mail /\ UNCHANGED <<row, cursor, events, job>>
      /\ validity[s][e] \in Nat /\ FirstValidity[e] \in Nat /\ MaxRenumber[s] \in Nat
      /\ validity[s][e] - FirstValidity[e] < MaxRenumber[s]
  BY MailTypes DEF MailInv, Renumber
<1>2. /\ validity'[s][e] = validity[s][e] + 1
      /\ \A r \in Source, f \in Endpoint : r # s \/ f # e =>
            validity'[r][f] = validity[r][f] /\ box'[r][f] = box[r][f]
  BY <1>1 DEF Renumber, TypeInv, TypeOK
<1>3. \A r \in Mail : Counted(r)'
  <2>1. SUFFICES ASSUME NEW r \in Mail, NEW f \in Endpoint
                 PROVE  FirstValidity[f] <= validity'[r][f]
                        /\ validity'[r][f] <= FirstValidity[f] + MaxRenumber[r]
    BY DEF Counted
  <2>2. /\ r \in Source /\ FirstValidity[f] <= validity[r][f]
        /\ validity[r][f] <= FirstValidity[f] + MaxRenumber[r]
    BY DEF Source, MailInv, Filed, Counted
  <2>3. CASE r = s /\ f = e
    BY <1>1, <1>2, <2>2, <2>3
  <2>4. CASE r # s \/ f # e
    BY <1>2, <2>2, <2>4
  <2> QED
    BY <2>3, <2>4
<1>4. ASSUME NEW r \in Source, NEW f \in Endpoint, NEW v \in Nat, Given(r, f, v)
      PROVE  /\ Given(r, f, v)'
             /\ \A n, got : Covered(r, f, v, n, got) => Covered(r, f, v, n, got)'
             /\ v = validity'[r][f] => v = validity[r][f] /\ box'[r][f] = box[r][f]
  <2>1. CASE r = s /\ f = e
    <3>1. v <= validity[s][e] /\ FirstValidity[e] <= v
      BY <1>4, <2>1 DEF Given
    <3>2. v # validity'[s][e] /\ v <= validity'[s][e]
      BY <1>1, <1>2, <3>1
    <3> QED
      BY <2>1, <3>1, <3>2 DEF Given, Covered
  <2>2. CASE r # s \/ f # e
    BY <1>1, <1>2, <1>4, <2>2 DEF Given, Covered
  <2> QED
    BY <2>1, <2>2
<1>5. \A r \in Mail : Cursored(r)'
  <2>1. SUFFICES ASSUME NEW r \in Mail PROVE Cursored(r)'
    OBVIOUS
  <2>2. r \in Source /\ cursor[r].endpoint \in Endpoint /\ cursor[r].validity \in Nat /\ Cursored(r)
    BY <1>1 DEF Source, MailInv, Filed, TypeInv, TypeOK, Cursor
  <2> QED
    BY <1>1, <1>4, <2>2 DEF Cursored
<1>6. \A w \in Worker : Aligned(job[w])'
  <2>1. SUFFICES ASSUME NEW w \in Worker PROVE Aligned(job[w])'
    OBVIOUS
  <2>2. Aligned(job[w]) /\ job[w].endpoint \in Endpoint /\ job[w].validity \in Nat
    BY <1>1, WorkerJob DEF MailInv, Filed, Job
  <2> QED
    BY <1>1, <1>4, <2>2 DEF Aligned, Source
<1> QED
  BY <1>3, <1>5, <1>6 DEF Filed

LEMMA LoopFiled ==
    ASSUME Apart, MailInv, NEW w \in Worker, Loop(w)
    PROVE  Filed'
<1> w \in Actor /\ job[w] \in Job /\ TypeInv /\ Aligned(job[w])
  BY WorkerJob DEF MailInv, Filed
<1>t. ASSUME NEW x, Goes(w, x), x.pc # "loading" \/ x.src \notin Mail,
             UNCHANGED <<row, cursor, events, world>>
      PROVE  Filed'
  <2>1. Aligned(x)
    BY <1>t DEF Aligned
  <2> QED
    BY <1>t, <2>1, FiledGoes
<1>1. CASE Pass(w)
  <2>1. PICK due : Goes(w, Listing(due))
    BY <1>1 DEF Pass
  <2>2. Listing(due).pc = "listed"
    BY DEF Listing, Idle
  <2> QED
    BY <1>1, <1>t, <2>1, <2>2 DEF Pass
<1>2. CASE Take(w)
  <2>1. PICK s : Goes(w, [job[w] EXCEPT !.pc = "waiting", !.src = s, !.todo = @ \ {s}])
    BY <1>2 DEF Take
  <2>2. [job[w] EXCEPT !.pc = "waiting", !.src = s, !.todo = @ \ {s}].pc = "waiting"
    BY DEF Job
  <2> QED
    BY <1>2, <1>t, <2>1, <2>2 DEF Take
<1>3. CASE Enter(w)
  <2> DEFINE s == job[w].src
             x == [job[w] EXCEPT !.pc = "entered", !.endpoint = row[s].endpoint, !.pair = row[s].pair]
             y == [job[w] EXCEPT !.pc = "failing"]
  <2>1. PICK z : Goes(w, z) /\ z.pc \in {"entered", "failing"}
    <3>1. x.pc = "entered" /\ y.pc = "failing"
      BY DEF Job
    <3>2. Goes(w, x) \/ Goes(w, y)
      BY <1>3 DEF Enter
    <3> HIDE DEF x, y
    <3> QED
      BY <3>1, <3>2
  <2> QED
    BY <1>3, <1>t, <2>1 DEF Enter
<1>4. CASE Select(w)
  BY <1>4, SelectFiled
<1>5. CASE ListTranscripts(w)
  <2>1. PICK l : Goes(w, [job[w] EXCEPT !.pc = "loading", !.retry = FALSE, !.list = l])
    BY <1>5 DEF ListTranscripts
  <2>2. [job[w] EXCEPT !.pc = "loading", !.retry = FALSE, !.list = l].src = job[w].src
    BY DEF Job
  <2>3. job[w].src \notin Mail
    BY <1>5, SourceAssumption DEF ListTranscripts
  <2> QED
    BY <1>5, <1>t, <2>1, <2>2, <2>3 DEF ListTranscripts
<1>6. CASE Load(w)
  BY <1>6, LoadFiled
<1>7. CASE Close(w)
  BY <1>7, CloseFiled
<1>8. CASE Unwind(w)
  <2>1. [job[w] EXCEPT !.pc = "failing", !.got = {}, !.list = <<>>].pc = "failing"
    BY DEF Job
  <2> QED
    BY <1>8, <1>t, <2>1 DEF Unwind
<1>9. CASE Report(w)
  <2>1. Idle.pc = "idle" /\ \A errors : Listed(job[w], errors).pc = "listed"
    BY DEF Idle, Listed
  <2> QED
    BY <1>9, <1>t, <2>1 DEF Report
<1>10. CASE Finish(w)
  <2>1. Idle.pc = "idle"
    BY DEF Idle
  <2> QED
    BY <1>10, <1>t, <2>1 DEF Finish
<1> QED
  BY <1>1, <1>2, <1>3, <1>4, <1>5, <1>6, <1>7, <1>8, <1>9, <1>10 DEF Loop

\* Only sources of MTS Link renew tokens: no job of these reads a mailbox.
LEMMA CallFiled ==
    ASSUME MailInv, NEW a \in Actor, Call(a)
    PROVE  Filed'
<1> TypeInv /\ job[a] \in Job /\ job[a].src \in Mts
  <2>1. TypeInv /\ Fits(a, job[a])
    BY DEF MailInv, TypeInv
  <2> QED
    BY <2>1 DEF Fits, AtProvider, Call, Reject, Rotate, Exchange, Renew
<1> DEFINE Elsewhere(x) == x.src \notin Mail
<1>a. NoSource \notin Mail /\ job[a].src \notin Mail
  BY SourceAssumption DEF Source
<1>b. Elsewhere(Failed(a))
  BY <1>a DEF Failed, Idle, Job
<1>c. \A p : Elsewhere([job[a] EXCEPT !.pc = CallOf(a), !.pair = p, !.retry = TRUE])
  BY <1>a DEF Job
<1>d. Elsewhere([job[a] EXCEPT !.pc = CallOf(a), !.retry = TRUE])
  BY <1>a DEF Job
<1>e. \A c : Elsewhere([job[a] EXCEPT !.pc = c])
  BY <1>a DEF Job
<1>f. \A p : Elsewhere([job[a] EXCEPT !.pc = "exchanged", !.pair = p])
  BY <1>a DEF Job
<1> HIDE DEF Elsewhere
<1>1. PICK x : Goes(a, x) /\ Elsewhere(x)
  <2>1. CASE Reject(a)
    BY <1>b, <1>e, <2>1 DEF Reject
  <2>2. CASE Rotate(a)
    BY <1>b, <1>c, <1>e, <2>2 DEF Rotate
  <2>3. CASE Exchange(a)
    BY <1>b, <1>f, <2>3 DEF Exchange
  <2>4. CASE Renew(a)
    BY <1>d, <2>4 DEF Renew
  <2> QED
    BY <2>1, <2>2, <2>3, <2>4 DEF Call
<1>2. \A s \in Source : row'[s].state = row[s].state
  <2>1. CASE Renew(a)
    BY <2>1, RowType DEF Renew, TypeInv, TypeOK, Row
  <2>2. CASE ~Renew(a)
    BY <2>2 DEF Call, Reject, Rotate, Exchange
  <2> QED
    BY <2>1, <2>2
<1>3. Aligned(x)
  BY <1>1 DEF Aligned, Elsewhere
<1> QED
  BY <1>1, <1>2, <1>3, FiledGoes DEF Call, Reject, Rotate, Exchange, Renew

LEMMA OtherFiled ==
    ASSUME MailInv,
           \/ UNCHANGED <<row, cursor, events, world, job>>
           \/ \E w \in Worker : Panic(w)
           \/ \E c \in Checker : Test(c) \/ TestEnds(c)
           \/ \E a \in Actor : Stop(a)
    PROVE  Filed'
<1>1. CASE UNCHANGED <<row, cursor, events, world, job>>
  BY <1>1, RowFiled
<1>2. ASSUME NEW w \in Worker, Panic(w) PROVE Filed'
  <2>1. w \in Actor /\ job[w] \in Job
    BY WorkerJob DEF MailInv
  <2>2. [job[w] EXCEPT !.pc = "panicking"].pc = "panicking"
    BY <2>1 DEF Job
  <2>3. Aligned([job[w] EXCEPT !.pc = "panicking"])
    BY <2>2 DEF Aligned
  <2> QED
    BY <1>2, <2>1, <2>3, FiledGoes DEF Panic
<1>3. ASSUME NEW c \in Checker, Test(c) \/ TestEnds(c) PROVE Filed'
  <2>1. c \in Actor /\ c \notin Worker
    BY SourceAssumption DEF Actor
  <2>2. PICK x : Goes(c, x)
    BY <1>3 DEF Test, TestEnds
  <2> QED
    BY <1>3, <2>1, <2>2, FiledGoes DEF Test, TestEnds
<1>4. ASSUME NEW a \in Actor, Stop(a) PROVE Filed'
  <2>1. Aligned(Idle)
    BY DEF Aligned, Idle
  <2> QED
    BY <1>4, <2>1, FiledGoes DEF Stop
<1> QED
  BY <1>1, <1>2, <1>3, <1>4

LEMMA WorldFiled ==
    ASSUME MailInv, Environment
    PROVE  Filed'
<1> TypeInv /\ \A s \in Mail : s \in Source /\ s \notin Mts
  BY SourceAssumption DEF MailInv, Source
<1>1. ASSUME NEW s \in Source, Delete(s) PROVE Filed'
  <2>1. \A r \in Source \ {s} : row'[r] = row[r] /\ events'[r] = events[r] /\ cursor'[r] = cursor[r]
    BY <1>1 DEF Delete, TypeInv, TypeOK
  <2>2. row'[s].state = "gone" /\ cursor'[s] = NoCursor
    BY <1>1, RowType DEF Delete, TypeInv, TypeOK, Row
  <2> QED
    BY <1>1, <2>1, <2>2, RowFiled DEF Delete
<1>2. ASSUME NEW s \in Source, NEW e, NEW state, NEW l, Configure(s, e, state, l) PROVE Filed'
  <2>1. \A r \in Source \ {s} : row'[r] = row[r] /\ cursor'[r] = cursor[r]
    BY <1>2 DEF Configure, TypeInv, TypeOK
  <2>2. row[s].state # "gone" /\ cursor'[s] \in {cursor[s], NoCursor}
    BY <1>2 DEF Configure, TypeInv, TypeOK
  <2> QED
    BY <1>2, <2>1, <2>2, RowFiled DEF Configure
<1>3. ASSUME NEW s \in Source, NEW state, Login(s, state) PROVE Filed'
  <2>1. \A r \in Mail : row'[r] = row[r]
    BY <1>3 DEF Login, TypeInv, TypeOK
  <2> QED
    BY <1>3, <2>1, RowFiled DEF Login
<1>4. ASSUME NEW s \in Source, Expire(s) PROVE Filed'
  BY <1>4, OtherFiled DEF Expire
<1> QED
  BY <1>1, <1>2, <1>3, <1>4, OtherFiled, ArriveFiled, RenumberFiled DEF Environment

LEMMA MailInit == Init => MailInv
<1> SUFFICES ASSUME Init PROVE MailInv
  OBVIOUS
<1>1. \A s \in Mail : Cursored(s)
  BY DEF Init, Cursored, NoCursor, Source
<1>2. \A s \in Mail : Counted(s)
  <2>1. SUFFICES ASSUME NEW s \in Mail, NEW e \in Endpoint
                 PROVE  FirstValidity[e] <= validity[s][e]
                        /\ validity[s][e] <= FirstValidity[e] + MaxRenumber[s]
    BY DEF Counted
  <2>2. FirstValidity[e] \in Nat /\ MaxRenumber[s] \in Nat
    BY SourceAssumption DEF Source
  <2>3. validity[s][e] = FirstValidity[e]
    BY DEF Init, Source
  <2> QED
    BY <2>2, <2>3
<1>3. \A w \in Worker : Aligned(job[w])
  <2>1. \A w \in Worker : job[w].pc \in {"idle", "off"}
    BY DEF Init, Idle, Actor
  <2> QED
    BY <2>1 DEF Aligned
<1> QED
  BY <1>1, <1>2, <1>3, TypeInit DEF MailInv, Filed

LEMMA MailNext == Apart /\ MailInv /\ [Next]_vars => MailInv'
<1> SUFFICES ASSUME Apart, MailInv, [Next]_vars PROVE MailInv'
  OBVIOUS
<1>1. TypeInv'
  BY TypeNext DEF MailInv
<1>2. Filed'
  <2>1. CASE UNCHANGED vars
    BY <2>1, OtherFiled DEF vars, world
  <2>2. ASSUME NEW w \in Worker, Loop(w) \/ Panic(w) \/ Beat(w) \/ BeatCommit(w) PROVE Filed'
    BY <2>2, LoopFiled, OtherFiled DEF Beat, BeatCommit
  <2>3. CASE ~\E w \in Worker : Loop(w) \/ Panic(w) \/ Beat(w) \/ BeatCommit(w)
    BY <2>1, <2>3, CallFiled, OtherFiled, WorldFiled DEF Next
  <2> QED
    BY <2>2, <2>3
<1> QED
  BY <1>1, <1>2 DEF MailInv

\* No letter with a body is skipped: the cursor of a mailbox stands behind letters that are
\* all stored, but for those a server may hand out without a body, through deletions, new
\* endpoints, new UIDVALIDITYs and processes that stop, as long as no two servers give the
\* mailbox the same UIDVALIDITY (imapSync and the transaction that stores its letters with
\* its cursor).
THEOREM LettersKeptAlways == ASSUME Apart PROVE Spec => []LettersKept
<1>1. MailInv /\ DeletedStaysSilent => LettersKept
  <2>1. SUFFICES ASSUME MailInv, DeletedStaysSilent, NEW s \in Mail,
                        cursor[s].endpoint = row[s].endpoint,
                        cursor[s].validity = validity[s][row[s].endpoint],
                        NEW i \in 1..cursor[s].last,
                        box[s][row[s].endpoint][i] \notin Bodiless
                 PROVE  <<row[s].endpoint, box[s][row[s].endpoint][i]>> \in events[s]
    BY DEF LettersKept
  <2>2. s \in Source /\ row[s].endpoint \in Endpoint /\ TypeInv
    <3>1. s \in Source /\ TypeInv
      BY <2>1 DEF Source, MailInv
    <3> QED
      BY <3>1, RowType DEF Row
  <2>3. cursor[s].validity # 0
    BY <2>1, <2>2, MailTypes
  <2>4. row[s].state # "gone"
    <3>1. NoCursor.validity = 0
      BY DEF NoCursor
    <3>2. row[s].state = "gone" => cursor[s] = NoCursor
      BY <2>1, <2>2 DEF DeletedStaysSilent
    <3> QED
      BY <2>3, <3>1, <3>2
  <2> QED
    BY <2>1, <2>3, <2>4 DEF MailInv, Filed, Cursored, Covered
<1>2. MailInv /\ [Next]_vars => MailInv'
  BY MailNext
<1> QED
  BY MailInit, DeletedStaysSilentAlways, <1>1, <1>2, PTL DEF Spec
================================================================================
