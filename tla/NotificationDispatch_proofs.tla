---------------------- MODULE NotificationDispatch_proofs ----------------------
(***************************************************************************)
(* Theorems about NotificationDispatch for every set of objects, devices   *)
(* and workers and every value of the times.                               *)
(*                                                                         *)
(* TypeOK and OneOpenBatch are not inductive alone: a commit writes the    *)
(* batch its transaction chose when it began, so the proof needs that no   *)
(* other transaction touched that row in between.  RowsInv says so.        *)
(***************************************************************************)
EXTENDS NotificationDispatch, FiniteSetTheorems, TLAPS

\* The row lock: at most one delivery transaction is open.
OneTx == \A v, w \in Worker : tx[v] # NoRow /\ tx[w] # NoRow => v = w

\* An open transaction works on the undelivered rows of its batch as they are.
TxOwnsRows ==
    \A w \in Worker : tx[w] # NoRow =>
        /\ tx[w].left \subseteq Pending(tx[w].batch)
        /\ Took(tx[w]) \subseteq Pending(tx[w].batch)

RowsInv == TypeOK /\ OneOpenBatch /\ OneTx /\ TxOwnsRows

-----------------------------------------------------------------------------
(* Tables and times *)

LEMMA RestrictTable ==
    ASSUME NEW K, NEW R, NEW f \in Table(K, R), NEW S
    PROVE  /\ RestrictTo(f, S) \in Table(K, R)
           /\ Rows(RestrictTo(f, S)) = Rows(f) \intersect S
           /\ \A k \in Rows(f) \intersect S : RestrictTo(f, S)[k] = f[k]
BY DEF RestrictTo, Table, Rows

LEMMA ExpiryLater ==
    ASSUME now \in Nat PROVE notificationExpiry \in Nat /\ notificationExpiry > now
<1>1. now % Day \in 0..(Day - 1)
  BY TimeAssumption
<1>2. QuietBoundary(now) \in Nat /\ QuietBoundary(now) > now
  <2> DEFINE today == now - (now % Day) + QuietStart
  <2>1. today \in Int /\ today + Day > now
    BY <1>1, TimeAssumption
  <2> QED
    BY <2>1, TimeAssumption DEF QuietBoundary
<1> QED
  BY <1>2, TimeAssumption DEF notificationExpiry

-----------------------------------------------------------------------------
(* Rows the job writes *)

LEMMA ChosenRows ==
    ASSUME TypeOK
    PROVE  /\ Eligible \subseteq Rows(queue) /\ Chosen \subseteq Eligible
           /\ \A o \in Chosen : o \in Object /\ queue[o] \in QueueRow /\ ItemOf(o) \in Item
<1>1. Eligible \subseteq Rows(queue) /\ Chosen \subseteq Eligible
  BY DEF Eligible, Chosen
<1>2. \A o \in Rows(queue) : o \in Object /\ queue[o] \in QueueRow
  BY DEF TypeOK, Rows, Table
<1>3. \A o \in Rows(queue) : ItemOf(o) \in Item
  BY <1>2 DEF ItemOf, Item, QueueRow
<1> QED
  BY <1>1, <1>2, <1>3

LEMMA AnnouncedType ==
    ASSUME TypeOK
    PROVE  Announced.kind \in Kind \union {Sync} /\ Announced.object \in Object \union {NoObject}
<1>1. CASE \E o \in Chosen : Chosen = {o} /\ now - queue[o].created < Fresh
  <2> DEFINE c == CHOOSE o \in Chosen : TRUE
  <2>1. c \in Chosen
    BY <1>1
  <2>2. queue[c].kind \in Kind /\ c \in Object
    BY <2>1, ChosenRows DEF QueueRow
  <2>3. Announced = [kind |-> queue[c].kind, object |-> c]
    BY <1>1 DEF Announced
  <2> QED
    BY <2>2, <2>3
<1>2. CASE ~\E o \in Chosen : Chosen = {o} /\ now - queue[o].created < Fresh
  BY <1>2 DEF Announced
<1> QED
  BY <1>1, <1>2

LEMMA NewDeliveryType ==
    ASSUME TypeOK, serial < MaxSerial, NEW e \in Endpoint
    PROVE  NewDelivery(e) \in Delivery
<1>1. serial + 1 \in BatchId
  BY TimeAssumption DEF TypeOK, BatchId
<1> QED
  BY <1>1 DEF NewDelivery, Delivery

LEMMA NewBatchType ==
    ASSUME TypeOK, serial < MaxSerial PROVE NewBatch \in Batch
<1>1. [o \in Object |-> IF o \in Chosen THEN ItemOf(o) ELSE NoRow] \in Table(Object, Item)
  BY ChosenRows DEF Table
<1>2. [e \in Endpoint |-> IF e \in targets THEN NewDelivery(e) ELSE NoRow]
          \in Table(Endpoint, Delivery)
  BY NewDeliveryType DEF Table
<1>3. now \in Nat /\ notificationExpiry \in Nat
  BY ExpiryLater DEF TypeOK
<1> QED
  BY <1>1, <1>2, <1>3, AnnouncedType DEF NewBatch, Batch

LEMMA RenewedType ==
    ASSUME TypeOK, serial < MaxSerial, NEW old \in Table(Endpoint, Delivery)
    PROVE  Renewed(old) \in Table(Endpoint, Delivery)
<1>1. \A e \in Endpoint : NewDelivery(e) \in Delivery
  BY NewDeliveryType
<1>2. \A e \in Rows(old) : old[e] \in Delivery
  BY DEF Table, Rows
<1>3. \A e \in Endpoint : Renewed(old)[e] \in Delivery \union {NoRow}
  BY <1>1, <1>2 DEF Renewed
<1> QED
  BY <1>3 DEF Renewed, Table

LEMMA SummaryType ==
    ASSUME TypeOK, serial < MaxSerial, NEW r \in Batch
    PROVE  Summary(r) \in Batch /\ Summary(r).completed = r.completed
<1>1. r.items \in Table(Object, Item) /\ r.deliveries \in Table(Endpoint, Delivery)
  BY DEF Batch
<1>2. [o \in Object |-> IF o \in Chosen THEN ItemOf(o) ELSE r.items[o]] \in Table(Object, Item)
  BY <1>1, ChosenRows DEF Table
<1>3. Renewed(r.deliveries) \in Table(Endpoint, Delivery)
  BY <1>1, RenewedType
<1>4. now \in Nat /\ notificationExpiry \in Nat
  BY ExpiryLater DEF TypeOK
<1> QED
  BY <1>2, <1>3, <1>4 DEF Summary, Batch

LEMMA RowFacts ==
    ASSUME TypeOK
    PROVE  /\ \A b \in Rows(batch) : b \in BatchId /\ batch[b] \in Batch
           /\ Open \subseteq Rows(batch)
           /\ \A w \in Worker : tx[w] # NoRow => tx[w] \in OpenTx
           /\ \A b \in Rows(batch) : Pending(b) \subseteq Endpoint
           /\ \A b \in Rows(batch) : \A e \in Pending(b) : batch[b].deliveries[e] \in Delivery
<1>1. \A b \in Rows(batch) : b \in BatchId /\ batch[b] \in Batch
  BY DEF TypeOK, Rows, Table
<1>2. \A w \in Worker : tx[w] # NoRow => tx[w] \in OpenTx
  BY DEF TypeOK, Table
<1>3. \A b \in Rows(batch) : batch[b].deliveries \in Table(Endpoint, Delivery)
  BY <1>1 DEF Batch
<1>4. \A b \in Rows(batch) : \A e \in Pending(b) :
        e \in Endpoint /\ batch[b].deliveries[e] \in Delivery
  BY <1>3 DEF Pending, Rows, Table
<1> QED
  BY <1>1, <1>2, <1>4 DEF Open

LEMMA RowsAreRows == NoRow \notin Batch /\ NoRow \notin OpenTx /\ NoRow \notin Delivery
BY DEF NoRow, Batch, OpenTx, Delivery

LEMMA PrunedType ==
    ASSUME TypeOK, NEW b \in Rows(batch)
    PROVE  Pruned(b) \in Batch /\ Pruned(b).completed = batch[b].completed
           /\ Pruned(b).deliveries = batch[b].deliveries
<1>1. batch[b] \in Batch
  BY RowFacts
<1>2. RestrictTo(batch[b].items, Current(b)) \in Table(Object, Item)
  BY <1>1, RestrictTable DEF Batch
<1> QED
  BY <1>1, <1>2 DEF Pruned, Batch

LEMMA OpenAttemptType ==
    ASSUME TypeOK, NEW b \in Rows(batch)
    PROVE  /\ OpenAttempt(b) \in OpenTx /\ OpenAttempt(b).batch = b
           /\ OpenAttempt(b).left \subseteq Pending(b) /\ Took(OpenAttempt(b)) = {}
<1>1. Current(b) \subseteq Object
  <2>1. batch[b].items \in Table(Object, Item)
    BY RowFacts DEF Batch
  <2> QED
    BY <2>1 DEF Current, Rows, Table
<1>2. Pending(b) \subseteq Endpoint
  BY RowFacts
<1>3. [e \in Endpoint |-> None] \in [Endpoint -> Nat \union {None}]
  OBVIOUS
<1>4. b \in BatchId
  BY RowFacts
<1>5. Interval[mode] \in Nat
  BY TimeAssumption DEF TypeOK
<1>6. OpenAttempt(b) \in OpenTx
  BY <1>1, <1>2, <1>3, <1>4, <1>5 DEF OpenAttempt, OpenTx, TypeOK
<1> QED
  BY <1>6 DEF OpenAttempt, Took

LEMMA CalledType ==
    ASSUME TypeOK, NEW t \in OpenTx, NEW e \in t.left, NEW answered \in BOOLEAN
    PROVE  /\ Called(t, e, answered) \in OpenTx
           /\ Called(t, e, answered).batch = t.batch
           /\ Called(t, e, answered).left \subseteq t.left
           /\ Took(Called(t, e, answered)) \subseteq Took(t) \union {e}
<1> DEFINE c == Called(t, e, answered)
           took == [t.took EXCEPT ![e] = IF answered THEN now ELSE None]
           next == IF answered THEN Later(t.next, now + t.interval) ELSE t.next
<1>1. c = [t EXCEPT !.left = t.left \ {e}, !.took = took, !.next = next]
  BY DEF Called, OpenTx
<1>2. took \in [Endpoint -> Nat \union {None}] /\ \A x \in Endpoint : x # e => took[x] = t.took[x]
  BY DEF OpenTx, TypeOK
<1>3. next \in Nat
  BY DEF OpenTx, TypeOK, Later
<1>4. t.left \ {e} \in SUBSET Endpoint
  BY DEF OpenTx
<1>5. c \in OpenTx /\ c.batch = t.batch /\ c.left = t.left \ {e} /\ c.took = took
  BY <1>1, <1>2, <1>3, <1>4 DEF OpenTx
<1> QED
  BY <1>2, <1>5 DEF Took

LEMMA SettledType ==
    ASSUME TypeOK, NEW t \in OpenTx, t.batch \in Rows(batch), Took(t) \subseteq Pending(t.batch)
    PROVE  Settled(t) \in Table(Endpoint, Delivery)
<1> DEFINE old == batch[t.batch].deliveries
<1>1. old \in Table(Endpoint, Delivery)
  BY RowFacts DEF Batch
<1>2. \A e \in Endpoint : t.took[e] # None => [old[e] EXCEPT !.accepted = t.start] \in Delivery
  <2> TAKE e \in Endpoint
  <2> HAVE t.took[e] # None
  <2>1. old[e] \in Delivery
    BY RowFacts DEF Took
  <2>2. t.start \in Nat
    BY DEF OpenTx
  <2> QED
    BY <2>1, <2>2 DEF Delivery
<1> QED
  BY <1>1, <1>2 DEF Settled, Table

LEMMA AttemptedType ==
    ASSUME TypeOK, NEW t \in OpenTx, t.batch \in Rows(batch), Took(t) \subseteq Pending(t.batch)
    PROVE  /\ Attempted(t) \in Batch /\ Attempted(t).deliveries = Settled(t)
<1>1. batch[t.batch] \in Batch
  BY RowFacts
<1>2. RestrictTo(batch[t.batch].items, t.items) \in Table(Object, Item)
  BY <1>1, RestrictTable DEF Batch
<1>3. t.start \in Nat /\ t.start + RetryDelay \in Nat
  BY TimeAssumption DEF OpenTx
<1> QED
  BY <1>1, <1>2, <1>3, SettledType DEF Attempted, Batch

-----------------------------------------------------------------------------
(* RowsInv is inductive *)

LEMMA RowsInit == Init => RowsInv
<1> SUFFICES ASSUME Init PROVE RowsInv
  OBVIOUS
<1>1. TypeOK
  BY TimeAssumption DEF Init, TypeOK, Table
<1>2. Open = {} /\ \A w \in Worker : tx[w] = NoRow
  BY DEF Init, Open, Rows
<1> QED
  BY <1>1, <1>2 DEF RowsInv, OneOpenBatch, OneTx, TxOwnsRows

\* Steps that leave the rows and the transactions alone.
LEMMA EnvironmentStep ==
    ASSUME RowsInv, Environment PROVE RowsInv'
<1>1. UNCHANGED <<batch, tx, nextSend, serial, historyVars>>
  BY DEF Environment, queueNotification, ObjectChanges, DevicesChange, SaveSettings, Tick,
         dbVars, historyVars
<1>2. OneOpenBatch' /\ OneTx' /\ TxOwnsRows'
  BY <1>1 DEF RowsInv, OneOpenBatch, OneTx, TxOwnsRows, Open, Rows, Pending, Took
<1>3. now' \in Nat /\ mode' \in Mode /\ quietOn' \in BOOLEAN
      /\ relevant' \in SUBSET Object /\ targets' \in SUBSET Endpoint
      /\ queue' \in Table(Object, QueueRow)
  <2>1. CASE \E o \in Object, k \in Kind : queueNotification(o, k)
    <3> PICK o \in Object, k \in Kind : queueNotification(o, k)
      BY <2>1
    <3>1. Coalesced(o, k) \in QueueRow
      <4>1. (IF o \in Rows(queue) THEN queue[o].created ELSE now) \in Nat
        BY DEF RowsInv, TypeOK, Table, Rows, QueueRow
      <4>2. (k \in ImportantKind \/ (o \in Rows(queue) /\ queue[o].important)) \in BOOLEAN
        OBVIOUS
      <4> QED
        BY <4>1, <4>2 DEF Coalesced, QueueRow
    <3>2. queue' = [queue EXCEPT ![o] = Coalesced(o, k)]
      BY DEF queueNotification
    <3> QED
      BY <3>1, <3>2 DEF queueNotification, envVars, RowsInv, TypeOK, Table
  <2>2. CASE \E o \in Object : ObjectChanges(o)
    BY <2>2 DEF ObjectChanges, dbVars, RowsInv, TypeOK
  <2>3. CASE \E T \in SUBSET Endpoint : DevicesChange(T)
    BY <2>3 DEF DevicesChange, dbVars, RowsInv, TypeOK
  <2>4. CASE \E m \in Mode, q \in BOOLEAN : SaveSettings(m, q)
    BY <2>4 DEF SaveSettings, dbVars, RowsInv, TypeOK
  <2>5. CASE Tick
    BY <2>5 DEF Tick, dbVars, RowsInv, TypeOK
  <2> QED
    BY <2>1, <2>2, <2>3, <2>4, <2>5 DEF Environment
<1>4. TypeOK'
  BY <1>1, <1>3 DEF RowsInv, TypeOK, historyVars
<1> QED
  BY <1>2, <1>4 DEF RowsInv

\* While the state row is free nobody has an open transaction, and what a step
\* writes then needs only to keep one undelivered batch.
LEMMA LockedStep ==
    ASSUME RowsInv, LockFree, UNCHANGED <<envVars, tx, historyVars>>,
           queue' \in Table(Object, QueueRow), batch' \in Table(BatchId, Batch),
           nextSend' \in Nat, serial' \in 0..MaxSerial,
           \A b, c \in Open' : b = c
    PROVE  RowsInv'
<1>1. TypeOK'
  BY DEF RowsInv, TypeOK, envVars, historyVars
<1>2. \A w \in Worker : tx'[w] = NoRow
  BY DEF LockFree
<1> QED
  BY <1>1, <1>2 DEF RowsInv, OneOpenBatch, OneTx, TxOwnsRows

LEMMA KeptRows ==
    ASSUME TypeOK
    PROVE  /\ RestrictTo(batch, Kept) \in Table(BatchId, Batch)
           /\ Rows(RestrictTo(batch, Kept)) \subseteq Rows(batch)
           /\ \A b \in Rows(RestrictTo(batch, Kept)) : RestrictTo(batch, Kept)[b] = batch[b]
BY RestrictTable DEF TypeOK, Kept

LEMMA TakeChosenTypes ==
    ASSUME TypeOK, TakeChosen
    PROVE  /\ queue' \in Table(Object, QueueRow)
           /\ nextSend' \in Nat /\ serial' \in 0..MaxSerial /\ serial < MaxSerial
           /\ serial + 1 \in BatchId
<1>1. queue' \in Table(Object, QueueRow)
  BY RestrictTable DEF TypeOK, TakeChosen
<1>2. Interval[mode] \in Nat
  BY TimeAssumption DEF TypeOK
<1> QED
  BY <1>1, <1>2, TimeAssumption DEF TypeOK, TakeChosen, BatchId

LEMMA PrepareStep ==
    ASSUME RowsInv, NEW w \in Worker,
           PreparePostponed(w) \/ PrepareNothing(w) \/ PrepareBatch(w) \/ PrepareSummary(w)
    PROVE  RowsInv'
<1> USE DEF RowsInv
<1> DEFINE kept == RestrictTo(batch, Kept)
<1>1. LockFree /\ UNCHANGED <<envVars, tx, historyVars>>
  BY DEF PreparePostponed, PrepareNothing, PrepareBatch, PrepareSummary, MayPrepare
<1>2. RestrictTo(queue, Eligible) \in Table(Object, QueueRow)
  BY RestrictTable DEF TypeOK
<1>3. ASSUME batch' = kept PROVE batch' \in Table(BatchId, Batch) /\ Open' \subseteq Open
  BY <1>3, KeptRows DEF Open
<1>4. CASE PreparePostponed(w)
  <2>1. batch' = kept /\ queue' = queue /\ nextSend' = nextSend /\ serial' = serial
    BY <1>4 DEF PreparePostponed
  <2> QED
    BY <1>1, <1>3, <2>1, LockedStep DEF TypeOK, OneOpenBatch
<1>5. CASE PrepareNothing(w)
  <2>1. batch' = kept /\ queue' = RestrictTo(queue, Eligible)
        /\ nextSend' = nextSend /\ serial' = serial
    BY <1>5 DEF PrepareNothing
  <2> QED
    BY <1>1, <1>2, <1>3, <2>1, LockedStep DEF TypeOK, OneOpenBatch
<1>6. CASE PrepareBatch(w)
  <2>1. Open = {} /\ TakeChosen /\ batch' = [kept EXCEPT ![serial + 1] = NewBatch]
    BY <1>6 DEF PrepareBatch
  <2>2. batch' \in Table(BatchId, Batch)
    BY <2>1, KeptRows, NewBatchType, TakeChosenTypes DEF Table
  <2>3. \A b \in Open' : b = serial + 1
    <3> TAKE b \in Open'
    <3>1. b \in Rows(batch') /\ batch'[b].completed = None
      BY DEF Open
    <3>2. ASSUME b # serial + 1 PROVE b \in Rows(kept) /\ batch'[b] = kept[b]
      BY <2>1, <3>1, <3>2, KeptRows DEF Rows, Table
    <3> QED
      BY <2>1, <3>1, <3>2, KeptRows DEF Open
  <2> QED
    BY <1>1, <2>1, <2>2, <2>3, TakeChosenTypes, LockedStep
<1>7. CASE PrepareSummary(w)
  <2>1. TakeChosen
    BY <1>7 DEF PrepareSummary
  <2>2. PICK active \in Open : batch' = [kept EXCEPT ![active] = Summary(kept[active])]
    BY <1>7 DEF PrepareSummary
  <2>3. active \in Rows(kept) /\ kept[active] = batch[active] /\ batch[active] \in Batch
    BY RestrictTable, RowFacts DEF Open, Kept, TypeOK
  <2>4. Summary(kept[active]) \in Batch
    BY <2>1, <2>3, SummaryType, TakeChosenTypes
  <2>5. batch' \in Table(BatchId, Batch)
    BY <2>2, <2>4, KeptRows DEF Table
  <2>6. \A b \in Open' : b \in Open
    <3> TAKE b \in Open'
    <3>1. b \in Rows(batch') /\ batch'[b].completed = None
      BY DEF Open
    <3>2. ASSUME b # active PROVE b \in Rows(kept) /\ batch'[b] = kept[b]
      BY <2>2, <3>1, <3>2, KeptRows DEF Rows, Table
    <3> QED
      BY <3>1, <3>2, KeptRows DEF Open
  <2> QED
    BY <1>1, <2>1, <2>5, <2>6, TakeChosenTypes, LockedStep DEF OneOpenBatch
<1> QED
  BY <1>4, <1>5, <1>6, <1>7

LEMMA DeliverRowStep ==
    ASSUME RowsInv, NEW w \in Worker, DeliverMoot(w) \/ DeliverWithoutTransport(w)
    PROVE  RowsInv'
<1> USE DEF RowsInv
<1>1. LockFree /\ UNCHANGED <<envVars, tx, historyVars, queue, nextSend, serial>>
  BY DEF DeliverMoot, DeliverWithoutTransport, MayDeliver
<1>2. PICK b \in BatchId :
        /\ Due(b)
        /\ \/ batch' = [batch EXCEPT ![b] = [Pruned(b) EXCEPT !.completed = now]]
           \/ batch' = [batch EXCEPT ![b] = Pruned(b)]
  BY DEF DeliverMoot, DeliverWithoutTransport
<1>3. b \in Rows(batch)
  BY <1>2 DEF Due, Open
<1>4. Pruned(b) \in Batch /\ Pruned(b).completed = batch[b].completed
  BY <1>3, PrunedType
<1>5. [Pruned(b) EXCEPT !.completed = now] \in Batch
  BY <1>4 DEF Batch, TypeOK
<1>6. batch' \in Table(BatchId, Batch)
  BY <1>2, <1>4, <1>5 DEF TypeOK, Table
<1>7. \A c \in Open' : c \in Open
  <2> TAKE c \in Open'
  <2>1. CASE c = b
    BY <1>2, <2>1 DEF Due
  <2>2. CASE c # b
    BY <1>2, <2>2 DEF Open, Rows, TypeOK, Table
  <2> QED
    BY <2>1, <2>2
<1> QED
  BY <1>1, <1>6, <1>7, LockedStep DEF TypeOK, OneOpenBatch

LEMMA DeliverBeginStep ==
    ASSUME RowsInv, NEW w \in Worker, DeliverBegin(w) PROVE RowsInv'
<1> USE DEF RowsInv
<1>1. LockFree /\ UNCHANGED <<envVars, dbVars, historyVars>>
  BY DEF DeliverBegin, MayDeliver
<1>2. PICK b \in BatchId : Due(b) /\ tx' = [tx EXCEPT ![w] = OpenAttempt(b)]
  BY DEF DeliverBegin
<1>3. b \in Open /\ b \in Rows(batch)
  BY <1>2 DEF Due, Open
<1>4. /\ OpenAttempt(b) \in OpenTx /\ OpenAttempt(b).batch = b
      /\ OpenAttempt(b).left \subseteq Pending(b) /\ Took(OpenAttempt(b)) = {}
  BY <1>3, OpenAttemptType
<1>5. TypeOK'
  BY <1>1, <1>2, <1>4 DEF TypeOK, Table, envVars, dbVars, historyVars
<1>6. tx'[w] = OpenAttempt(b) /\ \A v \in Worker \ {w} : tx'[v] = NoRow
  BY <1>1, <1>2 DEF LockFree, TypeOK, Table
<1>7. Open' = Open /\ Pending(b)' = Pending(b)
  BY <1>1 DEF Open, Rows, Pending, dbVars
<1>8. Took(tx[w])' = {}
  BY <1>4, <1>6 DEF Took
<1>9. TxOwnsRows'
  BY <1>4, <1>6, <1>7, <1>8 DEF TxOwnsRows
<1> QED
  BY <1>3, <1>4, <1>5, <1>6, <1>7, <1>9 DEF OneOpenBatch, OneTx

LEMMA SendStep ==
    ASSUME RowsInv, NEW w \in Worker, NEW e \in Endpoint, Send(w, e) PROVE RowsInv'
<1> USE DEF RowsInv
<1> DEFINE t == tx[w] b == tx[w].batch
<1>1. t # NoRow /\ e \in t.left /\ UNCHANGED <<envVars, dbVars, receipts, lastPush>>
  BY DEF Send
<1>2. PICK heard \in BOOLEAN, answered \in BOOLEAN :
        /\ sent' = IF heard THEN sent \union {NoticeOf(b, e)} ELSE sent
        /\ tx' = [tx EXCEPT ![w] = Called(t, e, answered)]
  BY DEF Send
<1>3. t \in OpenTx /\ b \in Open /\ b \in Rows(batch)
  BY <1>1, RowFacts DEF OneOpenBatch, Open
<1>4. e \in Pending(b) /\ Took(t) \subseteq Pending(b) /\ t.left \subseteq Pending(b)
  BY <1>1 DEF TxOwnsRows
<1>5. NoticeOf(b, e) \in Notice
  <2>1. batch[b] \in Batch /\ batch[b].deliveries[e] \in Delivery
    BY <1>3, <1>4, RowFacts
  <2> QED
    BY <2>1 DEF NoticeOf, Notice, Batch, Delivery
<1>6. /\ Called(t, e, answered) \in OpenTx /\ Called(t, e, answered).batch = b
      /\ Called(t, e, answered).left \subseteq t.left
      /\ Took(Called(t, e, answered)) \subseteq Took(t) \union {e}
  BY <1>1, <1>3, CalledType
<1>7. TypeOK'
  BY <1>1, <1>2, <1>5, <1>6 DEF TypeOK, Table, envVars, dbVars
<1>8. tx'[w] = Called(t, e, answered) /\ \A v \in Worker \ {w} : tx'[v] = tx[v] /\ tx[v] = NoRow
  BY <1>1, <1>2 DEF OneTx, TypeOK, Table
<1>9. Open' = Open /\ \A c \in BatchId : Pending(c)' = Pending(c)
  BY <1>1 DEF Open, Rows, Pending, dbVars
<1>10. TxOwnsRows'
  <2>1. Took(tx[w])' = Took(Called(t, e, answered))
    BY <1>8 DEF Took
  <2> QED
    BY <1>3, <1>4, <1>6, <1>8, <1>9, <2>1, RowFacts DEF TxOwnsRows
<1> QED
  BY <1>3, <1>6, <1>7, <1>8, <1>9, <1>10 DEF OneOpenBatch, OneTx

LEMMA DeliverEndStep ==
    ASSUME RowsInv, NEW w \in Worker, DeliverCommit(w) \/ DeliverAbort(w) PROVE RowsInv'
<1> USE DEF RowsInv
<1> DEFINE t == tx[w]
<1>1. t # NoRow /\ tx' = [tx EXCEPT ![w] = NoRow]
  BY DEF DeliverCommit, DeliverAbort
<1>2. \A v \in Worker : tx'[v] = NoRow
  BY <1>1 DEF OneTx, TypeOK, Table
<1>3. OneTx' /\ TxOwnsRows'
  BY <1>2 DEF OneTx, TxOwnsRows
<1>4. tx' \in Table(Worker, OpenTx)
  BY <1>1 DEF TypeOK, Table
<1>5. CASE DeliverAbort(w)
  <2>1. UNCHANGED <<envVars, dbVars, historyVars>>
    BY <1>5 DEF DeliverAbort
  <2>2. Open' = Open
    BY <2>1 DEF Open, Rows, dbVars
  <2>3. TypeOK'
    BY <1>4, <2>1 DEF TypeOK, envVars, dbVars, historyVars
  <2> QED
    BY <1>2, <1>3, <2>2, <2>3 DEF OneOpenBatch
<1>6. CASE DeliverCommit(w)
  <2>1. t \in OpenTx /\ t.batch \in Open /\ t.batch \in Rows(batch)
        /\ Took(t) \subseteq Pending(t.batch)
    BY <1>1, RowFacts DEF OneOpenBatch, TxOwnsRows, Open
  <2>2. /\ batch' = [batch EXCEPT ![t.batch] = Attempted(t)] /\ nextSend' = t.next
        /\ receipts' = receipts \union {batch[t.batch].deliveries[e].id : e \in Took(t)}
        /\ lastPush' = [e \in Endpoint |-> IF e \in Took(t) THEN t.took[e] ELSE lastPush[e]]
        /\ UNCHANGED <<envVars, queue, serial, sent>>
    BY <1>6 DEF DeliverCommit
  <2>3. Attempted(t) \in Batch
    BY <2>1, AttemptedType
  <2>4. batch' \in Table(BatchId, Batch)
    BY <2>2, <2>3 DEF TypeOK, Table
  <2>5. receipts' \in SUBSET (Endpoint \X BatchId)
    <3>1. \A e \in Took(t) : batch[t.batch].deliveries[e].id \in Endpoint \X BatchId
      BY <2>1, RowFacts DEF Delivery
    <3> QED
      BY <2>2, <3>1 DEF TypeOK
  <2>6. lastPush' \in [Endpoint -> Nat \union {None}]
    BY <2>1, <2>2 DEF TypeOK, OpenTx
  <2>7. TypeOK'
    BY <1>4, <2>1, <2>2, <2>4, <2>5, <2>6 DEF TypeOK, envVars, OpenTx
  <2>8. \A c \in Open' : c \in Open
    <3> TAKE c \in Open'
    <3>1. CASE c = t.batch
      BY <2>1, <3>1
    <3>2. CASE c # t.batch
      BY <2>2, <3>2 DEF Open, Rows, TypeOK, Table
    <3> QED
      BY <3>1, <3>2
  <2> QED
    BY <1>2, <1>3, <2>7, <2>8 DEF OneOpenBatch
<1> QED
  BY <1>5, <1>6

LEMMA RowsStep == RowsInv /\ [Next]_vars => RowsInv'
<1> SUFFICES ASSUME RowsInv, [Next]_vars PROVE RowsInv'
  OBVIOUS
<1>1. CASE UNCHANGED vars
  BY <1>1 DEF vars, envVars, dbVars, historyVars, RowsInv, TypeOK, OneOpenBatch, OneTx,
              TxOwnsRows, Open, Rows, Pending, Took
<1>2. CASE Environment
  BY <1>2, EnvironmentStep
<1>3. ASSUME NEW w \in Worker, dispatchNotifications(w) PROVE RowsInv'
  BY <1>3, PrepareStep, DeliverRowStep, DeliverBeginStep, SendStep, DeliverEndStep
     DEF dispatchNotifications
<1> QED
  BY <1>1, <1>2, <1>3 DEF Next

\* The tables keep their types.
THEOREM TypeCorrect == Spec => []TypeOK
<1>1. RowsInv => TypeOK
  BY DEF RowsInv
<1> QED
  BY RowsInit, RowsStep, <1>1, PTL DEF Spec

\* However many workers, devices and deaths: one undelivered batch at a time,
\* and an attempt under way is always about that batch.
THEOREM OneOpenBatchAlways == Spec => []OneOpenBatch
<1>1. RowsInv => OneOpenBatch
  BY DEF RowsInv
<1> QED
  BY RowsInit, RowsStep, <1>1, PTL DEF Spec

-----------------------------------------------------------------------------
(* Notification ids *)

IdOf(b, e) == batch[b].deliveries[e].id
RowsOf(b) == Rows(batch[b].deliveries)

\* Every id in use was drawn for the device it names, and only once.
IdsDrawn ==
    /\ \A b \in Rows(batch) : \A e \in RowsOf(b) : IdOf(b, e)[1] = e /\ IdOf(b, e)[2] <= serial
    /\ \A n \in sent : n.id[1] = n.to /\ n.id[2] <= serial
    /\ \A r \in receipts : r[2] <= serial
IdsUnique ==
    \A b, c \in Rows(batch) : \A e \in RowsOf(b), f \in RowsOf(c) :
        IdOf(b, e) = IdOf(c, f) => b = c

\* What the provider was told under the id of an undelivered row is the row.
PendingStable ==
    \A n \in sent : \A b \in Rows(batch) : \A e \in Pending(b) :
        n.id = IdOf(b, e) => n = NoticeOf(b, e)

\* Every answer an open attempt has counted is about a notice that was sent.
AnswersSent ==
    \A w \in Worker : tx[w] # NoRow => \A e \in Took(tx[w]) :
        \E n \in sent : n.id = IdOf(tx[w].batch, e) /\ n.to = e

IdsInv == /\ IdsDrawn /\ IdsUnique /\ PendingStable /\ AnswersSent
          /\ StableNotice /\ AcceptedWasSent /\ NoResend

LEMMA DeliveryRows ==
    ASSUME TypeOK
    PROVE  /\ \A b \in Rows(batch) : RowsOf(b) \subseteq Endpoint /\ Pending(b) \subseteq RowsOf(b)
           /\ \A b \in Rows(batch) : \A e \in RowsOf(b) :
                 batch[b].deliveries[e] \in Delivery /\ IdOf(b, e) \in Endpoint \X BatchId
<1>1. \A b \in Rows(batch) : batch[b].deliveries \in Table(Endpoint, Delivery)
  BY RowFacts DEF Batch
<1>2. \A b \in Rows(batch) : \A e \in RowsOf(b) :
        e \in Endpoint /\ batch[b].deliveries[e] \in Delivery
  BY <1>1 DEF RowsOf, Rows, Table
<1> QED
  BY <1>2 DEF RowsOf, Pending, IdOf, Delivery

LEMMA IdsInit == Init => IdsInv
<1> SUFFICES ASSUME Init PROVE IdsInv
  OBVIOUS
<1>1. Rows(batch) = {} /\ sent = {} /\ receipts = {} /\ \A w \in Worker : tx[w] = NoRow
  BY DEF Init, Rows
<1> QED
  BY <1>1 DEF IdsInv, IdsDrawn, IdsUnique, PendingStable, AnswersSent,
              StableNotice, AcceptedWasSent, NoResend

\* A step that may drop batches, items and attempts, but keeps the deliveries
\* and the content of every batch it leaves and hears of nothing.
LEMMA QuietStep ==
    ASSUME RowsInv, IdsInv, UNCHANGED <<sent, receipts, serial>>,
           Rows(batch') \subseteq Rows(batch),
           \A b \in Rows(batch') :
              /\ batch'[b].deliveries = batch[b].deliveries /\ batch'[b].kind = batch[b].kind
              /\ batch'[b].object = batch[b].object /\ batch'[b].expires = batch[b].expires,
           \A w \in Worker : tx'[w] # NoRow =>
              \/ tx'[w] = tx[w] /\ tx[w].batch \in Rows(batch')
              \/ Took(tx[w])' = {}
    PROVE  IdsInv'
<1> USE DEF IdsInv
<1>1. Rows(batch)' = Rows(batch')
  BY DEF Rows
<1>2. \A b \in Rows(batch') : RowsOf(b)' = RowsOf(b) /\ Pending(b)' = Pending(b)
  BY DEF RowsOf, Pending, Rows
<1>3. \A b \in Rows(batch') : \A e : IdOf(b, e)' = IdOf(b, e) /\ NoticeOf(b, e)' = NoticeOf(b, e)
  BY DEF IdOf, NoticeOf
<1>4. IdsDrawn' /\ IdsUnique' /\ PendingStable'
  BY <1>1, <1>2, <1>3 DEF IdsDrawn, IdsUnique, PendingStable
<1>5. AnswersSent'
  <2> SUFFICES ASSUME NEW w \in Worker, tx'[w] # NoRow, NEW e \in Took(tx[w])'
               PROVE  \E n \in sent' : n.id = IdOf(tx[w].batch, e)' /\ n.to = e
    BY DEF AnswersSent
  <2>1. tx'[w] = tx[w] /\ tx[w].batch \in Rows(batch') /\ e \in Took(tx[w])
    BY DEF Took
  <2>2. IdOf(tx[w].batch, e)' = IdOf(tx[w].batch, e)
    BY <2>1 DEF IdOf
  <2> QED
    BY <2>1, <2>2 DEF AnswersSent
<1>6. StableNotice' /\ NoResend'
  BY <1>1, <1>2, <1>3 DEF StableNotice, NoResend, IdOf
<1>7. AcceptedWasSent'
  BY <1>1, <1>2, <1>3 DEF AcceptedWasSent, IdOf, RowsOf
<1> QED
  BY <1>4, <1>5, <1>6, <1>7

\* A step that writes one batch whose deliveries are either delivered ones it
\* had or carry an id never drawn before.
LEMMA DrawStep ==
    ASSUME RowsInv, IdsInv, LockFree, UNCHANGED <<sent, receipts, tx>>,
           serial' = serial + 1, NEW a \in BatchId,
           Rows(batch') \subseteq Rows(batch) \union {a},
           \A b \in Rows(batch') \ {a} : batch'[b] = batch[b],
           batch'[a].deliveries \in Table(Endpoint, Delivery),
           \A e \in Rows(batch'[a].deliveries) :
              \/ batch'[a].deliveries[e] = NewDelivery(e)
              \/ /\ a \in Rows(batch) /\ e \in RowsOf(a) \ Pending(a)
                 /\ batch'[a].deliveries[e] = batch[a].deliveries[e]
    PROVE  IdsInv'
<1> USE DEF IdsInv
<1>1. serial \in Nat /\ \A e : NewDelivery(e).id = <<e, serial + 1>> /\ NewDelivery(e).accepted = None
  BY DEF RowsInv, TypeOK, NewDelivery
<1>2. \A b \in Rows(batch') \ {a} : /\ b \in Rows(batch) /\ RowsOf(b)' = RowsOf(b) /\ Pending(b)' = Pending(b)
        /\ \A e : IdOf(b, e)' = IdOf(b, e) /\ NoticeOf(b, e)' = NoticeOf(b, e)
  BY DEF RowsOf, Pending, Rows, IdOf, NoticeOf
<1>3. \A e \in RowsOf(a)' :
        \/ e \in Pending(a)' /\ IdOf(a, e)' = <<e, serial + 1>>
        \/ /\ a \in Rows(batch) /\ e \in RowsOf(a) \ Pending(a) /\ e \notin Pending(a)'
           /\ IdOf(a, e)' = IdOf(a, e)
  BY <1>1 DEF RowsOf, Pending, Rows, IdOf
<1>4. Pending(a)' \subseteq RowsOf(a)' /\ \A e \in Pending(a)' : IdOf(a, e)' = <<e, serial + 1>>
  BY <1>3 DEF Pending, RowsOf
<1>5. \A n \in sent : n.id \in Endpoint \X BatchId /\ n.id[2] <= serial /\ n.id[2] \in Nat
  BY DEF RowsInv, TypeOK, Notice, BatchId, IdsDrawn
<1>6. \A r \in receipts : r[2] <= serial /\ r[2] \in Nat
  BY DEF RowsInv, TypeOK, BatchId, IdsDrawn
<1>7. \A b \in Rows(batch) : \A e \in RowsOf(b) : IdOf(b, e)[2] <= serial /\ IdOf(b, e)[2] \in Nat
  BY DeliveryRows DEF RowsInv, BatchId, IdsDrawn
<1>8. \A b \in Rows(batch)' : b = a \/ b \in Rows(batch') \ {a}
  BY DEF Rows
<1>9. IdsDrawn'
  <2>1. \A b \in Rows(batch)' : \A e \in RowsOf(b)' : IdOf(b, e)'[1] = e /\ IdOf(b, e)'[2] <= serial'
    BY <1>1, <1>2, <1>3, <1>7, <1>8 DEF IdsDrawn
  <2> QED
    BY <1>1, <1>5, <1>6, <2>1 DEF IdsDrawn
<1>10. IdsUnique'
  BY <1>1, <1>2, <1>3, <1>7, <1>8 DEF IdsUnique
<1>11. PendingStable'
  BY <1>1, <1>2, <1>4, <1>5, <1>8 DEF PendingStable
<1>12. AnswersSent'
  BY DEF LockFree, AnswersSent
<1>13. StableNotice'
  BY DEF StableNotice
<1>14. NoResend'
  BY <1>1, <1>2, <1>4, <1>6, <1>8 DEF NoResend, IdOf
<1>15. AcceptedWasSent'
  BY <1>2, <1>3, <1>8 DEF AcceptedWasSent, IdOf, RowsOf
<1> QED
  BY <1>9, <1>10, <1>11, <1>12, <1>13, <1>14, <1>15

LEMMA IdsEnvironment ==
    ASSUME RowsInv, IdsInv, Environment PROVE IdsInv'
<1>1. UNCHANGED <<batch, tx, serial, historyVars>>
  BY DEF Environment, queueNotification, ObjectChanges, DevicesChange, SaveSettings, Tick,
         dbVars, historyVars
<1>2. \A w \in Worker : tx[w] # NoRow => tx[w].batch \in Rows(batch)
  BY DEF RowsInv, OneOpenBatch, Open
<1> QED
  BY <1>1, <1>2, QuietStep DEF historyVars, Rows

LEMMA IdsPrepare ==
    ASSUME RowsInv, IdsInv, NEW w \in Worker,
           PreparePostponed(w) \/ PrepareNothing(w) \/ PrepareBatch(w) \/ PrepareSummary(w)
    PROVE  IdsInv'
<1> USE DEF RowsInv
<1> DEFINE kept == RestrictTo(batch, Kept)
<1>1. LockFree /\ UNCHANGED <<tx, sent, receipts>>
  BY DEF PreparePostponed, PrepareNothing, PrepareBatch, PrepareSummary, MayPrepare, historyVars
<1>2. CASE PreparePostponed(w) \/ PrepareNothing(w)
  <2>1. batch' = kept /\ serial' = serial
    BY <1>2 DEF PreparePostponed, PrepareNothing
  <2> QED
    BY <1>1, <2>1, KeptRows, QuietStep DEF LockFree
<1>3. CASE PrepareBatch(w)
  <2>1. Open = {} /\ TakeChosen /\ batch' = [kept EXCEPT ![serial + 1] = NewBatch]
    BY <1>3 DEF PrepareBatch
  <2>2. serial' = serial + 1 /\ serial + 1 \in BatchId /\ serial < MaxSerial
    BY <2>1, TakeChosenTypes DEF TakeChosen
  <2>3. batch'[serial + 1] = NewBatch /\ \A b \in BatchId \ {serial + 1} : batch'[b] = kept[b]
    BY <2>1, <2>2, KeptRows DEF Table
  <2>4. Rows(batch') \subseteq Rows(batch) \union {serial + 1}
    BY <2>1, <2>3, KeptRows DEF Rows, Table
  <2>5. \A b \in Rows(batch') \ {serial + 1} : batch'[b] = batch[b]
    BY <2>1, <2>3, KeptRows DEF Rows, Table
  <2>6. NewBatch.deliveries \in Table(Endpoint, Delivery)
    BY <2>2, NewBatchType DEF Batch
  <2>7. \A e \in Rows(NewBatch.deliveries) : NewBatch.deliveries[e] = NewDelivery(e)
    BY DEF NewBatch, Rows
  <2> QED
    BY <1>1, <2>2, <2>3, <2>4, <2>5, <2>6, <2>7, DrawStep
<1>4. CASE PrepareSummary(w)
  <2>1. TakeChosen
    BY <1>4 DEF PrepareSummary
  <2>2. PICK active \in Open : batch' = [kept EXCEPT ![active] = Summary(kept[active])]
    BY <1>4 DEF PrepareSummary
  <2>3. serial' = serial + 1 /\ serial < MaxSerial
    BY <2>1, TakeChosenTypes DEF TakeChosen
  <2>4. active \in Rows(kept) /\ kept[active] = batch[active] /\ batch[active] \in Batch
        /\ active \in BatchId /\ active \in Rows(batch)
    BY RestrictTable, RowFacts DEF Open, Kept, TypeOK
  <2>5. /\ batch'[active] = Summary(batch[active])
        /\ \A b \in BatchId \ {active} : batch'[b] = kept[b]
    BY <2>2, <2>4, KeptRows DEF Table
  <2>6. Rows(batch') \subseteq Rows(batch) \union {active}
    BY <2>2, <2>5, KeptRows DEF Rows, Table
  <2>7. \A b \in Rows(batch') \ {active} : batch'[b] = batch[b]
    BY <2>2, <2>5, KeptRows DEF Rows, Table
  <2>8. batch'[active].deliveries = Renewed(batch[active].deliveries)
    BY <2>5 DEF Summary
  <2>9. batch[active].deliveries \in Table(Endpoint, Delivery)
    BY <2>4 DEF Batch
  <2>10. Renewed(batch[active].deliveries) \in Table(Endpoint, Delivery)
    BY <2>3, <2>9, RenewedType
  <2>11. \A e \in Rows(Renewed(batch[active].deliveries)) :
            \/ Renewed(batch[active].deliveries)[e] = NewDelivery(e)
            \/ /\ e \in RowsOf(active) \ Pending(active)
               /\ Renewed(batch[active].deliveries)[e] = batch[active].deliveries[e]
    BY DEF Renewed, Rows, RowsOf, Pending
  <2> QED
    BY <1>1, <2>3, <2>4, <2>6, <2>7, <2>8, <2>10, <2>11, DrawStep
<1> QED
  BY <1>2, <1>3, <1>4

LEMMA IdsDeliverRow ==
    ASSUME RowsInv, IdsInv, NEW w \in Worker,
           DeliverMoot(w) \/ DeliverWithoutTransport(w) \/ DeliverBegin(w) \/ DeliverAbort(w)
    PROVE  IdsInv'
<1> USE DEF RowsInv
<1>0. \A v \in Worker : tx[v] # NoRow => tx[v].batch \in Rows(batch)
  BY DEF OneOpenBatch, Open
<1>1. CASE DeliverMoot(w) \/ DeliverWithoutTransport(w)
  <2>1. LockFree /\ UNCHANGED <<tx, sent, receipts, serial>>
    BY <1>1 DEF DeliverMoot, DeliverWithoutTransport, MayDeliver, historyVars
  <2>2. PICK b \in BatchId :
          /\ Due(b)
          /\ \/ batch' = [batch EXCEPT ![b] = [Pruned(b) EXCEPT !.completed = now]]
             \/ batch' = [batch EXCEPT ![b] = Pruned(b)]
    BY <1>1 DEF DeliverMoot, DeliverWithoutTransport
  <2>3. b \in Rows(batch) /\ batch[b] \in Batch
    BY <2>2, RowFacts DEF Due, Open
  <2>4. /\ Pruned(b).deliveries = batch[b].deliveries /\ Pruned(b).kind = batch[b].kind
        /\ Pruned(b).object = batch[b].object /\ Pruned(b).expires = batch[b].expires
    BY <2>3 DEF Pruned, Batch
  <2>5. Pruned(b) \in Batch
    BY <2>3, PrunedType
  <2>6. \A c \in BatchId :
          /\ c # b => batch'[c] = batch[c]
          /\ c = b => /\ batch'[c].deliveries = batch[c].deliveries /\ batch'[c].kind = batch[c].kind
                      /\ batch'[c].object = batch[c].object /\ batch'[c].expires = batch[c].expires
    BY <2>2, <2>4, <2>5 DEF TypeOK, Table, Batch
  <2>7. DOMAIN batch' = BatchId /\ DOMAIN batch = BatchId
    BY <2>2 DEF TypeOK, Table
  <2>8. Rows(batch') \subseteq Rows(batch)
    BY <2>3, <2>6, <2>7 DEF Rows
  <2>9. \A c \in Rows(batch') : /\ batch'[c].deliveries = batch[c].deliveries /\ batch'[c].kind = batch[c].kind
                      /\ batch'[c].object = batch[c].object /\ batch'[c].expires = batch[c].expires
    BY <2>6, <2>7 DEF Rows
  <2> QED
    BY <2>1, <2>8, <2>9, QuietStep DEF LockFree
<1>2. CASE DeliverBegin(w)
  <2>1. LockFree /\ UNCHANGED <<dbVars, historyVars>>
    BY <1>2 DEF DeliverBegin, MayDeliver
  <2>2. PICK b \in BatchId : Due(b) /\ tx' = [tx EXCEPT ![w] = OpenAttempt(b)]
    BY <1>2 DEF DeliverBegin
  <2>3. tx'[w] = OpenAttempt(b) /\ \A v \in Worker \ {w} : tx'[v] = NoRow
    BY <2>1, <2>2 DEF LockFree, TypeOK, Table
  <2>4. Took(OpenAttempt(b)) = {}
    BY <2>2, OpenAttemptType DEF Due, Open
  <2>5. Took(tx[w])' = {}
    BY <2>3, <2>4 DEF Took
  <2> QED
    BY <2>1, <2>3, <2>5, QuietStep DEF dbVars, historyVars, Rows
<1>3. CASE DeliverAbort(w)
  <2>1. UNCHANGED <<dbVars, historyVars>> /\ tx' = [tx EXCEPT ![w] = NoRow]
    BY <1>3 DEF DeliverAbort
  <2>2. \A v \in Worker : tx'[v] # NoRow => tx'[v] = tx[v]
    BY <2>1 DEF TypeOK, Table
  <2> QED
    BY <1>0, <2>1, <2>2, QuietStep DEF dbVars, historyVars, Rows
<1> QED
  BY <1>1, <1>2, <1>3

LEMMA IdsSend ==
    ASSUME RowsInv, IdsInv, NEW w \in Worker, NEW e \in Endpoint, Send(w, e) PROVE IdsInv'
<1> USE DEF RowsInv, IdsInv
<1> DEFINE t == tx[w]
<1>1. t # NoRow /\ e \in t.left /\ UNCHANGED <<dbVars, receipts>>
  BY DEF Send
<1>2. t \in OpenTx /\ t.batch \in Rows(batch) /\ e \in Pending(t.batch)
  BY <1>1, RowFacts DEF OneOpenBatch, Open, TxOwnsRows
<1>3. PICK heard \in BOOLEAN, answered \in BOOLEAN :
        /\ answered => heard
        /\ sent' = IF heard THEN sent \union {NoticeOf(t.batch, e)} ELSE sent
        /\ tx' = [tx EXCEPT ![w] = Called(t, e, answered)]
  BY DEF Send
<1> DEFINE n == NoticeOf(t.batch, e)
<1>4. n.id = IdOf(t.batch, e) /\ n.to = e /\ e \in RowsOf(t.batch)
  BY <1>2 DEF NoticeOf, IdOf, Pending, RowsOf
<1>5. sent \subseteq sent' /\ \A m \in sent' : m \in sent \/ m = n
  BY <1>3
<1>6. UNCHANGED <<batch, serial>>
  BY <1>1 DEF dbVars
<1>7. IdsDrawn'
  BY <1>1, <1>2, <1>4, <1>5, <1>6 DEF IdsDrawn, IdOf, RowsOf
<1>8. IdsUnique'
  BY <1>6 DEF IdsUnique, IdOf, RowsOf
<1>9. \A b \in Rows(batch) : \A f \in Pending(b) : n.id = IdOf(b, f) => b = t.batch /\ f = e
  <2> TAKE b \in Rows(batch)
  <2> TAKE f \in Pending(b)
  <2> HAVE n.id = IdOf(b, f)
  <2>1. f \in RowsOf(b)
    BY DEF Pending, RowsOf
  <2>2. b = t.batch
    BY <1>2, <1>4, <2>1 DEF IdsUnique
  <2>3. IdOf(b, f)[1] = f /\ IdOf(t.batch, e)[1] = e
    BY <1>2, <1>4, <2>1 DEF IdsDrawn
  <2> QED
    BY <1>4, <2>2, <2>3
<1>10. PendingStable'
  BY <1>5, <1>6, <1>9 DEF PendingStable, NoticeOf, IdOf, Pending
<1>11. StableNotice'
  BY <1>2, <1>4, <1>5 DEF StableNotice, PendingStable
<1>12. NoResend'
  BY <1>1, <1>6 DEF NoResend, Pending
<1>13. AcceptedWasSent'
  BY <1>5, <1>6 DEF AcceptedWasSent, Pending
<1>14. AnswersSent'
  <2> SUFFICES ASSUME NEW v \in Worker, tx'[v] # NoRow, NEW f \in Took(tx[v])'
               PROVE  \E m \in sent' : m.id = IdOf(tx[v].batch, f)' /\ m.to = f
    BY DEF AnswersSent
  <2>1. CASE v # w
    <3>1. tx'[v] = tx[v] /\ f \in Took(tx[v]) /\ tx[v] # NoRow
      BY <1>3, <2>1 DEF TypeOK, Table, Took
    <3> QED
      BY <1>5, <1>6, <3>1 DEF AnswersSent, IdOf
  <2>2. CASE v = w
    <3>1. tx'[w] = Called(t, e, answered)
      BY <1>3 DEF TypeOK, Table
    <3>2. Called(t, e, answered).batch = t.batch /\ Took(Called(t, e, answered)) \subseteq Took(t) \union {e}
      BY <1>1, <1>2, CalledType
    <3>3. f \in Took(Called(t, e, answered))
      BY <2>2, <3>1 DEF Took
    <3>4. CASE f # e
      BY <1>1, <1>5, <1>6, <2>2, <3>1, <3>2, <3>3, <3>4 DEF AnswersSent, IdOf
    <3>5. CASE f = e
      <4>1. answered
        BY <1>2, <3>3, <3>5 DEF Took, Called, OpenTx
      <4> QED
        BY <1>3, <1>4, <1>6, <2>2, <3>1, <3>2, <3>5, <4>1 DEF IdOf
    <3> QED
      BY <3>4, <3>5
  <2> QED
    BY <2>1, <2>2
<1> QED
  BY <1>7, <1>8, <1>10, <1>11, <1>12, <1>13, <1>14

LEMMA IdsCommit ==
    ASSUME RowsInv, IdsInv, NEW w \in Worker, DeliverCommit(w) PROVE IdsInv'
<1> USE DEF RowsInv, IdsInv
<1> DEFINE t == tx[w]
<1>0. t # NoRow /\ t \in OpenTx /\ t.batch \in Open
  BY RowFacts DEF DeliverCommit, OneOpenBatch
<1> PICK b \in BatchId : b = t.batch
  BY <1>0 DEF OpenTx
<1>1. /\ t # NoRow /\ tx' = [tx EXCEPT ![w] = NoRow]
      /\ batch' = [batch EXCEPT ![b] = Attempted(t)]
      /\ receipts' = receipts \union {batch[b].deliveries[e].id : e \in Took(t)}
      /\ UNCHANGED <<serial, sent>>
  BY DEF DeliverCommit
<1>2. t \in OpenTx /\ b \in Rows(batch) /\ b \in BatchId /\ Took(t) \subseteq Pending(b)
  BY <1>0, RowFacts DEF Open, TxOwnsRows
<1>3. \A v \in Worker : tx'[v] = NoRow
  BY <1>1 DEF OneTx, TypeOK, Table
<1>4. batch[b] \in Batch /\ Attempted(t) \in Batch /\ Attempted(t).deliveries = Settled(t)
  BY <1>2, RowFacts, AttemptedType
<1>5. /\ Attempted(t).kind = batch[b].kind /\ Attempted(t).object = batch[b].object
      /\ Attempted(t).expires = batch[b].expires
  BY <1>4 DEF Attempted, Batch
<1>6. batch'[b] = Attempted(t) /\ \A c \in BatchId \ {b} : batch'[c] = batch[c]
  BY <1>1, <1>2 DEF TypeOK, Table
<1>7. DOMAIN batch' = BatchId /\ DOMAIN batch = BatchId
  BY <1>1 DEF TypeOK, Table
<1>8. Rows(batch)' = Rows(batch)
  BY <1>2, <1>4, <1>6, <1>7, RowsAreRows DEF Rows
\* The settled deliveries: ids stay, only the answered ones become accepted.
<1>9. \A e \in Endpoint : e \in Rows(Settled(t)) =>
        /\ e \in RowsOf(b) /\ Settled(t)[e].id = IdOf(b, e)
        /\ Settled(t)[e].accepted = None <=> e \in Pending(b) /\ e \notin Took(t)
  <2> TAKE e \in Endpoint
  <2> HAVE e \in Rows(Settled(t))
  <2>1. t.took[e] # None <=> e \in Took(t)
    BY DEF Took
  <2>2. t.start \in Nat /\ t.start # None
    BY <1>2 DEF OpenTx, None
  <2>3. CASE e \in Took(t)
    <3>1. e \in Pending(b) /\ batch[b].deliveries[e] \in Delivery /\ e \in RowsOf(b)
      BY <1>2, <2>3, DeliveryRows
    <3>2. Settled(t)[e] = [batch[b].deliveries[e] EXCEPT !.accepted = t.start]
      BY <2>1, <2>3 DEF Settled, Rows
    <3> QED
      BY <2>2, <2>3, <3>1, <3>2 DEF Delivery, IdOf
  <2>4. CASE e \notin Took(t)
    <3>1. Settled(t)[e] = batch[b].deliveries[e] /\ Settled(t)[e] # NoRow
      BY <2>1, <2>4 DEF Settled, Rows
    <3>2. e \in RowsOf(b)
      <4>1. DOMAIN batch[b].deliveries = Endpoint
        BY <1>4 DEF Batch, Table
      <4> QED
        BY <3>1, <4>1 DEF RowsOf, Rows
    <3> QED
      BY <2>4, <3>1, <3>2 DEF IdOf, Pending, RowsOf
  <2> QED
    BY <2>3, <2>4
<1>10. RowsOf(b)' = Rows(Settled(t)) /\ RowsOf(b)' \subseteq RowsOf(b) /\ RowsOf(b)' \subseteq Endpoint
  <2>1. RowsOf(b)' = Rows(Settled(t))
    BY <1>4, <1>6 DEF RowsOf, Rows
  <2>2. Rows(Settled(t)) \subseteq Endpoint
    BY DEF Rows, Settled
  <2> QED
    BY <1>9, <2>1, <2>2
<1>11. \A e \in RowsOf(b)' : IdOf(b, e)' = IdOf(b, e)
  BY <1>4, <1>6, <1>9, <1>10 DEF IdOf
<1>12. \A e \in RowsOf(b)' : e \in Pending(b)' <=> e \in Pending(b) /\ e \notin Took(t)
  BY <1>4, <1>6, <1>9, <1>10 DEF Pending, RowsOf, Rows
<1>13. \A c \in Rows(batch) \ {b} : RowsOf(c)' = RowsOf(c) /\ Pending(c)' = Pending(c)
        /\ \A e : IdOf(c, e)' = IdOf(c, e) /\ NoticeOf(c, e)' = NoticeOf(c, e)
  BY <1>6, <1>7 DEF RowsOf, Pending, Rows, IdOf, NoticeOf
<1>14. \A e \in RowsOf(b)' : NoticeOf(b, e)' = NoticeOf(b, e)
  BY <1>5, <1>6, <1>11 DEF NoticeOf, IdOf
<1>15. /\ Pending(b)' \subseteq RowsOf(b)' /\ Pending(b)' \subseteq Pending(b) \ Took(t)
       /\ \A c \in Rows(batch) : Pending(c) \subseteq RowsOf(c)
  BY <1>12, DeliveryRows DEF Pending, RowsOf
<1>16. \A c \in Rows(batch) : /\ RowsOf(c)' \subseteq RowsOf(c) /\ Pending(c)' \subseteq Pending(c)
        /\ \A e \in RowsOf(c)' : IdOf(c, e)' = IdOf(c, e) /\ NoticeOf(c, e)' = NoticeOf(c, e)
        /\ Pending(c)' \subseteq RowsOf(c)'
  BY <1>10, <1>11, <1>13, <1>14, <1>15
<1>16a. ASSUME NEW c \in Rows(batch), NEW e \in Pending(c)'
      PROVE  e \in Pending(c) /\ e \in RowsOf(c)' /\ e \in RowsOf(c)
  <2>1. CASE c = b
    BY <1>10, <1>15, <2>1
  <2>2. CASE c # b
    BY <1>13, <1>15, <2>2
  <2> QED
    BY <2>1, <2>2
<1>17. \A e \in Took(t) : e \in RowsOf(b) /\ IdOf(b, e) = batch[b].deliveries[e].id
  BY <1>2, <1>15 DEF IdOf
<1>18. IdsDrawn'
  <2>1. \A c \in Rows(batch)' : \A e \in RowsOf(c)' : IdOf(c, e)'[1] = e /\ IdOf(c, e)'[2] <= serial'
    BY <1>1, <1>8, <1>16 DEF IdsDrawn
  <2>2. \A r \in receipts' : r[2] <= serial
    BY <1>1, <1>2, <1>17 DEF IdsDrawn
  <2> QED
    BY <1>1, <2>1, <2>2 DEF IdsDrawn
<1>19. IdsUnique'
  BY <1>8, <1>16 DEF IdsUnique
<1>20. PendingStable'
  <2> SUFFICES ASSUME NEW n \in sent, NEW c \in Rows(batch), NEW e \in Pending(c)',
                      n.id = IdOf(c, e)'
               PROVE  n = NoticeOf(c, e)'
    BY <1>1, <1>8 DEF PendingStable
  <2>1. e \in Pending(c) /\ e \in RowsOf(c)'
    BY <1>16a
  <2>2. IdOf(c, e)' = IdOf(c, e) /\ NoticeOf(c, e)' = NoticeOf(c, e)
    BY <1>16, <2>1
  <2> QED
    BY <2>1, <2>2 DEF PendingStable
<1>21. AnswersSent'
  BY <1>3 DEF AnswersSent
<1>22. StableNotice'
  BY <1>1 DEF StableNotice
<1>23. NoResend'
  <2> SUFFICES ASSUME NEW c \in Rows(batch), NEW e \in Pending(c)'
               PROVE  IdOf(c, e)' \notin receipts'
    BY <1>8 DEF NoResend, IdOf
  <2>0. e \in Pending(c) /\ e \in RowsOf(c)' /\ e \in RowsOf(c)
    BY <1>16a
  <2>1. e \in Pending(c) /\ e \in RowsOf(c) /\ IdOf(c, e)' = IdOf(c, e)
    BY <1>16, <2>0
  <2>2. IdOf(c, e) \notin receipts
    BY <2>1 DEF NoResend, IdOf
  <2>3. \A f \in Took(t) : IdOf(c, e) # IdOf(b, f)
    <3> TAKE f \in Took(t)
    <3>1. CASE c # b
      BY <1>2, <1>17, <2>1, <3>1 DEF IdsUnique
    <3>2. CASE c = b
      <4>1. e # f
        BY <1>15, <3>2
      <4>2. IdOf(c, e)[1] = e /\ IdOf(b, f)[1] = f
        BY <1>2, <1>17, <2>1 DEF IdsDrawn
      <4> QED
        BY <4>1, <4>2
    <3> QED
      BY <3>1, <3>2
  <2> QED
    BY <1>1, <1>17, <2>1, <2>2, <2>3
<1>24. AcceptedWasSent'
  <2> SUFFICES ASSUME NEW c \in Rows(batch), NEW e \in RowsOf(c)', e \notin Pending(c)'
               PROVE  \E n \in sent : n.id = IdOf(c, e) /\ n.to = e
    BY <1>1, <1>8, <1>16 DEF AcceptedWasSent, RowsOf, IdOf
  <2>1. CASE c = b /\ e \in Took(t)
    BY <1>0, <2>1 DEF AnswersSent
  <2>2. CASE ~(c = b /\ e \in Took(t))
    <3>1. e \in RowsOf(c) \ Pending(c)
      BY <1>12, <1>13, <1>16, <2>2
    <3> QED
      BY <3>1 DEF AcceptedWasSent, RowsOf, IdOf
  <2> QED
    BY <2>1, <2>2
<1> QED
  BY <1>18, <1>19, <1>20, <1>21, <1>22, <1>23, <1>24

LEMMA IdsStep == RowsInv /\ IdsInv /\ [Next]_vars => IdsInv'
<1> SUFFICES ASSUME RowsInv, IdsInv, [Next]_vars PROVE IdsInv'
  OBVIOUS
<1>1. CASE UNCHANGED vars
  <2>1. \A w \in Worker : tx[w] # NoRow => tx[w].batch \in Rows(batch)
    BY DEF RowsInv, OneOpenBatch, Open
  <2> QED
    BY <1>1, <2>1, QuietStep DEF vars, dbVars, historyVars, Rows
<1>2. CASE Environment
  BY <1>2, IdsEnvironment
<1>3. ASSUME NEW w \in Worker, dispatchNotifications(w) PROVE IdsInv'
  BY <1>3, IdsPrepare, IdsDeliverRow, IdsSend, IdsCommit DEF dispatchNotifications
<1> QED
  BY <1>1, <1>2, <1>3 DEF Next

\* One id, one notice: a provider that discards repeated ids never discards
\* anything else.
THEOREM StableNoticeAlways == Spec => []StableNotice
<1>1. IdsInv => StableNotice
  BY DEF IdsInv
<1> QED
  BY RowsInit, RowsStep, IdsInit, IdsStep, <1>1, PTL DEF Spec

\* A delivery is recorded as accepted only if the provider took that notice.
THEOREM AcceptedWasSentAlways == Spec => []AcceptedWasSent
<1>1. IdsInv => AcceptedWasSent
  BY DEF IdsInv
<1> QED
  BY RowsInit, RowsStep, IdsInit, IdsStep, <1>1, PTL DEF Spec

\* An accepted notice is never due again.
THEOREM NoResendAlways == Spec => []NoResend
<1>1. IdsInv => NoResend
  BY DEF IdsInv
<1> QED
  BY RowsInit, RowsStep, IdsInit, IdsStep, <1>1, PTL DEF Spec
-----------------------------------------------------------------------------
(* The interval between two pushes of one device *)

\* An interval of some mode lies between s and t.
Spaced(s, t) == \E m \in Mode : t - s >= Interval[m]

\* Spacing is kept by next_send_at: nothing is prepared before it, so an undelivered
\* row is as old as the interval after its device's last push, and so is any answer
\* that an attempt has counted.
SpacingInv ==
    /\ \A e \in Endpoint : lastPush[e] # None => Spaced(lastPush[e], nextSend)
    /\ \A b \in Open : \A e \in Pending(b) : lastPush[e] # None => Spaced(lastPush[e], now)
    /\ \A w \in Worker : tx[w] # NoRow =>
          /\ \E m \in Mode : tx[w].interval = Interval[m]
          /\ tx[w].next >= nextSend
          /\ \A e \in Took(tx[w]) :
                /\ lastPush[e] # None => Spaced(lastPush[e], tx[w].took[e])
                /\ Spaced(tx[w].took[e], tx[w].next)

LEMMA SpacedLater ==
    ASSUME NEW s \in Int, NEW t \in Int, NEW u \in Int, Spaced(s, t), t <= u
    PROVE  Spaced(s, u)
<1>1. PICK m \in Mode : t - s >= Interval[m]
  BY DEF Spaced
<1>2. u - s >= Interval[m]
  BY <1>1, TimeAssumption
<1> QED
  BY <1>2 DEF Spaced

LEMMA SpacingInit == Init => SpacingInv
<1> SUFFICES ASSUME Init PROVE SpacingInv
  OBVIOUS
<1>1. Open = {} /\ (\A w \in Worker : tx[w] = NoRow) /\ \A e \in Endpoint : lastPush[e] = None
  BY DEF Init, Open, Rows
<1> QED
  BY <1>1 DEF SpacingInv

\* A step that hears of nothing, draws no delivery and does not turn back the clock.
LEMMA SpacingQuiet ==
    ASSUME RowsInv, SpacingInv, UNCHANGED <<nextSend, lastPush>>, now' \in Nat, now <= now',
           \A b \in Open' : b \in Open /\ Pending(b)' \subseteq Pending(b),
           \A w \in Worker : tx'[w] # NoRow =>
              \/ tx'[w] = tx[w]
              \/ /\ Took(tx[w])' = {} /\ tx'[w].next = nextSend
                 /\ \E m \in Mode : tx'[w].interval = Interval[m]
    PROVE  SpacingInv'
<1>1. lastPush \in [Endpoint -> Nat \union {None}] /\ now \in Nat /\ nextSend \in Nat
  BY DEF RowsInv, TypeOK
<1>2. \A b \in Open : Pending(b) \subseteq Endpoint
  BY RowFacts DEF RowsInv
<1>3. \A e \in Endpoint : (lastPush[e] # None => Spaced(lastPush[e], nextSend))'
  BY DEF SpacingInv, Spaced
<1>4. ASSUME NEW b \in Open', NEW e \in Pending(b)', lastPush[e] # None
      PROVE  Spaced(lastPush[e], now')
  <2>1. e \in Endpoint /\ Spaced(lastPush[e], now)
    BY <1>2, <1>4 DEF SpacingInv
  <2> QED
    BY <1>1, <1>4, <2>1, SpacedLater
<1>5. ASSUME NEW w \in Worker, tx'[w] # NoRow
      PROVE  /\ \E m \in Mode : tx'[w].interval = Interval[m]
             /\ tx'[w].next >= nextSend
             /\ \A e \in Took(tx[w])' : /\ lastPush[e] # None => Spaced(lastPush[e], tx'[w].took[e])
                                        /\ Spaced(tx'[w].took[e], tx'[w].next)
  <2>1. CASE tx'[w] = tx[w]
    BY <1>5, <2>1 DEF SpacingInv, Took
  <2>2. CASE /\ Took(tx[w])' = {} /\ tx'[w].next = nextSend
             /\ \E m \in Mode : tx'[w].interval = Interval[m]
    BY <1>1, <2>2
  <2> QED
    BY <1>5, <2>1, <2>2
<1> QED
  BY <1>3, <1>4, <1>5 DEF SpacingInv, Spaced

LEMMA SpacingPrepare ==
    ASSUME RowsInv, RowsInv', SpacingInv, NEW w \in Worker, PrepareBatch(w) \/ PrepareSummary(w)
    PROVE  SpacingInv'
<1>1. /\ LockFree /\ now >= nextSend /\ TakeChosen
      /\ UNCHANGED <<now, lastPush, tx>>
  BY DEF PrepareBatch, PrepareSummary, MayPrepare, envVars, historyVars
<1>2. /\ lastPush \in [Endpoint -> Nat \union {None}] /\ now \in Nat /\ nextSend \in Nat
      /\ Interval[mode] \in Nat
  BY TimeAssumption DEF RowsInv, TypeOK
<1>3. nextSend' \in Nat /\ nextSend <= nextSend'
  BY <1>1, <1>2 DEF TakeChosen
<1>4. ASSUME NEW e \in Endpoint, lastPush[e] # None
      PROVE  Spaced(lastPush[e], nextSend') /\ Spaced(lastPush[e], now)
  <2>1. Spaced(lastPush[e], nextSend)
    BY <1>4 DEF SpacingInv
  <2> QED
    BY <1>1, <1>2, <1>3, <1>4, <2>1, SpacedLater
<1>5. \A b \in Open' : Pending(b)' \subseteq Endpoint
  <2>1. TypeOK'
    BY DEF RowsInv
  <2>2. \A b \in Open' : batch'[b] \in Batch
    BY <2>1 DEF TypeOK, Table, Open, Rows
  <2> QED
    BY <2>2 DEF Pending, Rows, Batch, Table
<1>6. \A v \in Worker : tx'[v] = NoRow
  BY <1>1 DEF LockFree
<1> QED
  BY <1>1, <1>4, <1>5, <1>6 DEF SpacingInv, Spaced

LEMMA SpacingSend ==
    ASSUME RowsInv, SpacingInv, NEW w \in Worker, NEW e \in Endpoint, Send(w, e)
    PROVE  SpacingInv'
<1> DEFINE t == tx[w]
<1>1. t # NoRow /\ e \in t.left /\ UNCHANGED <<envVars, dbVars, receipts, lastPush>>
  BY DEF Send
<1>2. PICK answered \in BOOLEAN : tx' = [tx EXCEPT ![w] = Called(t, e, answered)]
  BY DEF Send
<1>3. t \in OpenTx /\ t.batch \in Open /\ e \in Pending(t.batch)
  BY <1>1, RowFacts DEF RowsInv, OneOpenBatch, TxOwnsRows
<1>4. /\ lastPush \in [Endpoint -> Nat \union {None}] /\ now \in Nat /\ nextSend \in Nat
      /\ t.interval \in Nat /\ t.next \in Nat /\ t.took \in [Endpoint -> Nat \union {None}]
  BY <1>3 DEF RowsInv, TypeOK, OpenTx
<1>5. /\ tx'[w] = Called(t, e, answered) /\ \A v \in Worker \ {w} : tx'[v] = NoRow
  BY <1>1, <1>2 DEF RowsInv, OneTx, TypeOK, Table
<1> DEFINE c == Called(t, e, answered)
           took == [t.took EXCEPT ![e] = IF answered THEN now ELSE None]
           next == IF answered THEN Later(t.next, now + t.interval) ELSE t.next
<1>6. c.interval = t.interval /\ c.took = took /\ c.next = next
  <2>1. c = [t EXCEPT !.left = t.left \ {e}, !.took = took, !.next = next]
    BY <1>3 DEF Called, OpenTx
  <2> QED
    BY <1>3, <2>1 DEF OpenTx
<1>7. next \in Nat /\ t.next <= next /\ (answered => now + t.interval <= next)
  BY <1>4 DEF Later
<1>8. PICK m \in Mode : t.interval = Interval[m]
  BY <1>1 DEF SpacingInv
<1>9. t.next >= nextSend
  BY <1>1 DEF SpacingInv
<1>10. ASSUME NEW x \in Endpoint, c.took[x] # None
       PROVE  /\ lastPush[x] # None => Spaced(lastPush[x], c.took[x])
              /\ Spaced(c.took[x], c.next)
  <2>1. CASE x = e
    <3>1. answered /\ c.took[x] = now
      BY <1>4, <1>6, <1>10, <2>1
    <3>2. lastPush[x] # None => Spaced(lastPush[x], now)
      BY <1>3, <2>1 DEF SpacingInv
    <3>3. c.next - now >= Interval[m]
      BY <1>4, <1>6, <1>7, <1>8, <3>1
    <3> QED
      BY <3>1, <3>2, <3>3 DEF Spaced
  <2>2. CASE x # e
    <3>1. c.took[x] = t.took[x] /\ x \in Took(t)
      BY <1>4, <1>6, <1>10, <2>2 DEF Took
    <3>2. /\ lastPush[x] # None => Spaced(lastPush[x], t.took[x])
          /\ Spaced(t.took[x], t.next)
      BY <1>1, <3>1 DEF SpacingInv
    <3>3. Spaced(t.took[x], next)
      BY <1>4, <1>7, <1>10, <3>1, <3>2, SpacedLater
    <3> QED
      BY <1>6, <3>1, <3>2, <3>3
  <2> QED
    BY <2>1, <2>2
<1>11. (\A v \in Worker : tx[v] # NoRow =>
          /\ \E k \in Mode : tx[v].interval = Interval[k]
          /\ tx[v].next >= nextSend
          /\ \A x \in Took(tx[v]) :
                /\ lastPush[x] # None => Spaced(lastPush[x], tx[v].took[x])
                /\ Spaced(tx[v].took[x], tx[v].next))'
  <2> SUFFICES ASSUME NEW v \in Worker, tx'[v] # NoRow
               PROVE  /\ \E k \in Mode : c.interval = Interval[k]
                      /\ c.next >= nextSend
                      /\ \A x \in Took(c) : /\ lastPush[x] # None => Spaced(lastPush[x], c.took[x])
                                            /\ Spaced(c.took[x], c.next)
    BY <1>1, <1>5 DEF dbVars, Took, Spaced
  <2> QED
    BY <1>4, <1>6, <1>7, <1>8, <1>9, <1>10 DEF Took
<1>12. (/\ \A x \in Endpoint : lastPush[x] # None => Spaced(lastPush[x], nextSend)
        /\ \A b \in Open : \A x \in Pending(b) : lastPush[x] # None => Spaced(lastPush[x], now))'
  BY <1>1 DEF SpacingInv, Spaced, envVars, dbVars, Open, Pending, Rows
<1> QED
  BY <1>11, <1>12 DEF SpacingInv

\* The commit of an attempt is the only step that moves lastPush.
LEMMA SpacingCommit ==
    ASSUME RowsInv, RowsInv', SpacingInv, NEW w \in Worker, DeliverCommit(w)
    PROVE  /\ SpacingInv'
           /\ \A e \in Endpoint : lastPush[e] # None /\ lastPush'[e] # lastPush[e]
                 => Spaced(lastPush[e], lastPush'[e])
<1> DEFINE t == tx[w] b == tx[w].batch
<1>1. /\ t # NoRow /\ tx' = [tx EXCEPT ![w] = NoRow]
      /\ batch' = [batch EXCEPT ![b] = Attempted(t)] /\ nextSend' = t.next
      /\ lastPush' = [e \in Endpoint |-> IF e \in Took(t) THEN t.took[e] ELSE lastPush[e]]
      /\ UNCHANGED envVars
  BY DEF DeliverCommit
<1>2. t \in OpenTx /\ b \in Open /\ b \in Rows(batch) /\ Took(t) \subseteq Pending(b)
  BY <1>1, RowFacts DEF RowsInv, OneOpenBatch, TxOwnsRows, Open
<1>3. /\ lastPush \in [Endpoint -> Nat \union {None}] /\ now \in Nat /\ nextSend \in Nat
      /\ t.next \in Nat /\ t.took \in [Endpoint -> Nat \union {None}] /\ t.next >= nextSend
  BY <1>1, <1>2 DEF RowsInv, TypeOK, OpenTx, SpacingInv
<1>4. \A e \in Took(t) : /\ e \in Endpoint /\ lastPush'[e] = t.took[e]
                         /\ lastPush[e] # None => Spaced(lastPush[e], t.took[e])
                         /\ Spaced(t.took[e], t.next)
  BY <1>1 DEF SpacingInv, Took
<1>5. \A e \in Endpoint \ Took(t) : lastPush'[e] = lastPush[e]
  BY <1>1
<1>6. ASSUME NEW e \in Endpoint, lastPush'[e] # None PROVE Spaced(lastPush'[e], nextSend')
  <2>1. CASE e \in Took(t)
    BY <1>1, <1>4, <2>1
  <2>2. CASE e \notin Took(t)
    <3>1. Spaced(lastPush[e], nextSend)
      BY <1>5, <1>6, <2>2 DEF SpacingInv
    <3> QED
      BY <1>1, <1>3, <1>5, <1>6, <2>2, <3>1, SpacedLater
  <2> QED
    BY <2>1, <2>2
<1>7. ASSUME NEW c \in Open', NEW e \in Pending(c)' PROVE c = b /\ e \in Pending(b) /\ e \notin Took(t)
  <2>1. c = b
    <3>1. c # b => c \in Open
      BY <1>1, <1>7 DEF Open, Rows, RowsInv, TypeOK, Table
    <3> QED
      BY <1>2, <3>1 DEF RowsInv, OneOpenBatch
  <2>2. batch'[b].deliveries = Settled(t)
    BY <1>1, <1>2, AttemptedType DEF RowsInv, TypeOK, Table
  <2>3. e \in Endpoint /\ Settled(t)[e] # NoRow /\ Settled(t)[e].accepted = None
    BY <1>7, <2>1, <2>2 DEF Pending, Rows, Settled
  <2>4. e \notin Took(t)
    <3> SUFFICES ASSUME e \in Took(t) PROVE FALSE
      OBVIOUS
    <3>1. batch[b].deliveries[e] \in Delivery /\ t.start \in Nat
      BY <1>2, RowFacts DEF OpenTx, RowsInv
    <3>2. Settled(t)[e] = [batch[b].deliveries[e] EXCEPT !.accepted = t.start]
      BY <2>3, <3>1 DEF Settled, Took
    <3>3. Settled(t)[e].accepted = t.start
      BY <2>3, <3>1, <3>2 DEF Delivery
    <3> QED
      BY <2>3, <3>1, <3>3 DEF None
  <2>5. e \in Pending(b)
    <3>1. Settled(t)[e] = batch[b].deliveries[e]
      BY <2>3, <2>4 DEF Settled, Took
    <3>2. e \in DOMAIN batch[b].deliveries
      BY <1>2, <2>3, RowFacts DEF RowsInv, Batch, Table
    <3> QED
      BY <2>3, <3>1, <3>2 DEF Pending, Rows
  <2> QED
    BY <2>1, <2>4, <2>5
<1>8. ASSUME NEW c \in Open', NEW e \in Pending(c)', lastPush'[e] # None
      PROVE  Spaced(lastPush'[e], now')
  <2>1. e \in Pending(b) /\ e \in Endpoint /\ e \notin Took(t)
    BY <1>2, <1>7, <1>8, RowFacts DEF RowsInv
  <2> QED
    BY <1>1, <1>2, <1>5, <1>8, <2>1 DEF SpacingInv, envVars
<1>9. \A v \in Worker : tx'[v] = NoRow
  BY <1>1 DEF RowsInv, OneTx, TypeOK, Table
<1>10. SpacingInv'
  BY <1>6, <1>8, <1>9 DEF SpacingInv, Spaced
<1>11. ASSUME NEW e \in Endpoint, lastPush[e] # None, lastPush'[e] # lastPush[e]
       PROVE  Spaced(lastPush[e], lastPush'[e])
  BY <1>4, <1>5, <1>11
<1> QED
  BY <1>10, <1>11

LEMMA SpacingStep ==
    ASSUME RowsInv, RowsInv', SpacingInv, [Next]_vars
    PROVE  /\ SpacingInv'
           /\ \A e \in Endpoint : lastPush[e] # None /\ lastPush'[e] # lastPush[e]
                 => Spaced(lastPush[e], lastPush'[e])
<1>1. now \in Nat /\ now' \in Nat
  BY DEF RowsInv, TypeOK
<1>2. CASE UNCHANGED vars \/ Environment
  <2>1. UNCHANGED <<batch, tx, nextSend, lastPush>> /\ now <= now'
    BY <1>1, <1>2 DEF vars, envVars, dbVars, historyVars, Environment, queueNotification,
       ObjectChanges, DevicesChange, SaveSettings, Tick
  <2>2. \A b \in Open' : b \in Open /\ Pending(b)' \subseteq Pending(b)
    BY <2>1 DEF Open, Pending, Rows
  <2> QED
    BY <1>1, <2>1, <2>2, SpacingQuiet
<1>3. ASSUME NEW w \in Worker, dispatchNotifications(w)
      PROVE  /\ SpacingInv'
             /\ \A e \in Endpoint : lastPush[e] # None /\ lastPush'[e] # lastPush[e]
                   => Spaced(lastPush[e], lastPush'[e])
  <2>1. CASE PreparePostponed(w) \/ PrepareNothing(w)
    <3>1. UNCHANGED <<now, tx, nextSend, lastPush>> /\ batch' = RestrictTo(batch, Kept)
      BY <2>1 DEF PreparePostponed, PrepareNothing, envVars, historyVars
    <3>2. \A b \in Open' : b \in Open /\ Pending(b)' \subseteq Pending(b)
      BY <3>1, KeptRows DEF Open, Pending, RowsInv
    <3> QED
      BY <1>1, <3>1, <3>2, SpacingQuiet
  <2>2. CASE PrepareBatch(w) \/ PrepareSummary(w)
    <3>1. lastPush' = lastPush
      BY <2>2 DEF PrepareBatch, PrepareSummary, historyVars
    <3> QED
      BY <2>2, <3>1, SpacingPrepare
  <2>3. CASE DeliverMoot(w) \/ DeliverWithoutTransport(w)
    <3>1. UNCHANGED <<now, tx, nextSend, lastPush>>
      BY <2>3 DEF DeliverMoot, DeliverWithoutTransport, envVars, historyVars
    <3>2. PICK b \in BatchId :
            /\ Due(b)
            /\ \/ batch' = [batch EXCEPT ![b] = [Pruned(b) EXCEPT !.completed = now]]
               \/ batch' = [batch EXCEPT ![b] = Pruned(b)]
      BY <2>3 DEF DeliverMoot, DeliverWithoutTransport
    <3>3. b \in Rows(batch) /\ b \in Open /\ batch \in Table(BatchId, Batch)
      BY <3>2 DEF Due, Open, RowsInv, TypeOK
    <3>4. Pruned(b) \in Batch /\ Pruned(b).deliveries = batch[b].deliveries
      BY <3>3, PrunedType DEF RowsInv
    <3>5. [Pruned(b) EXCEPT !.completed = now].deliveries = batch[b].deliveries
      BY <3>4 DEF Batch
    <3>6. \A c \in BatchId : c # b => batch'[c] = batch[c]
      BY <3>2, <3>3 DEF Table
    <3>7. batch'[b].deliveries = batch[b].deliveries
      BY <3>2, <3>3, <3>4, <3>5 DEF Table
    <3>8. \A c \in Open' : c \in BatchId /\ c \in Open
      BY <3>2, <3>3, <3>6 DEF Open, Rows, Table
    <3>9. \A c \in Open' : Pending(c)' \subseteq Pending(c)
      BY <3>6, <3>7, <3>8 DEF Pending, Rows
    <3> QED
      BY <1>1, <3>1, <3>8, <3>9, SpacingQuiet
  <2>4. CASE DeliverBegin(w)
    <3>1. UNCHANGED <<now, batch, nextSend, lastPush>> /\ LockFree
      BY <2>4 DEF DeliverBegin, MayDeliver, envVars, dbVars, historyVars
    <3>2. PICK b \in BatchId : Due(b) /\ tx' = [tx EXCEPT ![w] = OpenAttempt(b)]
      BY <2>4 DEF DeliverBegin
    <3>3. /\ Took(OpenAttempt(b)) = {} /\ OpenAttempt(b).next = nextSend
          /\ OpenAttempt(b).interval = Interval[mode] /\ mode \in Mode
      BY <3>2, OpenAttemptType DEF RowsInv, Due, Open, OpenAttempt, TypeOK
    <3>4. \A v \in Worker : tx'[v] # NoRow => tx'[v] = OpenAttempt(b)
      BY <3>1, <3>2 DEF LockFree, RowsInv, TypeOK, Table
    <3>5. \A b1 \in Open' : b1 \in Open /\ Pending(b1)' \subseteq Pending(b1)
      BY <3>1 DEF Open, Pending, Rows
    <3>6. \A v \in Worker : tx'[v] # NoRow => /\ Took(tx[v])' = {} /\ tx'[v].next = nextSend
                                             /\ \E m \in Mode : tx'[v].interval = Interval[m]
      BY <3>3, <3>4 DEF Took
    <3> QED
      BY <1>1, <3>1, <3>5, <3>6, SpacingQuiet
  <2>5. CASE \E e \in Endpoint : Send(w, e)
    <3>1. lastPush' = lastPush
      BY <2>5 DEF Send
    <3> QED
      BY <2>5, <3>1, SpacingSend
  <2>6. CASE DeliverCommit(w)
    BY <2>6, SpacingCommit
  <2>7. CASE DeliverAbort(w)
    <3>1. UNCHANGED <<now, batch, nextSend, lastPush>> /\ tx' = [tx EXCEPT ![w] = NoRow]
      BY <2>7 DEF DeliverAbort, envVars, dbVars, historyVars
    <3>2. \A v \in Worker : tx'[v] # NoRow => tx'[v] = tx[v]
      BY <3>1 DEF RowsInv, TypeOK, Table
    <3>3. \A b \in Open' : b \in Open /\ Pending(b)' \subseteq Pending(b)
      BY <3>1 DEF Open, Pending, Rows
    <3> QED
      BY <1>1, <3>1, <3>2, <3>3, SpacingQuiet
  <2> QED
    BY <1>3, <2>1, <2>2, <2>3, <2>4, <2>5, <2>6, <2>7 DEF dispatchNotifications
<1> QED
  BY <1>2, <1>3 DEF Next

\* Whatever retries, summaries, lost answers, deaths and changes of the mode lie between
\* them, two pushes that one device has confirmed are an interval of some mode apart.
THEOREM SpacingAlways == Spec => Spacing
<1>1. RowsInv /\ RowsInv' /\ SpacingInv /\ [Next]_vars => SpacingInv'
  BY SpacingStep
<1>2. RowsInv /\ RowsInv' /\ SpacingInv /\ [Next]_vars =>
        [\A e \in Endpoint : lastPush[e] # None /\ lastPush'[e] # lastPush[e] =>
            \E m \in Mode : lastPush'[e] - lastPush[e] >= Interval[m]]_vars
  BY SpacingStep DEF Spaced
<1> QED
  BY RowsInit, RowsStep, SpacingInit, <1>1, <1>2, PTL DEF Spec, Spacing

-----------------------------------------------------------------------------
(* No notice lives into quiet hours while the settings stand still *)

\* Whoever holds a notice until u, from now on, holds it at no quiet minute.
ClearUntil(u) == \A t \in now..(u - 1) : ~(quietOn /\ QuietAt(t))

\* The owner leaves the notification settings as they are.
SettingsStand == "settings" \notin Churn

\* The expiry of an open batch was cut at the start of quiet hours when the batch was
\* prepared or summed up, and nothing but time has passed since.
ClearInv == \A b \in Open : ClearUntil(batch[b].expires)

\* Minutes of the same day have the clock of their distance from its midnight.
LEMMA ClockOf ==
    ASSUME NEW q \in Nat, NEW x \in 0..(Day - 1)
    PROVE  (Day * q + x) % Day = x
BY TimeAssumption, SMTT(20)

LEMMA DayOf ==
    ASSUME NEW t \in Nat
    PROVE  t % Day \in 0..(Day - 1) /\ \E q \in Nat : t = Day * q + (t % Day)
<1>1. t = Day * (t \div Day) + (t % Day) /\ t \div Day \in Nat
  BY TimeAssumption, SMTT(20)
<1>2. t % Day \in 0..(Day - 1)
  BY TimeAssumption
<1> QED
  BY <1>1, <1>2

\* From a minute that is not quiet to the next start of quiet hours none is quiet.
LEMMA NotYetQuiet ==
    ASSUME NEW p \in Nat, ~QuietAt(p), NEW t \in Nat, p <= t, t < QuietBoundary(p)
    PROVE  ~QuietAt(t)
<1> DEFINE clock == p % Day
<1>1. PICK q \in Nat : p = Day * q + clock
  BY DayOf
<1>2. clock \in 0..(Day - 1) /\ Day * q \in Nat
  BY DayOf, TimeAssumption, SMTT(20)
<1> DEFINE midnight == Day * q
             since == t - midnight
<1>3. since >= clock
  BY <1>1, <1>2
<1>4. CASE clock < QuietStart
  <2>1. QuietBoundary(p) = midnight + QuietStart
    BY <1>1, <1>2, <1>4, TimeAssumption DEF QuietBoundary
  <2>2. since \in 0..(Day - 1) /\ since < QuietStart
    BY <1>1, <1>2, <1>3, <2>1, TimeAssumption
  <2>3. t % Day = since
    BY <1>2, <2>2, ClockOf
  <2> HIDE DEF clock, since
  <2> QED
    BY <1>2, <1>3, <1>4, <2>2, <2>3, TimeAssumption DEF QuietAt, clock
<1>5. CASE clock >= QuietStart
  <2>1. QuietBoundary(p) = midnight + Day + QuietStart
    BY <1>1, <1>2, <1>5, TimeAssumption DEF QuietBoundary
  <2>2. QuietStart < QuietEnd /\ clock >= QuietEnd
    BY <1>2, <1>5, TimeAssumption DEF QuietAt
  <2>3. CASE since < Day
    <3>1. since \in 0..(Day - 1) /\ t = Day * q + since
      BY <1>2, <1>3, <2>3, TimeAssumption
    <3>2. t % Day = since
      BY <3>1, ClockOf
    <3> QED
      BY <1>2, <1>3, <2>2, <3>1, <3>2, TimeAssumption DEF QuietAt
  <2>4. CASE since >= Day
    <3>1. since - Day \in 0..(Day - 1) /\ since - Day < QuietStart
      BY <1>1, <1>2, <2>1, <2>4, TimeAssumption
    <3>2. t = Day * (q + 1) + (since - Day)
      BY <1>2, <3>1, TimeAssumption, SMTT(20)
    <3>3. t % Day = since - Day
      BY <3>1, <3>2, ClockOf
    <3> QED
      BY <2>2, <3>1, <3>3, TimeAssumption DEF QuietAt
  <2> QED
    BY <1>2, <2>3, <2>4, TimeAssumption
<1> QED
  BY <1>2, <1>4, <1>5, TimeAssumption

\* What notificationExpiry promises of a minute in which a batch may be prepared.
LEMMA ExpiryClear ==
    ASSUME TypeOK, ~notificationQuiet
    PROVE  ClearUntil(notificationExpiry)
<1> SUFFICES ASSUME quietOn, NEW t \in now..(notificationExpiry - 1) PROVE ~QuietAt(t)
  BY DEF ClearUntil
<1>1. now \in Nat /\ now % Day \in 0..(Day - 1) /\ ~QuietAt(now)
  BY DayOf DEF TypeOK, notificationQuiet
<1>2. QuietBoundary(now) \in Int
  BY <1>1, TimeAssumption DEF QuietBoundary
<1>3. notificationExpiry \in Int /\ notificationExpiry <= QuietBoundary(now)
  BY <1>1, <1>2, TimeAssumption DEF notificationExpiry
<1>4. t \in Nat /\ now <= t /\ t < QuietBoundary(now)
  BY <1>1, <1>2, <1>3
<1> QED
  BY <1>1, <1>4, NotYetQuiet

\* A step that turns back no clock, keeps the quiet hours and gives an open batch its
\* old expiry or a new one.
LEMMA ClearKept ==
    ASSUME RowsInv, ClearInv, quietOn' = quietOn, now' \in Nat, now <= now',
           \A b \in Open' : \/ b \in Open /\ batch'[b].expires = batch[b].expires
                            \/ /\ now' = now /\ ~notificationQuiet
                               /\ batch'[b].expires = notificationExpiry
    PROVE  ClearInv'
<1>1. TypeOK
  BY DEF RowsInv
<1>2. ASSUME NEW b \in Open' PROVE ClearUntil(batch[b].expires)'
  <2>1. CASE b \in Open /\ batch'[b].expires = batch[b].expires
    <3>1. batch[b].expires \in Nat
      BY <1>1, <2>1, RowFacts DEF Batch, Open
    <3>2. ClearUntil(batch[b].expires)
      BY <2>1 DEF ClearInv
    <3> QED
      BY <1>1, <2>1, <3>1, <3>2 DEF ClearUntil, QuietAt, TypeOK
  <2>2. CASE now' = now /\ ~notificationQuiet /\ batch'[b].expires = notificationExpiry
    <3>1. ClearUntil(notificationExpiry)
      BY <1>1, <2>2, ExpiryClear
    <3> QED
      BY <2>2, <3>1 DEF ClearUntil, QuietAt
  <2> QED
    BY <1>2, <2>1, <2>2
<1> QED
  BY <1>2 DEF ClearInv

LEMMA ClearInit == Init => ClearInv
<1> SUFFICES ASSUME Init PROVE ClearInv
  OBVIOUS
<1>1. Open = {}
  BY DEF Init, Open, Rows
<1> QED
  BY <1>1 DEF ClearInv

\* Of the rows of batch only the one a worker has in hand changes.
LEMMA OthersStay ==
    ASSUME TypeOK, NEW b \in BatchId, NEW row \in Batch, batch' = [batch EXCEPT ![b] = row],
           row.expires = batch[b].expires, b \in Open
    PROVE  \A c \in Open' : c \in Open /\ batch'[c].expires = batch[c].expires
BY RowsAreRows DEF TypeOK, Table, Open, Rows

LEMMA ClearStep ==
    ASSUME SettingsStand, RowsInv, RowsInv', ClearInv, [Next]_vars
    PROVE  ClearInv'
<1>1. /\ TypeOK /\ TypeOK'
      /\ now \in Nat /\ now' \in Nat
  <2>1. TypeOK /\ TypeOK'
    BY DEF RowsInv
  <2> QED
    BY <2>1 DEF TypeOK
<1>2. CASE UNCHANGED vars \/ Environment
  <2>1. UNCHANGED <<batch, quietOn>> /\ now <= now'
    BY <1>1, <1>2 DEF vars, envVars, dbVars, historyVars, Environment, queueNotification,
       ObjectChanges, DevicesChange, SaveSettings, Tick, SettingsStand
  <2>2. Open' = Open
    BY <2>1 DEF Open, Rows
  <2> QED
    BY <1>1, <2>1, <2>2, ClearKept
<1>3. ASSUME NEW w \in Worker, dispatchNotifications(w) PROVE ClearInv'
  <2>1. UNCHANGED <<now, quietOn>>
    BY <1>3 DEF dispatchNotifications, PreparePostponed, PrepareNothing, PrepareBatch,
       PrepareSummary, DeliverMoot, DeliverWithoutTransport, DeliverBegin, Send,
       DeliverCommit, DeliverAbort, envVars
  <2>2. ASSUME \A b \in Open' : \/ b \in Open /\ batch'[b].expires = batch[b].expires
                                \/ ~notificationQuiet /\ batch'[b].expires = notificationExpiry
        PROVE  ClearInv'
    BY <1>1, <2>1, <2>2, ClearKept
  <2>3. CASE PreparePostponed(w) \/ PrepareNothing(w)
    <3>1. batch' = RestrictTo(batch, Kept)
      BY <2>3 DEF PreparePostponed, PrepareNothing
    <3> QED
      BY <1>1, <2>2, <3>1, KeptRows DEF Open
  <2>4. CASE PrepareBatch(w) \/ PrepareSummary(w)
    <3>1. ~notificationQuiet
      BY <2>4 DEF PrepareBatch, PrepareSummary, MayPrepare
    <3>2. PICK b \in BatchId, row \in Batch :
            /\ batch' = [RestrictTo(batch, Kept) EXCEPT ![b] = row]
            /\ row.expires = notificationExpiry
      <4>1. CASE PrepareBatch(w)
        <5>1. serial + 1 \in BatchId
          BY <4>1, TakeChosenTypes, <1>1 DEF PrepareBatch
        <5>2. NewBatch \in Batch
          BY <1>1, <4>1, NewBatchType, TakeChosenTypes DEF PrepareBatch
        <5>3. NewBatch.expires = notificationExpiry
          BY DEF NewBatch
        <5> QED
          BY <4>1, <5>1, <5>2, <5>3 DEF PrepareBatch
      <4>2. CASE PrepareSummary(w)
        <5>1. PICK active \in Open :
                batch' = [RestrictTo(batch, Kept) EXCEPT ![active] = Summary(@)]
          BY <4>2 DEF PrepareSummary
        <5>2. active \in BatchId /\ batch[active] \in Batch /\ active \in Kept
          BY <1>1, <5>1, RowFacts DEF Open, Kept
        <5>3. RestrictTo(batch, Kept)[active] = batch[active]
          BY <1>1, <5>2, RestrictTable DEF RestrictTo, TypeOK, Table
        <5>4. Summary(batch[active]) \in Batch
          BY <1>1, <4>2, <5>2, SummaryType, TakeChosenTypes DEF PrepareSummary
        <5>5. Summary(batch[active]).expires = notificationExpiry
          BY DEF Summary
        <5> QED
          BY <5>1, <5>2, <5>3, <5>4, <5>5
      <4> QED
        BY <2>4, <4>1, <4>2
    <3>3. ASSUME NEW c \in Open'
          PROVE  \/ c \in Open /\ batch'[c].expires = batch[c].expires
                 \/ batch'[c].expires = notificationExpiry
      <4>1. CASE c = b
        BY <1>1, <3>2, <4>1, KeptRows DEF Table
      <4>2. CASE c # b
        <5>1. c \in BatchId /\ batch'[c] = RestrictTo(batch, Kept)[c]
          BY <1>1, <3>2, <3>3, <4>2, KeptRows DEF Table, Open, Rows
        <5>2. c \in Rows(RestrictTo(batch, Kept)) /\ batch'[c].completed = None
          BY <1>1, <3>3, <5>1, KeptRows DEF Table, Open, Rows
        <5> QED
          BY <1>1, <5>1, <5>2, KeptRows DEF Open
      <4> QED
        BY <4>1, <4>2
    <3> QED
      BY <2>2, <3>1, <3>3
  <2>5. CASE DeliverMoot(w) \/ DeliverWithoutTransport(w)
    <3>1. PICK b \in BatchId :
            /\ Due(b)
            /\ \/ batch' = [batch EXCEPT ![b] = [Pruned(b) EXCEPT !.completed = now]]
               \/ batch' = [batch EXCEPT ![b] = Pruned(b)]
      BY <2>5 DEF DeliverMoot, DeliverWithoutTransport
    <3>2. b \in Rows(batch) /\ b \in Open
      BY <3>1 DEF Due, Open
    <3>3. Pruned(b) \in Batch /\ Pruned(b).expires = batch[b].expires
      BY <1>1, <3>2, PrunedType, RowFacts DEF Pruned, Batch
    <3>4. /\ [Pruned(b) EXCEPT !.completed = now] \in Batch
          /\ [Pruned(b) EXCEPT !.completed = now].expires = batch[b].expires
      BY <1>1, <3>3 DEF Batch
    <3> QED
      BY <1>1, <2>2, <3>1, <3>2, <3>3, <3>4, OthersStay
  <2>6. CASE DeliverBegin(w) \/ (\E e \in Endpoint : Send(w, e)) \/ DeliverAbort(w)
    <3>1. batch' = batch
      BY <2>6 DEF DeliverBegin, Send, DeliverAbort, dbVars
    <3> QED
      BY <2>2, <3>1 DEF Open, Rows
  <2>7. CASE DeliverCommit(w)
    <3> DEFINE t == tx[w] b == tx[w].batch
    <3>1. t # NoRow /\ batch' = [batch EXCEPT ![b] = Attempted(t)]
      BY <2>7 DEF DeliverCommit
    <3>2. t \in OpenTx /\ b \in Open /\ b \in Rows(batch)
      BY <1>1, <3>1, RowFacts DEF RowsInv, OneOpenBatch
    <3>3. Attempted(t) \in Batch
      BY <1>1, <3>1, <3>2, AttemptedType DEF RowsInv, TxOwnsRows
    <3>4. b \in BatchId /\ Attempted(t).expires = batch[b].expires
      BY <1>1, <3>2, RowFacts DEF Attempted, Batch
    <3> QED
      BY <1>1, <2>2, <3>1, <3>2, <3>3, <3>4, OthersStay
  <2> QED
    BY <1>3, <2>3, <2>4, <2>5, <2>6, <2>7 DEF dispatchNotifications
<1> QED
  BY <1>2, <1>3 DEF Next

\* A notice is handed over with the expiry of the open batch of its attempt.
LEMMA ClearHanded ==
    ASSUME RowsInv, ClearInv, [Next]_vars, NEW n \in sent' \ sent
    PROVE  ClearUntil(n.expires)
<1>1. PICK w \in Worker, e \in Endpoint : Send(w, e)
  BY DEF Next, vars, historyVars, Environment, queueNotification, ObjectChanges,
     DevicesChange, SaveSettings, Tick, dispatchNotifications, PreparePostponed,
     PrepareNothing, PrepareBatch, PrepareSummary, DeliverMoot, DeliverWithoutTransport,
     DeliverBegin, DeliverCommit, DeliverAbort
<1>2. n.expires = batch[tx[w].batch].expires /\ tx[w].batch \in Open
  BY <1>1 DEF Send, NoticeOf, RowsInv, OneOpenBatch
<1> QED
  BY <1>2 DEF ClearInv

\* Quiet hours have a fixed beginning and end, the owner switches them neither on nor
\* off: then no notice that the provider takes lives into them, however long the batch
\* has been retried or summed up (notification_policy.go:67-82).
THEOREM QuietAtProviderAlways == ASSUME SettingsStand PROVE Spec => QuietAtProvider
<1>1. RowsInv /\ RowsInv' /\ ClearInv /\ [Next]_vars => ClearInv'
  BY ClearStep
<1>2. RowsInv /\ ClearInv /\ [Next]_vars =>
        [\A n \in sent' \ sent : \A t \in now..(n.expires - 1) : ~(quietOn /\ QuietAt(t))]_vars
  BY ClearHanded DEF ClearUntil
<1> QED
  BY RowsInit, RowsStep, ClearInit, <1>1, <1>2, PTL DEF Spec, QuietAtProvider

-----------------------------------------------------------------------------
(* NotificationDispatch implements AlertOutbox *)

Outgoing == UNION {InFlight(b) : b \in Open}

\* A batch that names its object carries nothing else, an attempt calls only devices it
\* found in the transport, and what was counted is finite.
OutboxInv ==
    /\ \A b \in Open : batch[b].kind = Sync \/ Rows(batch[b].items) \subseteq {batch[b].object}
    /\ IsFiniteSet(receipts)
    /\ \A w \in Worker : tx[w] # NoRow =>
          IsFiniteSet(Took(tx[w])) /\ tx[w].left \union Took(tx[w]) \subseteq tx[w].available

LEMMA OutgoingIs ==
    /\ Open = {} => Outgoing = {}
    /\ \A b : Open = {b} => Outgoing = InFlight(b)
    /\ Open' = {} => Outgoing' = {}
    /\ \A b : Open' = {b} => Outgoing' = InFlight(b)'
BY DEF Outgoing

\* The steps of AlertOutbox in terms of the rows.
LEMMA Judged == Worthless' \in SUBSET Object
BY DEF Worthless

LEMMA Reconsiders ==
    ASSUME Rows(queue)' = Rows(queue), Outgoing' = Outgoing, receipts' = receipts
    PROVE  Outbox!Next
BY Judged DEF Outgoing, Outbox!Next, Outbox!Reconsider, Outbox!Judge

LEMMA Raises ==
    ASSUME NEW o \in Object, Rows(queue)' = Rows(queue) \union {o}, Outgoing' = Outgoing,
           receipts' = receipts
    PROVE  Outbox!Next
<1>1. Outbox!Raise(o)
  BY Judged DEF Outgoing, Outbox!Raise, Outbox!Judge
<1> QED
  BY <1>1 DEF Outbox!Next

LEMMA Gathers ==
    ASSUME NEW picked \in SUBSET Rows(queue), NEW dropped \in SUBSET Rows(queue),
           dropped \subseteq Worthless, Rows(queue)' = Rows(queue) \ (picked \union dropped),
           Outgoing' \in SUBSET Object, Outgoing \union picked \subseteq Outgoing',
           receipts' = receipts
    PROVE  Outbox!Next
<1>1. Outbox!Gather(picked, dropped)
  BY Judged DEF Outgoing, Outbox!Gather, Outbox!Judge
<1> QED
  BY <1>1 DEF Outbox!Next

LEMMA Prunes ==
    ASSUME NEW dropped \in SUBSET Outgoing, dropped \subseteq Worthless,
           Outgoing' = Outgoing \ dropped, Rows(queue)' = Rows(queue), receipts' = receipts
    PROVE  Outbox!Next
<1>1. Outbox!Prune(dropped)
  BY Judged DEF Outgoing, Outbox!Prune, Outbox!Judge
<1> QED
  BY <1>1 DEF Outbox!Next, Outgoing

LEMMA Announces ==
    ASSUME IsFiniteSet(receipts'), receipts \subseteq receipts', receipts' # receipts,
           Outgoing' \subseteq Outgoing, Rows(queue)' = Rows(queue)
    PROVE  Outbox!Next
<1>1. Cardinality(receipts') \in Nat /\ Cardinality(receipts) \in Nat
      /\ Cardinality(receipts) < Cardinality(receipts')
  BY FS_Subset, FS_CardinalityType
<1>2. Outbox!Announce
  BY <1>1, Judged DEF Outgoing, Outbox!Announce, Outbox!Judge
<1> QED
  BY <1>2 DEF Outbox!Next

LEMMA RowOf ==
    ASSUME NEW f, NEW k \in Rows(f)
    PROVE  k \in DOMAIN f /\ f[k] # NoRow
BY DEF Rows

LEMMA ItemsAreRows == NoRow \notin Item /\ NoRow \notin QueueRow
BY DEF NoRow, Item, QueueRow

\* What is left of the queue when a transaction has dropped and taken rows.
LEMMA QueueLeft ==
    ASSUME TypeOK, NEW S, queue' = RestrictTo(queue, S)
    PROVE  Rows(queue)' = Rows(queue) \intersect S
BY DEF RestrictTo, TypeOK, Table, Rows

LEMMA DroppedWorthless ==
    ASSUME TypeOK
    PROVE  Rows(queue) \ Eligible \subseteq Worthless
BY DEF Eligible, Worthless, TypeOK, Table, Rows

\* The deletion of old completed batches leaves the open ones as they are.
LEMMA KeptOpen ==
    ASSUME TypeOK
    PROVE  \A b \in Open : b \in Rows(RestrictTo(batch, Kept)) /\ RestrictTo(batch, Kept)[b] = batch[b]
BY RestrictTable DEF TypeOK, Kept, Open

LEMMA SameOutgoing ==
    ASSUME Open' = Open, \A b \in Open : batch'[b] = batch[b]
    PROVE  Outgoing' = Outgoing
<1>1. \A b \in Open : InFlight(b)' = InFlight(b)
  BY DEF InFlight, Pending, Rows
<1> QED
  BY <1>1 DEF Outgoing

-----------------------------------------------------------------------------
(* The steps *)

LEMMA OutboxInit == Init => OutboxInv /\ Outbox!Init
<1> SUFFICES ASSUME Init PROVE OutboxInv /\ Outbox!Init
  OBVIOUS
<1>1. Open = {} /\ (\A w \in Worker : tx[w] = NoRow) /\ receipts = {} /\ Rows(queue) = {}
  BY DEF Init, Open, Rows
<1>2. Outgoing = {}
  BY <1>1, OutgoingIs
<1>3. Worthless \in SUBSET Object
  BY DEF Worthless
<1> QED
  BY <1>1, <1>2, <1>3, FS_EmptySet DEF OutboxInv, Outbox!Init, Outgoing

LEMMA OutboxEnvironment ==
    ASSUME RowsInv, OutboxInv, UNCHANGED vars \/ Environment
    PROVE  OutboxInv' /\ Outbox!Next
<1>1. UNCHANGED <<batch, tx, receipts>>
  BY DEF vars, dbVars, historyVars, Environment, queueNotification, ObjectChanges, DevicesChange,
     SaveSettings, Tick
<1>2. Open' = Open /\ Outgoing' = Outgoing
  BY <1>1, SameOutgoing DEF Open, Rows
<1>3. OutboxInv'
  BY <1>1, <1>2 DEF OutboxInv, Rows, Took
<1>4. CASE Rows(queue)' = Rows(queue)
  BY <1>1, <1>2, <1>3, <1>4, Reconsiders
<1>5. CASE \E o \in Object, k \in Kind : queueNotification(o, k)
  <2>1. PICK o \in Object, k \in Kind : queue' = [queue EXCEPT ![o] = Coalesced(o, k)]
    BY <1>5 DEF queueNotification
  <2>2. Coalesced(o, k) # NoRow
    BY DEF Coalesced, NoRow
  <2>3. Rows(queue)' = Rows(queue) \union {o}
    BY <2>1, <2>2 DEF RowsInv, TypeOK, Table, Rows
  <2> QED
    BY <1>1, <1>2, <1>3, <2>3, Raises
<1> QED
  BY <1>4, <1>5 DEF vars, dbVars, Environment, ObjectChanges, DevicesChange, SaveSettings, Tick, Rows

LEMMA OutboxPrepare ==
    ASSUME RowsInv, OutboxInv, NEW w \in Worker, PreparePostponed(w) \/ PrepareNothing(w)
    PROVE  OutboxInv' /\ Outbox!Next
<1>1. UNCHANGED <<tx, receipts>> /\ batch' = RestrictTo(batch, Kept)
  BY DEF PreparePostponed, PrepareNothing, historyVars
<1>2. Open' = Open /\ \A b \in Open : batch'[b] = batch[b]
  BY <1>1, KeptOpen, KeptRows DEF Open, RowsInv
<1>3. Outgoing' = Outgoing
  BY <1>2, SameOutgoing
<1>4. OutboxInv'
  BY <1>1, <1>2 DEF OutboxInv, Took, Rows
<1>5. CASE PreparePostponed(w)
  <2>1. Rows(queue)' = Rows(queue)
    BY <1>5 DEF PreparePostponed, Rows
  <2> QED
    BY <1>1, <1>3, <1>4, <2>1, Reconsiders
<1>6. CASE PrepareNothing(w)
  <2>1. Rows(queue)' = Rows(queue) \intersect Eligible
    BY <1>6, QueueLeft DEF PrepareNothing, RowsInv
  <2>2. Outgoing \in SUBSET Object
    BY RowFacts DEF Outgoing, InFlight, Open, Rows, Batch, Table, RowsInv
  <2>3. Rows(queue)' = Rows(queue) \ ({} \union (Rows(queue) \ Eligible))
    BY <2>1
  <2>4. Rows(queue) \ Eligible \in SUBSET Rows(queue) /\ {} \in SUBSET Rows(queue)
        /\ Rows(queue) \ Eligible \subseteq Worthless
    BY DroppedWorthless DEF RowsInv
  <2> QED
    BY <1>1, <1>3, <1>4, <2>2, <2>3, <2>4, Gathers
<1> QED
  BY <1>5, <1>6

\* A new batch waits in full for the devices it is for.
LEMMA OutboxBatch ==
    ASSUME RowsInv, RowsInv', OutboxInv, NEW w \in Worker, PrepareBatch(w)
    PROVE  OutboxInv' /\ Outbox!Next
<1> DEFINE kept == RestrictTo(batch, Kept)
<1>1. /\ Open = {} /\ Chosen # {} /\ TakeChosen /\ UNCHANGED <<tx, receipts>>
      /\ batch' = [kept EXCEPT ![serial + 1] = NewBatch]
  BY DEF PrepareBatch, historyVars
<1>2. PICK b \in BatchId : b = serial + 1 /\ serial < MaxSerial
  BY <1>1, TakeChosenTypes DEF RowsInv
<1>3. batch'[b] = NewBatch /\ NewBatch \in Batch /\ NewBatch.completed = None
  BY <1>1, <1>2, KeptRows, NewBatchType DEF RowsInv, Table, NewBatch
<1>4. Open' = {b}
  <2>1. b \in Open'
    BY <1>1, <1>2, <1>3, RowsAreRows, KeptRows DEF Open, Rows, RowsInv, Table
  <2> QED
    BY <2>1 DEF RowsInv, OneOpenBatch
<1>5. Rows(NewBatch.items) = Chosen
  <2>1. \A o \in Chosen : o \in Object /\ ItemOf(o) # NoRow
    BY ChosenRows, ItemsAreRows DEF RowsInv
  <2>2. NewBatch.items = [o \in Object |-> IF o \in Chosen THEN ItemOf(o) ELSE NoRow]
    BY DEF NewBatch
  <2> QED
    BY <2>1, <2>2 DEF Rows
<1>6. Pending(b)' = Rows(batch'[b].deliveries)
  <2>1. /\ \A e \in Endpoint : NewBatch.deliveries[e] \in {NoRow, NewDelivery(e)}
        /\ DOMAIN NewBatch.deliveries = Endpoint
    BY DEF NewBatch
  <2>2. \A e : NewDelivery(e).accepted = None
    BY DEF NewDelivery
  <2>3. ASSUME NEW e \in Rows(NewBatch.deliveries)
        PROVE  NewBatch.deliveries[e].accepted = None
    <3>1. e \in Endpoint /\ NewBatch.deliveries[e] # NoRow
      BY <2>1, RowOf
    <3>2. NewBatch.deliveries[e] = NewDelivery(e)
      BY <2>1, <3>1
    <3> QED
      BY <2>2, <3>2
  <2>4. \A e \in Rows(batch'[b].deliveries) : batch'[b].deliveries[e].accepted = None
    BY <1>3, <2>3
  <2> QED
    BY <2>4 DEF Pending, Rows
<1>7. Outgoing = {} /\ Outgoing' = Chosen
  BY <1>1, <1>3, <1>4, <1>5, <1>6, OutgoingIs DEF InFlight
<1>8. NewBatch.kind = Sync \/ Rows(NewBatch.items) \subseteq {NewBatch.object}
  <2>1. CASE \E o \in Chosen : Chosen = {o} /\ now - queue[o].created < Fresh
    <3>1. Announced.object = CHOOSE o \in Chosen : TRUE
      BY <2>1 DEF Announced
    <3>2. Chosen = {Announced.object}
      BY <2>1, <3>1
    <3> QED
      BY <1>5, <3>2 DEF NewBatch
  <2>2. CASE ~\E o \in Chosen : Chosen = {o} /\ now - queue[o].created < Fresh
    BY <2>2 DEF Announced, NewBatch
  <2> QED
    BY <2>1, <2>2
<1>9. OutboxInv'
  BY <1>1, <1>3, <1>4, <1>8 DEF OutboxInv, Took
<1>10. Rows(queue)' = Rows(queue) \ (Chosen \union (Rows(queue) \ Eligible))
  <2>1. Rows(queue)' = Rows(queue) \intersect (Eligible \ Chosen)
    BY <1>1, QueueLeft DEF TakeChosen, RowsInv
  <2> QED
    BY <2>1
<1>11. Chosen \in SUBSET Rows(queue) /\ Chosen \in SUBSET Object
  BY ChosenRows DEF RowsInv
<1>12. Rows(queue) \ Eligible \in SUBSET Rows(queue) /\ Rows(queue) \ Eligible \subseteq Worthless
  BY DroppedWorthless DEF RowsInv
<1> QED
  BY <1>1, <1>7, <1>9, <1>10, <1>11, <1>12, Gathers

\* A summary waits in full for its devices if it tells something new, or if its batch did.
LEMMA OutboxSummary ==
    ASSUME RowsInv, RowsInv', OutboxInv, NEW w \in Worker, PrepareSummary(w)
    PROVE  OutboxInv' /\ Outbox!Next
<1> DEFINE kept == RestrictTo(batch, Kept)
<1>1. PICK b \in Open : batch' = [kept EXCEPT ![b] = Summary(kept[b])]
  BY DEF PrepareSummary
<1>2. TakeChosen /\ UNCHANGED <<tx, receipts>>
  BY DEF PrepareSummary, historyVars
<1>3. b \in BatchId /\ kept[b] = batch[b] /\ batch[b] \in Batch /\ batch[b].completed = None
  BY KeptOpen, RowFacts DEF Open, RowsInv
<1> DEFINE old == batch[b]
<1>4. batch'[b] = Summary(old) /\ Summary(old) \in Batch /\ Summary(old).completed = None
  BY <1>1, <1>2, <1>3, KeptRows, TakeChosenTypes, SummaryType DEF RowsInv, Table
<1>5. Open = {b} /\ Open' = {b}
  <2>1. b \in Open'
    BY <1>1, <1>3, <1>4, RowsAreRows, KeptRows DEF Open, Rows, RowsInv, Table
  <2> QED
    BY <2>1 DEF RowsInv, OneOpenBatch
<1>6. old.items \in Table(Object, Item) /\ old.deliveries \in Table(Endpoint, Delivery)
  BY <1>3 DEF Batch
<1>7. Rows(Summary(old).items) = Chosen \union Rows(old.items)
  <2>1. \A o \in Chosen : o \in Object /\ ItemOf(o) # NoRow
    BY ChosenRows, ItemsAreRows DEF RowsInv
  <2>2. Summary(old).items = [o \in Object |-> IF o \in Chosen THEN ItemOf(o) ELSE old.items[o]]
    BY DEF Summary
  <2> QED
    BY <1>6, <2>1, <2>2 DEF Rows, Table
<1>8. ASSUME Chosen # {} \/ Rows(old.deliveries) = Pending(b)
      PROVE  InFlight(b)' = Chosen \union Rows(old.items)
  <2>1. Summary(old).deliveries = Renewed(old.deliveries)
    BY DEF Summary
  <2>2. \A e \in Endpoint : Renewed(old.deliveries)[e] \in {NoRow, NewDelivery(e)}
    BY <1>8 DEF Renewed, Pending
  <2>3. DOMAIN Renewed(old.deliveries) = Endpoint /\ \A e : NewDelivery(e).accepted = None
    BY DEF Renewed, NewDelivery
  <2>4. Pending(b)' = Rows(batch'[b].deliveries)
    BY <1>4, <2>1, <2>2, <2>3 DEF Pending, Rows
  <2> QED
    BY <1>4, <1>7, <2>4 DEF InFlight
<1>9. Outgoing \union Chosen \subseteq Outgoing' /\ Outgoing' \in SUBSET Object
  <2>1. Outgoing = InFlight(b) /\ Outgoing' = InFlight(b)'
    BY <1>5, OutgoingIs
  <2>2. InFlight(b) \union Chosen \subseteq InFlight(b)'
    <3>1. CASE Chosen # {} \/ Rows(old.deliveries) = Pending(b)
      BY <1>8, <3>1 DEF InFlight
    <3>2. CASE Chosen = {} /\ Rows(old.deliveries) # Pending(b)
      BY <3>2 DEF InFlight
    <3> QED
      BY <3>1, <3>2
  <2>3. InFlight(b)' \subseteq Object
    BY <1>4 DEF InFlight, Batch, Table, Rows
  <2> QED
    BY <2>1, <2>2, <2>3
<1>10. OutboxInv'
  <2>1. Summary(old).kind = Sync
    BY DEF Summary
  <2> QED
    BY <1>2, <1>4, <1>5, <2>1 DEF OutboxInv, Took
<1>11. Rows(queue)' = Rows(queue) \ (Chosen \union (Rows(queue) \ Eligible))
  <2>1. Rows(queue)' = Rows(queue) \intersect (Eligible \ Chosen)
    BY <1>2, QueueLeft DEF TakeChosen, RowsInv
  <2> QED
    BY <2>1
<1>12. Chosen \in SUBSET Rows(queue)
  BY ChosenRows DEF RowsInv
<1>13. Rows(queue) \ Eligible \in SUBSET Rows(queue) /\ Rows(queue) \ Eligible \subseteq Worthless
  BY DroppedWorthless DEF RowsInv
<1> QED
  BY <1>2, <1>9, <1>10, <1>11, <1>12, <1>13, Gathers

\* The check of the items drops what is not worth a push, and with the last one the batch.
LEMMA OutboxDeliverRow ==
    ASSUME RowsInv, RowsInv', OutboxInv, NEW w \in Worker, DeliverMoot(w) \/ DeliverWithoutTransport(w)
    PROVE  OutboxInv' /\ Outbox!Next
<1>1. UNCHANGED <<tx, receipts, queue>>
  BY DEF DeliverMoot, DeliverWithoutTransport, historyVars
<1>2. PICK b \in BatchId :
        /\ Due(b)
        /\ \/ Moot(b) /\ batch' = [batch EXCEPT ![b] = [Pruned(b) EXCEPT !.completed = now]]
           \/ batch' = [batch EXCEPT ![b] = Pruned(b)]
  BY DEF DeliverMoot, DeliverWithoutTransport
<1>3. /\ b \in Open /\ Open = {b} /\ b \in Rows(batch) /\ batch[b] \in Batch
      /\ batch \in Table(BatchId, Batch) /\ batch[b].completed = None
  BY <1>2, RowFacts DEF Due, Open, RowsInv, OneOpenBatch, TypeOK
<1>4. /\ Pruned(b) \in Batch /\ Pruned(b).completed = None
      /\ Pruned(b).deliveries = batch[b].deliveries
      /\ Pruned(b).kind = batch[b].kind /\ Pruned(b).object = batch[b].object
      /\ Pruned(b).items = RestrictTo(batch[b].items, Current(b))
  BY <1>3, PrunedType DEF RowsInv, Pruned, Batch
<1>5. batch[b].items \in Table(Object, Item) /\ Current(b) \subseteq Rows(batch[b].items)
  BY <1>3 DEF Batch, Current
<1>6. Rows(Pruned(b).items) = Current(b)
  BY <1>4, <1>5, RestrictTable
<1>7. Rows(batch[b].items) \ Current(b) \subseteq Worthless
  BY <1>3, <1>5 DEF Worthless, Rows, Table
<1>8. Rows(queue)' = Rows(queue)
  BY <1>1 DEF Rows
<1>9. CASE Moot(b) /\ batch' = [batch EXCEPT ![b] = [Pruned(b) EXCEPT !.completed = now]]
  <2>1. batch'[b].completed = now /\ now # None
    BY <1>3, <1>4, <1>9 DEF Table, Batch, RowsInv, TypeOK, None
  <2>2. Open' = {}
    <3>1. \A c \in Open' : c = b
      BY <1>3, <1>9 DEF Open, Rows, Table
    <3>2. b \notin Open'
      BY <2>1 DEF Open
    <3> QED
      BY <3>1, <3>2
  <2>3. Current(b) = {}
    <3>1. CASE batch[b].kind # Sync /\ batch[b].object \notin relevant
      BY <1>3, <3>1 DEF OutboxInv, Current, Admitted
    <3> QED
      BY <1>9, <3>1 DEF Moot
  <2>4. Outgoing' = Outgoing \ Outgoing /\ Outgoing \subseteq Worthless
    BY <1>3, <1>7, <2>2, <2>3, OutgoingIs DEF InFlight
  <2>5. OutboxInv'
    BY <1>1, <2>2 DEF OutboxInv, Took
  <2> QED
    BY <1>1, <1>8, <2>4, <2>5, Prunes
<1>10. CASE batch' = [batch EXCEPT ![b] = Pruned(b)]
  <2>1. batch'[b] = Pruned(b)
    BY <1>3, <1>10 DEF Table
  <2>2. Open' = {b}
    <3>1. b \in Open'
      BY <1>3, <1>4, <1>10, <2>1, RowsAreRows DEF Open, Rows, Table
    <3> QED
      BY <3>1 DEF RowsInv, OneOpenBatch
  <2>3. Pending(b)' = Pending(b) /\ Rows(batch'[b].deliveries) = Rows(batch[b].deliveries)
    BY <1>4, <2>1 DEF Pending, Rows
  <2>4. Outgoing = InFlight(b) /\ Outgoing' = InFlight(b)'
    BY <1>3, <2>2, OutgoingIs
  <2>5. InFlight(b)' = InFlight(b) \ (InFlight(b) \ Current(b)) /\ InFlight(b) \subseteq Rows(batch[b].items)
    BY <1>5, <1>6, <2>1, <2>3 DEF InFlight
  <2>6. OutboxInv'
    BY <1>1, <1>3, <1>4, <1>5, <1>6, <2>1, <2>2 DEF OutboxInv, Took
  <2>7. Outgoing \ Current(b) \in SUBSET Outgoing /\ Outgoing \ Current(b) \subseteq Worthless
    BY <1>7, <2>4, <2>5
  <2>8. Outgoing' = Outgoing \ (Outgoing \ Current(b))
    BY <2>4, <2>5
  <2> QED
    BY <1>1, <1>8, <2>6, <2>7, <2>8, Prunes
<1> QED
  BY <1>2, <1>9, <1>10

\* An attempt counts answers one by one; the outbox hears of them when it commits.
LEMMA OutboxAttempt ==
    ASSUME RowsInv, OutboxInv, NEW w \in Worker,
           DeliverBegin(w) \/ (\E e \in Endpoint : Send(w, e)) \/ DeliverAbort(w)
    PROVE  OutboxInv' /\ Outbox!Next
<1>1. UNCHANGED <<batch, queue, receipts>>
  BY DEF DeliverBegin, Send, DeliverAbort, dbVars, historyVars
<1>2. Open' = Open /\ Outgoing' = Outgoing /\ Rows(queue)' = Rows(queue)
  BY <1>1, SameOutgoing DEF Open, Rows
<1>3. ASSUME NEW v \in Worker, tx'[v] # NoRow
      PROVE  IsFiniteSet(Took(tx[v])') /\ tx'[v].left \union Took(tx[v])' \subseteq tx'[v].available
  <2>1. CASE DeliverBegin(w)
    <3>1. PICK b \in BatchId : Due(b) /\ tx' = [tx EXCEPT ![w] = OpenAttempt(b)] /\ LockFree
      BY <2>1 DEF DeliverBegin, MayDeliver
    <3>2. tx'[v] = OpenAttempt(b)
      BY <1>3, <3>1 DEF LockFree, RowsInv, TypeOK, Table
    <3>3. Took(tx[v])' = Took(OpenAttempt(b))
      BY <3>2 DEF Took
    <3>4. Took(OpenAttempt(b)) = {} /\ OpenAttempt(b).left \subseteq OpenAttempt(b).available
      BY <3>1, OpenAttemptType DEF Due, Open, RowsInv, OpenAttempt
    <3> QED
      BY <3>2, <3>3, <3>4, FS_EmptySet
  <2>2. ASSUME NEW e \in Endpoint, Send(w, e)
        PROVE  /\ IsFiniteSet(Took(tx[v])')
               /\ tx'[v].left \union Took(tx[v])' \subseteq tx'[v].available
    <3>1. PICK answered \in BOOLEAN : tx' = [tx EXCEPT ![w] = Called(tx[w], e, answered)]
      BY <2>2 DEF Send
    <3>2. tx[w] # NoRow /\ tx[w] \in OpenTx /\ e \in tx[w].left
      BY <2>2, RowFacts DEF Send, RowsInv
    <3>3. tx[v] # NoRow /\ (v = w \/ tx'[v] = tx[v])
      BY <1>3, <3>1, <3>2 DEF RowsInv, TypeOK, Table
    <3>4. /\ IsFiniteSet(Took(tx[w]) \union {e})
          /\ IsFiniteSet(Took(tx[v])) /\ tx[v].left \union Took(tx[v]) \subseteq tx[v].available
      BY <3>2, <3>3, FS_AddElement DEF OutboxInv
    <3>5. CASE v = w
      <4> DEFINE c == Called(tx[w], e, answered)
      <4>1. tx'[v] = c /\ Took(tx[v])' = Took(c)
        BY <3>1, <3>5 DEF Took, RowsInv, TypeOK, Table
      <4>2. c.left \subseteq tx[w].left /\ Took(c) \subseteq Took(tx[w]) \union {e}
        BY <3>2, CalledType DEF RowsInv
      <4>3. c.available = tx[w].available
        BY <3>2 DEF Called, OpenTx
      <4>4. IsFiniteSet(Took(c))
        BY <3>4, <4>2, FS_Subset
      <4> QED
        BY <3>2, <3>4, <3>5, <4>1, <4>2, <4>3, <4>4
    <3>6. CASE tx'[v] = tx[v]
      BY <3>4, <3>6 DEF Took
    <3> QED
      BY <3>3, <3>5, <3>6
  <2>3. CASE DeliverAbort(w)
    <3>1. tx'[v] = tx[v] /\ tx[v] # NoRow
      BY <1>3, <2>3 DEF DeliverAbort, RowsInv, TypeOK, Table
    <3> QED
      BY <3>1 DEF OutboxInv, Took
  <2> QED
    BY <2>1, <2>2, <2>3
<1>4. OutboxInv'
  BY <1>1, <1>2, <1>3 DEF OutboxInv
<1> QED
  BY <1>1, <1>2, <1>4, Reconsiders

\* The commit of an attempt: with an answer something new was accepted; without one only
\* what was worthless when the attempt began is forgotten.
LEMMA OutboxCommit ==
    ASSUME RowsInv, RowsInv', IdsInv, OutboxInv, NEW w \in Worker, DeliverCommit(w)
    PROVE  OutboxInv' /\ Outbox!Next
<1>1. PICK t : t = tx[w]
  OBVIOUS
<1>2. PICK b : b = t.batch
  OBVIOUS
<1> DEFINE old == batch[b] ids == {batch[b].deliveries[e].id : e \in Took(t)}
<1>3. /\ t # NoRow /\ tx' = [tx EXCEPT ![w] = NoRow]
      /\ batch' = [batch EXCEPT ![b] = Attempted(t)]
      /\ receipts' = receipts \union ids /\ queue' = queue
  BY <1>1, <1>2 DEF DeliverCommit
<1>4. /\ t \in OpenTx /\ b \in Open /\ Open = {b} /\ b \in Rows(batch) /\ Took(t) \subseteq Pending(b)
      /\ b \in BatchId /\ batch \in Table(BatchId, Batch) /\ old \in Batch
  <2>1. t \in OpenTx /\ b \in Open /\ Took(t) \subseteq Pending(b)
    BY <1>1, <1>2, <1>3, RowFacts DEF RowsInv, OneOpenBatch, TxOwnsRows
  <2>2. Open = {b}
    BY <2>1 DEF RowsInv, OneOpenBatch
  <2>3. b \in Rows(batch) /\ batch \in Table(BatchId, Batch)
    BY <2>1 DEF Open, RowsInv, TypeOK
  <2> QED
    BY <2>1, <2>2, <2>3, RowFacts DEF RowsInv
<1>5. /\ batch'[b] = Attempted(t) /\ Attempted(t) \in Batch /\ Attempted(t).deliveries = Settled(t)
      /\ Attempted(t).items = RestrictTo(old.items, t.items)
      /\ Attempted(t).kind = old.kind /\ Attempted(t).object = old.object
      /\ Attempted(t).completed = IF Finished(t) THEN t.start ELSE None
  BY <1>2, <1>3, <1>4, AttemptedType DEF RowsInv, Table, Attempted, Batch
<1>6. old.items \in Table(Object, Item) /\ old.deliveries \in Table(Endpoint, Delivery)
  BY <1>4 DEF Batch
<1>7. Rows(Attempted(t).items) = Rows(old.items) \intersect t.items
  BY <1>5, <1>6, RestrictTable
<1>8. \A v \in Worker : tx'[v] = NoRow
  BY <1>1, <1>3 DEF RowsInv, OneTx, TypeOK, Table
<1>9. Open' \subseteq {b}
  BY <1>3, <1>4 DEF Open, Rows, Table
<1>10. IsFiniteSet(receipts')
  <2>1. IsFiniteSet(Took(t)) /\ IsFiniteSet(receipts)
    BY <1>1, <1>3 DEF OutboxInv
  <2>2. IsFiniteSet(ids)
    <3> DEFINE f == [e \in Took(t) |-> batch[b].deliveries[e].id]
    <3>1. f \in Surjection(Took(t), ids)
      BY DEF Surjection
    <3> QED
      BY <2>1, <3>1, FS_Surjection
  <2> QED
    BY <1>3, <2>1, <2>2, FS_Union
<1>11. OutboxInv'
  BY <1>4, <1>5, <1>6, <1>7, <1>8, <1>9, <1>10 DEF OutboxInv
<1>12. Rows(queue)' = Rows(queue)
  BY <1>3 DEF Rows
<1>13. Outgoing = InFlight(b)
  BY <1>4, OutgoingIs
<1>14. CASE Took(t) # {}
  <2>1. PICK e : e \in Took(t)
    BY <1>14
  <2>2. old.deliveries[e].id \notin receipts
    BY <1>4, <2>1 DEF IdsInv, NoResend
  <2>3. receipts \subseteq receipts' /\ receipts' # receipts
    BY <1>3, <2>1, <2>2
  <2>4. e \in Rows(Settled(t)) /\ Settled(t)[e].accepted # None
    <3>1. e \in Endpoint /\ old.deliveries[e] \in Delivery /\ t.start \in Nat /\ t.took[e] # None
      BY <1>4, <2>1, RowFacts DEF OpenTx, RowsInv, Took
    <3>2. e \in t.available
      BY <1>1, <1>3, <2>1 DEF OutboxInv
    <3>3. Settled(t)[e] = [old.deliveries[e] EXCEPT !.accepted = t.start]
      BY <1>2, <3>1, <3>2 DEF Settled
    <3>4. Settled(t)[e] \in Delivery /\ Settled(t)[e].accepted = t.start
      BY <3>1, <3>3 DEF Delivery
    <3>5. DOMAIN Settled(t) = Endpoint
      BY DEF Settled
    <3> QED
      BY <3>1, <3>4, <3>5, RowsAreRows DEF Rows, None
  <2>5. InFlight(b)' = {}
    BY <1>5, <2>4 DEF InFlight, Pending
  <2>6. Outgoing' = {}
    BY <1>9, <2>5, OutgoingIs
  <2> QED
    BY <1>10, <1>11, <1>12, <2>3, <2>6, Announces
<1>15. CASE Took(t) = {}
  <2>1. receipts' = receipts
    BY <1>3, <1>15
  <2>2. \A e \in Endpoint : Settled(t)[e] = IF e \in Pending(b) \ t.available THEN NoRow ELSE old.deliveries[e]
    BY <1>2, <1>15 DEF Settled, Took
  <2>3. DOMAIN Settled(t) = Endpoint /\ DOMAIN old.deliveries = Endpoint
    BY <1>6 DEF Settled, Table
  <2>4. InFlight(b)' = IF \A e \in Rows(Settled(t)) : Settled(t)[e].accepted = None
                       THEN Rows(old.items) \intersect t.items ELSE {}
    <3>1. Rows(batch'[b].deliveries) = Rows(Settled(t))
          /\ Pending(b)' = {e \in Rows(Settled(t)) : Settled(t)[e].accepted = None}
      BY <1>5 DEF Pending, Rows
    <3> QED
      BY <1>5, <1>7, <3>1 DEF InFlight
  <2>5. InFlight(b) = IF \A e \in Rows(old.deliveries) : old.deliveries[e].accepted = None
                      THEN Rows(old.items) ELSE {}
    BY DEF InFlight, Pending
  <2>6. \A e \in Rows(old.deliveries) : old.deliveries[e].accepted # None =>
           e \in Rows(Settled(t)) /\ Settled(t)[e] = old.deliveries[e]
    BY <2>2, <2>3 DEF Rows, Pending
  <2>7. Outgoing' \subseteq Outgoing
    <3>1. Outgoing' = {} \/ Outgoing' = InFlight(b)'
      BY <1>9, OutgoingIs
    <3>2. InFlight(b)' \subseteq InFlight(b)
      BY <2>4, <2>5, <2>6
    <3> QED
      BY <1>13, <3>1, <3>2
  <2>8. ASSUME NEW o \in Outgoing, o \notin Worthless PROVE o \in Outgoing'
    <3>1. /\ \A e \in Rows(old.deliveries) : old.deliveries[e].accepted = None
          /\ o \in Rows(old.items) /\ o \in Object
      BY <1>6, <1>13, <2>5, <2>8 DEF Rows, Table
    <3>2. o \in t.items /\ ~Deserted(t)
      BY <1>1, <1>3, <2>8, <3>1 DEF Worthless
    <3>3. PICK e : e \in Pending(b) \intersect t.available
      BY <1>2, <3>2 DEF Deserted
    <3>4. e \in Endpoint /\ old.deliveries[e] # NoRow /\ old.deliveries[e].accepted = None
      BY <1>4, <3>3, RowFacts, RowsAreRows DEF RowsInv, Pending
    <3>5. e \in Rows(Settled(t)) /\ Settled(t)[e].accepted = None
      BY <2>2, <2>3, <3>3, <3>4 DEF Rows
    <3>6. batch'[b].completed = None
      BY <1>5, <3>5 DEF Finished
    <3>7. Open' = {b}
      BY <1>5, <1>4, <1>9, <3>6, RowsAreRows, <1>3 DEF Open, Rows, Table
    <3>8. \A x \in Rows(Settled(t)) : Settled(t)[x].accepted = None
      BY <2>2, <2>3, <3>1 DEF Rows
    <3> QED
      BY <2>4, <3>1, <3>2, <3>7, <3>8, OutgoingIs
  <2>9. /\ Outgoing \ Outgoing' \in SUBSET Outgoing /\ Outgoing \ Outgoing' \subseteq Worthless
        /\ Outgoing' = Outgoing \ (Outgoing \ Outgoing')
    BY <2>7, <2>8
  <2> QED
    BY <1>11, <1>12, <2>1, <2>9, Prunes
<1> QED
  BY <1>14, <1>15

LEMMA OutboxStep ==
    ASSUME RowsInv, RowsInv', IdsInv, OutboxInv, [Next]_vars
    PROVE  OutboxInv' /\ Outbox!Next
<1>1. CASE UNCHANGED vars \/ Environment
  BY <1>1, OutboxEnvironment
<1>2. ASSUME NEW w \in Worker, dispatchNotifications(w) PROVE OutboxInv' /\ Outbox!Next
  BY <1>2, OutboxPrepare, OutboxBatch, OutboxSummary, OutboxDeliverRow, OutboxAttempt,
     OutboxCommit DEF dispatchNotifications
<1> QED
  BY <1>1, <1>2 DEF Next

\* The dispatcher keeps the promise of the outbox: an alert is queued or on its way until
\* a device has accepted it, or it is not worth a push any more.
THEOREM AlertKeptAlways == Spec => AlertKept
<1>1. Init => Outbox!Init
  BY OutboxInit
<1>2. Init => OutboxInv
  BY OutboxInit
<1>3. RowsInv /\ RowsInv' /\ IdsInv /\ OutboxInv /\ [Next]_vars => OutboxInv'
  BY OutboxStep
<1>4. RowsInv /\ RowsInv' /\ IdsInv /\ OutboxInv /\ [Next]_vars => [Outbox!Next]_Outbox!outboxVars
  BY OutboxStep
<1> QED
  BY RowsInit, RowsStep, IdsInit, IdsStep, <1>1, <1>2, <1>3, <1>4, PTL
     DEF Spec, AlertKept, Outbox!Spec
=============================================================================
