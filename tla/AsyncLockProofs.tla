------------------------- MODULE AsyncLockProofs -------------------------
(***************************************************************************)
(* Theorems about AsyncLock, for every number of threads and requests.     *)
(***************************************************************************)
EXTENDS AsyncLock, FiniteSetTheorems, SequenceTheorems, TLAPS

----------------------------------------------------------------------------
(* The inductive invariant. *)

(* What the critical sections rely on: pend and held are the lists of the  *)
(* lock, status its mode, and q the request objects.                       *)
LockOK(q, pend, held, status) ==
  /\ pend \in Seq(Requests) /\ held \subseteq Requests
  /\ status \in {"unlock", "shared", "exclusive"}
  /\ \A i \in DOMAIN pend : q[pend[i]] # None /\ pend[i] \notin held
  /\ \A i, j \in DOMAIN pend : pend[i] = pend[j] => i = j
  /\ \A r \in held : q[r] # None
  /\ status = "unlock" <=> held = {}
  /\ \A r, s \in held : q[r].mode # "shared" /\ q[s].mode # "shared" => r = s

(* A request that is not queued yet is known to its creator alone, which   *)
(* queues it before it does anything else.                                 *)
EnqueueOK ==
  \A t \in Threads : \A i \in DOMAIN stack[t] : stack[t][i].op = "enqueue" =>
    /\ i = 1 /\ stack[t][i].req \in Requests
    /\ Live(stack[t][i].req) /\ req[stack[t][i].req].owner = t
    /\ stack[t][i].req \notin heldList /\ ~IsPending(stack[t][i].req)

(* A held request has at most one carrier: a frame, its work, its promise. *)
CarrierOps == {"deliver", "call", "callback", "complete"}
Carries(t, i) == stack[t][i].op \in CarrierOps

OneCarrier ==
  /\ queued \subseteq heldList /\ attached \subseteq heldList
  /\ queued \cap attached = {}
  /\ \A t \in Threads : \A i \in DOMAIN stack[t] : Carries(t, i) =>
       stack[t][i].req \in heldList \ (queued \cup attached)
  /\ \A t, u \in Threads : \A i \in DOMAIN stack[t], j \in DOMAIN stack[u] :
       Carries(t, i) /\ Carries(u, j) /\ stack[t][i].req = stack[u][j].req
       => t = u /\ i = j

IInv ==
  /\ TypeOK
  /\ LockOK(req, pendingList, heldList, lockStatus)
  /\ NobodyWaitsInVain
  /\ EnqueueOK
  /\ OneCarrier

----------------------------------------------------------------------------
(* Sequences. *)

(* What a thread has to do after it has begun something new, and after it  *)
(* is through with the top of its stack.                                   *)
LEMMA Pushing ==
  ASSUME NEW S, NEW fs \in Seq(S), NEW rest \in Seq(S)
  PROVE  /\ fs \o rest \in Seq(S)
         /\ \A i \in DOMAIN (fs \o rest) :
              \/ i \in DOMAIN fs /\ (fs \o rest)[i] = fs[i]
              \/ /\ i - Len(fs) \in DOMAIN rest
                 /\ i \notin DOMAIN fs
                 /\ (fs \o rest)[i] = rest[i - Len(fs)]
  BY ConcatProperties, LenProperties

(* ... and when its top has gone. *)
LEMMA Popping ==
  ASSUME NEW S, NEW s \in Seq(S), s # <<>>
  PROVE  /\ 1 \in DOMAIN s /\ Head(s) = s[1] /\ s[1] \in S
         /\ Tail(s) \in Seq(S)
         /\ \A i \in DOMAIN Tail(s) : i + 1 \in DOMAIN s /\ Tail(s)[i] = s[i + 1]
         /\ \A j \in DOMAIN s : j # 1 => \E i \in DOMAIN Tail(s) : Tail(s)[i] = s[j]
<1>1. /\ Len(s) \in Nat \ {0} /\ DOMAIN s = 1 .. Len(s)
      /\ Head(s) = s[1] /\ s[1] \in S
  BY HeadTailProperties, LenProperties, EmptySeq
<1>2. /\ Tail(s) \in Seq(S) /\ DOMAIN Tail(s) = 1 .. Len(s) - 1
      /\ \A i \in 1 .. Len(s) - 1 : Tail(s)[i] = s[i + 1]
  BY HeadTailProperties, LenProperties, EmptySeq
<1>3. ASSUME NEW j \in DOMAIN s, j # 1
      PROVE  \E i \in DOMAIN Tail(s) : Tail(s)[i] = s[j]
  <2>1. j - 1 \in 1 .. Len(s) - 1 /\ j - 1 + 1 = j
    BY <1>1, <1>3
  <2> QED BY <1>2, <2>1
<1> QED BY <1>1, <1>2, <1>3

(* A sequence without its i-th element. *)
Erase(s, i) == SubSeq(s, 1, i - 1) \o SubSeq(s, i + 1, Len(s))

(* An ordered list stays one, and loses just that element, when one is     *)
(* erased.                                                                 *)
LEMMA Erasing ==
  ASSUME NEW S, NEW s \in Seq(S), NEW i \in DOMAIN s,
         \A j, k \in DOMAIN s : s[j] = s[k] => j = k
  PROVE  /\ Erase(s, i) \in Seq(S)
         /\ \A j, k \in DOMAIN Erase(s, i) : Erase(s, i)[j] = Erase(s, i)[k] => j = k
         /\ \A j \in DOMAIN Erase(s, i) :
              Erase(s, i)[j] # s[i] /\ \E k \in DOMAIN s : Erase(s, i)[j] = s[k]
         /\ \A k \in DOMAIN s : k # i => \E j \in DOMAIN Erase(s, i) : Erase(s, i)[j] = s[k]
<1> DEFINE e == Erase(s, i)
           a == SubSeq(s, 1, i - 1)
           b == SubSeq(s, i + 1, Len(s))
<1>1. Len(s) \in Nat /\ DOMAIN s = 1 .. Len(s) /\ i \in 1 .. Len(s)
  BY LenProperties
<1>2. \A j \in 1 .. Len(s) : s[j] \in S
  BY ElementOfSeq
<1>3. /\ a \in Seq(S) /\ Len(a) = i - 1
      /\ \A j \in 1 .. i - 1 : a[j] = s[j]
  BY <1>1, <1>2, SubSeqProperties
<1>4. /\ b \in Seq(S) /\ Len(b) = Len(s) - i
      /\ \A j \in 1 .. Len(s) - i : b[j] = s[j + i]
  <2>1. \A j \in i + 1 .. Len(s) : s[j] \in S
    BY <1>1, <1>2
  <2>2. Len(s) - (i + 1) + 1 = Len(s) - i
    BY <1>1
  <2>3. \A j \in 1 .. Len(s) - i : i + 1 + j - 1 = j + i
    BY <1>1
  <2>4. IF i + 1 <= Len(s) THEN Len(s) - i = Len(s) - (i + 1) + 1 ELSE Len(s) - i = 0
    BY <1>1
  <2>5. i + 1 \in Int /\ Len(s) \in Int
    BY <1>1
  <2>6. /\ b \in Seq(S)
        /\ Len(b) = IF i + 1 <= Len(s) THEN Len(s) - (i + 1) + 1 ELSE 0
        /\ \A j \in 1 .. Len(s) - (i + 1) + 1 : b[j] = s[i + 1 + j - 1]
    BY <2>1, <2>5, SubSeqProperties
  <2> HIDE DEF b
  <2> QED BY <2>2, <2>3, <2>4, <2>6
<1>5. e = a \o b
  BY DEF Erase
<1> HIDE DEF a, b, e
<1>6. /\ e \in Seq(S) /\ Len(e) = Len(s) - 1
      /\ \A j \in 1 .. Len(s) - 1 : e[j] = IF j < i THEN s[j] ELSE s[j + 1]
  <2>1. /\ a \o b \in Seq(S) /\ Len(a \o b) = Len(a) + Len(b)
        /\ \A j \in 1 .. Len(a) + Len(b) :
             (a \o b)[j] = IF j <= Len(a) THEN a[j] ELSE b[j - Len(a)]
    <3>1. a \in Seq(S) /\ b \in Seq(S)
      BY <1>3, <1>4
    <3> QED BY <3>1, ConcatProperties
  <2>2. Len(a) + Len(b) = Len(s) - 1
    BY <1>1, <1>3, <1>4
  <2>3. ASSUME NEW j \in 1 .. Len(s) - 1
        PROVE  e[j] = IF j < i THEN s[j] ELSE s[j + 1]
    <3>1. CASE j < i
      <4>1. j \in 1 .. i - 1 /\ j <= Len(a)
        BY <1>1, <1>3, <3>1
      <4> QED BY <1>3, <1>5, <2>1, <2>2, <3>1, <4>1
    <3>2. CASE ~(j < i)
      <4>1. j - (i - 1) \in 1 .. Len(s) - i /\ ~(j <= Len(a)) /\ j - (i - 1) + i = j + 1
        BY <1>1, <1>3, <3>2
      <4>2. b[j - (i - 1)] = s[j + 1]
        BY <1>4, <4>1
      <4>3. e[j] = b[j - Len(a)]
        BY <1>5, <2>1, <2>2, <4>1
      <4> QED BY <1>3, <3>2, <4>2, <4>3
    <3> QED BY <3>1, <3>2
  <2> QED BY <1>5, <2>1, <2>2, <2>3
<1>7. DOMAIN e = 1 .. Len(s) - 1
  BY <1>6, LenProperties
<1> DEFINE From(j) == IF j < i THEN j ELSE j + 1
<1>8. ASSUME NEW j \in 1 .. Len(s) - 1
      PROVE  From(j) \in 1 .. Len(s) /\ From(j) # i /\ e[j] = s[From(j)]
  <2>1. e[j] = IF j < i THEN s[j] ELSE s[j + 1]
    BY <1>6
  <2>2. CASE j < i
    BY <1>1, <2>1, <2>2
  <2>3. CASE ~(j < i)
    <3>1. From(j) = j + 1 /\ e[j] = s[j + 1]
      BY <2>1, <2>3
    <3>2. j + 1 \in 1 .. Len(s) /\ j + 1 # i
      BY <1>1, <2>3
    <3> QED BY <3>1, <3>2
  <2> QED BY <2>2, <2>3
<1>9. \A j, k \in 1 .. Len(s) - 1 : From(j) = From(k) => j = k
  BY <1>1
<1> HIDE DEF From
<1>10. ASSUME NEW j \in DOMAIN e, NEW k \in DOMAIN e, e[j] = e[k]
       PROVE  j = k
  <2>1. From(j) \in DOMAIN s /\ From(k) \in DOMAIN s /\ s[From(j)] = s[From(k)]
    BY <1>1, <1>7, <1>8, <1>10
  <2> QED BY <1>7, <1>9, <2>1
<1>11. ASSUME NEW j \in DOMAIN e
       PROVE  e[j] # s[i] /\ \E k \in DOMAIN s : e[j] = s[k]
  <2>1. From(j) \in DOMAIN s /\ From(j) # i /\ e[j] = s[From(j)]
    BY <1>1, <1>7, <1>8
  <2> QED BY <2>1
<1>12. ASSUME NEW k \in DOMAIN s, k # i
       PROVE  \E j \in DOMAIN e : e[j] = s[k]
  <2>1. PICK j : j = IF k < i THEN k ELSE k - 1
    OBVIOUS
  <2>2. /\ j \in 1 .. Len(s) - 1
        /\ k = IF j < i THEN j ELSE j + 1
    BY <1>1, <1>12, <2>1
  <2>3. e[j] = s[k]
    BY <1>8, <2>2 DEF From
  <2> QED BY <1>7, <2>2, <2>3
<1> QED BY <1>6, <1>10, <1>11, <1>12 DEF e

----------------------------------------------------------------------------
(* The lists of the lock. *)

ReqType(q) == q \in [Requests -> Request \cup {None}]

(* The front request may join the holders: it is compatible with them, or  *)
(* it is the next shared request of a batch.                               *)
MayGrant(q, pend, held, status, newStatus) ==
  \/ CanAcquire(q[Head(pend)].mode, held, status) /\ newStatus = q[Head(pend)].mode
  \/ /\ q[Head(pend)].mode = "shared" /\ held # {} /\ newStatus = status

(* Granting the front request keeps the lists in order. *)
LEMMA GrantKeepsLockOK ==
  ASSUME NEW q, ReqType(q), NEW pend, NEW held, NEW status, NEW newStatus,
         LockOK(q, pend, held, status), pend # <<>>,
         MayGrant(q, pend, held, status, newStatus)
  PROVE  /\ LockOK(q, Tail(pend), held \cup {Head(pend)}, newStatus)
         /\ Head(pend) \in Requests \ held
         /\ \A i \in DOMAIN Tail(pend) : Tail(pend)[i] # Head(pend)
<1> DEFINE g == Head(pend)
<1>1. /\ 1 \in DOMAIN pend /\ g = pend[1] /\ g \in Requests
      /\ Tail(pend) \in Seq(Requests)
      /\ \A i \in DOMAIN Tail(pend) : i + 1 \in DOMAIN pend /\ Tail(pend)[i] = pend[i + 1]
  BY Popping DEF LockOK
<1>2. \A i \in DOMAIN Tail(pend) : i \in Nat \ {0}
  BY <1>1, LenProperties
<1>3. q[g] # None /\ g \notin held
  BY <1>1 DEF LockOK
<1>4. q[g].mode \in {"shared", "exclusive"}
  BY <1>1, <1>3, ConstantsAssumption DEF ReqType, Request
<1> HIDE DEF g
<1>5. \A i \in DOMAIN Tail(pend) :
        q[Tail(pend)[i]] # None /\ Tail(pend)[i] \notin held \cup {g}
  <2> SUFFICES ASSUME NEW i \in DOMAIN Tail(pend)
               PROVE  q[Tail(pend)[i]] # None /\ Tail(pend)[i] \notin held \cup {g}
    OBVIOUS
  <2>1. i + 1 \in DOMAIN pend /\ i + 1 # 1
    BY <1>1, <1>2
  <2>2. pend[i + 1] # g
    BY <1>1, <2>1 DEF LockOK
  <2> QED BY <1>1, <2>1, <2>2 DEF LockOK
<1>6. ASSUME NEW i \in DOMAIN Tail(pend), NEW j \in DOMAIN Tail(pend),
             Tail(pend)[i] = Tail(pend)[j]
      PROVE  i = j
  <2>1. i + 1 = j + 1
    BY <1>1, <1>6 DEF LockOK
  <2> QED BY <1>2, <2>1
<1>7. newStatus \in {"shared", "exclusive"}
  BY <1>4 DEF MayGrant, LockOK, g
<1>8. ASSUME NEW r \in held \cup {g}, NEW s \in held \cup {g},
             q[r].mode # "shared", q[s].mode # "shared"
      PROVE  r = s
  <2>1. CASE q[g].mode = "shared"
    BY <1>8, <2>1 DEF LockOK
  <2>2. CASE q[g].mode # "shared"
    <3>1. held = {}
      BY <2>2 DEF MayGrant, CanAcquire, LockOK, g
    <3> QED BY <3>1
  <2> QED BY <2>1, <2>2
<1>9. LockOK(q, Tail(pend), held \cup {g}, newStatus)
  BY <1>1, <1>3, <1>5, <1>6, <1>7, <1>8 DEF LockOK
<1> QED BY <1>1, <1>3, <1>5, <1>9 DEF g

(* A request leaves heldList. *)
LEMMA LeaveKeepsLockOK ==
  ASSUME NEW q, NEW pend, NEW held, NEW status, LockOK(q, pend, held, status), NEW r
  PROVE  LockOK(q, pend, held \ {r}, IF held \ {r} = {} THEN "unlock" ELSE status)
  BY DEF LockOK

(* Requests that are in neither list do not matter to the lock. *)
LEMMA OthersKeepLockOK ==
  ASSUME NEW q, NEW p, NEW pend, NEW held, NEW status, LockOK(q, pend, held, status),
         \A i \in DOMAIN pend : p[pend[i]] # None,
         \A r \in held : p[r] # None /\ p[r].mode = q[r].mode
  PROVE  LockOK(p, pend, held, status)
  BY DEF LockOK

----------------------------------------------------------------------------
(* Serving the queue.  Whatever ProcessPendingLockRequestUnsafe and the    *)
(* batch loop do, at most one request of the queue joins the holders, and  *)
(* at most one of the frames fs that the thread gets on its stack carries  *)
(* a request, that one.  The others go on waiting.  Its callback is called *)
(* in place only above the loop of the thread that made it.                *)

Granting(fs, granted) ==
  /\ fs \in Seq(Frame)
  /\ \A i \in DOMAIN fs : fs[i].op \in {"deliver", "call", "batch"}
  /\ \A i \in DOMAIN fs : fs[i].op \in CarrierOps => fs[i].req \in granted
  /\ \A i, j \in DOMAIN fs : fs[i].op \in CarrierOps /\ fs[j].op \in CarrierOps => i = j
  /\ \A i \in DOMAIN fs : fs[i].op = "call" =>
       \E j \in DOMAIN fs : j = i + 1 /\ fs[j].op = "batch" /\ fs[j].req = fs[i].req

Served(t, pend, held, rest) ==
  \E granted \in SUBSET Requests, fs \in Seq(Frame) :
    /\ Granting(fs, granted)
    /\ stack' = [stack EXCEPT ![t] = fs \o rest]
    /\ granted \cap held = {} /\ heldList' = held \cup granted
    /\ \A r \in granted : \E i \in DOMAIN pend : pend[i] = r
    /\ \A i \in DOMAIN pendingList' : \E j \in DOMAIN pend : pendingList'[i] = pend[j]
    /\ \A r \in granted : \E i \in DOMAIN fs : fs[i].op \in CarrierOps /\ fs[i].req = r
    /\ \A j \in DOMAIN pend :
         pend[j] \in granted \/ \E i \in DOMAIN pendingList' : pendingList'[i] = pend[j]

(* Granting the front request keeps what Served says of lists and queues. *)
LEMMA GrantServes ==
  ASSUME ReqType(req), NEW t \in Threads, NEW pend, NEW held, NEW status,
         NEW sync \in Requests \cup {None}, NEW rest \in Seq(Frame),
         LockOK(req, pend, held, status), pend # <<>>,
         MayGrant(req, pend, held, status, lockStatus'),
         Grant(t, pend, held, sync, rest)
  PROVE  /\ LockOK(req, pendingList', heldList', lockStatus')
         /\ heldList' # {}
         /\ Served(t, pend, held, rest)
<1> DEFINE g == Head(pend)
           fs == IF req[g].mode = "shared"
                 THEN <<IF g = sync THEN Call(g) ELSE Deliver(g), Batch(sync)>>
                 ELSE <<Deliver(g)>>
<1>1. /\ LockOK(req, pendingList', heldList', lockStatus')
      /\ g \in Requests \ held
  BY GrantKeepsLockOK DEF Grant
<1>2. /\ 1 \in DOMAIN pend /\ g = pend[1]
      /\ \A i \in DOMAIN Tail(pend) : i + 1 \in DOMAIN pend /\ Tail(pend)[i] = pend[i + 1]
      /\ \A j \in DOMAIN pend : j # 1 => \E i \in DOMAIN Tail(pend) : Tail(pend)[i] = pend[j]
  BY Popping DEF LockOK
<1>3. stack' = [stack EXCEPT ![t] = fs \o rest]
  BY DEF Grant
<1>4. /\ Granting(fs, {g})
      /\ \E i \in DOMAIN fs : fs[i].op \in CarrierOps /\ fs[i].req = g
  <2> DEFINE f == IF g = sync THEN Call(g) ELSE Deliver(g)
             b == Batch(sync)
             d == Deliver(g)
  <2>1. /\ f \in Frame /\ f.op \in {"deliver", "call"} /\ f.req = g
        /\ b \in Frame /\ b.op = "batch"
        /\ d \in Frame /\ d.op = "deliver" /\ d.req = g
        /\ f.op = "call" => b.req = g
    BY <1>1 DEF Call, Deliver, Batch, Frame
  <2>2. fs = <<f, b>> \/ fs = <<d>>
    OBVIOUS
  <2> HIDE DEF f, b, d, fs
  <2>3. CASE fs = <<f, b>>
    BY <2>1, <2>3 DEF Granting, CarrierOps
  <2>4. CASE fs = <<d>>
    BY <2>1, <2>4 DEF Granting, CarrierOps
  <2> QED BY <2>2, <2>3, <2>4
<1>5. pendingList' = Tail(pend) /\ heldList' = held \cup {g}
  BY DEF Grant
<1> HIDE DEF g, fs
<1>6. fs \in Seq(Frame)
  BY <1>4 DEF Granting
<1>7. Served(t, pend, held, rest)
  <2>1. {g} \in SUBSET Requests /\ {g} \cap held = {} /\ \E i \in DOMAIN pend : pend[i] = g
    BY <1>1, <1>2
  <2>2. \A j \in DOMAIN pend :
          pend[j] \in {g} \/ \E i \in DOMAIN pendingList' : pendingList'[i] = pend[j]
    BY <1>2, <1>5
  <2>3. \A i \in DOMAIN pendingList' : \E j \in DOMAIN pend : pendingList'[i] = pend[j]
    BY <1>2, <1>5
  <2>4. PICK granted \in SUBSET Requests : granted = {g}
    BY <2>1
  <2>5. /\ granted \cap held = {} /\ heldList' = held \cup granted
        /\ \A r \in granted : \E i \in DOMAIN pend : pend[i] = r
        /\ \A r \in granted : \E i \in DOMAIN fs : fs[i].op \in CarrierOps /\ fs[i].req = r
        /\ \A j \in DOMAIN pend :
             pend[j] \in granted \/ \E i \in DOMAIN pendingList' : pendingList'[i] = pend[j]
    BY <1>4, <1>5, <2>1, <2>2, <2>4
  <2>6. Granting(fs, granted)
    BY <1>4, <2>4
  <2> QED BY <1>3, <1>6, <2>3, <2>5, <2>6 DEF Served
<1> QED BY <1>1, <1>5, <1>7

(* Serving nobody is one way of serving the queue. *)
LEMMA NothingServed ==
  ASSUME NEW t \in Threads, NEW pend, NEW held, NEW rest \in Seq(Frame),
         pendingList' = pend, heldList' = held,
         stack' = [stack EXCEPT ![t] = rest]
  PROVE  Served(t, pend, held, rest)
<1>1. <<>> \o rest = rest /\ <<>> \in Seq(Frame)
  BY ConcatEmptySeq, EmptySeq
<1>2. Granting(<<>>, {})
  BY <1>1 DEF Granting
<1>3. /\ stack' = [stack EXCEPT ![t] = <<>> \o rest]
      /\ {} \cap held = {} /\ heldList' = held \cup {}
      /\ \A i \in DOMAIN pendingList' : \E j \in DOMAIN pend : pendingList'[i] = pend[j]
      /\ \A j \in DOMAIN pend : \E i \in DOMAIN pendingList' : pendingList'[i] = pend[j]
  BY <1>1
<1> QED BY <1>1, <1>2, <1>3 DEF Served

(* ProcessPendingLockRequestUnsafe serves the queue ... *)
LEMMA ProcessPendingUnsafeServes ==
  ASSUME ReqType(req), NEW t \in Threads, NEW pend, NEW held, NEW status,
         NEW sync \in Requests \cup {None}, NEW rest \in Seq(Frame),
         LockOK(req, pend, held, status), pend # <<>>,
         ProcessPendingUnsafe(t, pend, held, status, sync, rest)
  PROVE  /\ LockOK(req, pendingList', heldList', lockStatus')
         /\ heldList' # {}
         /\ Served(t, pend, held, rest)
<1> DEFINE mode == req[Head(pend)].mode
<1>1. CASE CanAcquire(mode, held, status) /\ lockStatus' = mode
           /\ Grant(t, pend, held, sync, rest)
  BY <1>1, GrantServes DEF MayGrant
<1>2. CASE ~CanAcquire(mode, held, status) /\ pendingList' = pend /\ heldList' = held
           /\ lockStatus' = status /\ stack' = [stack EXCEPT ![t] = rest]
  BY <1>2, NothingServed DEF CanAcquire
<1> QED BY <1>1, <1>2 DEF ProcessPendingUnsafe

(* ... and so does its caller, which first asks whether anybody waits. *)
LEMMA ProcessPendingIfAnyServes ==
  ASSUME ReqType(req), NEW t \in Threads, NEW pend, NEW held, NEW status,
         NEW rest \in Seq(Frame), LockOK(req, pend, held, status),
         ProcessPendingIfAny(t, pend, held, status, rest)
  PROVE  /\ LockOK(req, pendingList', heldList', lockStatus')
         /\ pendingList' # <<>> => heldList' # {}
         /\ Served(t, pend, held, rest)
<1>1. CASE pend # <<>> /\ ProcessPendingUnsafe(t, pend, held, status, None, rest)
  BY <1>1, ProcessPendingUnsafeServes
<1>2. CASE pend = <<>> /\ pendingList' = pend /\ heldList' = held
           /\ lockStatus' = status /\ stack' = [stack EXCEPT ![t] = rest]
  BY <1>2, NothingServed
<1> QED BY <1>1, <1>2 DEF ProcessPendingIfAny

----------------------------------------------------------------------------
(* Stacks.  A step of thread t takes k = 0 or 1 frames off its stack and   *)
(* puts fs on it.                                                          *)

Rest(t, k) == IF k = 1 THEN Below(t) ELSE stack[t]

StackType == stack \in [Threads -> Seq(Frame)]

StackStep(t, k, fs) ==
  /\ k \in {0, 1} /\ (k = 1 => stack[t] # <<>>)
  /\ fs \in Seq(Frame)
  /\ stack' = [stack EXCEPT ![t] = fs \o Rest(t, k)]

(* A sequence without its head keeps its type. *)
LEMMA RestType ==
  ASSUME StackType, NEW t \in Threads, NEW k \in {0, 1}, k = 1 => stack[t] # <<>>
  PROVE  Rest(t, k) \in Seq(Frame)
  BY HeadTailProperties DEF StackType, Rest, Below

(* Every frame of a thread after a step was there before, or is the one pushed. *)
LEMMA StackStepFrames ==
  ASSUME StackType, NEW t \in Threads, NEW k, NEW fs, StackStep(t, k, fs)
  PROVE  /\ StackType'
         /\ \A u \in Threads : u # t => stack'[u] = stack[u]
         /\ \A i \in DOMAIN stack'[t] :
              \/ i \in DOMAIN fs /\ stack'[t][i] = fs[i]
              \/ \E j \in DOMAIN stack[t] :
                   j > k /\ i = j + Len(fs) - k /\ stack'[t][i] = stack[t][j]
<1> DEFINE rest == Rest(t, k)
           new == fs \o rest
<1>1. rest \in Seq(Frame) /\ stack[t] \in Seq(Frame) /\ fs \in Seq(Frame)
  BY RestType DEF StackStep, StackType
<1>2. \A j \in DOMAIN rest :
        j + k \in DOMAIN stack[t] /\ rest[j] = stack[t][j + k] /\ j \in Nat \ {0}
  <2>1. \A j \in DOMAIN rest : j \in Nat \ {0}
    BY <1>1, LenProperties
  <2> HIDE DEF rest
  <2>2. CASE k = 1
    <3>1. rest = Tail(stack[t]) /\ stack[t] # <<>>
      BY <2>2 DEF rest, Rest, Below, StackStep
    <3> QED BY <1>1, <2>1, <2>2, <3>1, Popping
  <2>3. CASE k = 0
    <3>1. rest = stack[t]
      BY <2>3 DEF rest, Rest
    <3> QED BY <2>1, <2>3, <3>1
  <2> QED BY <2>2, <2>3 DEF StackStep
<1> HIDE DEF rest
<1>3. /\ new \in Seq(Frame)
      /\ \A i \in DOMAIN new :
           \/ i \in DOMAIN fs /\ new[i] = fs[i]
           \/ i - Len(fs) \in DOMAIN rest /\ new[i] = rest[i - Len(fs)]
  BY <1>1, Pushing
<1>4. stack' = [stack EXCEPT ![t] = new]
  BY DEF StackStep, rest
<1>5. DOMAIN new \subseteq Nat /\ Len(fs) \in Nat /\ k \in Nat
  BY <1>1, <1>3, LenProperties DEF StackStep
<1> HIDE DEF new
<1>6. StackType' /\ stack'[t] = new /\ \A u \in Threads : u # t => stack'[u] = stack[u]
  BY <1>3, <1>4 DEF StackType
<1>7. ASSUME NEW i \in DOMAIN new, i - Len(fs) \in DOMAIN rest, new[i] = rest[i - Len(fs)]
      PROVE  \E j \in DOMAIN stack[t] :
               j > k /\ i = j + Len(fs) - k /\ new[i] = stack[t][j]
  <2>1. i - Len(fs) + k \in DOMAIN stack[t] /\ new[i] = stack[t][i - Len(fs) + k]
    BY <1>2, <1>7
  <2>2. i - Len(fs) + k > k /\ i = i - Len(fs) + k + Len(fs) - k
    BY <1>2, <1>5, <1>7
  <2> QED BY <2>1, <2>2
<1> QED BY <1>3, <1>6, <1>7

(* What a step may do to the carriers: it touches the requests R only,     *)
(* whose carriers, if any, it took off the stack of t, and its new frames  *)
(* carry requests of R, each at most once.                                 *)
CarrierStep(t, k, fs, R) ==
  /\ StackStep(t, k, fs)
  /\ \A r \in Requests \ R : /\ r \in heldList <=> r \in heldList'
                             /\ r \in queued <=> r \in queued'
                             /\ r \in attached <=> r \in attached'
  /\ queued' \subseteq heldList' /\ attached' \subseteq heldList'
  /\ queued' \cap attached' = {}
  /\ \A u \in Threads : \A i \in DOMAIN stack[u] :
       Carries(u, i) /\ stack[u][i].req \in R => u = t /\ i = 1 /\ k = 1
  /\ \A i \in DOMAIN fs : fs[i].op \in CarrierOps =>
       fs[i].req \in R /\ fs[i].req \in heldList' \ (queued' \cup attached')
  /\ \A i, j \in DOMAIN fs :
       fs[i].op \in CarrierOps /\ fs[j].op \in CarrierOps => i = j

(* One request changes its carrier, the others keep theirs. *)
LEMMA CarrierStepOneCarrier ==
  ASSUME StackType, heldList \subseteq Requests, OneCarrier,
         NEW t \in Threads, NEW k, NEW fs, NEW R, CarrierStep(t, k, fs, R)
  PROVE  OneCarrier'
<1> DEFINE New(u, i) == u = t /\ i \in DOMAIN fs /\ stack'[t][i] = fs[i]
           Old(u, i, j) == /\ j \in DOMAIN stack[u] /\ stack'[u][i] = stack[u][j]
                           /\ u = t => j > k /\ i = j + Len(fs) - k
                           /\ u # t => i = j
<1>1. StackStep(t, k, fs)
  BY DEF CarrierStep
<1>2. ASSUME NEW u \in Threads, NEW i \in DOMAIN stack'[u]
      PROVE  New(u, i) \/ \E j \in DOMAIN stack[u] : Old(u, i, j)
  BY <1>1, <1>2, StackStepFrames
<1>3. ASSUME NEW u \in Threads, NEW i, NEW j, Old(u, i, j), stack'[u][i].op \in CarrierOps
      PROVE  Carries(u, j) /\ stack[u][j].req \notin R
  <2>1. Carries(u, j)
    BY <1>3 DEF Carries
  <2>2. ASSUME stack[u][j].req \in R
        PROVE  FALSE
    <3>1. u = t /\ j = 1 /\ k = 1
      BY <1>3, <2>1, <2>2 DEF CarrierStep
    <3> QED BY <1>3, <3>1
  <2> QED BY <2>1, <2>2
<1>4. ASSUME NEW u \in Threads, NEW i \in DOMAIN stack'[u], stack'[u][i].op \in CarrierOps
      PROVE  stack'[u][i].req \in heldList' \ (queued' \cup attached')
  <2>1. CASE New(u, i)
    BY <1>4, <2>1 DEF CarrierStep
  <2>2. ASSUME NEW j \in DOMAIN stack[u], Old(u, i, j)
        PROVE  stack'[u][i].req \in heldList' \ (queued' \cup attached')
    <3>1. /\ stack[u][j].req \in heldList \ (queued \cup attached)
          /\ stack[u][j].req \notin R /\ stack'[u][i].req = stack[u][j].req
      BY <1>3, <1>4, <2>2 DEF OneCarrier
    <3> QED BY <3>1 DEF CarrierStep
  <2> QED BY <1>2, <2>1, <2>2
<1>5. ASSUME NEW u \in Threads, NEW v \in Threads,
             NEW i \in DOMAIN stack'[u], NEW j \in DOMAIN stack'[v],
             stack'[u][i].op \in CarrierOps, stack'[v][j].op \in CarrierOps,
             stack'[u][i].req = stack'[v][j].req
      PROVE  u = v /\ i = j
  <2>1. CASE New(u, i) /\ New(v, j)
    BY <1>5, <2>1 DEF CarrierStep
  <2>2. CASE New(u, i) /\ ~New(v, j)
    <3>1. stack'[v][j].req \notin R /\ stack'[u][i].req \in R
      <4>1. PICK y \in DOMAIN stack[v] : Old(v, j, y)
        BY <1>2, <2>2
      <4> QED BY <1>3, <1>5, <2>2, <4>1 DEF CarrierStep
    <3> QED BY <1>5, <3>1
  <2>3. CASE ~New(u, i) /\ New(v, j)
    <3>1. stack'[u][i].req \notin R /\ stack'[v][j].req \in R
      <4>1. PICK x \in DOMAIN stack[u] : Old(u, i, x)
        BY <1>2, <2>3
      <4> QED BY <1>3, <1>5, <2>3, <4>1 DEF CarrierStep
    <3> QED BY <1>5, <3>1
  <2>4. CASE ~New(u, i) /\ ~New(v, j)
    <3>1. PICK x \in DOMAIN stack[u], y \in DOMAIN stack[v] : Old(u, i, x) /\ Old(v, j, y)
      BY <1>2, <2>4
    <3>2. Carries(u, x) /\ Carries(v, y) /\ stack[u][x].req = stack[v][y].req
      BY <1>3, <1>5, <3>1
    <3>3. u = v /\ x = y
      BY <3>2 DEF OneCarrier
    <3>4. CASE u = t
      <4>1. i = x + Len(fs) - k /\ j = y + Len(fs) - k
        BY <3>1, <3>3, <3>4
      <4> QED BY <3>3, <4>1
    <3>5. CASE u # t
      BY <3>1, <3>3, <3>5
    <3> QED BY <3>4, <3>5
  <2> QED BY <2>1, <2>2, <2>3, <2>4
<1>6. queued' \subseteq heldList' /\ attached' \subseteq heldList' /\ queued' \cap attached' = {}
  BY DEF CarrierStep
<1> QED BY <1>4, <1>5, <1>6 DEF OneCarrier, Carries

(* What a step other than LockAsync may do to the requests that are not    *)
(* queued yet: those of other threads it leaves alone.                     *)
EnqueueStep(t, k, fs) ==
  /\ StackStep(t, k, fs)
  /\ \A i \in DOMAIN fs : fs[i].op # "enqueue"
  /\ k = 0 => stack[t] = <<>> \/ stack[t][1].op # "enqueue"
  /\ \A r \in Requests :
       Live(r) /\ r \notin heldList /\ ~IsPending(r) /\ req[r].owner # t =>
         /\ Live(r)' /\ req'[r].owner = req[r].owner
         /\ r \notin heldList' /\ ~IsPending(r)'

(* A step that begins no new enqueueing keeps EnqueueOK. *)
LEMMA EnqueueStepEnqueueOK ==
  ASSUME StackType, EnqueueOK, NEW t \in Threads, NEW k, NEW fs, EnqueueStep(t, k, fs)
  PROVE  EnqueueOK'
<1>1. StackStep(t, k, fs)
  BY DEF EnqueueStep
<1>2. ASSUME NEW i \in DOMAIN stack'[t], stack'[t][i].op = "enqueue"
      PROVE  FALSE
  <2>1. PICK j \in DOMAIN stack[t] : j > k /\ stack'[t][i] = stack[t][j]
    BY <1>1, <1>2, StackStepFrames DEF EnqueueStep
  <2>2. j = 1
    BY <1>2, <2>1 DEF EnqueueOK
  <2>3. k = 0 /\ stack[t] # <<>> /\ stack[t][1].op = "enqueue"
    BY <1>1, <1>2, <2>1, <2>2 DEF StackStep
  <2> QED BY <2>3 DEF EnqueueStep
<1>3. ASSUME NEW u \in Threads, u # t, NEW i \in DOMAIN stack'[u],
             stack'[u][i].op = "enqueue"
      PROVE  \E r \in Requests : /\ i = 1 /\ stack'[u][i].req = r
                                /\ Live(r)' /\ req'[r].owner = u
                                /\ r \notin heldList' /\ ~IsPending(r)'
  <2>1. stack'[u] = stack[u]
    BY <1>1, <1>3, StackStepFrames
  <2>2. PICK r \in Requests : r = stack[u][i].req
    BY <1>3, <2>1 DEF EnqueueOK
  <2>3. /\ i = 1 /\ Live(r) /\ req[r].owner = u
        /\ r \notin heldList /\ ~IsPending(r)
    BY <1>3, <2>1, <2>2 DEF EnqueueOK
  <2>4. /\ Live(r)' /\ req'[r].owner = req[r].owner
        /\ r \notin heldList' /\ ~IsPending(r)'
    BY <1>3, <2>3 DEF EnqueueStep
  <2> QED BY <2>1, <2>2, <2>3, <2>4
<1> QED BY <1>2, <1>3 DEF EnqueueOK, Live, IsPending

(* A step of t that takes the requests `done' off the lock and serves the  *)
(* queue pend keeps the carriers in order.                                 *)
LEMMA ServingKeepsOneCarrier ==
  ASSUME IInv, NEW t \in Threads, NEW k \in {0, 1}, k = 1 => stack[t] # <<>>,
         NEW done \in SUBSET heldList, NEW pend,
         Served(t, pend, heldList \ done, Rest(t, k)),
         \A i \in DOMAIN pend : pend[i] \notin heldList,
         queued' = queued \ done, attached' = attached \ done,
         \A u \in Threads : \A i \in DOMAIN stack[u] :
           Carries(u, i) /\ stack[u][i].req \in done => u = t /\ i = 1 /\ k = 1
  PROVE  StackType' /\ OneCarrier'
<1>1. PICK granted \in SUBSET Requests, fs \in Seq(Frame) :
        /\ Granting(fs, granted)
        /\ stack' = [stack EXCEPT ![t] = fs \o Rest(t, k)]
        /\ heldList' = (heldList \ done) \cup granted
        /\ \A r \in granted : \E i \in DOMAIN pend : pend[i] = r
  BY DEF Served
<1>2. granted \cap heldList = {}
  BY <1>1
<1>3. StackStep(t, k, fs)
  BY <1>1 DEF StackStep
<1>4. /\ StackType /\ heldList \subseteq Requests /\ OneCarrier
      /\ queued \subseteq heldList /\ attached \subseteq heldList
      /\ queued \cap attached = {}
  BY DEF IInv, TypeOK, StackType, OneCarrier
<1> DEFINE R == done \cup granted
<1>5. ASSUME NEW r \in Requests \ R
      PROVE  /\ r \in heldList <=> r \in heldList'
             /\ r \in queued <=> r \in queued'
             /\ r \in attached <=> r \in attached'
  <2>1. heldList' = (heldList \ done) \cup granted
    BY <1>1
  <2>2. r \notin done /\ r \notin granted
    OBVIOUS
  <2> HIDE DEF R
  <2> QED BY <2>1, <2>2, Zenon
<1>6. /\ queued' \subseteq heldList' /\ attached' \subseteq heldList'
      /\ queued' \cap attached' = {}
  BY <1>1, <1>4
<1>7. ASSUME NEW u \in Threads, NEW i \in DOMAIN stack[u],
             Carries(u, i), stack[u][i].req \in R
      PROVE  u = t /\ i = 1 /\ k = 1
  BY <1>2, <1>7 DEF IInv, OneCarrier
<1>8. ASSUME NEW i \in DOMAIN fs, fs[i].op \in CarrierOps
      PROVE  fs[i].req \in R /\ fs[i].req \in heldList' \ (queued' \cup attached')
  <2>1. fs[i].req \in granted
    BY <1>1, <1>8 DEF Granting
  <2>2. heldList' = (heldList \ done) \cup granted
    BY <1>1
  <2> QED BY <1>2, <1>4, <2>1, <2>2, Zenon
<1>9. \A i, j \in DOMAIN fs :
        fs[i].op \in CarrierOps /\ fs[j].op \in CarrierOps => i = j
  BY <1>1 DEF Granting
<1> HIDE DEF R
<1>10. CarrierStep(t, k, fs, R)
  BY <1>3, <1>5, <1>6, <1>7, <1>8, <1>9 DEF CarrierStep
<1> QED BY <1>3, <1>4, <1>10, CarrierStepOneCarrier, StackStepFrames

(* Nor does it disturb a request that another thread has still to queue.   *)
LEMMA ServingKeepsEnqueueOK ==
  ASSUME IInv, NEW t \in Threads, NEW k \in {0, 1}, k = 1 => stack[t] # <<>>,
         k = 0 => stack[t] = <<>> \/ stack[t][1].op # "enqueue",
         NEW held \in SUBSET heldList, NEW pend, Served(t, pend, held, Rest(t, k)),
         \A r \in Requests :
           Live(r) /\ r \notin heldList /\ ~IsPending(r) /\ req[r].owner # t =>
             req'[r] = req[r] /\ \A i \in DOMAIN pend : pend[i] # r
  PROVE  EnqueueOK'
<1>1. PICK granted \in SUBSET Requests, fs \in Seq(Frame) :
        /\ Granting(fs, granted)
        /\ stack' = [stack EXCEPT ![t] = fs \o Rest(t, k)]
        /\ heldList' = held \cup granted
        /\ \A r \in granted : \E i \in DOMAIN pend : pend[i] = r
        /\ \A i \in DOMAIN pendingList' : \E j \in DOMAIN pend : pendingList'[i] = pend[j]
  BY DEF Served
<1>2. StackStep(t, k, fs) /\ \A i \in DOMAIN fs : fs[i].op # "enqueue"
  BY <1>1 DEF StackStep, Granting
<1>3. ASSUME NEW r \in Requests,
             Live(r), r \notin heldList, ~IsPending(r), req[r].owner # t
      PROVE  /\ Live(r)' /\ req'[r].owner = req[r].owner
             /\ r \notin heldList' /\ ~IsPending(r)'
  <2>1. req'[r] = req[r] /\ \A i \in DOMAIN pend : pend[i] # r
    BY <1>3
  <2> QED BY <1>1, <1>3, <2>1 DEF Live, IsPending
<1>4. EnqueueStep(t, k, fs)
  BY <1>2, <1>3 DEF EnqueueStep
<1> QED BY <1>4, EnqueueStepEnqueueOK DEF IInv, TypeOK, StackType

----------------------------------------------------------------------------
(* The steps. *)

(* The objects keep their owners and modes, and none is deleted. *)
ObjectsKept ==
  /\ ReqType(req')
  /\ \A q \in Requests : Live(q) =>
       Live(q)' /\ req'[q].mode = req[q].mode /\ req'[q].owner = req[q].owner

PromiseType == promise \in [Requests -> {"open", "settled", "settledTwice"}]
EnvType == env \in [Threads -> {"alive", "closing", "dead"}]

(* Stopping a timer or dropping a hook keeps every request, its mode, its owner. *)
LEMMA UpdateKeepsObjects ==
  ASSUME ReqType(req), NEW r \in Requests, Live(r),
         \/ req' = [req EXCEPT ![r].timer = FALSE]
         \/ req' = [req EXCEPT ![r].hook = FALSE]
         \/ req' = [req EXCEPT ![r].hook = FALSE, ![r].timer = FALSE]
         \/ req' = [req EXCEPT ![r].hook = FALSE, ![r].invalid = TRUE]
  PROVE  ObjectsKept
<1>1. req[r] \in Request
  BY DEF ReqType, Live
<1>2. PICK x \in Request :
        /\ x.mode = req[r].mode /\ x.owner = req[r].owner
        /\ req' = [req EXCEPT ![r] = x]
  <2>1. CASE req' = [req EXCEPT ![r].timer = FALSE]
    <3> DEFINE x == [req[r] EXCEPT !.timer = FALSE]
    <3>1. x \in Request /\ x.mode = req[r].mode /\ x.owner = req[r].owner
      BY <1>1 DEF Request
    <3> QED BY <2>1, <3>1
  <2>2. CASE req' = [req EXCEPT ![r].hook = FALSE]
    <3> DEFINE x == [req[r] EXCEPT !.hook = FALSE]
    <3>1. x \in Request /\ x.mode = req[r].mode /\ x.owner = req[r].owner
      BY <1>1 DEF Request
    <3> QED BY <2>2, <3>1
  <2>3. CASE req' = [req EXCEPT ![r].hook = FALSE, ![r].timer = FALSE]
    <3> DEFINE x == [req[r] EXCEPT !.hook = FALSE, !.timer = FALSE]
    <3>1. x \in Request /\ x.mode = req[r].mode /\ x.owner = req[r].owner
      BY <1>1 DEF Request
    <3>2. req' = [req EXCEPT ![r] = x]
      BY <2>3 DEF ReqType
    <3> QED BY <3>1, <3>2
  <2>4. CASE req' = [req EXCEPT ![r].hook = FALSE, ![r].invalid = TRUE]
    <3> DEFINE x == [req[r] EXCEPT !.hook = FALSE, !.invalid = TRUE]
    <3>1. x \in Request /\ x.mode = req[r].mode /\ x.owner = req[r].owner
      BY <1>1 DEF Request
    <3>2. req' = [req EXCEPT ![r] = x]
      BY <2>4 DEF ReqType
    <3> QED BY <3>1, <3>2
  <2> QED BY <2>1, <2>2, <2>3, <2>4
<1>3. x # None
  BY NoneIsNoObject
<1> QED BY <1>2, <1>3 DEF ObjectsKept, ReqType, Live

(* Settling a request gives it a state of its type. *)
LEMMA SettleType ==
  ASSUME PromiseType, NEW r \in Requests, Settle(r)
  PROVE  PromiseType'
  BY DEF PromiseType, Settle

(* Steps that leave the lists of the lock alone. *)
LEMMA QuietStepKeepsIInv ==
  ASSUME IInv, UNCHANGED lockVars, ObjectsKept, EnvType', PromiseType',
         NEW t \in Threads, NEW k, NEW fs, NEW R, CarrierStep(t, k, fs, R),
         \A i \in DOMAIN fs : fs[i].op # "enqueue",
         k = 0 => stack[t] = <<>> \/ stack[t][1].op # "enqueue"
  PROVE  IInv'
<1>1. pendingList' = pendingList /\ heldList' = heldList /\ lockStatus' = lockStatus
  BY DEF lockVars
<1>2. StackStep(t, k, fs) /\ StackType /\ OneCarrier /\ heldList \subseteq Requests
  BY DEF CarrierStep, IInv, TypeOK, StackType
<1>3. StackType'
  BY <1>2, StackStepFrames
<1>4. OneCarrier'
  BY <1>2, CarrierStepOneCarrier
<1>5. EnqueueStep(t, k, fs)
  BY <1>1, <1>2 DEF EnqueueStep, ObjectsKept, IsPending
<1>6. EnqueueOK'
  BY <1>2, <1>5, EnqueueStepEnqueueOK DEF IInv
<1>7. LockOK(req, pendingList, heldList, lockStatus)'
  <2>1. LockOK(req, pendingList, heldList, lockStatus)
    BY DEF IInv
  <2>2. \A i \in DOMAIN pendingList : pendingList[i] \in Requests /\ Live(pendingList[i])
    BY <2>1, ElementOfSeq, LenProperties DEF LockOK, Live
  <2>3. \A r \in heldList : r \in Requests /\ Live(r)
    BY <2>1 DEF LockOK, Live
  <2>4. LockOK(req', pendingList, heldList, lockStatus)
    BY <2>1, <2>2, <2>3, OthersKeepLockOK DEF ObjectsKept, Live
  <2> QED BY <1>1, <2>4
<1>8. NobodyWaitsInVain'
  BY <1>1 DEF IInv, NobodyWaitsInVain
<1>9. TypeOK'
  <2>1. queued' \subseteq Requests /\ attached' \subseteq Requests
    BY <1>1, <1>2 DEF CarrierStep
  <2> QED BY <1>1, <1>3, <2>1 DEF IInv, TypeOK, EnvType, PromiseType, ObjectsKept, ReqType,
                                   StackType
<1> QED BY <1>4, <1>6, <1>7, <1>8, <1>9 DEF IInv

(* Steps that serve the queue: t takes k frames off its stack and the      *)
(* requests `done' off the lock, and serves the queue pend.                *)
ServingStep(t, k, done, pend) ==
  /\ (k = 1 => stack[t] # <<>>)
  /\ (k = 0 => (stack[t] = <<>> \/ stack[t][1].op # "enqueue"))
  /\ Served(t, pend, heldList \ done, Rest(t, k))
  /\ \A i \in DOMAIN pend : pend[i] \notin heldList
  /\ queued' = queued \ done /\ attached' = attached \ done
  /\ \A u \in Threads : \A i \in DOMAIN stack[u] :
       (Carries(u, i) /\ stack[u][i].req \in done) => (u = t /\ i = 1 /\ k = 1)
  /\ \A r \in Requests :
       (Live(r) /\ r \notin heldList /\ ~IsPending(r) /\ req[r].owner # t) =>
         (req'[r] = req[r] /\ \A i \in DOMAIN pend : pend[i] # r)

(* Steps that serve the queue. *)
LEMMA ServingStepKeepsIInv ==
  ASSUME IInv, EnvType', PromiseType', ReqType(req'),
         NEW t \in Threads, NEW k \in {0, 1}, NEW done \in SUBSET heldList, NEW pend,
         ServingStep(t, k, done, pend),
         LockOK(req', pendingList', heldList', lockStatus'), NobodyWaitsInVain'
  PROVE  IInv'
<1>1. StackType' /\ OneCarrier'
  BY ServingKeepsOneCarrier DEF ServingStep
<1>2. EnqueueOK'
  <2>1. heldList \ done \in SUBSET heldList
    OBVIOUS
  <2> QED BY <2>1, ServingKeepsEnqueueOK DEF ServingStep
<1>3. TypeOK'
  <2>1. queued' \subseteq Requests /\ attached' \subseteq Requests
    BY DEF IInv, TypeOK, ServingStep
  <2> QED BY <1>1, <2>1 DEF IInv, TypeOK, EnvType, PromiseType, ReqType, StackType, LockOK
<1> QED BY <1>1, <1>2, <1>3 DEF IInv

(* The pieces of the invariant, for the lemmas that want them singly. *)
LEMMA InvType ==
  ASSUME IInv
  PROVE  /\ ReqType(req) /\ StackType /\ EnvType /\ PromiseType
         /\ LockOK(req, pendingList, heldList, lockStatus)
         /\ heldList \subseteq Requests
  BY DEF IInv, TypeOK, ReqType, StackType, EnvType, PromiseType

(* The top of a stack is its first frame. *)
LEMMA TopFrame ==
  ASSUME StackType, NEW t \in Threads, NEW op, NEW r, Top(t, op, r)
  PROVE  /\ stack[t] # <<>> /\ 1 \in DOMAIN stack[t]
         /\ stack[t][1].op = op /\ stack[t][1].req = r
  BY Popping DEF StackType, Top

(* CleanUpLockRequestOnCompletion erases a held request and serves the     *)
(* queue.                                                                  *)
LEMMA CleanUpServes ==
  ASSUME IInv, NEW t \in Threads, NEW r, NEW k \in {0, 1}, k = 1 => stack[t] # <<>>,
         CleanUpOnCompletion(t, r, Rest(t, k))
  PROVE  /\ r \in heldList /\ r \in Requests /\ req' = [req EXCEPT ![r] = None]
         /\ LockOK(req, pendingList', heldList', lockStatus')
         /\ pendingList' # <<>> => heldList' # {}
         /\ Served(t, pendingList, heldList \ {r}, Rest(t, k))
<1> DEFINE held == heldList \ {r}
           status == IF held = {} THEN "unlock" ELSE lockStatus
<1>1. /\ ReqType(req) /\ StackType
      /\ LockOK(req, pendingList, heldList, lockStatus) /\ heldList \subseteq Requests
  BY InvType
<1>2. /\ r \in heldList /\ r \in Requests
      /\ req' = [req EXCEPT ![r] = None]
      /\ ProcessPendingIfAny(t, pendingList, held, status, Rest(t, k))
  BY <1>1 DEF CleanUpOnCompletion
<1>3. LockOK(req, pendingList, held, status)
  BY <1>1, LeaveKeepsLockOK
<1>4. Rest(t, k) \in Seq(Frame)
  BY <1>1, RestType
<1> HIDE DEF status
<1> QED BY <1>1, <1>2, <1>3, <1>4, ProcessPendingIfAnyServes

(* The completion of a request keeps the invariant. *)
LEMMA CleanUpKeepsIInv ==
  ASSUME IInv, NEW t \in Threads, NEW r, NEW k \in {0, 1}, k = 1 => stack[t] # <<>>,
         k = 0 => stack[t] = <<>>,
         CleanUpOnCompletion(t, r, Rest(t, k)),
         queued' = queued \ {r}, attached' = attached \ {r},
         env' = env, promise' = promise,
         \A u \in Threads : \A i \in DOMAIN stack[u] :
           Carries(u, i) /\ stack[u][i].req = r => u = t /\ i = 1 /\ k = 1
  PROVE  IInv'
<1>1. /\ ReqType(req) /\ StackType /\ EnvType /\ PromiseType
      /\ LockOK(req, pendingList, heldList, lockStatus) /\ heldList \subseteq Requests
  BY InvType
<1> DEFINE held == heldList \ {r}
<1>2. /\ r \in heldList /\ r \in Requests
      /\ req' = [req EXCEPT ![r] = None]
  BY CleanUpServes
<1>5. /\ LockOK(req, pendingList', heldList', lockStatus')
      /\ pendingList' # <<>> => heldList' # {}
      /\ Served(t, pendingList, held, Rest(t, k))
  BY CleanUpServes
<1>6. \A i \in DOMAIN pendingList : pendingList[i] \notin heldList
  BY <1>1 DEF LockOK
<1>7. /\ r \notin heldList' /\ heldList' \subseteq Requests
      /\ \A i \in DOMAIN pendingList' : pendingList'[i] # r
  <2>1. PICK granted \in SUBSET Requests, fs \in Seq(Frame) :
          /\ heldList' = held \cup granted
          /\ \A q \in granted : \E i \in DOMAIN pendingList : pendingList[i] = q
          /\ \A i \in DOMAIN pendingList' : \E j \in DOMAIN pendingList :
               pendingList'[i] = pendingList[j]
    BY <1>5 DEF Served
  <2>2. r \notin granted
    BY <1>2, <1>6, <2>1
  <2>3. r \notin held /\ held \subseteq Requests
    BY <1>1
  <2> HIDE DEF held
  <2> QED BY <1>2, <1>6, <2>1, <2>2, <2>3
<1>8. ReqType(req') /\ \A q \in Requests : q # r => req'[q] = req[q]
  BY <1>1, <1>2 DEF ReqType
<1>9. LockOK(req', pendingList', heldList', lockStatus')
  <2>1. \A i \in DOMAIN pendingList' : pendingList'[i] \in Requests \ {r}
    BY <1>5, <1>7, ElementOfSeq, LenProperties DEF LockOK
  <2>2. \A i \in DOMAIN pendingList' : req'[pendingList'[i]] # None
    BY <1>5, <1>8, <2>1 DEF LockOK
  <2>3. \A q \in heldList' : req'[q] # None /\ req'[q].mode = req[q].mode
    BY <1>5, <1>7, <1>8 DEF LockOK
  <2> QED BY <1>5, <2>2, <2>3, OthersKeepLockOK
<1>10. \A q \in Requests :
         Live(q) /\ q \notin heldList /\ ~IsPending(q) /\ req[q].owner # t =>
           req'[q] = req[q] /\ \A i \in DOMAIN pendingList : pendingList[i] # q
  BY <1>2, <1>8 DEF IsPending
<1>11. NobodyWaitsInVain' /\ EnvType' /\ PromiseType'
  BY <1>1, <1>5 DEF NobodyWaitsInVain, EnvType, PromiseType
<1>12. {r} \in SUBSET heldList
  BY <1>2
<1>13. \A u \in Threads : \A i \in DOMAIN stack[u] :
         Carries(u, i) /\ stack[u][i].req \in {r} => u = t /\ i = 1 /\ k = 1
  OBVIOUS
<1>14. Served(t, pendingList, heldList \ {r}, Rest(t, k))
  BY <1>5
<1> HIDE DEF held
<1>15. ServingStep(t, k, {r}, pendingList)
  BY <1>6, <1>10, <1>13, <1>14 DEF ServingStep
<1> QED BY <1>8, <1>9, <1>11, <1>12, <1>15, ServingStepKeepsIInv

(* A request on top of a stack has no other carrier. *)
LEMMA TopCarrier ==
  ASSUME IInv, NEW t \in Threads, NEW op \in CarrierOps, NEW r, Top(t, op, r)
  PROVE  /\ stack[t] # <<>> /\ stack[t][1].op = op
         /\ r \in heldList /\ r \notin queued /\ r \notin attached
         /\ r \in Requests /\ Live(r)
         /\ \A u \in Threads : \A i \in DOMAIN stack[u] :
              Carries(u, i) /\ stack[u][i].req = r => u = t /\ i = 1
<1>1. /\ stack[t] # <<>> /\ 1 \in DOMAIN stack[t]
      /\ stack[t][1].op = op /\ stack[t][1].req = r
  BY InvType, TopFrame
<1>2. Carries(t, 1)
  BY <1>1 DEF Carries
<1>3. r \in heldList /\ r \notin queued /\ r \notin attached
  BY <1>1, <1>2 DEF IInv, OneCarrier
<1>4. r \in Requests /\ Live(r)
  BY <1>3, InvType DEF LockOK, Live
<1>5. \A u \in Threads : \A i \in DOMAIN stack[u] :
        Carries(u, i) /\ stack[u][i].req = r => u = t /\ i = 1
  BY <1>1, <1>2 DEF IInv, OneCarrier
<1> QED BY <1>1, <1>3, <1>4, <1>5

(* A request whose work is queued, or whose promise is pending, has no     *)
(* frame.                                                                  *)
LEMMA WaitingCarrier ==
  ASSUME IInv, NEW r \in queued \cup attached
  PROVE  /\ r \in heldList /\ r \in Requests /\ Live(r) /\ req[r].owner \in Threads
         /\ r \notin queued \cap attached
         /\ \A u \in Threads : \A i \in DOMAIN stack[u] :
              ~(Carries(u, i) /\ stack[u][i].req = r)
<1>1. r \in heldList /\ r \notin queued \cap attached
  BY DEF IInv, OneCarrier
<1>2. r \in Requests /\ Live(r)
  BY <1>1, InvType DEF LockOK, Live
<1>3. req[r].owner \in Threads
  BY <1>2, InvType DEF ReqType, Live, Request
<1>4. \A u \in Threads : \A i \in DOMAIN stack[u] :
        ~(Carries(u, i) /\ stack[u][i].req = r)
  BY DEF IInv, OneCarrier
<1> QED BY <1>1, <1>2, <1>3, <1>4

(* A thread exchanges the frame that carries r for frames fs, or for       *)
(* nothing.                                                                *)
LEMMA TopCarrierMoves ==
  ASSUME IInv, NEW t \in Threads, NEW op \in CarrierOps, NEW r, Top(t, op, r),
         heldList' = heldList, queued' \subseteq queued \cup {r},
         attached' \subseteq attached \cup {r}, queued \subseteq queued',
         attached \subseteq attached', queued' \cap attached' = {},
         NEW fs \in Seq(Frame), stack' = [stack EXCEPT ![t] = fs \o Below(t)],
         \A i \in DOMAIN fs : i = 1 /\ fs[i].req = r /\ r \notin queued' \cup attached'
  PROVE  CarrierStep(t, 1, fs, {r})
<1>1. /\ stack[t] # <<>>
      /\ r \in heldList /\ r \notin queued /\ r \notin attached /\ r \in Requests
      /\ \A u \in Threads : \A i \in DOMAIN stack[u] :
           Carries(u, i) /\ stack[u][i].req = r => u = t /\ i = 1
  BY TopCarrier
<1>2. StackStep(t, 1, fs)
  BY <1>1 DEF StackStep, Rest
<1>3. queued' \subseteq heldList' /\ attached' \subseteq heldList'
  BY <1>1 DEF IInv, OneCarrier
<1> QED BY <1>1, <1>2, <1>3 DEF CarrierStep

(* A thread puts frames on its stack, or takes one off, none of which      *)
(* carries a request.                                                      *)
LEMMA NoCarrierMoves ==
  ASSUME IInv, UNCHANGED <<heldList, queued, attached>>, NEW R, R = {},
         NEW t \in Threads, NEW k, NEW fs, StackStep(t, k, fs),
         \A i \in DOMAIN fs : fs[i].op \notin CarrierOps
  PROVE  CarrierStep(t, k, fs, R)
<1>1. heldList' = heldList /\ queued' = queued /\ attached' = attached
  OBVIOUS
<1>2. queued \subseteq heldList /\ attached \subseteq heldList /\ queued \cap attached = {}
  BY DEF IInv, OneCarrier
<1>3. queued' \subseteq heldList' /\ attached' \subseteq heldList' /\ queued' \cap attached' = {}
  BY <1>1, <1>2
<1> QED BY <1>1, <1>3 DEF CarrierStep

(* A thread takes the top off its stack and serves the queue. *)
LEMMA TopServesKeepsIInv ==
  ASSUME IInv, UNCHANGED <<env, req, promise, queued, attached>>,
         NEW t \in Threads, stack[t] # <<>>,
         NEW pend, Served(t, pend, heldList, Rest(t, 1)),
         \A i \in DOMAIN pend : pend[i] \notin heldList,
         \A r \in Requests :
           Live(r) /\ r \notin heldList /\ ~IsPending(r) /\ req[r].owner # t =>
             \A i \in DOMAIN pend : pend[i] # r,
         LockOK(req, pendingList', heldList', lockStatus'), NobodyWaitsInVain'
  PROVE  IInv'
<1>1. PICK done \in SUBSET heldList : done = {}
  OBVIOUS
<1>2. PICK k \in {0, 1} : k = 1
  OBVIOUS
<1>3. /\ req' = req /\ env' = env /\ promise' = promise
      /\ queued' = queued \ done /\ attached' = attached \ done
  BY <1>1
<1>4. EnvType' /\ PromiseType' /\ ReqType(req')
  BY <1>3, InvType DEF EnvType, PromiseType
<1>5. heldList \ done = heldList
  BY <1>1
<1>6. Served(t, pend, heldList \ done, Rest(t, k))
  BY <1>2, <1>5
<1>7. \A u \in Threads : \A i \in DOMAIN stack[u] :
        Carries(u, i) /\ stack[u][i].req \in done => u = t /\ i = 1 /\ k = 1
  BY <1>1
<1>8. LockOK(req', pendingList', heldList', lockStatus')
  BY <1>3
<1>9. ServingStep(t, k, done, pend)
  BY <1>2, <1>3, <1>6, <1>7 DEF ServingStep
<1> QED BY <1>4, <1>8, <1>9, ServingStepKeepsIInv

(* A new request goes to the end of pendingList, which is then served. *)
LEMMA PushBackServes ==
  ASSUME IInv, NEW t \in Threads, NEW r \in Requests, PushBack(t, r)
  PROVE  LET pend == Append(pendingList, r) IN
         /\ stack[t] # <<>> /\ stack[t][1].op = "enqueue" /\ stack[t][1].req = r
         /\ req[r].owner = t
         /\ LockOK(req, pendingList', heldList', lockStatus') /\ heldList' # {}
         /\ Served(t, pend, heldList, Rest(t, 1))
         /\ \A i \in DOMAIN pend : pend[i] \notin heldList /\ Live(pend[i])
         /\ \A q : (\E i \in DOMAIN pend : pend[i] = q) <=> IsPending(q) \/ q = r
<1> DEFINE pend == Append(pendingList, r)
<1>1. /\ ReqType(req) /\ StackType /\ EnvType /\ PromiseType
      /\ LockOK(req, pendingList, heldList, lockStatus) /\ heldList \subseteq Requests
  BY InvType
<1>2. /\ stack[t] # <<>> /\ 1 \in DOMAIN stack[t]
      /\ stack[t][1].op = "enqueue" /\ stack[t][1].req = r
  BY <1>1, TopFrame DEF PushBack
<1>3. Live(r) /\ req[r].owner = t /\ r \notin heldList /\ ~IsPending(r)
  BY <1>2 DEF IInv, EnqueueOK
<1>4. /\ pend \in Seq(Requests) /\ Len(pend) = Len(pendingList) + 1
      /\ Len(pendingList) \in Nat
      /\ DOMAIN pendingList = 1 .. Len(pendingList) /\ DOMAIN pend = 1 .. Len(pend)
      /\ pend[Len(pend)] = r
      /\ \A i \in 1 .. Len(pendingList) : pend[i] = pendingList[i]
  BY <1>1, AppendProperties, LenProperties DEF LockOK
<1> HIDE DEF pend
<1>5. \A i \in DOMAIN pend :
        \/ i \in DOMAIN pendingList /\ pend[i] = pendingList[i]
        \/ i = Len(pend) /\ pend[i] = r
  BY <1>4
<1>6. LockOK(req, pend, heldList, lockStatus)
  <2>1. \A i, j \in DOMAIN pend : pend[i] = pend[j] => i = j
    BY <1>1, <1>3, <1>5 DEF LockOK, IsPending
  <2>2. \A i \in DOMAIN pend : req[pend[i]] # None /\ pend[i] \notin heldList
    BY <1>1, <1>3, <1>5 DEF LockOK, Live
  <2> QED BY <1>1, <1>4, <2>1, <2>2 DEF LockOK
<1>7. pend # <<>>
  BY <1>4, EmptySeq
<1>8. Below(t) = Rest(t, 1) /\ Rest(t, 1) \in Seq(Frame)
  BY <1>1, <1>2, RestType DEF Rest
<1>9. /\ LockOK(req, pendingList', heldList', lockStatus')
      /\ heldList' # {}
      /\ Served(t, pend, heldList, Rest(t, 1))
  BY <1>1, <1>6, <1>7, <1>8, ProcessPendingUnsafeServes DEF PushBack, pend
<1>10. \A i \in DOMAIN pend : pend[i] \notin heldList /\ Live(pend[i])
  BY <1>6 DEF LockOK, Live
<1>11. \A q : (\E i \in DOMAIN pend : pend[i] = q) <=> IsPending(q) \/ q = r
  <2>1. Len(pend) \in DOMAIN pend /\ DOMAIN pendingList \subseteq DOMAIN pend
    BY <1>4
  <2> QED BY <1>4, <1>5, <2>1 DEF IsPending
<1> QED BY <1>2, <1>3, <1>9, <1>10, <1>11 DEF pend

(* Queueing the client's request keeps the invariant. *)
LEMMA PushBackKeepsIInv ==
  ASSUME IInv, NEW t \in Threads, NEW r \in Requests, PushBack(t, r)
  PROVE  IInv'
<1> DEFINE pend == Append(pendingList, r)
<1>1. /\ stack[t] # <<>> /\ req[r].owner = t
      /\ LockOK(req, pendingList', heldList', lockStatus') /\ heldList' # {}
      /\ Served(t, pend, heldList, Rest(t, 1))
      /\ \A i \in DOMAIN pend : pend[i] \notin heldList
      /\ \A q : (\E i \in DOMAIN pend : pend[i] = q) <=> IsPending(q) \/ q = r
  BY PushBackServes
<1> HIDE DEF pend
<1>2. UNCHANGED <<env, req, promise, queued, attached>>
  BY DEF PushBack
<1>3. NobodyWaitsInVain'
  BY <1>1 DEF NobodyWaitsInVain
<1> QED BY <1>1, <1>2, <1>3, TopServesKeepsIInv

(* lockAsync, up to the request that is refused, or is still to be queued. *)
LEMMA LockAsyncKeepsIInv ==
  ASSUME IInv, NEW t \in Threads, NEW r \in Requests, NEW mode \in Modes,
         NEW options \in SUBSET (Uses \ {"nested"}), LockAsync(t, r, mode, options)
  PROVE  IInv'
<1> DEFINE object == [owner |-> t, mode |-> mode, timer |-> "timeout" \in options,
                      signal |-> "signal" \in options, hook |-> TRUE, invalid |-> FALSE]
<1>1. /\ ReqType(req) /\ StackType /\ EnvType /\ PromiseType
      /\ LockOK(req, pendingList, heldList, lockStatus) /\ heldList \subseteq Requests
  BY InvType
<1>2. /\ ~Live(r) /\ req' = [req EXCEPT ![r] = object]
      /\ promise' = [promise EXCEPT ![r] = "open"]
      /\ stack' = [stack EXCEPT ![t] = <<Enqueue(r)>> \o stack[t]]
      /\ env' = env /\ pendingList' = pendingList /\ heldList' = heldList
      /\ lockStatus' = lockStatus /\ queued' = queued /\ attached' = attached
  BY DEF LockAsync, lockVars
<1>3. object \in Request /\ object # None /\ object.owner = t
  <2>1. ("timeout" \in options) \in BOOLEAN /\ ("signal" \in options) \in BOOLEAN
    OBVIOUS
  <2>2. object \in Request
    BY <2>1 DEF Request
  <2> QED BY <2>2, NoneIsNoObject
<1> HIDE DEF object
<1>4. /\ ReqType(req') /\ Live(r)' /\ req'[r].owner = t
      /\ \A q \in Requests : q # r => req'[q] = req[q]
  BY <1>1, <1>2, <1>3 DEF ReqType, Live
<1>5. EnvType' /\ PromiseType'
  BY <1>1, <1>2 DEF EnvType, PromiseType
<1>6. r \notin heldList /\ ~IsPending(r)
  BY <1>1, <1>2 DEF LockOK, Live, IsPending
<1>7. LockOK(req, pendingList, heldList, lockStatus)'
  <2>1. \A i \in DOMAIN pendingList : pendingList[i] \in Requests \ {r}
    BY <1>1, <1>6, ElementOfSeq, LenProperties DEF LockOK, IsPending
  <2>2. \A i \in DOMAIN pendingList : req'[pendingList[i]] # None
    BY <1>1, <1>4, <2>1 DEF LockOK
  <2>3. \A q \in heldList : req'[q] # None /\ req'[q].mode = req[q].mode
    BY <1>1, <1>4, <1>6 DEF LockOK
  <2>4. LockOK(req', pendingList, heldList, lockStatus)
    BY <1>1, <2>2, <2>3, OthersKeepLockOK
  <2> QED BY <1>2, <2>4
<1>8. NobodyWaitsInVain'
  BY <1>2 DEF IInv, NobodyWaitsInVain
<1> DEFINE fs == <<Enqueue(r)>>
<1>9. /\ fs \in Seq(Frame) /\ Len(fs) = 1 /\ DOMAIN fs = {1}
      /\ fs[1].op = "enqueue" /\ fs[1].req = r
  BY DEF Enqueue, Frame
<1> HIDE DEF fs
<1>10. StackStep(t, 0, fs)
  BY <1>2, <1>9 DEF StackStep, Rest, fs
<1>11. StackType' /\ OneCarrier'
  <2>1. PICK R : R = {}
    OBVIOUS
  <2>2. \A i \in DOMAIN fs : fs[i].op \notin CarrierOps
    BY <1>9 DEF CarrierOps
  <2>3. CarrierStep(t, 0, fs, R)
    BY <1>2, <1>10, <2>1, <2>2, NoCarrierMoves
  <2>4. OneCarrier
    BY DEF IInv
  <2> QED BY <1>1, <1>10, <2>3, <2>4, CarrierStepOneCarrier, StackStepFrames
<1>12. EnqueueOK'
  <2>1. stack[t] = <<>> \/ stack[t][1].op # "enqueue"
    <3>1. CASE Idle(t)
      BY <3>1 DEF Idle
    <3>2. CASE \E q \in Requests : Top(t, "callback", q)
      BY <1>1, <3>2, TopFrame
    <3> QED BY <3>1, <3>2 DEF LockAsync, MayCallLockAsync
  <2>2. \A j \in DOMAIN stack[t] : stack[t][j].op # "enqueue"
    BY <2>1 DEF IInv, EnqueueOK
  <2>3. \A i \in DOMAIN stack'[t] : stack'[t][i].op = "enqueue" => i = 1 /\ stack'[t][i].req = r
    BY <1>1, <1>9, <1>10, <2>2, StackStepFrames
  <2>4. ASSUME NEW u \in Threads, u # t, NEW i \in DOMAIN stack'[u], stack'[u][i].op = "enqueue"
        PROVE  \E q \in Requests : /\ i = 1 /\ stack'[u][i].req = q
                                  /\ Live(q)' /\ req'[q].owner = u
                                  /\ q \notin heldList' /\ ~IsPending(q)'
    <3>1. stack'[u] = stack[u]
      BY <1>1, <1>10, <2>4, StackStepFrames
    <3>2. PICK q \in Requests : q = stack[u][i].req
      BY <2>4, <3>1 DEF IInv, EnqueueOK
    <3>3. /\ i = 1 /\ Live(q) /\ req[q].owner = u
          /\ q \notin heldList /\ ~IsPending(q)
      BY <2>4, <3>1, <3>2 DEF IInv, EnqueueOK
    <3> QED BY <1>2, <1>4, <3>1, <3>2, <3>3 DEF Live, IsPending
  <2>5. Live(r)' /\ req'[r].owner = t /\ r \notin heldList' /\ ~IsPending(r)'
    BY <1>2, <1>4, <1>6 DEF IsPending
  <2> QED BY <2>3, <2>4, <2>5 DEF EnqueueOK, Live, IsPending
<1>13. TypeOK'
  <2>1. queued \subseteq Requests /\ attached \subseteq Requests
    BY DEF IInv, TypeOK
  <2> QED BY <1>2, <1>4, <1>5, <1>7, <1>11, <2>1
        DEF TypeOK, ReqType, EnvType, PromiseType, StackType, LockOK
<1> QED BY <1>7, <1>8, <1>11, <1>12, <1>13 DEF IInv

(* The loop over the waiting shared requests goes on. *)
LEMMA NextInBatchServes ==
  ASSUME IInv, NEW t \in Threads, NEW sync \in Requests \cup {None}, NextInBatch(t, sync)
  PROVE  /\ stack[t] # <<>> /\ stack[t][1].op = "batch"
         /\ LockOK(req, pendingList', heldList', lockStatus') /\ NobodyWaitsInVain'
         /\ Served(t, pendingList, heldList, Rest(t, 1))
<1>1. /\ ReqType(req) /\ StackType /\ LockOK(req, pendingList, heldList, lockStatus)
  BY InvType
<1>2. stack[t] # <<>> /\ stack[t][1].op = "batch"
  BY <1>1, TopFrame DEF NextInBatch
<1>3. Below(t) = Rest(t, 1) /\ Rest(t, 1) \in Seq(Frame)
  BY <1>1, <1>2, RestType DEF Rest
<1>4. CASE /\ FrontIsShared
           /\ Grant(t, pendingList, heldList, sync, Below(t))
           /\ UNCHANGED lockStatus
  <2>1. pendingList # <<>> /\ heldList # {}
    BY <1>4 DEF FrontIsShared, IInv, NobodyWaitsInVain
  <2>2. MayGrant(req, pendingList, heldList, lockStatus, lockStatus')
    BY <1>4, <2>1 DEF MayGrant, FrontIsShared
  <2>3. /\ LockOK(req, pendingList', heldList', lockStatus')
        /\ heldList' # {}
        /\ Served(t, pendingList, heldList, Rest(t, 1))
    BY <1>1, <1>3, <1>4, <2>1, <2>2, GrantServes
  <2> QED BY <1>2, <2>3 DEF NobodyWaitsInVain
<1>5. CASE Replace(t, <<>>) /\ UNCHANGED lockVars
  <2>1. pendingList' = pendingList /\ heldList' = heldList /\ lockStatus' = lockStatus
    BY <1>5 DEF lockVars
  <2>2. stack' = [stack EXCEPT ![t] = Rest(t, 1)]
    BY <1>3, <1>5, ConcatEmptySeq DEF Replace
  <2>3. Served(t, pendingList, heldList, Rest(t, 1))
    BY <1>3, <2>1, <2>2, NothingServed
  <2> QED BY <1>1, <1>2, <2>1, <2>3 DEF IInv, NobodyWaitsInVain
<1> QED BY <1>4, <1>5 DEF NextInBatch

(* ProcessPendingLockRequest, called when a request has left. *)
LEMMA ProcessPendingLockRequestServes ==
  ASSUME IInv, NEW t \in Threads, ProcessPendingLockRequest(t)
  PROVE  /\ stack[t] # <<>> /\ stack[t][1].op = "process"
         /\ LockOK(req, pendingList', heldList', lockStatus') /\ NobodyWaitsInVain'
         /\ Served(t, pendingList, heldList, Rest(t, 1))
<1>1. /\ ReqType(req) /\ StackType /\ LockOK(req, pendingList, heldList, lockStatus)
  BY InvType
<1>2. stack[t] # <<>> /\ stack[t][1].op = "process"
  BY <1>1, TopFrame DEF ProcessPendingLockRequest
<1>3. Below(t) = Rest(t, 1) /\ Rest(t, 1) \in Seq(Frame)
  BY <1>1, <1>2, RestType DEF Rest
<1>4. /\ LockOK(req, pendingList', heldList', lockStatus')
      /\ pendingList' # <<>> => heldList' # {}
      /\ Served(t, pendingList, heldList, Rest(t, 1))
  BY <1>1, <1>3, ProcessPendingIfAnyServes DEF ProcessPendingLockRequest
<1> QED BY <1>2, <1>4 DEF NobodyWaitsInVain

(* The loop, and the processing after a timeout, keep the invariant. *)
LEMMA ServingStepsKeepIInv ==
  ASSUME IInv, NEW t \in Threads, NEW sync \in Requests \cup {None},
         NextInBatch(t, sync) \/ ProcessPendingLockRequest(t)
  PROVE  IInv'
<1>1. UNCHANGED <<env, req, promise, queued, attached>>
  BY DEF NextInBatch, ProcessPendingLockRequest
<1>2. \A i \in DOMAIN pendingList : pendingList[i] \notin heldList
  BY InvType DEF LockOK
<1>3. \A q \in Requests :
        Live(q) /\ q \notin heldList /\ ~IsPending(q) /\ req[q].owner # t =>
          \A i \in DOMAIN pendingList : pendingList[i] # q
  BY DEF IsPending
<1> QED BY <1>1, <1>2, <1>3, NextInBatchServes, ProcessPendingLockRequestServes,
           TopServesKeepsIInv

(* The completions. *)
LEMMA CompletionKeepsIInv ==
  ASSUME IInv, NEW t \in Threads, NEW r \in Requests,
         NEW op \in CarrierOps, Top(t, op, r), CleanUpOnCompletion(t, r, Below(t)),
         UNCHANGED <<env, promise, queued, attached>>
  PROVE  IInv'
<1>1. /\ stack[t] # <<>> /\ r \notin queued /\ r \notin attached
      /\ \A u \in Threads : \A i \in DOMAIN stack[u] :
           Carries(u, i) /\ stack[u][i].req = r => u = t /\ i = 1
  BY TopCarrier
<1>2. PICK k \in {0, 1} : k = 1
  OBVIOUS
<1>3. CleanUpOnCompletion(t, r, Rest(t, k))
  BY <1>2 DEF Rest
<1>4. /\ queued' = queued \ {r} /\ attached' = attached \ {r}
      /\ env' = env /\ promise' = promise
  BY <1>1
<1>5. \A u \in Threads : \A i \in DOMAIN stack[u] :
        Carries(u, i) /\ stack[u][i].req = r => u = t /\ i = 1 /\ k = 1
  BY <1>1, <1>2
<1>6. /\ k = 1 => stack[t] # <<>>
      /\ k = 0 => stack[t] = <<>>
  BY <1>1, <1>2
<1> QED BY <1>3, <1>4, <1>5, <1>6, CleanUpKeepsIInv

(* The promise of a callback settles, and its request leaves. *)
LEMMA FinallyCallbackKeepsIInv ==
  ASSUME IInv, NEW r \in Requests, FinallyCallback(r)
  PROVE  IInv'
<1> DEFINE t == req[r].owner
<1>1. /\ r \in attached /\ stack[t] = <<>>
      /\ attached' = attached \ {r} /\ queued' = queued
      /\ env' = env /\ promise' = promise
      /\ CleanUpOnCompletion(t, r, <<>>)
  BY DEF FinallyCallback, Idle
<1>2. /\ t \in Threads /\ r \notin queued
      /\ \A u \in Threads : \A i \in DOMAIN stack[u] :
           ~(Carries(u, i) /\ stack[u][i].req = r)
  BY <1>1, WaitingCarrier
<1>3. PICK k \in {0, 1} : k = 0
  OBVIOUS
<1> HIDE DEF t
<1>4. CleanUpOnCompletion(t, r, Rest(t, k))
  BY <1>1, <1>3 DEF Rest
<1>5. queued' = queued \ {r}
  BY <1>1, <1>2
<1>6. /\ k = 1 => stack[t] # <<>>
      /\ k = 0 => stack[t] = <<>>
  BY <1>1, <1>3
<1> QED BY <1>1, <1>2, <1>4, <1>5, <1>6, CleanUpKeepsIInv

(* A request that has waited too long, or whose engine goes away, leaves   *)
(* the queue; the others stay.                                             *)
LEMMA RemovePendingRemoves ==
  ASSUME IInv, NEW r \in Requests, RemovePending(r)
  PROVE  /\ heldList' = heldList /\ lockStatus' = lockStatus /\ IsPending(r)
         /\ pendingList' \in Seq(Requests)
         /\ \A j, k \in DOMAIN pendingList' : pendingList'[j] = pendingList'[k] => j = k
         /\ \A j \in DOMAIN pendingList' :
              pendingList'[j] # r /\ \E k \in DOMAIN pendingList : pendingList'[j] = pendingList[k]
         /\ \A q \in Requests : q # r /\ IsPending(q) => IsPending(q)'
<1>1. heldList' = heldList /\ lockStatus' = lockStatus /\ IsPending(r)
  BY DEF RemovePending
<1>2. PICK i \in DOMAIN pendingList : i = Position(r) /\ pendingList[i] = r
  BY <1>1 DEF IsPending, Position
<1>3. /\ pendingList \in Seq(Requests)
      /\ \A j, k \in DOMAIN pendingList : pendingList[j] = pendingList[k] => j = k
  BY InvType DEF LockOK
<1>4. pendingList' = Erase(pendingList, i)
  BY <1>2 DEF RemovePending, Erase
<1>5. /\ Erase(pendingList, i) \in Seq(Requests)
      /\ \A j, k \in DOMAIN Erase(pendingList, i) :
           Erase(pendingList, i)[j] = Erase(pendingList, i)[k] => j = k
      /\ \A j \in DOMAIN Erase(pendingList, i) :
           /\ Erase(pendingList, i)[j] # pendingList[i]
           /\ \E k \in DOMAIN pendingList : Erase(pendingList, i)[j] = pendingList[k]
      /\ \A k \in DOMAIN pendingList : k # i =>
           \E j \in DOMAIN Erase(pendingList, i) : Erase(pendingList, i)[j] = pendingList[k]
  BY <1>3, Erasing
<1>6. \A q \in Requests : q # r /\ IsPending(q) => IsPending(q)'
  BY <1>2, <1>4, <1>5 DEF IsPending
<1> QED BY <1>1, <1>2, <1>4, <1>5, <1>6

(* It does so with ProcessPendingLockRequest still to come. *)
LEMMA RemovePendingKeepsIInv ==
  ASSUME IInv, NEW t \in Threads, stack[t] = <<>>, NEW r \in Requests,
         RemovePending(r), req' = [req EXCEPT ![r] = None],
         stack' = [stack EXCEPT ![t] = <<Process>>],
         EnvType', PromiseType', UNCHANGED <<queued, attached>>
  PROVE  IInv'
<1>1. /\ ReqType(req) /\ StackType /\ EnvType /\ PromiseType
      /\ LockOK(req, pendingList, heldList, lockStatus) /\ heldList \subseteq Requests
  BY InvType
<1>2. heldList' = heldList /\ lockStatus' = lockStatus /\ IsPending(r)
  BY RemovePendingRemoves
<1>3. PICK i \in DOMAIN pendingList : pendingList[i] = r
  BY <1>2 DEF IsPending
<1>4. /\ pendingList' \in Seq(Requests)
      /\ \A j, k \in DOMAIN pendingList' : pendingList'[j] = pendingList'[k] => j = k
      /\ \A j \in DOMAIN pendingList' :
           pendingList'[j] # r /\ \E k \in DOMAIN pendingList : pendingList'[j] = pendingList[k]
  BY RemovePendingRemoves
<1>5. r \notin heldList
  BY <1>1, <1>3 DEF LockOK
<1>6. ReqType(req') /\ \A q \in Requests : q # r => req'[q] = req[q]
  BY <1>1 DEF ReqType
<1>7. LockOK(req, pendingList', heldList, lockStatus)
  BY <1>1, <1>4 DEF LockOK
<1>8. LockOK(req, pendingList, heldList, lockStatus)'
  <2>1. \A j \in DOMAIN pendingList' : pendingList'[j] \in Requests \ {r}
    BY <1>4, ElementOfSeq, LenProperties
  <2>2. \A j \in DOMAIN pendingList' : req'[pendingList'[j]] # None
    BY <1>6, <1>7, <2>1 DEF LockOK
  <2>3. \A q \in heldList : req'[q] # None /\ req'[q].mode = req[q].mode
    BY <1>1, <1>5, <1>6 DEF LockOK
  <2>4. LockOK(req', pendingList', heldList, lockStatus)
    BY <1>7, <2>2, <2>3, OthersKeepLockOK
  <2> QED BY <1>2, <2>4
<1>9. NobodyWaitsInVain'
  <2>1. pendingList # <<>>
    BY <1>3
  <2> QED BY <1>2, <2>1 DEF IInv, NobodyWaitsInVain
<1> DEFINE fs == <<Process>>
<1>10. /\ fs \in Seq(Frame)
       /\ \A j \in DOMAIN fs : fs[j].op \notin CarrierOps /\ fs[j].op # "enqueue"
  BY DEF Process, Frame, CarrierOps
<1> HIDE DEF fs
<1>11. StackStep(t, 0, fs)
  <2>1. Rest(t, 0) = <<>> /\ fs \o <<>> = fs
    BY <1>10, ConcatEmptySeq DEF Rest
  <2>2. stack' = [stack EXCEPT ![t] = fs]
    BY DEF fs
  <2>3. stack' = [stack EXCEPT ![t] = fs \o Rest(t, 0)]
    BY <2>1, <2>2
  <2>4. 0 \in {0, 1} /\ 0 # 1
    OBVIOUS
  <2> QED BY <1>10, <2>3, <2>4, Zenon DEF StackStep
<1>12. StackType' /\ OneCarrier'
  <2>1. PICK R : R = {}
    OBVIOUS
  <2>2. CarrierStep(t, 0, fs, R)
    BY <1>2, <1>10, <1>11, <2>1, NoCarrierMoves
  <2> QED BY <1>1, <1>11, <2>2, CarrierStepOneCarrier, StackStepFrames DEF IInv
<1>13. EnqueueOK'
  <2>1. ASSUME NEW q \in Requests,
               Live(q), q \notin heldList, ~IsPending(q), req[q].owner # t
        PROVE  /\ Live(q)' /\ req'[q].owner = req[q].owner
               /\ q \notin heldList' /\ ~IsPending(q)'
    <3>1. q # r
      BY <1>3, <2>1 DEF IsPending
    <3> QED BY <1>2, <1>4, <1>6, <2>1, <3>1 DEF Live, IsPending
  <2>2. EnqueueStep(t, 0, fs)
    BY <1>10, <1>11, <2>1 DEF EnqueueStep
  <2> QED BY <1>1, <2>2, EnqueueStepEnqueueOK DEF IInv
<1>14. TypeOK'
  <2>1. queued' \subseteq Requests /\ attached' \subseteq Requests
    BY DEF IInv, TypeOK
  <2> QED BY <1>6, <1>8, <1>12, <2>1
        DEF TypeOK, ReqType, EnvType, PromiseType, StackType, LockOK
<1> QED BY <1>8, <1>9, <1>12, <1>13, <1>14 DEF IInv

(* Nothing but the engines, or an object, changes. *)
LEMMA NoFrameMovesKeepsIInv ==
  ASSUME IInv, UNCHANGED <<lockVars, promise, queued, attached, stack>>,
         ObjectsKept, EnvType', NEW t \in Threads, stack[t] = <<>>
  PROVE  IInv'
<1>1. StackType /\ PromiseType'
  BY InvType DEF PromiseType
<1>2. PICK R : R = {}
  OBVIOUS
<1>3. PICK fs \in Seq(Frame) : fs = <<>>
  BY EmptySeq
<1>4. PICK k \in {0, 1} : k = 0
  OBVIOUS
<1>5. DOMAIN fs = {} /\ fs \o stack[t] = stack[t]
  BY <1>1, <1>3, EmptySeq, LenProperties, ConcatEmptySeq DEF StackType
<1>6. StackStep(t, k, fs)
  BY <1>1, <1>4, <1>5 DEF StackStep, Rest, StackType
<1>7. CarrierStep(t, k, fs, R)
  BY <1>2, <1>5, <1>6, NoCarrierMoves DEF lockVars
<1> QED BY <1>1, <1>5, <1>7, QuietStepKeepsIInv

(* No frame, and one frame. *)
LEMMA NoFrame == <<>> \in Seq(Frame) /\ \A i \in DOMAIN <<>> : FALSE
<1>1. <<>> \in Seq(Frame) /\ Len(<<>>) = 0
  BY EmptySeq
<1> QED BY <1>1, LenProperties

(* A stack of one frame has that frame and no other. *)
LEMMA OneFrame ==
  ASSUME NEW f \in Frame
  PROVE  <<f>> \in Seq(Frame) /\ (\A i \in DOMAIN <<f>> : i = 1) /\ <<f>>[1] = f
<1>1. <<f>> \in Seq(Frame) /\ Len(<<f>>) = 1 /\ <<f>>[1] = f
  OBVIOUS
<1> QED BY <1>1, LenProperties

(* A callback is posted to the thread of its request. *)
LEMMA CallCallbackAsyncKeepsIInv ==
  ASSUME IInv, NEW t \in Threads, NEW r \in Requests, CallCallbackAsync(t, r)
  PROVE  IInv'
<1>1. Top(t, "deliver", r) /\ "deliver" \in CarrierOps
  BY DEF CallCallbackAsync, CarrierOps
<1>2. CASE /\ queued' = queued \cup {r} /\ Replace(t, <<>>) /\ UNCHANGED <<req, lockVars>>
           /\ UNCHANGED <<env, promise, attached>>
  <2>1. PICK fs \in Seq(Frame) : fs = <<>> /\ \A i \in DOMAIN fs : FALSE
    BY NoFrame
  <2>2. PICK k \in {0, 1} : k = 1
    OBVIOUS
  <2>3. /\ heldList' = heldList /\ attached' = attached
        /\ queued' \subseteq queued \cup {r} /\ queued \subseteq queued'
        /\ stack' = [stack EXCEPT ![t] = fs \o Below(t)]
    BY <1>2, <2>1 DEF lockVars, Replace
  <2>4. queued' \cap attached' = {}
    BY <1>1, <1>2, TopCarrier DEF IInv, OneCarrier
  <2>5. CarrierStep(t, 1, fs, {r})
    BY <1>1, <2>1, <2>3, <2>4, TopCarrierMoves
  <2>6. ObjectsKept /\ EnvType' /\ PromiseType'
    BY <1>2, InvType DEF ObjectsKept, EnvType, PromiseType, Live
  <2> QED BY <1>2, <2>1, <2>5, <2>6, QuietStepKeepsIInv
<1>3. CASE /\ CleanUpOnCompletion(t, r, Below(t)) /\ UNCHANGED queued
           /\ UNCHANGED <<env, promise, attached>>
  BY <1>1, <1>3, CompletionKeepsIInv
<1> QED BY <1>2, <1>3 DEF CallCallbackAsync

(* The frame that carries a request becomes another one, or, when the      *)
(* callback has returned a promise, that promise carries it.               *)
LEMMA CarryOnKeepsIInv ==
  ASSUME IInv, NEW t \in Threads, NEW op \in CarrierOps, NEW r, Top(t, op, r),
         NEW f \in Frame, f.op \in CarrierOps, f.req = r, Replace(t, <<f>>),
         UNCHANGED <<env, lockVars, queued, attached>>, ObjectsKept, PromiseType'
  PROVE  IInv'
<1>1. PICK fs \in Seq(Frame) : fs = <<f>> /\ (\A i \in DOMAIN fs : i = 1) /\ fs[1] = f
  BY OneFrame
<1>2. /\ r \in heldList /\ r \notin queued /\ r \notin attached /\ stack[t] # <<>>
  BY TopCarrier
<1>3. /\ heldList' = heldList /\ attached' = attached /\ queued' = queued
      /\ stack' = [stack EXCEPT ![t] = fs \o Below(t)]
  BY <1>1 DEF lockVars, Replace
<1>4. queued' \cap attached' = {}
  BY <1>3 DEF IInv, OneCarrier
<1>5. CarrierStep(t, 1, fs, {r})
  BY <1>1, <1>2, <1>3, <1>4, TopCarrierMoves
<1>6. \A i \in DOMAIN fs : fs[i].op # "enqueue"
  BY <1>1 DEF CarrierOps
<1>7. EnvType'
  BY InvType DEF EnvType
<1> QED BY <1>5, <1>6, <1>7, QuietStepKeepsIInv

(* A callback is called on its own thread. *)
LEMMA CallCallbackKeepsIInv ==
  ASSUME IInv, NEW t \in Threads, NEW r \in Requests, CallCallback(t, r)
  PROVE  IInv'
<1>1. Top(t, "call", r) /\ "call" \in CarrierOps
  BY DEF CallCallback, CarrierOps
<1>2. Live(r) /\ ReqType(req) /\ PromiseType
  BY <1>1, TopCarrier, InvType
<1>3. UNCHANGED <<env, lockVars, queued, attached>>
  BY DEF CallCallback
<1>4. CASE /\ req' = [req EXCEPT ![r].hook = FALSE]
           /\ Replace(t, <<Callback(r)>>) /\ UNCHANGED promise
  <2>1. ObjectsKept /\ PromiseType'
    BY <1>2, <1>4, UpdateKeepsObjects DEF PromiseType
  <2>2. Callback(r) \in Frame /\ Callback(r).op \in CarrierOps /\ Callback(r).req = r
    BY DEF Callback, Frame, CarrierOps
  <2> QED BY <1>1, <1>3, <1>4, <2>1, <2>2, CarryOnKeepsIInv
<1>5. CASE /\ req' = [req EXCEPT ![r].hook = FALSE, ![r].timer = FALSE]
           /\ Settle(r) /\ Replace(t, <<Complete(r)>>)
  <2>1. ObjectsKept /\ PromiseType'
    BY <1>2, <1>5, UpdateKeepsObjects, SettleType
  <2>2. Complete(r) \in Frame /\ Complete(r).op \in CarrierOps /\ Complete(r).req = r
    BY DEF Complete, Frame, CarrierOps
  <2> QED BY <1>1, <1>3, <1>5, <2>1, <2>2, CarryOnKeepsIInv
<1> QED BY <1>4, <1>5 DEF CallCallback

(* A callback returns a value, or throws. *)
LEMMA CallbackReturnsKeepsIInv ==
  ASSUME IInv, NEW t \in Threads, NEW r \in Requests, CallbackReturns(t, r)
  PROVE  IInv'
<1>1. Top(t, "callback", r) /\ "callback" \in CarrierOps
  BY DEF CallbackReturns, CarrierOps
<1>2. Live(r) /\ ReqType(req) /\ PromiseType
  BY <1>1, TopCarrier, InvType
<1>3. ObjectsKept /\ PromiseType'
  BY <1>2, UpdateKeepsObjects, SettleType DEF CallbackReturns, Release
<1>4. Complete(r) \in Frame /\ Complete(r).op \in CarrierOps /\ Complete(r).req = r
  BY DEF Complete, Frame, CarrierOps
<1> QED BY <1>1, <1>3, <1>4, CarryOnKeepsIInv DEF CallbackReturns

(* A callback returns a promise, which carries the request from then on. *)
LEMMA CallbackReturnsPromiseKeepsIInv ==
  ASSUME IInv, NEW t \in Threads, NEW r \in Requests, CallbackReturnsPromise(t, r)
  PROVE  IInv'
<1>1. Top(t, "callback", r) /\ "callback" \in CarrierOps
  BY DEF CallbackReturnsPromise, CarrierOps
<1>2. /\ Settle(r) /\ Replace(t, <<>>) /\ attached' = attached \cup {r}
      /\ UNCHANGED <<env, req, lockVars, queued>>
  BY DEF CallbackReturnsPromise
<1>3. PICK fs \in Seq(Frame) : fs = <<>> /\ \A i \in DOMAIN fs : FALSE
  BY NoFrame
<1>4. /\ heldList' = heldList /\ queued' = queued
      /\ attached' \subseteq attached \cup {r} /\ attached \subseteq attached'
      /\ stack' = [stack EXCEPT ![t] = fs \o Below(t)]
  BY <1>2, <1>3 DEF lockVars, Replace
<1>5. queued' \cap attached' = {}
  BY <1>1, <1>2, TopCarrier DEF IInv, OneCarrier
<1>6. CarrierStep(t, 1, fs, {r})
  BY <1>1, <1>3, <1>4, <1>5, TopCarrierMoves
<1>7. ObjectsKept /\ EnvType' /\ PromiseType'
  BY <1>2, InvType, SettleType DEF ObjectsKept, EnvType, Live
<1> QED BY <1>2, <1>3, <1>6, <1>7, QuietStepKeepsIInv

(* The work that was posted to a thread runs there. *)
LEMMA AsyncAfterWorkCallbackKeepsIInv ==
  ASSUME IInv, NEW r \in Requests, AsyncAfterWorkCallback(r)
  PROVE  IInv'
<1>1. PICK t \in Threads : t = req[r].owner
  BY WaitingCarrier DEF AsyncAfterWorkCallback
<1>2. /\ r \in heldList /\ Live(r) /\ r \in queued /\ r \notin attached
      /\ \A u \in Threads : \A i \in DOMAIN stack[u] :
           ~(Carries(u, i) /\ stack[u][i].req = r)
  BY WaitingCarrier DEF AsyncAfterWorkCallback
<1>3. /\ stack[t] = <<>> /\ queued' = queued \ {r} /\ attached' = attached
      /\ heldList' = heldList /\ UNCHANGED <<env, promise, lockVars>>
  BY <1>1 DEF AsyncAfterWorkCallback, Idle, lockVars
<1>4. PICK f \in Frame : /\ f.op \in CarrierOps /\ f.req = r
                       /\ stack' = [stack EXCEPT ![t] = <<f>>]
                       /\ ObjectsKept
  <2>1. /\ Call(r) \in Frame /\ Call(r).op \in CarrierOps /\ Call(r).req = r
        /\ Complete(r) \in Frame /\ Complete(r).op \in CarrierOps /\ Complete(r).req = r
    BY DEF Call, Complete, Frame, CarrierOps
  <2>2. CASE stack' = [stack EXCEPT ![t] = <<Call(r)>>] /\ UNCHANGED req
    BY <2>1, <2>2, InvType DEF ObjectsKept, Live
  <2>3. CASE stack' = [stack EXCEPT ![t] = <<Complete(r)>>] /\ Release(r)
    BY <1>2, <2>1, <2>3, InvType, UpdateKeepsObjects DEF Release
  <2> QED BY <1>1, <2>2, <2>3 DEF AsyncAfterWorkCallback
<1>5. PICK fs \in Seq(Frame) : fs = <<f>> /\ (\A i \in DOMAIN fs : i = 1) /\ fs[1] = f
  BY OneFrame
<1>6. PICK k \in {0, 1} : k = 0
  OBVIOUS
<1>7. StackStep(t, k, fs)
  <2>1. Rest(t, k) = <<>> /\ fs \o <<>> = fs
    BY <1>3, <1>6, ConcatEmptySeq DEF Rest
  <2>2. stack' = [stack EXCEPT ![t] = fs \o Rest(t, k)]
    BY <1>4, <1>5, <2>1
  <2> QED BY <1>6, <2>2 DEF StackStep
<1>8. CarrierStep(t, k, fs, {r})
  <2>1. ASSUME NEW q \in Requests \ {r}
        PROVE  /\ q \in heldList <=> q \in heldList'
               /\ q \in queued <=> q \in queued'
               /\ q \in attached <=> q \in attached'
    BY <1>3, Zenon
  <2>2. /\ queued' \subseteq heldList' /\ attached' \subseteq heldList'
        /\ queued' \cap attached' = {}
    BY <1>3 DEF IInv, OneCarrier
  <2>3. \A i \in DOMAIN fs : fs[i].op \in CarrierOps =>
          fs[i].req \in {r} /\ fs[i].req \in heldList' \ (queued' \cup attached')
    BY <1>2, <1>3, <1>4, <1>5
  <2>4. \A u \in Threads : \A i \in DOMAIN stack[u] :
          Carries(u, i) /\ stack[u][i].req \in {r} => u = t /\ i = 1 /\ k = 1
    BY <1>2
  <2>5. \A i, j \in DOMAIN fs :
          fs[i].op \in CarrierOps /\ fs[j].op \in CarrierOps => i = j
    BY <1>5
  <2> QED BY <1>7, <2>1, <2>2, <2>3, <2>4, <2>5 DEF CarrierStep
<1>9. EnvType' /\ PromiseType' /\ \A i \in DOMAIN fs : fs[i].op # "enqueue"
  BY <1>3, <1>4, <1>5, InvType DEF EnvType, PromiseType, CarrierOps
<1> QED BY <1>3, <1>4, <1>8, <1>9, QuietStepKeepsIInv

(* The timer of a waiting request fires. *)
LEMMA TimeoutCallbackKeepsIInv ==
  ASSUME IInv, NEW r \in Requests, TimeoutCallback(r)
  PROVE  IInv'
<1>1. ReqType(req) /\ EnvType /\ PromiseType /\ Live(r)
  BY InvType DEF TimeoutCallback
<1>2. PICK t \in Threads : t = req[r].owner
  BY <1>1 DEF ReqType, Live, Request
<1>3. stack[t] = <<>> /\ UNCHANGED <<env, queued, attached>> /\ EnvType'
  BY <1>1, <1>2 DEF TimeoutCallback, Idle, EnvType
<1>4. CASE /\ RemovePending(r) /\ Settle(r) /\ req' = [req EXCEPT ![r] = None]
           /\ stack' = [stack EXCEPT ![t] = <<Process>>]
  BY <1>1, <1>3, <1>4, SettleType, RemovePendingKeepsIInv
<1>5. CASE /\ req' = [req EXCEPT ![r].timer = FALSE]
           /\ UNCHANGED <<lockVars, promise, stack>>
  <2>1. ObjectsKept
    BY <1>1, <1>5, UpdateKeepsObjects
  <2> QED BY <1>3, <1>5, <2>1, NoFrameMovesKeepsIInv
<1> QED BY <1>2, <1>4, <1>5 DEF TimeoutCallback

(* A cleanup hook of an engine that is being destroyed. *)
LEMMA EnvCleanupKeepsIInv ==
  ASSUME IInv, NEW r \in Requests, EnvCleanup(r)
  PROVE  IInv'
<1>1. ReqType(req) /\ EnvType /\ PromiseType /\ Live(r)
  BY InvType DEF EnvCleanup
<1>2. PICK t \in Threads : t = req[r].owner
  BY <1>1 DEF ReqType, Live, Request
<1>3. stack[t] = <<>> /\ UNCHANGED <<env, promise, queued, attached>> /\ EnvType' /\ PromiseType'
  BY <1>1, <1>2 DEF EnvCleanup, Idle, EnvType, PromiseType
<1>4. CASE /\ RemovePending(r) /\ req' = [req EXCEPT ![r] = None]
           /\ stack' = [stack EXCEPT ![t] = <<Process>>]
  BY <1>1, <1>3, <1>4, RemovePendingKeepsIInv
<1>5. CASE /\ req' = [req EXCEPT ![r].hook = FALSE, ![r].invalid = TRUE]
           /\ UNCHANGED <<lockVars, stack>>
  <2>1. ObjectsKept
    BY <1>1, <1>5, UpdateKeepsObjects
  <2> QED BY <1>3, <1>5, <2>1, NoFrameMovesKeepsIInv
<1> QED BY <1>2, <1>4, <1>5 DEF EnvCleanup

(* An engine begins its destruction, or ends it. *)
LEMMA EngineStepsKeepIInv ==
  ASSUME IInv, NEW t \in Threads, DestroyEngine(t) \/ EngineDestroyed(t)
  PROVE  IInv'
<1>1. /\ stack[t] = <<>> /\ UNCHANGED <<req, promise, lockVars, queued, attached, stack>>
      /\ (env' = [env EXCEPT ![t] = "closing"] \/ env' = [env EXCEPT ![t] = "dead"])
  BY DEF DestroyEngine, EngineDestroyed, Idle
<1>2. EnvType' /\ ObjectsKept
  BY <1>1, InvType DEF EnvType, ObjectsKept, Live
<1> QED BY <1>1, <1>2, NoFrameMovesKeepsIInv

----------------------------------------------------------------------------
(* The theorems. *)

(* At the start there is no request. *)
LEMMA InitIInv == Init => IInv
<1> SUFFICES ASSUME Init PROVE IInv
  OBVIOUS
<1>1. \A t \in Threads : stack[t] = <<>> /\ DOMAIN stack[t] = {}
  <2>1. \A i \in DOMAIN <<>> : FALSE
    BY NoFrame
  <2> QED BY <2>1 DEF Init
<1>2. pendingList = <<>> /\ DOMAIN pendingList = {}
  <2>1. \A i \in DOMAIN <<>> : FALSE
    BY NoFrame
  <2> QED BY <2>1 DEF Init
<1>3. TypeOK
  <2>1. <<>> \in Seq(Requests) /\ <<>> \in Seq(Frame)
    BY EmptySeq
  <2> QED BY <2>1 DEF Init, TypeOK
<1>4. LockOK(req, pendingList, heldList, lockStatus)
  BY <1>2, <1>3 DEF Init, LockOK, TypeOK
<1>5. NobodyWaitsInVain
  BY <1>2 DEF NobodyWaitsInVain
<1>6. EnqueueOK /\ OneCarrier
  BY <1>1 DEF Init, EnqueueOK, OneCarrier
<1> QED BY <1>3, <1>4, <1>5, <1>6 DEF IInv

(* Every action preserves the invariant. *)
LEMMA NextIInv == IInv /\ [Next]_vars => IInv'
<1> SUFFICES ASSUME IInv, [Next]_vars PROVE IInv'
  OBVIOUS
<1>1. CASE \E t \in Threads : Step(t)
  <2>1. PICK t \in Threads : Step(t)
    BY <1>1
  <2>2. ASSUME NEW r \in Requests, Completion(t, r)
        PROVE  IInv'
    <3>1. "complete" \in CarrierOps
      BY DEF CarrierOps
    <3> QED BY <2>2, <3>1, CompletionKeepsIInv DEF Completion
  <2>3. ASSUME NEW r \in Requests,
               \/ PushBack(t, r) \/ CallCallbackAsync(t, r) \/ CallCallback(t, r)
               \/ CallbackReturns(t, r) \/ CallbackReturnsPromise(t, r)
        PROVE  IInv'
    BY <2>3, PushBackKeepsIInv, CallCallbackAsyncKeepsIInv, CallCallbackKeepsIInv,
       CallbackReturnsKeepsIInv, CallbackReturnsPromiseKeepsIInv
  <2>4. ASSUME NEW sync \in Requests \cup {None},
               NextInBatch(t, sync) \/ ProcessPendingLockRequest(t)
        PROVE  IInv'
    BY <2>4, ServingStepsKeepIInv
  <2> QED BY <2>1, <2>2, <2>3, <2>4 DEF Step
<1>2. CASE \E t \in Threads : DestroyEngine(t) \/ EngineDestroyed(t)
  BY <1>2, EngineStepsKeepIInv
<1>3. CASE \E t \in Threads, r \in Requests, mode \in Modes,
            options \in SUBSET (Uses \ {"nested"}) : LockAsync(t, r, mode, options)
  BY <1>3, LockAsyncKeepsIInv
<1>4. CASE \E r \in Requests : \/ AsyncAfterWorkCallback(r) \/ FinallyCallback(r)
                               \/ TimeoutCallback(r) \/ EnvCleanup(r)
  BY <1>4, AsyncAfterWorkCallbackKeepsIInv, FinallyCallbackKeepsIInv,
     TimeoutCallbackKeepsIInv, EnvCleanupKeepsIInv
<1>5. CASE UNCHANGED vars
  BY <1>5 DEF vars, lockVars, IInv, TypeOK, LockOK, NobodyWaitsInVain, EnqueueOK, OneCarrier,
              Carries, Live, IsPending
<1> QED BY <1>1, <1>2, <1>3, <1>4, <1>5 DEF Next

(* The invariant holds in every state the lock can be in. *)
THEOREM InductiveInvariant == Spec => []IInv
  BY InitIInv, NextIInv, PTL DEF Spec

(* The variables of the model have their types: in particular the lists of *)
(* the lock and the stacks of the threads only ever hold request objects.  *)
THEOREM TypeCorrectness == Spec => []TypeOK
<1>1. IInv => TypeOK
  BY DEF IInv
<1> QED BY <1>1, InductiveInvariant, PTL

(* Two exclusive requests never hold the lock together, whatever threads   *)
(* do meanwhile (async_lock.cpp, CanAcquireLockUnsafe and its callers).    *)
THEOREM ExclusiveRequestsExclude == Spec => []AtMostOneExclusive
<1>1. IInv => AtMostOneExclusive
  BY DEF IInv, LockOK, AtMostOneExclusive, Shared
<1> QED BY <1>1, InductiveInvariant, PTL

(* Where clients ask for the lock in exclusive mode only, a request that   *)
(* holds it is alone: the overtaking in the batch loop of shared requests  *)
(* is the one way to break this.                                           *)
THEOREM ExclusiveModeExcludes ==
  ASSUME Modes = {"exclusive"}
  PROVE  Spec => []MutualExclusion
<1>1. ASSUME IInv
      PROVE  MutualExclusion
  <2> SUFFICES ASSUME NEW r \in heldList, NEW s \in heldList
               PROVE  r = s
    BY DEF MutualExclusion
  <2>1. /\ r \in Requests /\ s \in Requests /\ Live(r) /\ Live(s)
    BY <1>1, InvType DEF LockOK, Live
  <2>2. req[r].mode = "exclusive" /\ req[s].mode = "exclusive"
    BY <1>1, <2>1, InvType DEF ReqType, Live, Request
  <2> QED BY <1>1, <2>2 DEF IInv, LockOK
<1>2. IInv => MutualExclusion
  BY <1>1
<1> QED BY <1>2, InductiveInvariant, PTL

(* Nobody waits for a lock that nobody holds: every critical section that  *)
(* takes a request out of heldList looks at the queue (async_lock.cpp,     *)
(* CleanUpLockRequestOnCompletion).                                        *)
THEOREM NobodyWaitsForAFreeLock == Spec => []NobodyWaitsInVain
<1>1. IInv => NobodyWaitsInVain
  BY DEF IInv
<1> QED BY <1>1, InductiveInvariant, PTL

(* No list, queued work, promise or running code refers to a LockRequest   *)
(* that has been deleted, although three threads of control (completion,   *)
(* timeout, engine cleanup) may delete it.                                 *)
THEOREM RequestsAreNotUsedAfterDelete == Spec => []NoUseAfterDelete
<1>1. ASSUME IInv
      PROVE  NoUseAfterDelete
  <2>1. /\ \A i \in DOMAIN pendingList : Live(pendingList[i]) /\ pendingList[i] \notin heldList
        /\ \A i, j \in DOMAIN pendingList : pendingList[i] = pendingList[j] => i = j
        /\ \A r \in heldList : Live(r)
    BY <1>1, InvType DEF LockOK, Live
  <2>2. \A r \in heldList \cup queued \cup attached : Live(r)
    BY <1>1, <2>1 DEF IInv, OneCarrier
  <2>3. ASSUME NEW t \in Threads, NEW i \in DOMAIN stack[t],
               stack[t][i].op \notin {"batch", "process"}
        PROVE  Live(stack[t][i].req)
    <3>1. CASE stack[t][i].op = "enqueue"
      BY <1>1, <3>1 DEF IInv, EnqueueOK
    <3>2. CASE Carries(t, i)
      BY <1>1, <2>1, <3>2 DEF IInv, OneCarrier
    <3>3. stack[t][i] \in Frame
      BY <1>1, InvType, ElementOfSeq, LenProperties DEF StackType
    <3> QED BY <2>3, <3>1, <3>2, <3>3 DEF Frame, Carries, CarrierOps
  <2>4. \A t \in Threads : \A f \in Frames(t) : f.op \notin {"batch", "process"} => Live(f.req)
    BY <2>3 DEF Frames
  <2> QED BY <2>1, <2>2, <2>4 DEF NoUseAfterDelete
<1>2. IInv => NoUseAfterDelete
  BY <1>1
<1> QED BY <1>2, InductiveInvariant, PTL

----------------------------------------------------------------------------
(* Refinement: AsyncLock implements SharedExclusiveLock where clients ask  *)
(* for the lock in exclusive mode only.  In mixed modes it does not: the   *)
(* loop over the shared requests lets them overtake.                       *)

(* The tickets of exclusive requests. *)

ExclusiveTicket(r) == [id |-> r, mode |-> "exclusive"]
Tickets(pend) == [i \in DOMAIN pend |-> ExclusiveTicket(pend[i])]
TicketSet(held) == {ExclusiveTicket(r) : r \in held}
AnyTicket == {ExclusiveTicket(r) : r \in Requests}

(* The tickets of a list are a list. *)
LEMMA TicketList ==
  ASSUME NEW pend \in Seq(Requests)
  PROVE  /\ Tickets(pend) \in Seq(AnyTicket) /\ Len(Tickets(pend)) = Len(pend)
         /\ DOMAIN Tickets(pend) = DOMAIN pend
         /\ \A i \in 1 .. Len(pend) : Tickets(pend)[i] = ExclusiveTicket(pend[i])
         /\ Tickets(pend) = <<>> <=> pend = <<>>
<1>1. Len(pend) \in Nat /\ DOMAIN pend = 1 .. Len(pend)
  BY LenProperties
<1>2. \A i \in 1 .. Len(pend) : ExclusiveTicket(pend[i]) \in AnyTicket
  BY ElementOfSeq DEF AnyTicket
<1>3. Tickets(pend) \in [1 .. Len(pend) -> AnyTicket]
  BY <1>1, <1>2 DEF Tickets
<1>4. Tickets(pend) \in Seq(AnyTicket)
  BY <1>1, <1>3, SeqDef
<1>5. DOMAIN Tickets(pend) = 1 .. Len(pend)
  BY <1>3
<1>6. Len(Tickets(pend)) = Len(pend)
  <2>1. Len(Tickets(pend)) \in Nat /\ DOMAIN Tickets(pend) = 1 .. Len(Tickets(pend))
    BY <1>4, LenProperties
  <2> QED BY <1>1, <1>5, <2>1
<1>7. Tickets(pend) = <<>> <=> pend = <<>>
  BY <1>4, <1>6, EmptySeq
<1> QED BY <1>1, <1>4, <1>5, <1>6, <1>7 DEF Tickets

(* A list without its first element. *)
LEMMA TicketsOfTail ==
  ASSUME NEW pend \in Seq(Requests), pend # <<>>
  PROVE  /\ Tickets(Tail(pend)) = Tail(Tickets(pend))
         /\ Head(Tickets(pend)) = ExclusiveTicket(Head(pend))
<1>1. /\ Len(pend) \in Nat \ {0} /\ Tail(pend) \in Seq(Requests)
      /\ Len(Tail(pend)) = Len(pend) - 1
      /\ \A i \in 1 .. Len(pend) - 1 : Tail(pend)[i] = pend[i + 1]
      /\ Head(pend) = pend[1]
  BY HeadTailProperties, EmptySeq, Popping
<1>2. /\ Tickets(pend) \in Seq(AnyTicket) /\ Len(Tickets(pend)) = Len(pend)
      /\ Tickets(pend) # <<>>
      /\ \A i \in 1 .. Len(pend) : Tickets(pend)[i] = ExclusiveTicket(pend[i])
  BY TicketList
<1>3. /\ Tickets(Tail(pend)) \in Seq(AnyTicket) /\ Len(Tickets(Tail(pend))) = Len(pend) - 1
      /\ \A i \in 1 .. Len(pend) - 1 : Tickets(Tail(pend))[i] = ExclusiveTicket(Tail(pend)[i])
  BY <1>1, TicketList
<1>4. /\ Tail(Tickets(pend)) \in Seq(AnyTicket) /\ Len(Tail(Tickets(pend))) = Len(pend) - 1
      /\ \A i \in 1 .. Len(pend) - 1 : Tail(Tickets(pend))[i] = Tickets(pend)[i + 1]
      /\ Head(Tickets(pend)) = Tickets(pend)[1]
  BY <1>1, <1>2, HeadTailProperties, Popping
<1>5. \A i \in 1 .. Len(pend) - 1 : Tickets(Tail(pend))[i] = Tail(Tickets(pend))[i]
  <2> TAKE i \in 1 .. Len(pend) - 1
  <2>1. i + 1 \in 1 .. Len(pend)
    BY <1>1
  <2> QED BY <1>1, <1>2, <1>3, <1>4, <2>1
<1>6. Tickets(Tail(pend)) = Tail(Tickets(pend))
  BY <1>3, <1>4, <1>5, SeqEqual
<1> QED BY <1>1, <1>2, <1>4, <1>6

(* A list with one more at the end. *)
LEMMA TicketsOfAppend ==
  ASSUME NEW pend \in Seq(Requests), NEW r \in Requests
  PROVE  Tickets(Append(pend, r)) = Append(Tickets(pend), ExclusiveTicket(r))
<1>1. /\ Append(pend, r) \in Seq(Requests) /\ Len(Append(pend, r)) = Len(pend) + 1
      /\ \A i \in 1 .. Len(pend) + 1 :
           Append(pend, r)[i] = IF i <= Len(pend) THEN pend[i] ELSE r
      /\ Len(pend) \in Nat
  BY LenProperties
<1>2. /\ Tickets(pend) \in Seq(AnyTicket) /\ Len(Tickets(pend)) = Len(pend)
      /\ \A i \in 1 .. Len(pend) : Tickets(pend)[i] = ExclusiveTicket(pend[i])
      /\ ExclusiveTicket(r) \in AnyTicket
  BY TicketList DEF AnyTicket
<1>3. /\ Tickets(Append(pend, r)) \in Seq(AnyTicket)
      /\ Len(Tickets(Append(pend, r))) = Len(pend) + 1
      /\ \A i \in 1 .. Len(pend) + 1 :
           Tickets(Append(pend, r))[i] = ExclusiveTicket(Append(pend, r)[i])
  BY <1>1, TicketList
<1> DEFINE t == Tickets(pend)
           e == ExclusiveTicket(r)
<1> HIDE DEF t, e
<1>4. /\ Append(t, e) \in Seq(AnyTicket) /\ Len(Append(t, e)) = Len(pend) + 1
      /\ \A i \in 1 .. Len(pend) + 1 : Append(t, e)[i] = IF i <= Len(pend) THEN t[i] ELSE e
  <2>1. t \in Seq(AnyTicket) /\ e \in AnyTicket /\ Len(t) = Len(pend)
    BY <1>2 DEF t, e
  <2> QED BY <1>1, <2>1
<1>5. \A i \in 1 .. Len(pend) + 1 : Tickets(Append(pend, r))[i] = Append(t, e)[i]
  <2> TAKE i \in 1 .. Len(pend) + 1
  <2>1. CASE i <= Len(pend)
    <3>1. i \in 1 .. Len(pend)
      BY <1>1, <2>1
    <3> QED BY <1>1, <1>2, <1>3, <1>4, <2>1, <3>1 DEF t
  <2>2. CASE ~(i <= Len(pend))
    BY <1>1, <1>3, <1>4, <2>2 DEF e
  <2> QED BY <2>1, <2>2
<1>6. Tickets(Append(pend, r)) = Append(t, e)
  BY <1>3, <1>4, <1>5, SeqEqual
<1> QED BY <1>6 DEF t, e

(* A piece of a list. *)
LEMMA TicketsOfPiece ==
  ASSUME NEW pend \in Seq(Requests), NEW m \in 1 .. Len(pend) + 1, NEW n \in 0 .. Len(pend)
  PROVE  /\ SubSeq(pend, m, n) \in Seq(Requests)
         /\ Tickets(SubSeq(pend, m, n)) = SubSeq(Tickets(pend), m, n)
<1> DEFINE l == IF m <= n THEN n - m + 1 ELSE 0
<1>1. Len(pend) \in Nat /\ m \in Int /\ n \in Int /\ l \in Nat
  BY LenProperties
<1>2. \A i \in m .. n : pend[i] \in Requests
  BY <1>1, ElementOfSeq
<1>3. /\ SubSeq(pend, m, n) \in Seq(Requests) /\ Len(SubSeq(pend, m, n)) = l
      /\ \A i \in 1 .. n - m + 1 : SubSeq(pend, m, n)[i] = pend[m + i - 1]
  BY <1>1, <1>2, SubSeqProperties
<1> DEFINE t == Tickets(pend)
<1>4. /\ t \in Seq(AnyTicket) /\ Len(t) = Len(pend)
      /\ \A i \in 1 .. Len(pend) : t[i] = ExclusiveTicket(pend[i])
  BY TicketList
<1> HIDE DEF t
<1>5. \A i \in m .. n : t[i] \in AnyTicket
  BY <1>1, <1>4, ElementOfSeq
<1>6. /\ SubSeq(t, m, n) \in Seq(AnyTicket) /\ Len(SubSeq(t, m, n)) = l
      /\ \A i \in 1 .. n - m + 1 : SubSeq(t, m, n)[i] = t[m + i - 1]
  BY <1>1, <1>5, SubSeqProperties
<1> DEFINE p == SubSeq(pend, m, n)
<1>7. /\ Tickets(p) \in Seq(AnyTicket) /\ Len(Tickets(p)) = l
      /\ \A i \in 1 .. l : Tickets(p)[i] = ExclusiveTicket(p[i])
  BY <1>3, TicketList
<1>8. \A i \in 1 .. l : Tickets(p)[i] = SubSeq(t, m, n)[i]
  <2> TAKE i \in 1 .. l
  <2>1. i \in 1 .. n - m + 1 /\ m + i - 1 \in 1 .. Len(pend)
    BY <1>1
  <2> QED BY <1>3, <1>4, <1>6, <1>7, <2>1
<1>9. Tickets(p) = SubSeq(t, m, n)
  <2> HIDE DEF p, l
  <2> QED BY <1>6, <1>7, <1>8, SeqEqual
<1> QED BY <1>3, <1>9 DEF t

(* Two lists put together. *)
LEMMA TicketsOfConcat ==
  ASSUME NEW a \in Seq(Requests), NEW b \in Seq(Requests)
  PROVE  Tickets(a \o b) = Tickets(a) \o Tickets(b)
<1>1. /\ a \o b \in Seq(Requests) /\ Len(a \o b) = Len(a) + Len(b)
      /\ \A i \in 1 .. Len(a) + Len(b) :
           (a \o b)[i] = IF i <= Len(a) THEN a[i] ELSE b[i - Len(a)]
      /\ Len(a) \in Nat /\ Len(b) \in Nat
  BY ConcatProperties, LenProperties
<1> DEFINE s == Tickets(a)
           t == Tickets(b)
           c == a \o b
<1>2. /\ s \in Seq(AnyTicket) /\ Len(s) = Len(a)
      /\ \A i \in 1 .. Len(a) : s[i] = ExclusiveTicket(a[i])
      /\ t \in Seq(AnyTicket) /\ Len(t) = Len(b)
      /\ \A i \in 1 .. Len(b) : t[i] = ExclusiveTicket(b[i])
  BY TicketList
<1> HIDE DEF s, t
<1>3. /\ s \o t \in Seq(AnyTicket) /\ Len(s \o t) = Len(a) + Len(b)
      /\ \A i \in 1 .. Len(a) + Len(b) :
           (s \o t)[i] = IF i <= Len(a) THEN s[i] ELSE t[i - Len(a)]
  <2>1. /\ s \o t \in Seq(AnyTicket) /\ Len(s \o t) = Len(s) + Len(t)
        /\ \A i \in 1 .. Len(s) + Len(t) :
             (s \o t)[i] = IF i <= Len(s) THEN s[i] ELSE t[i - Len(s)]
    <3>1. s \in Seq(AnyTicket) /\ t \in Seq(AnyTicket)
      BY <1>2
    <3> QED BY <3>1, ConcatProperties
  <2>2. Len(s) = Len(a) /\ Len(t) = Len(b)
    BY <1>2
  <2> QED BY <2>1, <2>2
<1>4. /\ Tickets(c) \in Seq(AnyTicket) /\ Len(Tickets(c)) = Len(a) + Len(b)
      /\ \A i \in 1 .. Len(a) + Len(b) : Tickets(c)[i] = ExclusiveTicket(c[i])
  BY <1>1, TicketList
<1>5. \A i \in 1 .. Len(a) + Len(b) : Tickets(c)[i] = (s \o t)[i]
  <2> TAKE i \in 1 .. Len(a) + Len(b)
  <2>1. CASE i <= Len(a)
    <3>1. i \in 1 .. Len(a)
      BY <1>1, <2>1
    <3> QED BY <1>1, <1>2, <1>3, <1>4, <2>1, <3>1
  <2>2. CASE ~(i <= Len(a))
    <3>1. i - Len(a) \in 1 .. Len(b)
      BY <1>1, <2>2
    <3> QED BY <1>1, <1>2, <1>3, <1>4, <2>2, <3>1
  <2> QED BY <2>1, <2>2
<1>6. Tickets(c) = s \o t
  <2> HIDE DEF c
  <2> QED BY <1>3, <1>4, <1>5, SeqEqual
<1> QED BY <1>6 DEF s, t

(* A list without its i-th element. *)
LEMMA TicketsOfErase ==
  ASSUME NEW pend \in Seq(Requests), NEW i \in DOMAIN pend
  PROVE  Tickets(Erase(pend, i)) =
           SubSeq(Tickets(pend), 1, i - 1) \o SubSeq(Tickets(pend), i + 1, Len(Tickets(pend)))
<1>1. /\ Len(pend) \in Nat /\ i \in 1 .. Len(pend) /\ Len(Tickets(pend)) = Len(pend)
  BY LenProperties, TicketList
<1>2. /\ 1 \in 1 .. Len(pend) + 1 /\ i - 1 \in 0 .. Len(pend)
      /\ i + 1 \in 1 .. Len(pend) + 1 /\ Len(pend) \in 0 .. Len(pend)
  BY <1>1
<1>3. /\ SubSeq(pend, 1, i - 1) \in Seq(Requests)
      /\ Tickets(SubSeq(pend, 1, i - 1)) = SubSeq(Tickets(pend), 1, i - 1)
  BY <1>2, TicketsOfPiece
<1>4. /\ SubSeq(pend, i + 1, Len(pend)) \in Seq(Requests)
      /\ Tickets(SubSeq(pend, i + 1, Len(pend))) = SubSeq(Tickets(pend), i + 1, Len(pend))
  BY <1>2, TicketsOfPiece
<1>5. Tickets(SubSeq(pend, 1, i - 1) \o SubSeq(pend, i + 1, Len(pend))) =
        Tickets(SubSeq(pend, 1, i - 1)) \o Tickets(SubSeq(pend, i + 1, Len(pend)))
  BY <1>3, <1>4, TicketsOfConcat
<1> QED BY <1>1, <1>3, <1>4, <1>5 DEF Erase

----------------------------------------------------------------------------
(* The critical sections, seen by the clients. *)

OnlyExclusive(q, pend) == \A i \in DOMAIN pend : q[pend[i]].mode = "exclusive"

(* The front request is let in when nobody holds the lock, or nothing      *)
(* happens.                                                                *)
FrontGetsIn(pend, held) ==
  \/ pendingList' = pend /\ heldList' = held
  \/ /\ pend # <<>> /\ held = {}
     /\ pendingList' = Tail(pend) /\ heldList' = held \cup {Head(pend)}

(* ProcessPendingLockRequestUnsafe does no more than that. *)
LEMMA ProcessingLetsFrontIn ==
  ASSUME NEW t, NEW pend \in Seq(Requests), NEW held, NEW status, NEW sync, NEW rest,
         OnlyExclusive(req, pend), status = "unlock" <=> held = {},
         \/ pend # <<>> /\ ProcessPendingUnsafe(t, pend, held, status, sync, rest)
         \/ ProcessPendingIfAny(t, pend, held, status, rest)
  PROVE  FrontGetsIn(pend, held)
<1>1. ASSUME NEW s, pend # <<>>, ProcessPendingUnsafe(t, pend, held, status, s, rest)
      PROVE  FrontGetsIn(pend, held)
  <2>1. req[Head(pend)].mode = "exclusive"
    BY <1>1, Popping DEF OnlyExclusive
  <2>2. CASE /\ CanAcquire(req[Head(pend)].mode, held, status)
             /\ heldList' = held \cup {Head(pend)} /\ pendingList' = Tail(pend)
    BY <1>1, <2>1, <2>2 DEF CanAcquire, FrontGetsIn
  <2>3. CASE pendingList' = pend /\ heldList' = held
    BY <2>3 DEF FrontGetsIn
  <2> QED BY <1>1, <2>2, <2>3 DEF ProcessPendingUnsafe, Grant
<1>2. CASE pendingList' = pend /\ heldList' = held
  BY <1>2 DEF FrontGetsIn
<1> QED BY <1>1, <1>2 DEF ProcessPendingIfAny

(* The lists of the lock, seen by its clients. *)
AbstractQueue == [i \in DOMAIN pendingList |-> Ticket(pendingList[i])]
AbstractHolders == {Ticket(r) : r \in heldList}

(* In exclusive mode each request in the lists has an exclusive ticket.    *)
LEMMA AbstractLists ==
  ASSUME IInv, Modes = {"exclusive"}
  PROVE  /\ AbstractQueue = Tickets(pendingList) /\ AbstractHolders = TicketSet(heldList)
         /\ OnlyExclusive(req, pendingList)
         /\ \A r \in Requests : Live(r) => Ticket(r) = ExclusiveTicket(r)
<1>1. \A r \in Requests : Live(r) => req[r].mode = "exclusive"
  BY InvType DEF ReqType, Live, Request
<1>2. \A i \in DOMAIN pendingList : pendingList[i] \in Requests /\ Live(pendingList[i])
  BY InvType, ElementOfSeq, LenProperties DEF LockOK, Live
<1>3. \A r \in heldList : r \in Requests /\ Live(r)
  BY InvType DEF LockOK, Live
<1>4. \A r \in Requests : Live(r) => Ticket(r) = ExclusiveTicket(r)
  BY <1>1 DEF Ticket, ExclusiveTicket
<1>5. AbstractQueue = Tickets(pendingList)
  BY <1>2, <1>4 DEF AbstractQueue, Tickets
<1>6. AbstractHolders = TicketSet(heldList)
  BY <1>3, <1>4 DEF AbstractHolders, TicketSet
<1> QED BY <1>1, <1>2, <1>4, <1>5, <1>6 DEF OnlyExclusive

(* Letting the front request in is AndGrant of the abstract lock. *)
LEMMA FrontGetsInRefines ==
  ASSUME NEW pend \in Seq(Requests), NEW held, FrontGetsIn(pend, held),
         AbstractQueue' = Tickets(pendingList'), AbstractHolders' = TicketSet(heldList')
  PROVE  Abstract!AndGrant(Tickets(pend), TicketSet(held))
<1>1. CASE pendingList' = pend /\ heldList' = held
  BY <1>1 DEF Abstract!AndGrant, AbstractQueue, AbstractHolders
<1>2. CASE /\ pend # <<>> /\ held = {}
           /\ pendingList' = Tail(pend) /\ heldList' = held \cup {Head(pend)}
  <2>1. /\ Tickets(pend) # <<>> /\ Tickets(Tail(pend)) = Tail(Tickets(pend))
        /\ Head(Tickets(pend)) = ExclusiveTicket(Head(pend))
    BY <1>2, TicketList, TicketsOfTail
  <2>2. /\ TicketSet(held) = {}
        /\ TicketSet(heldList') = TicketSet(held) \cup {ExclusiveTicket(Head(pend))}
    BY <1>2 DEF TicketSet
  <2>3. /\ AbstractQueue' = Tail(Tickets(pend))
        /\ AbstractHolders' = TicketSet(held) \cup {Head(Tickets(pend))}
    BY <1>2, <2>1, <2>2
  <2> QED BY <2>1, <2>2, <2>3
          DEF Abstract!AndGrant, Abstract!Compatible, AbstractQueue, AbstractHolders
<1> QED BY <1>1, <1>2 DEF FrontGetsIn

----------------------------------------------------------------------------
(* The steps of the lock, seen by its clients. *)

Exclusively == Modes = {"exclusive"}

ListsSeen ==
  /\ AbstractQueue = Tickets(pendingList)
  /\ AbstractHolders = TicketSet(heldList)

(* The clients see tickets in exclusive mode, before a step and after it. *)
LEMMA ListsAreSeen == Exclusively /\ IInv => ListsSeen
  BY AbstractLists DEF Exclusively, ListsSeen

(* The same of the state after a step.                                     *)
LEMMA ListsAreSeenAfter ==
  ASSUME Exclusively, IInv'
  PROVE  ListsSeen'
  BY ListsAreSeen, PTL DEF Exclusively

AbstractStep ==
  Abstract!SharedExclusiveNext \/ UNCHANGED <<AbstractQueue, AbstractHolders>>

(* Steps that leave both lists alone are not seen. *)
LEMMA NothingIsSeen ==
  ASSUME ListsSeen, ListsSeen', pendingList' = pendingList, heldList' = heldList
  PROVE  AbstractStep
  BY DEF ListsSeen, AbstractStep, Tickets, TicketSet

(* Queueing a request is Join. *)
LEMMA PushBackIsJoin ==
  ASSUME Exclusively, IInv, ListsSeen', NEW t \in Threads, NEW r \in Requests, PushBack(t, r)
  PROVE  AbstractStep
<1> DEFINE pend == Append(pendingList, r)
           ticket == ExclusiveTicket(r)
<1>1. /\ ListsSeen /\ \A q \in Requests : Live(q) => Ticket(q) = ExclusiveTicket(q)
  BY AbstractLists DEF Exclusively, ListsSeen
<1>2. /\ LockOK(req, pendingList, heldList, lockStatus) /\ pendingList \in Seq(Requests)
      /\ heldList \subseteq Requests
  BY InvType DEF LockOK
<1>3. /\ pend \in Seq(Requests) /\ pend # <<>>
      /\ \A i \in DOMAIN pend : pend[i] \in Requests
  BY <1>2, EmptySeq, AppendProperties, LenProperties, ElementOfSeq
<1>4. \A i \in DOMAIN pend : Live(pend[i])
  BY PushBackServes
<1>5. OnlyExclusive(req, pend)
  BY <1>1, <1>3, <1>4 DEF OnlyExclusive, Ticket, ExclusiveTicket
<1>6. FrontGetsIn(pend, heldList)
  <2>1. ProcessPendingUnsafe(t, pend, heldList, lockStatus, r, Below(t))
    BY DEF PushBack
  <2>2. lockStatus = "unlock" <=> heldList = {}
    BY <1>2 DEF LockOK
  <2> HIDE DEF pend
  <2> QED BY <1>3, <1>5, <2>1, <2>2, ProcessingLetsFrontIn
<1>7. Abstract!AndGrant(Tickets(pend), TicketSet(heldList))
  <2> HIDE DEF pend
  <2> QED BY <1>3, <1>6, FrontGetsInRefines DEF ListsSeen
<1>8. Abstract!AndGrant(Append(AbstractQueue, ticket), AbstractHolders)
  BY <1>1, <1>2, <1>7, TicketsOfAppend DEF ListsSeen
<1>9. r \notin heldList /\ \A i \in DOMAIN pendingList : pendingList[i] # r
  <2>1. EnqueueOK /\ 1 \in DOMAIN stack[t] /\ stack[t][1].op = "enqueue" /\ stack[t][1].req = r
    BY InvType, TopFrame DEF IInv, PushBack
  <2> QED BY <2>1 DEF EnqueueOK, IsPending
<1>10. \A other \in Abstract!Waiting \cup AbstractHolders : other.id # ticket.id
  <2>1. \A other \in Abstract!Waiting : \E i \in DOMAIN pendingList : other.id = pendingList[i]
    BY DEF Abstract!Waiting, Ticket
  <2>2. \A other \in AbstractHolders : other.id \in heldList
    BY DEF AbstractHolders, Ticket
  <2> QED BY <1>9, <2>1, <2>2 DEF ExclusiveTicket
<1>11. ticket \in Abstract!Ticket
  BY DEF ExclusiveTicket, Abstract!Ticket, Exclusively
<1>12. Abstract!Join(ticket)
  BY <1>8, <1>10 DEF Abstract!Join, AbstractQueue, AbstractHolders
<1> QED BY <1>11, <1>12 DEF AbstractStep, Abstract!SharedExclusiveNext

(* Completing a request is Leave. *)
LEMMA CleanUpIsLeave ==
  ASSUME Exclusively, IInv, ListsSeen', NEW t, NEW r \in Requests, NEW rest,
         CleanUpOnCompletion(t, r, rest)
  PROVE  AbstractStep
<1> DEFINE held == heldList \ {r}
           status == IF held = {} THEN "unlock" ELSE lockStatus
           ticket == ExclusiveTicket(r)
<1>1. ListsSeen /\ OnlyExclusive(req, pendingList)
  BY AbstractLists DEF Exclusively, ListsSeen
<1>2. LockOK(req, pendingList, heldList, lockStatus) /\ pendingList \in Seq(Requests)
  BY InvType DEF LockOK
<1>3. r \in heldList /\ ProcessPendingIfAny(t, pendingList, held, status, rest)
  BY DEF CleanUpOnCompletion
<1>4. LockOK(req, pendingList, held, status)
  BY <1>2, LeaveKeepsLockOK
<1>5. FrontGetsIn(pendingList, held)
  <2>1. status = "unlock" <=> held = {}
    BY <1>4 DEF LockOK
  <2> HIDE DEF held, status
  <2> QED BY <1>1, <1>2, <1>3, <2>1, ProcessingLetsFrontIn
<1>6. Abstract!AndGrant(Tickets(pendingList), TicketSet(held))
  <2> HIDE DEF held
  <2> QED BY <1>2, <1>5, FrontGetsInRefines DEF ListsSeen
<1>7. ticket \in TicketSet(heldList) /\ TicketSet(held) = TicketSet(heldList) \ {ticket}
  BY <1>3 DEF TicketSet, ExclusiveTicket
<1>8. Abstract!AndGrant(AbstractQueue, AbstractHolders \ {ticket}) /\ ticket \in AbstractHolders
  BY <1>1, <1>6, <1>7 DEF ListsSeen
<1>9. Abstract!Leave(ticket)
  BY <1>8 DEF Abstract!Leave, AbstractQueue, AbstractHolders
<1> QED BY <1>8, <1>9 DEF AbstractStep, Abstract!SharedExclusiveNext, AbstractHolders

(* A request that leaves the queue before it was let in is Withdraw. *)
LEMMA RemovePendingIsWithdraw ==
  ASSUME Exclusively, IInv, ListsSeen', NEW r \in Requests, RemovePending(r)
  PROVE  AbstractStep
<1>1. ListsSeen
  BY ListsAreSeen
<1>2. pendingList \in Seq(Requests)
  BY InvType DEF LockOK
<1>3. PICK i \in DOMAIN pendingList : i = Position(r) /\ pendingList[i] = r
  BY DEF RemovePending, IsPending, Position
<1>4. pendingList' = Erase(pendingList, i) /\ heldList' = heldList
  BY <1>3 DEF RemovePending, Erase
<1>5. /\ AbstractQueue' =
           SubSeq(AbstractQueue, 1, i - 1) \o SubSeq(AbstractQueue, i + 1, Len(AbstractQueue))
      /\ AbstractHolders' = AbstractHolders
  BY <1>1, <1>2, <1>4, TicketsOfErase DEF ListsSeen
<1>6. Abstract!Withdraw(i)
  BY <1>3, <1>5 DEF Abstract!Withdraw, Abstract!AndGrant, Abstract!RemoveAt,
                    AbstractQueue, AbstractHolders
<1>7. i \in DOMAIN AbstractQueue
  BY <1>3 DEF AbstractQueue
<1> QED BY <1>6, <1>7 DEF AbstractStep, Abstract!SharedExclusiveNext, AbstractQueue

(* ProcessPendingLockRequest is Serve. *)
LEMMA ProcessingIsServe ==
  ASSUME Exclusively, IInv, ListsSeen', NEW t, ProcessPendingLockRequest(t)
  PROVE  AbstractStep
<1>1. ListsSeen /\ OnlyExclusive(req, pendingList)
  BY AbstractLists DEF Exclusively, ListsSeen
<1>2. LockOK(req, pendingList, heldList, lockStatus) /\ pendingList \in Seq(Requests)
  BY InvType DEF LockOK
<1>3. FrontGetsIn(pendingList, heldList)
  <2>1. ProcessPendingIfAny(t, pendingList, heldList, lockStatus, Below(t))
    BY DEF ProcessPendingLockRequest
  <2>2. lockStatus = "unlock" <=> heldList = {}
    BY <1>2 DEF LockOK
  <2> QED BY <1>1, <1>2, <2>1, <2>2, ProcessingLetsFrontIn
<1>4. Abstract!AndGrant(Tickets(pendingList), TicketSet(heldList))
  BY <1>2, <1>3, FrontGetsInRefines DEF ListsSeen
<1>5. Abstract!Serve
  BY <1>1, <1>4 DEF ListsSeen, Abstract!Serve, AbstractQueue, AbstractHolders
<1> QED BY <1>5 DEF AbstractStep, Abstract!SharedExclusiveNext

(* The loop over shared requests finds none. *)
LEMMA NextInBatchFindsNone ==
  ASSUME Exclusively, IInv, NEW t, NEW sync, NextInBatch(t, sync)
  PROVE  pendingList' = pendingList /\ heldList' = heldList
<1>1. OnlyExclusive(req, pendingList) /\ pendingList \in Seq(Requests)
  BY AbstractLists, InvType DEF Exclusively, LockOK
<1>2. ~FrontIsShared
  BY <1>1, Popping DEF FrontIsShared, OnlyExclusive
<1> QED BY <1>2 DEF NextInBatch, lockVars

(* Every step of the lock is a step of the abstract one, or not seen. *)
LEMMA NextIsAbstractStep ==
  ASSUME Exclusively, IInv, IInv', [Next]_vars
  PROVE  AbstractStep
<1>1. ListsSeen /\ ListsSeen'
  BY ListsAreSeen, ListsAreSeenAfter
<1>2. ASSUME UNCHANGED lockVars
      PROVE  AbstractStep
  BY <1>1, <1>2, NothingIsSeen DEF lockVars
<1>3. CASE \E t \in Threads : Step(t)
  <2>1. PICK t \in Threads : Step(t)
    BY <1>3
  <2>2. ASSUME NEW r \in Requests, PushBack(t, r)
        PROVE  AbstractStep
    BY <1>1, <2>2, PushBackIsJoin
  <2>3. ASSUME NEW r \in Requests, CallCallbackAsync(t, r) \/ Completion(t, r)
        PROVE  AbstractStep
    <3>1. CASE UNCHANGED lockVars
      BY <1>2, <3>1
    <3>2. CASE CleanUpOnCompletion(t, r, Below(t))
      BY <1>1, <3>2, CleanUpIsLeave
    <3> QED BY <2>3, <3>1, <3>2 DEF CallCallbackAsync, Completion
  <2>4. ASSUME NEW r \in Requests,
               CallCallback(t, r) \/ CallbackReturns(t, r) \/ CallbackReturnsPromise(t, r)
        PROVE  AbstractStep
    BY <1>2, <2>4 DEF CallCallback, CallbackReturns, CallbackReturnsPromise
  <2>5. ASSUME NEW sync \in Requests \cup {None}, NextInBatch(t, sync)
        PROVE  AbstractStep
    BY <1>1, <2>5, NextInBatchFindsNone, NothingIsSeen
  <2>6. CASE ProcessPendingLockRequest(t)
    BY <1>1, <2>6, ProcessingIsServe
  <2> QED BY <2>1, <2>2, <2>3, <2>4, <2>5, <2>6 DEF Step
<1>4. CASE \E t \in Threads : DestroyEngine(t) \/ EngineDestroyed(t)
  BY <1>2, <1>4 DEF DestroyEngine, EngineDestroyed
<1>5. CASE \E t \in Threads, r \in Requests, mode \in Modes,
            options \in SUBSET (Uses \ {"nested"}) : LockAsync(t, r, mode, options)
  BY <1>2, <1>5 DEF LockAsync
<1>6. CASE \E r \in Requests : AsyncAfterWorkCallback(r)
  BY <1>2, <1>6 DEF AsyncAfterWorkCallback
<1>7. CASE \E r \in Requests : FinallyCallback(r)
  BY <1>1, <1>7, CleanUpIsLeave DEF FinallyCallback
<1>8. ASSUME NEW r \in Requests, TimeoutCallback(r) \/ EnvCleanup(r)
      PROVE  AbstractStep
  <2>1. CASE RemovePending(r)
    BY <1>1, <2>1, RemovePendingIsWithdraw
  <2>2. CASE UNCHANGED lockVars
    BY <1>2, <2>2
  <2> QED BY <1>8, <2>1, <2>2 DEF TimeoutCallback, EnvCleanup
<1>9. CASE UNCHANGED vars
  BY <1>2, <1>9 DEF vars, lockVars
<1> QED BY <1>3, <1>4, <1>5, <1>6, <1>7, <1>8, <1>9 DEF Next

(* At the start nobody waits and nobody holds the lock. *)
LEMMA InitIsAbstractInit == Init => Abstract!SharedExclusiveInit
<1> SUFFICES ASSUME Init PROVE Abstract!SharedExclusiveInit
  OBVIOUS
<1>1. pendingList = <<>> /\ heldList = {}
  BY DEF Init
<1>2. AbstractQueue = <<>>
  <2>1. \A i \in DOMAIN <<>> : FALSE
    BY NoFrame
  <2>2. AbstractQueue = Tickets(<<>>)
    BY <1>1, <2>1 DEF AbstractQueue, Tickets
  <2>3. Tickets(<<>>) = <<>>
    BY EmptySeq, TicketList
  <2> QED BY <2>2, <2>3
<1> QED BY <1>1, <1>2 DEF Abstract!SharedExclusiveInit, AbstractQueue, AbstractHolders

(* Where clients ask for the lock in exclusive mode only, what they see of *)
(* it is a first-come first-served lock: requests queue up in the order    *)
(* they are made, whoever serves the queue, and only the front one gets in *)
(* (async_lock.cpp, ProcessPendingLockRequestUnsafe and its callers).      *)
THEOREM ExclusiveModeImplementsLock ==
  ASSUME Modes = {"exclusive"}
  PROVE  Spec => ImplementsSharedExclusiveLock
<1>1. Exclusively
  BY DEF Exclusively
<1>2. IInv /\ IInv' /\ [Next]_vars => [Abstract!SharedExclusiveNext]_<<AbstractQueue, AbstractHolders>>
  BY <1>1, NextIsAbstractStep DEF AbstractStep
<1> QED BY <1>2, InitIsAbstractInit, InductiveInvariant, PTL
        DEF Spec, ImplementsSharedExclusiveLock, Abstract!SharedExclusiveSpec,
            AbstractQueue, AbstractHolders

----------------------------------------------------------------------------
(* No wakeup is lost: whenever the front request could be let in, some     *)
(* thread is about to look at the queue.  And what becomes of a request:   *)
(* it is completed once, on behalf of its client or because its engine is  *)
(* gone.                                                                   *)

(* A thread that has still to look at the queue. *)
Looks(t, i) == stack[t][i].op \in {"batch", "process"}
SomebodyLooks == \E t \in Threads : \E i \in DOMAIN stack[t] : Looks(t, i)

FrontMayEnter ==
  pendingList # <<>> /\ CanAcquire(req[Head(pendingList)].mode, heldList, lockStatus)

(* The property, in terms of positions on the stacks. *)
LEMMA WakeupForm == NoLostWakeup <=> (FrontMayEnter => SomebodyLooks)
  BY DEF NoLostWakeup, FrontMayEnter, SomebodyLooks, Looks, Frames

----------------------------------------------------------------------------
(* Frames that stay. *)

(* The frames that a step pushes are on top of the stack afterwards, and   *)
(* those it does not pop are below them.                                   *)
LEMMA StackStepPositions ==
  ASSUME StackType, NEW t \in Threads, NEW k, NEW fs, StackStep(t, k, fs)
  PROVE  /\ \A i \in DOMAIN fs : i \in DOMAIN stack'[t] /\ stack'[t][i] = fs[i]
         /\ \A j \in DOMAIN stack[t] : j > k =>
              /\ j + Len(fs) - k \in DOMAIN stack'[t]
              /\ stack'[t][j + Len(fs) - k] = stack[t][j]
<1> DEFINE rest == Rest(t, k)
<1>1. rest \in Seq(Frame) /\ stack[t] \in Seq(Frame) /\ fs \in Seq(Frame) /\ k \in {0, 1}
  BY RestType DEF StackStep, StackType
<1>2. stack'[t] = fs \o rest
  BY DEF StackStep, StackType
<1>3. ASSUME NEW j \in DOMAIN stack[t], j > k
      PROVE  j - k \in DOMAIN rest /\ rest[j - k] = stack[t][j]
  <2>1. DOMAIN stack[t] = 1 .. Len(stack[t]) /\ Len(stack[t]) \in Nat
    BY <1>1, LenProperties
  <2>2. CASE k = 0
    BY <1>3, <2>1, <2>2 DEF Rest
  <2>3. CASE k = 1
    <3>1. stack[t] # <<>> /\ rest = Tail(stack[t])
      BY <2>3 DEF Rest, Below, StackStep
    <3>2. /\ DOMAIN rest = 1 .. Len(stack[t]) - 1
          /\ \A i \in 1 .. Len(stack[t]) - 1 : rest[i] = stack[t][i + 1]
      <4> HIDE DEF rest
      <4>1. /\ Len(rest) = Len(stack[t]) - 1
            /\ \A i \in 1 .. Len(rest) : rest[i] = stack[t][i + 1]
        BY <1>1, <3>1, HeadTailProperties
      <4> QED BY <1>1, <4>1, LenProperties
    <3>3. j - 1 \in 1 .. Len(stack[t]) - 1 /\ j - 1 + 1 = j
      BY <1>3, <2>1, <2>3
    <3> QED BY <2>3, <3>2, <3>3
  <2> QED BY <1>1, <2>2, <2>3
<1> HIDE DEF rest
<1>4. /\ DOMAIN fs = 1 .. Len(fs) /\ Len(fs) \in Nat
      /\ DOMAIN rest = 1 .. Len(rest) /\ Len(rest) \in Nat
      /\ DOMAIN stack[t] \subseteq Nat
      /\ DOMAIN (fs \o rest) = 1 .. Len(fs) + Len(rest)
      /\ \A i \in 1 .. Len(fs) + Len(rest) :
           (fs \o rest)[i] = IF i <= Len(fs) THEN fs[i] ELSE rest[i - Len(fs)]
  <2>1. /\ fs \o rest \in Seq(Frame) /\ Len(fs \o rest) = Len(fs) + Len(rest)
        /\ \A i \in 1 .. Len(fs) + Len(rest) :
             (fs \o rest)[i] = IF i <= Len(fs) THEN fs[i] ELSE rest[i - Len(fs)]
    BY <1>1, ConcatProperties
  <2> QED BY <1>1, <2>1, LenProperties
<1>5. ASSUME NEW i \in DOMAIN fs
      PROVE  i \in DOMAIN stack'[t] /\ stack'[t][i] = fs[i]
  <2>1. i \in 1 .. Len(fs) + Len(rest) /\ i <= Len(fs)
    BY <1>4
  <2> QED BY <1>2, <1>4, <2>1
<1>6. ASSUME NEW j \in DOMAIN stack[t], j > k
      PROVE  /\ j + Len(fs) - k \in DOMAIN stack'[t]
             /\ stack'[t][j + Len(fs) - k] = stack[t][j]
  <2>1. j - k \in 1 .. Len(rest) /\ rest[j - k] = stack[t][j] /\ j \in Nat
    BY <1>3, <1>4, <1>6
  <2>2. PICK n : n = j + Len(fs) - k
    OBVIOUS
  <2>3. n \in 1 .. Len(fs) + Len(rest) /\ ~(n <= Len(fs)) /\ n - Len(fs) = j - k
    BY <1>1, <1>4, <2>1, <2>2
  <2>4. n \in DOMAIN stack'[t] /\ stack'[t][n] = rest[n - Len(fs)]
    BY <1>2, <1>4, <2>3
  <2> QED BY <2>1, <2>2, <2>3, <2>4
<1> QED BY <1>5, <1>6

(* A step that pops no frame of these keeps whoever was to look. *)
LEMMA LookersStay ==
  ASSUME StackType, NEW t \in Threads, NEW k, NEW fs, StackStep(t, k, fs),
         k = 1 => ~Looks(t, 1), SomebodyLooks
  PROVE  SomebodyLooks'
<1>1. PICK u \in Threads : \E j \in DOMAIN stack[u] : Looks(u, j)
  BY DEF SomebodyLooks
<1>2. PICK j \in DOMAIN stack[u] : Looks(u, j)
  BY <1>1
<1>3. CASE u # t
  <2>1. stack'[u] = stack[u]
    BY <1>3, StackStepFrames
  <2> QED BY <1>2, <2>1 DEF SomebodyLooks, Looks
<1>4. CASE u = t
  <2>1. j \in Nat \ {0} /\ k \in {0, 1}
    BY <1>4, LenProperties DEF StackType, StackStep
  <2>2. j > k
    BY <1>2, <1>4, <2>1
  <2>3. /\ j + Len(fs) - k \in DOMAIN stack'[t]
        /\ stack'[t][j + Len(fs) - k] = stack[t][j]
    BY <1>4, <2>2, StackStepPositions
  <2> QED BY <1>2, <1>4, <2>3 DEF SomebodyLooks, Looks
<1> QED BY <1>3, <1>4

(* The front of the queue is an object that nobody holds. *)
LEMMA FrontRequest ==
  ASSUME IInv, pendingList # <<>>
  PROVE  /\ Head(pendingList) \in Requests /\ Live(Head(pendingList))
         /\ req[Head(pendingList)] \in Request /\ Head(pendingList) \notin heldList
         /\ req[Head(pendingList)].mode \in {"shared", "exclusive"}
<1>1. ReqType(req) /\ LockOK(req, pendingList, heldList, lockStatus)
  BY InvType
<1>2. Head(pendingList) = pendingList[1] /\ 1 \in DOMAIN pendingList
  BY <1>1, Popping DEF LockOK
<1>3. /\ Head(pendingList) \in Requests /\ Live(Head(pendingList))
      /\ Head(pendingList) \notin heldList
  BY <1>1, <1>2, ElementOfSeq, LenProperties DEF LockOK, Live
<1>4. req[Head(pendingList)] \in Request
  BY <1>1, <1>3 DEF ReqType, Live
<1>5. req[Head(pendingList)].mode \in Modes
  BY <1>4 DEF Request
<1> QED BY <1>3, <1>4, <1>5, ConstantsAssumption

(* Where the lists and the modes of the objects stay, the front may enter  *)
(* only if it might before.                                                *)
LEMMA FrontAsBefore ==
  ASSUME IInv, UNCHANGED lockVars,
         \A q \in Requests : Live(q) => req'[q].mode = req[q].mode, FrontMayEnter'
  PROVE  FrontMayEnter
<1>1. pendingList' = pendingList /\ heldList' = heldList /\ lockStatus' = lockStatus
  BY DEF lockVars
<1>2. pendingList # <<>>
  BY <1>1 DEF FrontMayEnter
<1>3. req'[Head(pendingList)].mode = req[Head(pendingList)].mode
  BY <1>2, FrontRequest
<1> QED BY <1>1, <1>3 DEF FrontMayEnter

(* A step that leaves the lists and the waiting requests alone, and takes  *)
(* nobody off who was to look, loses no wakeup.                            *)
LEMMA QuietStepLosesNoWakeup ==
  ASSUME IInv, NoLostWakeup, UNCHANGED lockVars,
         \A q \in Requests : Live(q) => req'[q].mode = req[q].mode,
         NEW t \in Threads, NEW k, NEW fs, StackStep(t, k, fs), k = 1 => ~Looks(t, 1)
  PROVE  NoLostWakeup'
<1>1. FrontMayEnter' => FrontMayEnter
  BY FrontAsBefore
<1>2. FrontMayEnter => SomebodyLooks
  BY WakeupForm
<1>3. SomebodyLooks => SomebodyLooks'
  BY InvType, LookersStay
<1> QED BY <1>1, <1>2, <1>3, WakeupForm, PTL

(* Nor does one in which nothing but the engines, or an object, changes. *)
LEMMA NoFrameMovesLosesNoWakeup ==
  ASSUME IInv, NoLostWakeup, UNCHANGED lockVars, UNCHANGED stack,
         \A q \in Requests : Live(q) => req'[q].mode = req[q].mode
  PROVE  NoLostWakeup'
<1>1. FrontMayEnter' => FrontMayEnter
  BY FrontAsBefore
<1>2. FrontMayEnter => SomebodyLooks
  BY WakeupForm
<1>3. SomebodyLooks => SomebodyLooks'
  BY DEF SomebodyLooks, Looks
<1> QED BY <1>1, <1>2, <1>3, WakeupForm, PTL

(* Granting a shared request puts a look at the queue on the stack. *)
LEMMA SharedGrantLooks ==
  ASSUME NEW t \in Threads, stack \in [Threads -> Seq(Frame)], NEW rest \in Seq(Frame),
         NEW pend, NEW held, NEW sync \in Requests \cup {None},
         Head(pend) \in Requests, req[Head(pend)].mode = "shared",
         Grant(t, pend, held, sync, rest)
  PROVE  SomebodyLooks'
<1> DEFINE g == Head(pend)
<1> DEFINE f == IF g = sync THEN Call(g) ELSE Deliver(g)
           fs == <<f, Batch(sync)>>
<1>1. stack' = [stack EXCEPT ![t] = fs \o rest]
  BY DEF Grant
<1>2. f \in Frame /\ Batch(sync) \in Frame
  BY DEF Call, Deliver, Batch, Frame
<1> HIDE DEF f
<1>3. fs \in Seq(Frame) /\ Len(fs) = 2 /\ fs[2] = Batch(sync)
  BY <1>2
<1> HIDE DEF fs
<1>4. 2 \in DOMAIN (fs \o rest) /\ (fs \o rest)[2] = Batch(sync)
  <2>1. /\ fs \o rest \in Seq(Frame) /\ Len(fs \o rest) = Len(fs) + Len(rest)
        /\ \A i \in 1 .. Len(fs) + Len(rest) :
             (fs \o rest)[i] = IF i <= Len(fs) THEN fs[i] ELSE rest[i - Len(fs)]
    BY <1>3, ConcatProperties
  <2>2. Len(rest) \in Nat /\ 2 \in 1 .. Len(fs) + Len(rest)
    BY <1>3, LenProperties
  <2>3. DOMAIN (fs \o rest) = 1 .. Len(fs \o rest)
    BY <2>1, LenProperties
  <2> QED BY <1>3, <2>1, <2>2, <2>3
<1>5. 2 \in DOMAIN stack'[t] /\ stack'[t][2].op = "batch"
  BY <1>1, <1>4 DEF Batch
<1> QED BY <1>5 DEF SomebodyLooks, Looks

(* Serving a queue lets the front request in, and then the loop over       *)
(* shared requests looks again, or nobody else may enter.                  *)
LEMMA ServingLosesNoWakeup ==
  ASSUME NEW t \in Threads, stack \in [Threads -> Seq(Frame)], NEW rest \in Seq(Frame),
         NEW pend \in Seq(Requests), pend # <<>>, NEW held, NEW status,
         NEW sync \in Requests \cup {None},
         req[Head(pend)] \in Request, req'[Head(pend)].mode = req[Head(pend)].mode,
         ProcessPendingUnsafe(t, pend, held, status, sync, rest)
  PROVE  NoLostWakeup'
<1> DEFINE g == Head(pend)
           mode == req[g].mode
<1>1. mode \in {"shared", "exclusive"} /\ g \in Requests
  <2>1. mode \in Modes
    BY DEF Request
  <2>2. g \in Requests
    BY Popping
  <2> QED BY <2>1, <2>2, ConstantsAssumption
<1>2. CASE /\ CanAcquire(mode, held, status) /\ lockStatus' = mode
           /\ Grant(t, pend, held, sync, rest) /\ mode = "shared"
  <2>1. SomebodyLooks'
    BY <1>1, <1>2, SharedGrantLooks
  <2> QED BY <2>1, WakeupForm, PTL
<1>3. CASE /\ CanAcquire(mode, held, status) /\ lockStatus' = mode
           /\ Grant(t, pend, held, sync, rest) /\ mode = "exclusive"
  <2>1. heldList' # {} /\ lockStatus' = "exclusive"
    BY <1>3 DEF Grant
  <2>2. ~FrontMayEnter'
    BY <2>1 DEF FrontMayEnter, CanAcquire
  <2> QED BY <2>2, WakeupForm, PTL
<1>4. CASE /\ ~CanAcquire(mode, held, status)
           /\ pendingList' = pend /\ heldList' = held /\ lockStatus' = status
  <2>1. ~FrontMayEnter'
    BY <1>4 DEF FrontMayEnter
  <2> QED BY <2>1, WakeupForm, PTL
<1> QED BY <1>1, <1>2, <1>3, <1>4 DEF ProcessPendingUnsafe

(* So do its callers, with an empty queue as well. *)
LEMMA ServingIfAnyLosesNoWakeup ==
  ASSUME NEW t \in Threads, stack \in [Threads -> Seq(Frame)], NEW rest \in Seq(Frame),
         NEW pend \in Seq(Requests), NEW held, NEW status,
         pend # <<>> => /\ req[Head(pend)] \in Request
                        /\ req'[Head(pend)].mode = req[Head(pend)].mode,
         ProcessPendingIfAny(t, pend, held, status, rest)
  PROVE  NoLostWakeup'
<1>1. CASE pend # <<>> /\ ProcessPendingUnsafe(t, pend, held, status, None, rest)
  BY <1>1, ServingLosesNoWakeup
<1>2. CASE pend = <<>> /\ pendingList' = pend
  <2>1. ~FrontMayEnter'
    BY <1>2 DEF FrontMayEnter
  <2> QED BY <2>1, WakeupForm, PTL
<1> QED BY <1>1, <1>2 DEF ProcessPendingIfAny

----------------------------------------------------------------------------
(* The steps. *)

(* A request that is queued finds the queue processed at once. *)
LEMMA PushBackLosesNoWakeup ==
  ASSUME IInv, NEW t \in Threads, NEW r \in Requests, PushBack(t, r)
  PROVE  NoLostWakeup'
<1> DEFINE pend == Append(pendingList, r)
<1>1. /\ ReqType(req) /\ StackType /\ stack[t] # <<>>
      /\ stack[t][1].op = "enqueue" /\ stack[t][1].req = r /\ 1 \in DOMAIN stack[t]
      /\ LockOK(req, pendingList, heldList, lockStatus)
  BY InvType, TopFrame DEF PushBack
<1>2. Live(r)
  BY <1>1 DEF IInv, EnqueueOK
<1>3. /\ pend \in Seq(Requests) /\ Len(pend) = Len(pendingList) + 1
      /\ Len(pendingList) \in Nat
      /\ DOMAIN pendingList = 1 .. Len(pendingList) /\ DOMAIN pend = 1 .. Len(pend)
      /\ pend[Len(pend)] = r
      /\ \A i \in 1 .. Len(pendingList) : pend[i] = pendingList[i]
  BY <1>1, AppendProperties, LenProperties DEF LockOK
<1> HIDE DEF pend
<1>4. pend # <<>> /\ Head(pend) = pend[1] /\ 1 \in DOMAIN pend
  BY <1>3, EmptySeq, Popping
<1>5. Head(pend) \in Requests /\ Live(Head(pend))
  <2>1. CASE 1 \in DOMAIN pendingList
    BY <1>1, <1>3, <1>4, <2>1, ElementOfSeq DEF LockOK, Live
  <2>2. CASE 1 \notin DOMAIN pendingList
    <3>1. Len(pend) = 1
      BY <1>3, <2>2
    <3> QED BY <1>2, <1>3, <1>4, <3>1
  <2> QED BY <2>1, <2>2
<1>6. req[Head(pend)] \in Request
  BY <1>1, <1>5 DEF ReqType, Live
<1>7. Below(t) \in Seq(Frame) /\ stack \in [Threads -> Seq(Frame)]
  BY <1>1, Popping DEF StackType, Below
<1>8. /\ ProcessPendingUnsafe(t, pend, heldList, lockStatus, r, Below(t))
      /\ req' = req
  BY DEF PushBack, pend
<1> QED BY <1>3, <1>4, <1>6, <1>7, <1>8, ServingLosesNoWakeup

(* The loop ends when the front request is not shared: an exclusive one    *)
(* may not enter, since nobody waits for a lock that nobody holds.         *)
LEMMA NextInBatchLosesNoWakeup ==
  ASSUME IInv, NEW t \in Threads, NEW sync \in Requests \cup {None}, NextInBatch(t, sync)
  PROVE  NoLostWakeup'
<1>1. /\ StackType /\ stack[t] # <<>>
      /\ LockOK(req, pendingList, heldList, lockStatus)
  BY InvType DEF NextInBatch, Top
<1>2. Below(t) \in Seq(Frame) /\ stack \in [Threads -> Seq(Frame)]
  BY <1>1, Popping DEF StackType, Below
<1>3. CASE FrontIsShared /\ Grant(t, pendingList, heldList, sync, Below(t))
  <2>1. Head(pendingList) \in Requests /\ req[Head(pendingList)].mode = "shared"
    BY <1>3, FrontRequest DEF FrontIsShared
  <2>2. SomebodyLooks'
    BY <1>2, <1>3, <2>1, SharedGrantLooks
  <2> QED BY <2>2, WakeupForm, PTL
<1>4. CASE ~FrontIsShared /\ UNCHANGED lockVars /\ req' = req
  <2>1. pendingList' = pendingList /\ heldList' = heldList /\ lockStatus' = lockStatus
    BY <1>4 DEF lockVars
  <2>2. ASSUME pendingList # <<>>
        PROVE  ~CanAcquire(req[Head(pendingList)].mode, heldList, lockStatus)
    <3>1. req[Head(pendingList)].mode = "exclusive"
      BY <1>4, <2>2, FrontRequest DEF FrontIsShared
    <3>2. heldList # {}
      BY <2>2 DEF IInv, NobodyWaitsInVain
    <3>3. lockStatus # "unlock"
      BY <1>1, <3>2 DEF LockOK
    <3> QED BY <3>1, <3>2, <3>3 DEF CanAcquire
  <2>3. ~FrontMayEnter'
    BY <1>4, <2>1, <2>2 DEF FrontMayEnter
  <2> QED BY <2>3, WakeupForm, PTL
<1> QED BY <1>3, <1>4 DEF NextInBatch

(* The queue is processed after a timeout or a cleanup. *)
LEMMA ProcessPendingLockRequestLosesNoWakeup ==
  ASSUME IInv, NEW t \in Threads, ProcessPendingLockRequest(t)
  PROVE  NoLostWakeup'
<1>1. /\ StackType /\ stack[t] # <<>> /\ pendingList \in Seq(Requests)
  BY InvType DEF ProcessPendingLockRequest, Top, LockOK
<1>2. Below(t) \in Seq(Frame) /\ stack \in [Threads -> Seq(Frame)]
  BY <1>1, Popping DEF StackType, Below
<1>3. /\ ProcessPendingIfAny(t, pendingList, heldList, lockStatus, Below(t))
      /\ req' = req
  BY DEF ProcessPendingLockRequest
<1> QED BY <1>1, <1>2, <1>3, FrontRequest, ServingIfAnyLosesNoWakeup

(* A request that leaves the lock is not the one at the front. *)
LEMMA CleanUpLosesNoWakeup ==
  ASSUME IInv, NEW t \in Threads, NEW r, NEW rest \in Seq(Frame),
         CleanUpOnCompletion(t, r, rest)
  PROVE  NoLostWakeup'
<1> DEFINE held == heldList \ {r}
           status == IF held = {} THEN "unlock" ELSE lockStatus
<1>1. /\ r \in heldList /\ req' = [req EXCEPT ![r] = None]
      /\ ProcessPendingIfAny(t, pendingList, held, status, rest)
  BY DEF CleanUpOnCompletion
<1> HIDE DEF held, status
<1>2. ReqType(req) /\ pendingList \in Seq(Requests) /\ stack \in [Threads -> Seq(Frame)]
  BY InvType DEF LockOK, StackType
<1>3. pendingList # <<>> => /\ req[Head(pendingList)] \in Request
                            /\ req'[Head(pendingList)].mode = req[Head(pendingList)].mode
  BY <1>1, <1>2, FrontRequest DEF ReqType
<1> QED BY <1>1, <1>2, <1>3, ServingIfAnyLosesNoWakeup

(* A frame that carries a request is replaced, or its work done elsewhere. *)
LEMMA CarrierLeavesNoWakeup ==
  ASSUME IInv, NoLostWakeup, NEW t \in Threads, NEW op \in CarrierOps, NEW r, Top(t, op, r),
         NEW fs \in Seq(Frame), Replace(t, fs), UNCHANGED lockVars,
         \A q \in Requests : Live(q) => req'[q].mode = req[q].mode
  PROVE  NoLostWakeup'
<1>1. stack[t] # <<>> /\ ~Looks(t, 1)
  BY TopCarrier DEF Looks, CarrierOps
<1>2. stack' = [stack EXCEPT ![t] = fs \o Rest(t, 1)]
  BY DEF Replace, Rest
<1>3. StackStep(t, 1, fs)
  BY <1>1, <1>2 DEF StackStep
<1> QED BY <1>1, <1>3, QuietStepLosesNoWakeup

(* A callback is posted, or its request dropped with its engine. *)
LEMMA CallCallbackAsyncLosesNoWakeup ==
  ASSUME IInv, NoLostWakeup, NEW t \in Threads, NEW r \in Requests, CallCallbackAsync(t, r)
  PROVE  NoLostWakeup'
<1>1. Top(t, "deliver", r) /\ "deliver" \in CarrierOps
  BY DEF CallCallbackAsync, CarrierOps
<1>2. CASE Replace(t, <<>>) /\ UNCHANGED <<req, lockVars>>
  <2>1. PICK fs \in Seq(Frame) : fs = <<>>
    BY NoFrame
  <2>2. Replace(t, fs) /\ UNCHANGED lockVars
        /\ \A q \in Requests : Live(q) => req'[q].mode = req[q].mode
    BY <1>2, <2>1
  <2> QED BY <1>1, <2>2, CarrierLeavesNoWakeup
<1>3. CASE CleanUpOnCompletion(t, r, Below(t))
  <2>1. Below(t) \in Seq(Frame)
    BY <1>1, InvType, TopFrame, Popping DEF StackType, Below
  <2> QED BY <1>3, <2>1, CleanUpLosesNoWakeup
<1> QED BY <1>2, <1>3 DEF CallCallbackAsync

(* A request is called back, or its callback has ended. *)
LEMMA CallbackStepsLoseNoWakeup ==
  ASSUME IInv, NoLostWakeup, NEW t \in Threads, NEW r \in Requests,
         \/ CallCallback(t, r) \/ CallbackReturns(t, r) \/ CallbackReturnsPromise(t, r)
  PROVE  NoLostWakeup'
<1>1. PICK op \in CarrierOps : Top(t, op, r)
  BY DEF CallCallback, CallbackReturns, CallbackReturnsPromise, CarrierOps
<1>2. Live(r) /\ ReqType(req)
  BY <1>1, TopCarrier, InvType
<1>3. UNCHANGED lockVars
  BY DEF CallCallback, CallbackReturns, CallbackReturnsPromise
<1>4. PICK fs \in Seq(Frame) : Replace(t, fs)
  <2>1. Callback(r) \in Frame /\ Complete(r) \in Frame
    BY DEF Callback, Complete, Frame
  <2>2. <<>> \in Seq(Frame) /\ <<Callback(r)>> \in Seq(Frame) /\ <<Complete(r)>> \in Seq(Frame)
    BY <2>1, NoFrame, OneFrame
  <2> QED BY <2>2 DEF CallCallback, CallbackReturns, CallbackReturnsPromise
<1>5. \A q \in Requests : Live(q) => req'[q].mode = req[q].mode
  <2>1. CASE UNCHANGED req
    BY <2>1
  <2>2. CASE \/ req' = [req EXCEPT ![r].timer = FALSE]
             \/ req' = [req EXCEPT ![r].hook = FALSE]
             \/ req' = [req EXCEPT ![r].hook = FALSE, ![r].timer = FALSE]
    BY <1>2, <2>2, UpdateKeepsObjects DEF ObjectsKept
  <2> QED BY <2>1, <2>2 DEF CallCallback, CallbackReturns, CallbackReturnsPromise, Release
<1> QED BY <1>1, <1>3, <1>4, <1>5, CarrierLeavesNoWakeup

(* The work that was posted to a thread runs there. *)
LEMMA AsyncAfterWorkCallbackLosesNoWakeup ==
  ASSUME IInv, NoLostWakeup, NEW r \in Requests, AsyncAfterWorkCallback(r)
  PROVE  NoLostWakeup'
<1>1. PICK t \in Threads : t = req[r].owner
  BY WaitingCarrier DEF AsyncAfterWorkCallback
<1>2. Live(r) /\ ReqType(req) /\ StackType
  BY WaitingCarrier, InvType DEF AsyncAfterWorkCallback
<1>3. stack[t] = <<>> /\ UNCHANGED lockVars
  BY <1>1 DEF AsyncAfterWorkCallback, Idle
<1>4. PICK f \in Frame : /\ stack' = [stack EXCEPT ![t] = <<f>>]
                       /\ \A q \in Requests : Live(q) => req'[q].mode = req[q].mode
  <2>1. Call(r) \in Frame /\ Complete(r) \in Frame
    BY DEF Call, Complete, Frame
  <2>2. CASE stack' = [stack EXCEPT ![t] = <<Call(r)>>] /\ UNCHANGED req
    BY <2>1, <2>2
  <2>3. CASE stack' = [stack EXCEPT ![t] = <<Complete(r)>>] /\ Release(r)
    BY <1>2, <2>1, <2>3, UpdateKeepsObjects DEF Release, ObjectsKept
  <2> QED BY <1>1, <2>2, <2>3 DEF AsyncAfterWorkCallback
<1>5. PICK fs \in Seq(Frame) : fs = <<f>>
  BY OneFrame
<1>6. PICK k \in {0, 1} : k = 0
  OBVIOUS
<1>7. StackStep(t, k, fs)
  <2>1. Rest(t, k) = <<>> /\ fs \o <<>> = fs
    BY <1>3, <1>6, ConcatEmptySeq DEF Rest
  <2>2. stack' = [stack EXCEPT ![t] = fs \o Rest(t, k)]
    BY <1>4, <1>5, <2>1
  <2> QED BY <1>6, <2>2 DEF StackStep
<1>8. k # 1
  BY <1>6
<1> QED BY <1>3, <1>4, <1>7, <1>8, QuietStepLosesNoWakeup

(* A request that leaves the queue is not the last thing its thread does:  *)
(* ProcessPendingLockRequest follows.                                      *)
LEMMA TimeoutAndCleanupLoseNoWakeup ==
  ASSUME IInv, NoLostWakeup, NEW r \in Requests, TimeoutCallback(r) \/ EnvCleanup(r)
  PROVE  NoLostWakeup'
<1>1. ReqType(req) /\ Live(r) /\ StackType
  BY InvType DEF TimeoutCallback, EnvCleanup
<1>2. PICK t \in Threads : t = req[r].owner
  BY <1>1 DEF ReqType, Live, Request
<1>3. CASE stack' = [stack EXCEPT ![t] = <<Process>>]
  <2>1. stack'[t] = <<Process>> /\ 1 \in DOMAIN stack'[t]
    BY <1>1, <1>3 DEF StackType
  <2>2. stack'[t][1].op = "process"
    BY <2>1 DEF Process
  <2>3. SomebodyLooks'
    BY <2>1, <2>2 DEF SomebodyLooks, Looks
  <2> QED BY <2>3, WakeupForm, PTL
<1>4. CASE /\ UNCHANGED lockVars /\ UNCHANGED stack
           /\ \/ req' = [req EXCEPT ![r].timer = FALSE]
              \/ req' = [req EXCEPT ![r].hook = FALSE, ![r].invalid = TRUE]
  <2>1. \A q \in Requests : Live(q) => req'[q].mode = req[q].mode
    BY <1>1, <1>4, UpdateKeepsObjects DEF ObjectsKept
  <2> QED BY <1>4, <2>1, NoFrameMovesLosesNoWakeup
<1> QED BY <1>2, <1>3, <1>4 DEF TimeoutCallback, EnvCleanup

(* The client makes a request. *)
LEMMA LockAsyncLosesNoWakeup ==
  ASSUME IInv, NoLostWakeup, NEW t \in Threads, NEW r \in Requests, NEW mode \in Modes,
         NEW options \in SUBSET (Uses \ {"nested"}), LockAsync(t, r, mode, options)
  PROVE  NoLostWakeup'
<1>1. /\ ~Live(r) /\ ReqType(req) /\ UNCHANGED lockVars
      /\ stack' = [stack EXCEPT ![t] = <<Enqueue(r)>> \o stack[t]]
  BY InvType DEF LockAsync
<1>2. \A q \in Requests : Live(q) => req'[q].mode = req[q].mode
  BY <1>1 DEF LockAsync, ReqType, Live
<1>3. Enqueue(r) \in Frame
  BY DEF Enqueue, Frame
<1>4. PICK fs \in Seq(Frame) : fs = <<Enqueue(r)>>
  BY <1>3, OneFrame
<1>5. PICK k \in {0, 1} : k = 0
  OBVIOUS
<1>6. StackStep(t, k, fs)
  BY <1>1, <1>4, <1>5 DEF StackStep, Rest
<1>7. k # 1
  BY <1>5
<1> QED BY <1>1, <1>2, <1>6, <1>7, QuietStepLosesNoWakeup

----------------------------------------------------------------------------
(* The theorem. *)

(* Every action preserves the property. *)
LEMMA NextLosesNoWakeup ==
  ASSUME IInv, NoLostWakeup, [Next]_vars
  PROVE  NoLostWakeup'
<1>1. ASSUME NEW t \in Threads, Step(t)
      PROVE  NoLostWakeup'
  <2>1. ASSUME NEW r \in Requests, Completion(t, r)
        PROVE  NoLostWakeup'
    <3>1. Below(t) \in Seq(Frame)
      BY <2>1, InvType, TopFrame, Popping DEF Completion, StackType, Below
    <3> QED BY <2>1, <3>1, CleanUpLosesNoWakeup DEF Completion
  <2> QED BY <1>1, <2>1, PushBackLosesNoWakeup, CallCallbackAsyncLosesNoWakeup,
             CallbackStepsLoseNoWakeup, NextInBatchLosesNoWakeup,
             ProcessPendingLockRequestLosesNoWakeup DEF Step
<1>2. ASSUME NEW t \in Threads, DestroyEngine(t) \/ EngineDestroyed(t)
      PROVE  NoLostWakeup'
  BY <1>2, NoFrameMovesLosesNoWakeup DEF DestroyEngine, EngineDestroyed
<1>3. ASSUME NEW r \in Requests, FinallyCallback(r)
      PROVE  NoLostWakeup'
  <2>1. req[r].owner \in Threads /\ <<>> \in Seq(Frame)
    BY <1>3, WaitingCarrier, NoFrame DEF FinallyCallback
  <2> QED BY <1>3, <2>1, CleanUpLosesNoWakeup DEF FinallyCallback
<1>4. CASE UNCHANGED vars
  BY <1>4, NoFrameMovesLosesNoWakeup DEF vars, lockVars
<1>5. ASSUME NEW t \in Threads, NEW r \in Requests, NEW mode \in Modes,
             NEW options \in SUBSET (Uses \ {"nested"}), LockAsync(t, r, mode, options)
      PROVE  NoLostWakeup'
  BY <1>5, LockAsyncLosesNoWakeup
<1>6. ASSUME NEW r \in Requests,
             AsyncAfterWorkCallback(r) \/ TimeoutCallback(r) \/ EnvCleanup(r)
      PROVE  NoLostWakeup'
  BY <1>6, AsyncAfterWorkCallbackLosesNoWakeup, TimeoutAndCleanupLoseNoWakeup
<1> QED BY <1>1, <1>2, <1>3, <1>4, <1>5, <1>6 DEF Next

(* A front request that could be let in is about to be: every critical     *)
(* section that lets a request go is followed by a look at the queue, and  *)
(* nobody else lets the lock become available in between.                  *)
THEOREM NoWakeupIsLost == Spec => []NoLostWakeup
<1>1. Init => NoLostWakeup
  BY DEF Init, NoLostWakeup
<1>2. IInv /\ NoLostWakeup /\ [Next]_vars => NoLostWakeup'
  BY NextLosesNoWakeup
<1> QED BY <1>1, <1>2, InductiveInvariant, PTL DEF Spec

----------------------------------------------------------------------------
(* What the frames of the threads are doing for a request. *)
RequestOps == CarrierOps \cup {"enqueue"}
IsFrameOf(t, i, r) == stack[t][i].op \in RequestOps /\ stack[t][i].req = r
DoneFor(r) ==
  {op \in RequestOps : \E t \in Threads : \E i \in DOMAIN stack[t] :
                         stack[t][i].op = op /\ stack[t][i].req = r}
Pushed(fs, r) ==
  {op \in RequestOps : \E i \in DOMAIN fs : fs[i].op = op /\ fs[i].req = r}

(* The fate of one request:                                                *)
(* - one that holds the lock has its work queued, its promise pending, or  *)
(*   a frame;                                                              *)
(* - one that does not waits, or is about to; its engine would clean it up *)
(*   and its promise is open;                                              *)
(* - it is invalid only if its engine goes away;                           *)
(* - its promise is open until its callback has ended, then it is settled; *)
(* - when its engine is gone it is about to be completed.                  *)
Fate(r) ==
  /\ r \in heldList => r \in queued \cup attached \/ DoneFor(r) \cap CarrierOps # {}
  /\ Live(r) /\ r \notin heldList => /\ IsPending(r) \/ "enqueue" \in DoneFor(r)
                                     /\ req[r].hook /\ promise[r] = "open"
  /\ Live(r) /\ req[r].invalid => env[req[r].owner] # "alive"
  /\ r \in queued => promise[r] = "open"
  /\ r \in attached => promise[r] = "settled"
  /\ DoneFor(r) \cap {"deliver", "call", "callback"} # {} => promise[r] = "open"
  /\ "complete" \in DoneFor(r) => promise[r] = "settled" \/ req[r].invalid
  /\ Live(r) /\ env[req[r].owner] = "dead" => r \in heldList /\ r \notin queued

(* A thread whose engine is gone does nothing any more. *)
DeadIdle == \A t \in Threads : env[t] = "dead" => stack[t] = <<>>

FateInv == DeadIdle /\ \A r \in Requests : Fate(r)

----------------------------------------------------------------------------
(* Frames. *)

(* The frames of a request after a step: those pushed, and those there     *)
(* were, unless the one that was popped was the only one.                  *)
LEMMA DoneAfter ==
  ASSUME StackType, NEW t \in Threads, NEW k, NEW fs, StackStep(t, k, fs), NEW r
  PROVE  /\ (k = 1 => ~IsFrameOf(t, 1, r)) => DoneFor(r)' = DoneFor(r) \cup Pushed(fs, r)
         /\ (\A u \in Threads : \A i \in DOMAIN stack[u] :
               IsFrameOf(u, i, r) => u = t /\ i = 1 /\ k = 1) => DoneFor(r)' = Pushed(fs, r)
<1> DEFINE Does(u, i, op) == i \in DOMAIN stack[u] /\ stack[u][i].op = op /\ stack[u][i].req = r
           After(u, i, op) ==
             i \in DOMAIN stack'[u] /\ stack'[u][i].op = op /\ stack'[u][i].req = r
<1>1. DoneFor(r) = {op \in RequestOps : \E u \in Threads : \E i \in DOMAIN stack[u] : Does(u, i, op)}
  BY DEF DoneFor
<1>2. DoneFor(r)' =
        {op \in RequestOps : \E u \in Threads : \E i \in DOMAIN stack'[u] : After(u, i, op)}
  BY DEF DoneFor
<1>3. Pushed(fs, r) \subseteq DoneFor(r)'
  <2>1. ASSUME NEW i \in DOMAIN fs, NEW op, fs[i].op = op, fs[i].req = r
        PROVE  After(t, i, op)
    BY <2>1, StackStepPositions
  <2> HIDE DEF After
  <2> QED BY <1>2, <2>1 DEF Pushed, After
<1>4. ASSUME NEW u \in Threads, NEW i \in DOMAIN stack'[u], NEW op, After(u, i, op)
      PROVE  \/ \E j \in DOMAIN fs : fs[j].op = op /\ fs[j].req = r
             \/ \E j \in DOMAIN stack[u] : Does(u, j, op) /\ (u = t => j > k)
  BY <1>4, StackStepFrames
<1>5. ASSUME NEW u \in Threads, NEW j \in DOMAIN stack[u], NEW op, Does(u, j, op), u = t => j > k
      PROVE  \E i \in DOMAIN stack'[u] : After(u, i, op)
  <2>1. CASE u = t
    BY <1>5, <2>1, StackStepPositions
  <2>2. CASE u # t
    BY <1>5, <2>2, StackStepFrames
  <2> QED BY <2>1, <2>2
<1>6. \A u \in Threads : \A j \in DOMAIN stack[u] : j \in Nat \ {0}
  BY LenProperties DEF StackType
<1>7. k \in {0, 1}
  BY DEF StackStep
<1>8. ASSUME k = 1 => ~IsFrameOf(t, 1, r)
      PROVE  DoneFor(r)' = DoneFor(r) \cup Pushed(fs, r)
  <2>1. ASSUME NEW op \in DoneFor(r)
        PROVE  op \in DoneFor(r)'
    <3>1. PICK u \in Threads : \E j \in DOMAIN stack[u] : Does(u, j, op)
      BY <1>1, <2>1
    <3>2. PICK j \in DOMAIN stack[u] : Does(u, j, op)
      BY <3>1
    <3>3. op \in RequestOps
      BY <1>1, <2>1
    <3>4. ASSUME u = t
          PROVE  j > k
      <4>1. k = 1 => j # 1
        BY <1>8, <3>2, <3>3, <3>4 DEF IsFrameOf
      <4> QED BY <1>6, <1>7, <3>4, <4>1
    <3>5. \E i \in DOMAIN stack'[u] : After(u, i, op)
      BY <1>5, <3>2, <3>4
    <3> HIDE DEF After, Does
    <3> QED BY <1>2, <3>3, <3>5
  <2>2. ASSUME NEW op \in DoneFor(r)'
        PROVE  op \in DoneFor(r) \cup Pushed(fs, r)
    <3>1. op \in RequestOps /\ \E u \in Threads : \E i \in DOMAIN stack'[u] : After(u, i, op)
      BY <1>2, <2>2
    <3> HIDE DEF After, Does
    <3>2. \/ \E j \in DOMAIN fs : fs[j].op = op /\ fs[j].req = r
          \/ \E u \in Threads : \E j \in DOMAIN stack[u] : Does(u, j, op)
      BY <1>4, <3>1
    <3> QED BY <1>1, <3>1, <3>2 DEF Pushed
  <2> QED BY <1>3, <2>1, <2>2
<1>9. ASSUME \A u \in Threads : \A i \in DOMAIN stack[u] :
               IsFrameOf(u, i, r) => u = t /\ i = 1 /\ k = 1
      PROVE  DoneFor(r)' = Pushed(fs, r)
  <2>1. ASSUME NEW op \in DoneFor(r)'
        PROVE  op \in Pushed(fs, r)
    <3>1. op \in RequestOps /\ \E u \in Threads : \E i \in DOMAIN stack'[u] : After(u, i, op)
      BY <1>2, <2>1
    <3>2. ASSUME NEW u \in Threads, NEW j \in DOMAIN stack[u], Does(u, j, op), u = t => j > k
          PROVE  FALSE
      <4>1. IsFrameOf(u, j, r)
        BY <3>1, <3>2 DEF IsFrameOf
      <4>2. u = t /\ j = 1 /\ k = 1
        BY <1>9, <4>1
      <4> QED BY <3>2, <4>2
    <3> HIDE DEF After, Does
    <3>3. \E j \in DOMAIN fs : fs[j].op = op /\ fs[j].req = r
      BY <1>4, <3>1, <3>2
    <3> QED BY <3>1, <3>3 DEF Pushed
  <2> QED BY <1>3, <2>1
<1> QED BY <1>8, <1>9

(* Who does something for a request: the frame that carries it, or its     *)
(* creator, which is still to queue it.                                    *)
LEMMA Doers ==
  ASSUME IInv, NEW r
  PROVE  /\ DoneFor(r) \cap CarrierOps # {} => r \in heldList /\ r \notin queued \cup attached
         /\ "enqueue" \in DoneFor(r) =>
              /\ r \in Requests /\ Live(r) /\ r \notin heldList /\ ~IsPending(r)
              /\ req[r].owner \in Threads /\ Top(req[r].owner, "enqueue", r)
<1>1. ASSUME NEW op \in DoneFor(r) \cap CarrierOps
      PROVE  r \in heldList /\ r \notin queued \cup attached
  <2>1. PICK t \in Threads : \E i \in DOMAIN stack[t] : stack[t][i].op = op /\ stack[t][i].req = r
    BY <1>1 DEF DoneFor
  <2>2. PICK i \in DOMAIN stack[t] : stack[t][i].op = op /\ stack[t][i].req = r
    BY <2>1
  <2>3. Carries(t, i)
    BY <2>2 DEF Carries
  <2> QED BY <2>2, <2>3 DEF IInv, OneCarrier
<1>2. ASSUME "enqueue" \in DoneFor(r)
      PROVE  /\ r \in Requests /\ Live(r) /\ r \notin heldList /\ ~IsPending(r)
             /\ req[r].owner \in Threads /\ Top(req[r].owner, "enqueue", r)
  <2>1. PICK t \in Threads : \E i \in DOMAIN stack[t] :
                               stack[t][i].op = "enqueue" /\ stack[t][i].req = r
    BY <1>2 DEF DoneFor
  <2>2. PICK i \in DOMAIN stack[t] : stack[t][i].op = "enqueue" /\ stack[t][i].req = r
    BY <2>1
  <2>3. i = 1 /\ r \in Requests /\ Live(r) /\ req[r].owner = t /\ r \notin heldList /\ ~IsPending(r)
    BY <2>2 DEF IInv, EnqueueOK
  <2>4. stack[t] \in Seq(Frame)
    BY InvType DEF StackType
  <2>5. stack[t] # <<>> /\ Head(stack[t]) = stack[t][1]
    BY <2>3, <2>4, NoFrame, Popping
  <2>6. stack[t][1] \in Frame
    BY <2>3, <2>4, <2>5, Popping
  <2>7. stack[t][1] = [op |-> "enqueue", req |-> r]
    BY <2>2, <2>3, <2>6 DEF Frame
  <2> QED BY <2>3, <2>5, <2>7 DEF Top
<1> QED BY <1>1, <1>2

(* The top frame of a thread is the only one of its request. *)
LEMMA TopIsOnlyFrame ==
  ASSUME IInv, NEW t \in Threads, NEW op \in RequestOps, NEW r, Top(t, op, r)
  PROVE  /\ stack[t] # <<>> /\ stack[t][1].op = op /\ stack[t][1].req = r
         /\ DoneFor(r) = {op} /\ IsFrameOf(t, 1, r)
         /\ \A u \in Threads : \A i \in DOMAIN stack[u] : IsFrameOf(u, i, r) => u = t /\ i = 1
<1>1. /\ stack[t] # <<>> /\ 1 \in DOMAIN stack[t]
      /\ stack[t][1].op = op /\ stack[t][1].req = r
  BY InvType, TopFrame
<1>2. op \in DoneFor(r) /\ IsFrameOf(t, 1, r)
  BY <1>1 DEF DoneFor, IsFrameOf
<1>3. ASSUME NEW u \in Threads, NEW i \in DOMAIN stack[u], IsFrameOf(u, i, r)
      PROVE  u = t /\ i = 1
  <2>1. stack[u][i].op \in DoneFor(r)
    BY <1>3 DEF IsFrameOf, DoneFor
  <2>2. CASE op \in CarrierOps
    <3>1. r \in heldList
      BY <1>2, <2>2, Doers
    <3>2. stack[u][i].op # "enqueue"
      BY <2>1, <3>1, Doers
    <3>3. Carries(u, i) /\ Carries(t, 1)
      BY <1>1, <1>3, <2>2, <3>2 DEF Carries, IsFrameOf, RequestOps
    <3> QED BY <1>1, <1>3, <3>3 DEF IInv, OneCarrier, IsFrameOf
  <2>3. CASE op = "enqueue"
    <3>1. r \notin heldList /\ req[r].owner = t
      BY <1>1, <2>3 DEF IInv, EnqueueOK
    <3>2. stack[u][i].op \notin CarrierOps
      BY <2>1, <3>1, Doers
    <3>3. stack[u][i].op = "enqueue" /\ stack[u][i].req = r
      BY <1>3, <3>2 DEF IsFrameOf, RequestOps
    <3> QED BY <3>1, <3>3 DEF IInv, EnqueueOK
  <2> QED BY <2>2, <2>3 DEF RequestOps
<1>4. ASSUME NEW o \in DoneFor(r)
      PROVE  o = op
  <2>1. PICK u \in Threads : \E i \in DOMAIN stack[u] : stack[u][i].op = o /\ stack[u][i].req = r
    BY <1>4 DEF DoneFor
  <2>2. PICK i \in DOMAIN stack[u] : stack[u][i].op = o /\ stack[u][i].req = r
    BY <2>1
  <2>3. IsFrameOf(u, i, r)
    BY <1>4, <2>2 DEF IsFrameOf, DoneFor
  <2> QED BY <1>1, <1>3, <2>2, <2>3
<1> QED BY <1>1, <1>2, <1>3, <1>4

(* A request that waits, or is not there, or whose work is queued or       *)
(* promise pending, has no frame.                                          *)
LEMMA NobodyDoes ==
  ASSUME IInv, NEW r \in Requests,
         IsPending(r) \/ ~Live(r) \/ r \in queued \/ r \in attached
  PROVE  /\ DoneFor(r) = {}
         /\ \A u \in Threads : \A i \in DOMAIN stack[u] : ~IsFrameOf(u, i, r)
<1>1. queued \subseteq heldList /\ attached \subseteq heldList
  BY DEF IInv, OneCarrier
<1>2. IsPending(r) \/ ~Live(r) => r \notin heldList
  BY InvType DEF LockOK, IsPending, Live
<1>3. "enqueue" \notin DoneFor(r)
  BY <1>1, Doers
<1>4. DoneFor(r) \cap CarrierOps = {}
  BY <1>2, Doers
<1>5. DoneFor(r) = {}
  BY <1>3, <1>4 DEF DoneFor, RequestOps
<1>6. \A u \in Threads : \A i \in DOMAIN stack[u] : IsFrameOf(u, i, r) => stack[u][i].op \in DoneFor(r)
  BY DEF IsFrameOf, DoneFor
<1> QED BY <1>5, <1>6

----------------------------------------------------------------------------
(* Requests that a step leaves alone, deletes, or serves. *)

Untouched(q) ==
  /\ req'[q] = req[q] /\ promise'[q] = promise[q]
  /\ q \in heldList <=> q \in heldList'
  /\ q \in queued <=> q \in queued'
  /\ q \in attached <=> q \in attached'
  /\ IsPending(q) => IsPending(q)'
  /\ DoneFor(q)' = DoneFor(q)

(* A request nothing happens to keeps its fate. *)
LEMMA UntouchedKeepsFate ==
  ASSUME NEW q, Fate(q), Untouched(q), env' = env
  PROVE  Fate(q)'
  BY DEF Fate, Untouched, Live

(* A request that is gone has no fate any more. *)
LEMMA DeletedHasFate ==
  ASSUME NEW q, req'[q] = None, q \notin heldList', q \notin queued', q \notin attached',
         DoneFor(q)' = {}
  PROVE  Fate(q)'
  BY DEF Fate, Live

(* A thread whose engine is gone takes no step. *)
LEMMA DeadStayIdle ==
  ASSUME DeadIdle, EnvType, env' = env, NEW t \in Threads, env[t] # "dead",
         \A u \in Threads : u # t => stack'[u] = stack[u]
  PROVE  DeadIdle'
  BY DEF DeadIdle

(* Whether it is granted or not, a request keeps its fate when the queue   *)
(* is served.                                                              *)
LEMMA ServedKeepsFate ==
  ASSUME IInv, NEW t \in Threads, NEW k \in {0, 1}, k = 1 => stack[t] # <<>>,
         NEW held \in SUBSET heldList, NEW pend, Served(t, pend, held, Rest(t, k)),
         NEW q \in Requests, Fate(q), env' = env,
         req'[q] = req[q], promise'[q] = promise[q],
         q \in heldList => q \in held,
         q \in queued <=> q \in queued', q \in attached <=> q \in attached',
         \A i \in DOMAIN pend : pend[i] = q => q \notin heldList /\ Live(q),
         IsPending(q) => \E i \in DOMAIN pend : pend[i] = q,
         k = 1 /\ IsFrameOf(t, 1, q) =>
           stack[t][1].op = "enqueue" /\ \E i \in DOMAIN pend : pend[i] = q
  PROVE  Fate(q)'
<1>1. PICK granted \in SUBSET Requests, fs \in Seq(Frame) :
        /\ Granting(fs, granted)
        /\ stack' = [stack EXCEPT ![t] = fs \o Rest(t, k)]
        /\ granted \cap held = {} /\ heldList' = held \cup granted
        /\ \A r \in granted : \E i \in DOMAIN pend : pend[i] = r
        /\ \A i \in DOMAIN pendingList' : \E j \in DOMAIN pend : pendingList'[i] = pend[j]
        /\ \A r \in granted : \E i \in DOMAIN fs : fs[i].op \in CarrierOps /\ fs[i].req = r
        /\ \A j \in DOMAIN pend :
             pend[j] \in granted \/ \E i \in DOMAIN pendingList' : pendingList'[i] = pend[j]
  BY Zenon DEF Served
<1>2. StackStep(t, k, fs) /\ StackType
  BY <1>1, InvType DEF StackStep
<1>3. /\ Pushed(fs, q) \subseteq {"deliver", "call"}
      /\ q \notin granted => Pushed(fs, q) = {}
      /\ q \in granted => Pushed(fs, q) # {}
  <2>1. ASSUME NEW i \in DOMAIN fs, fs[i].op \in RequestOps
        PROVE  fs[i].op \in {"deliver", "call"} /\ fs[i].req \in granted
    <3>1. fs[i].op \in {"deliver", "call", "batch"}
      BY <1>1 DEF Granting
    <3>2. fs[i].op \in {"deliver", "call"} /\ fs[i].op \in CarrierOps
      BY <2>1, <3>1 DEF RequestOps, CarrierOps
    <3> QED BY <1>1, <3>2 DEF Granting
  <2>2. q \in granted => \E i \in DOMAIN fs : fs[i].op \in RequestOps /\ fs[i].req = q
    BY <1>1 DEF RequestOps
  <2> QED BY <2>1, <2>2 DEF Pushed
<1>4. \/ DoneFor(q)' = DoneFor(q) \cup Pushed(fs, q)
      \/ /\ DoneFor(q)' = Pushed(fs, q) /\ DoneFor(q) = {"enqueue"}
         /\ \E i \in DOMAIN pend : pend[i] = q
  <2>1. CASE k = 1 => ~IsFrameOf(t, 1, q)
    BY <1>2, <2>1, DoneAfter
  <2>2. CASE k = 1 /\ IsFrameOf(t, 1, q)
    <3>1. Top(t, "enqueue", q)
      <4>1. stack[t] \in Seq(Frame) /\ stack[t] # <<>>
        BY <1>2, <2>2 DEF StackType
      <4>2. Head(stack[t]) = stack[t][1] /\ stack[t][1] \in Frame
        BY <4>1, Popping
      <4>3. stack[t][1].op = "enqueue" /\ stack[t][1].req = q
        BY <2>2 DEF IsFrameOf
      <4> QED BY <4>1, <4>2, <4>3 DEF Top, Frame
    <3>2. "enqueue" \in RequestOps
      BY DEF RequestOps
    <3>3. /\ DoneFor(q) = {"enqueue"}
          /\ \A u \in Threads : \A i \in DOMAIN stack[u] :
               IsFrameOf(u, i, q) => u = t /\ i = 1 /\ k = 1
      BY <2>2, <3>1, <3>2, TopIsOnlyFrame
    <3> QED BY <1>2, <2>2, <3>3, DoneAfter
  <2> QED BY <2>1, <2>2
<1>5. CASE q \in granted
  <2>1. q \notin heldList /\ Live(q)
    BY <1>1, <1>5
  <2>2. DoneFor(q) \cap CarrierOps = {}
    BY <2>1, Doers
  <2>3. q \notin queued /\ q \notin attached
    BY <2>1 DEF IInv, OneCarrier
  <2>4. promise[q] = "open" /\ env[req[q].owner] # "dead"
    BY <2>1 DEF Fate
  <2>5. Pushed(fs, q) \cap CarrierOps # {} /\ "complete" \notin DoneFor(q)'
    BY <1>3, <1>4, <1>5, <2>2 DEF CarrierOps
  <2>6. DoneFor(q)' \cap CarrierOps # {}
    BY <1>4, <2>5
  <2>7. q \in heldList' /\ Live(q)'
    BY <1>1, <1>5, <2>1 DEF Live
  <2>8. Live(q)' /\ req'[q].invalid => env'[req'[q].owner] # "alive"
    BY <2>1 DEF Fate, Live
  <2> QED BY <2>3, <2>4, <2>5, <2>6, <2>7, <2>8 DEF Fate
<1>6. CASE q \notin granted
  <2>1. q \in heldList <=> q \in heldList'
    BY <1>1, <1>6
  <2>2. IsPending(q) => IsPending(q)'
    BY <1>1, <1>6 DEF IsPending
  <2>3. CASE DoneFor(q)' = DoneFor(q)
    <3>1. Untouched(q)
      BY <2>1, <2>2, <2>3 DEF Untouched
    <3> QED BY <3>1, UntouchedKeepsFate
  <2>4. CASE DoneFor(q)' = {} /\ DoneFor(q) = {"enqueue"} /\ \E i \in DOMAIN pend : pend[i] = q
    <3>1. IsPending(q)'
      BY <1>1, <1>6, <2>4 DEF IsPending
    <3>2. q \notin heldList' /\ q \notin queued' /\ q \notin attached'
      BY <2>1, <2>4 DEF IInv, OneCarrier
    <3> QED BY <2>1, <2>4, <3>1, <3>2 DEF Fate, Live
  <2> QED BY <1>3, <1>4, <1>6, <2>3, <2>4
<1> QED BY <1>5, <1>6

(* The steps that serve the queue and do nothing else. *)
LEMMA ServingKeepsFate ==
  ASSUME IInv, FateInv, NEW t \in Threads, stack[t] # <<>>,
         UNCHANGED <<env, req, promise, queued, attached>>,
         NEW pend, Served(t, pend, heldList, Rest(t, 1)),
         \A i \in DOMAIN pend : pend[i] \notin heldList /\ Live(pend[i]),
         \A q : IsPending(q) => \E i \in DOMAIN pend : pend[i] = q,
         \A q : IsFrameOf(t, 1, q) =>
           stack[t][1].op = "enqueue" /\ \E i \in DOMAIN pend : pend[i] = q
  PROVE  FateInv'
<1>1. PICK k \in {0, 1} : k = 1
  OBVIOUS
<1>2. PICK held \in SUBSET heldList : held = heldList
  OBVIOUS
<1>3. Served(t, pend, held, Rest(t, k)) /\ (k = 1 => stack[t] # <<>>)
  BY <1>1, <1>2
<1>4. ASSUME NEW q \in Requests
      PROVE  Fate(q)'
  <2>1. Fate(q)
    BY DEF FateInv
  <2>2. \A i \in DOMAIN pend : pend[i] = q => q \notin heldList /\ Live(q)
    OBVIOUS
  <2>3. /\ req'[q] = req[q] /\ promise'[q] = promise[q] /\ env' = env
        /\ q \in heldList => q \in held
        /\ (q \in queued <=> q \in queued') /\ (q \in attached <=> q \in attached')
    BY <1>2
  <2>4. /\ IsPending(q) => \E i \in DOMAIN pend : pend[i] = q
        /\ k = 1 /\ IsFrameOf(t, 1, q) =>
             stack[t][1].op = "enqueue" /\ \E i \in DOMAIN pend : pend[i] = q
    OBVIOUS
  <2> QED BY <1>3, <2>1, <2>2, <2>3, <2>4, ServedKeepsFate
<1>5. DeadIdle'
  <2>1. \A u \in Threads : u # t => stack'[u] = stack[u]
    BY InvType DEF Served, StackType
  <2>2. env[t] # "dead" /\ EnvType
    BY InvType DEF FateInv, DeadIdle
  <2> QED BY <2>1, <2>2, DeadStayIdle DEF FateInv
<1> QED BY <1>4, <1>5 DEF FateInv

(* The client's request is queued. *)
LEMMA PushBackKeepsFate ==
  ASSUME IInv, FateInv, NEW t \in Threads, NEW r \in Requests, PushBack(t, r)
  PROVE  FateInv'
<1>1. UNCHANGED <<env, req, promise, queued, attached>>
  BY DEF PushBack
<1>2. PICK pend : pend = Append(pendingList, r)
  OBVIOUS
<1>3. /\ stack[t] # <<>> /\ stack[t][1].op = "enqueue" /\ stack[t][1].req = r
      /\ Served(t, pend, heldList, Rest(t, 1))
      /\ \A i \in DOMAIN pend : pend[i] \notin heldList /\ Live(pend[i])
      /\ \A q : (\E i \in DOMAIN pend : pend[i] = q) <=> IsPending(q) \/ q = r
  BY <1>2, PushBackServes
<1>4. \A q : IsFrameOf(t, 1, q) =>
        stack[t][1].op = "enqueue" /\ \E i \in DOMAIN pend : pend[i] = q
  BY <1>3 DEF IsFrameOf
<1> QED BY <1>1, <1>3, <1>4, ServingKeepsFate

(* The queue is served by the loop, or after a timeout or a cleanup. *)
LEMMA ServingStepsKeepFate ==
  ASSUME IInv, FateInv, NEW t \in Threads, NEW sync \in Requests \cup {None},
         NextInBatch(t, sync) \/ ProcessPendingLockRequest(t)
  PROVE  FateInv'
<1>1. UNCHANGED <<env, req, promise, queued, attached>>
  BY DEF NextInBatch, ProcessPendingLockRequest
<1>2. /\ stack[t] # <<>> /\ stack[t][1].op \in {"batch", "process"}
      /\ Served(t, pendingList, heldList, Rest(t, 1))
  BY NextInBatchServes, ProcessPendingLockRequestServes
<1>3. \A i \in DOMAIN pendingList : pendingList[i] \notin heldList /\ Live(pendingList[i])
  BY InvType DEF LockOK, Live
<1>4. \A q : ~IsFrameOf(t, 1, q)
  BY <1>2 DEF IsFrameOf, RequestOps, CarrierOps
<1>5. \A q : IsPending(q) => \E i \in DOMAIN pendingList : pendingList[i] = q
  BY DEF IsPending
<1> QED BY <1>1, <1>2, <1>3, <1>4, <1>5, ServingKeepsFate

(* A request is completed and the queue served. *)
LEMMA CleanUpKeepsFate ==
  ASSUME IInv, FateInv, NEW t \in Threads, NEW r, NEW k \in {0, 1},
         k = 1 => stack[t] # <<>> /\ stack[t][1].req = r,
         CleanUpOnCompletion(t, r, Rest(t, k)), env[t] # "dead",
         queued' = queued \ {r}, attached' = attached \ {r},
         env' = env, promise' = promise,
         \A u \in Threads : \A i \in DOMAIN stack[u] :
           IsFrameOf(u, i, r) => u = t /\ i = 1 /\ k = 1
  PROVE  FateInv'
<1>1. /\ r \in heldList /\ r \in Requests /\ req' = [req EXCEPT ![r] = None]
      /\ Served(t, pendingList, heldList \ {r}, Rest(t, k))
  BY CleanUpServes
<1>2. /\ ReqType(req) /\ StackType /\ EnvType
      /\ \A i \in DOMAIN pendingList : pendingList[i] \notin heldList /\ Live(pendingList[i])
  BY InvType DEF LockOK, Live
<1>3. ASSUME NEW q \in Requests, q # r
      PROVE  Fate(q)'
  <2>1. Fate(q)
    BY DEF FateInv
  <2>2. req'[q] = req[q] /\ promise'[q] = promise[q]
    BY <1>1, <1>2, <1>3 DEF ReqType
  <2>3. PICK held \in SUBSET heldList : held = heldList \ {r}
    OBVIOUS
  <2>4. /\ q \in heldList => q \in held
        /\ q \in queued <=> q \in queued'
        /\ q \in attached <=> q \in attached'
    BY <1>3, <2>3
  <2>5. ~(k = 1 /\ IsFrameOf(t, 1, q))
    BY <1>3 DEF IsFrameOf
  <2>6. \A i \in DOMAIN pendingList : pendingList[i] = q => q \notin heldList /\ Live(q)
    BY <1>2
  <2>7. IsPending(q) => \E i \in DOMAIN pendingList : pendingList[i] = q
    BY DEF IsPending
  <2>8. Served(t, pendingList, held, Rest(t, k)) /\ (k = 1 => stack[t] # <<>>)
    BY <1>1, <2>3
  <2> QED BY <2>1, <2>2, <2>4, <2>5, <2>6, <2>7, <2>8, ServedKeepsFate
<1>4. PICK granted \in SUBSET Requests, fs \in Seq(Frame) :
        /\ Granting(fs, granted)
        /\ stack' = [stack EXCEPT ![t] = fs \o Rest(t, k)]
        /\ heldList' = (heldList \ {r}) \cup granted
        /\ \A q \in granted : \E i \in DOMAIN pendingList : pendingList[i] = q
  BY <1>1 DEF Served
<1>5. r \notin granted
  BY <1>1, <1>2, <1>4
<1>6. StackStep(t, k, fs)
  BY <1>4 DEF StackStep
<1>7. DoneFor(r)' = Pushed(fs, r)
  BY <1>2, <1>6, DoneAfter
<1>8. Pushed(fs, r) = {}
  BY <1>4, <1>5 DEF Pushed, Granting, RequestOps
<1>9. Fate(r)'
  <2>1. req'[r] = None /\ r \notin heldList' /\ r \notin queued' /\ r \notin attached'
    BY <1>1, <1>2, <1>4, <1>5 DEF ReqType
  <2> QED BY <1>7, <1>8, <2>1, DeletedHasFate
<1>10. DeadIdle'
  <2>1. \A u \in Threads : u # t => stack'[u] = stack[u]
    BY <1>2, <1>4 DEF StackType
  <2> QED BY <1>2, <2>1, DeadStayIdle DEF FateInv
<1> QED BY <1>3, <1>9, <1>10 DEF FateInv

(* A frame completes its request. *)
LEMMA CompletionKeepsFate ==
  ASSUME IInv, FateInv, NEW t \in Threads, NEW r, NEW op \in CarrierOps, Top(t, op, r),
         CleanUpOnCompletion(t, r, Below(t)), UNCHANGED <<env, promise, queued, attached>>
  PROVE  FateInv'
<1>1. /\ stack[t] # <<>> /\ stack[t][1].req = r
      /\ r \notin queued /\ r \notin attached
  BY TopCarrier, TopFrame, InvType
<1>2. PICK k \in {0, 1} : k = 1
  OBVIOUS
<1>3. CleanUpOnCompletion(t, r, Rest(t, k))
  BY <1>2 DEF Rest
<1>4. \A u \in Threads : \A i \in DOMAIN stack[u] :
        IsFrameOf(u, i, r) => u = t /\ i = 1 /\ k = 1
  <2>1. op \in RequestOps
    BY DEF RequestOps
  <2> QED BY <1>2, <2>1, TopIsOnlyFrame
<1>5. env[t] # "dead"
  BY <1>1 DEF FateInv, DeadIdle
<1>6. /\ queued' = queued \ {r} /\ attached' = attached \ {r}
      /\ env' = env /\ promise' = promise
  BY <1>1
<1> QED BY <1>1, <1>3, <1>4, <1>5, <1>6, CleanUpKeepsFate

(* The promise of a callback settles. *)
LEMMA FinallyCallbackKeepsFate ==
  ASSUME IInv, FateInv, NEW r \in Requests, FinallyCallback(r)
  PROVE  FateInv'
<1>1. PICK t \in Threads : t = req[r].owner
  BY WaitingCarrier DEF FinallyCallback
<1>2. /\ r \in attached /\ stack[t] = <<>> /\ env[t] # "dead"
      /\ attached' = attached \ {r} /\ queued' = queued
      /\ env' = env /\ promise' = promise
      /\ CleanUpOnCompletion(t, r, <<>>)
  BY <1>1 DEF FinallyCallback, Idle
<1>3. PICK k \in {0, 1} : k = 0
  OBVIOUS
<1>4. CleanUpOnCompletion(t, r, Rest(t, k)) /\ k # 1
  BY <1>2, <1>3 DEF Rest
<1>5. queued' = queued \ {r}
  BY <1>2 DEF IInv, OneCarrier
<1>6. \A u \in Threads : \A i \in DOMAIN stack[u] : ~IsFrameOf(u, i, r)
  BY <1>2, NobodyDoes
<1> QED BY <1>2, <1>4, <1>5, <1>6, CleanUpKeepsFate

----------------------------------------------------------------------------
(* Steps that concern one request. *)

OthersKept(r) ==
  \A q \in Requests \ {r} :
    /\ req'[q] = req[q] /\ promise'[q] = promise[q]
    /\ q \in queued <=> q \in queued'
    /\ q \in attached <=> q \in attached'

(* Nothing changes but what becomes of r and the top frames of t. *)
(* Such a step keeps the fate of all requests if it keeps that of r. *)
LEMMA OneRequestKeepsFate ==
  ASSUME IInv, FateInv, NEW t \in Threads, env[t] # "dead", env' = env,
         NEW k, NEW fs, StackStep(t, k, fs), NEW r \in Requests, UNCHANGED lockVars,
         OthersKept(r),
         \A i \in DOMAIN fs : fs[i].req = r,
         k = 1 => stack[t][1].req = r,
         Fate(r)'
  PROVE  FateInv'
<1>1. StackType /\ EnvType /\ pendingList' = pendingList /\ heldList' = heldList
  BY InvType DEF lockVars
<1>2. ASSUME NEW q \in Requests, q # r
      PROVE  Fate(q)'
  <2>1. k = 1 => ~IsFrameOf(t, 1, q)
    BY <1>2 DEF IsFrameOf
  <2>2. Pushed(fs, q) = {}
    BY <1>2 DEF Pushed
  <2>3. DoneFor(q)' = DoneFor(q) \cup Pushed(fs, q)
    BY <1>1, <2>1, DoneAfter
  <2>4. Untouched(q)
    BY <1>1, <1>2, <2>2, <2>3 DEF Untouched, IsPending, OthersKept
  <2> QED BY <2>4, UntouchedKeepsFate DEF FateInv
<1>3. \A u \in Threads : u # t => stack'[u] = stack[u]
  BY <1>1, StackStepFrames
<1>4. DeadIdle'
  BY <1>1, <1>3, DeadStayIdle DEF FateInv
<1> QED BY <1>2, <1>4 DEF FateInv

(* The frame of a request is replaced by another one, or by none. *)
LEMMA CarryOnKeepsFate ==
  ASSUME IInv, FateInv, NEW t \in Threads, NEW op \in CarrierOps, NEW r, Top(t, op, r),
         NEW fs \in Seq(Frame), Replace(t, fs), \A i \in DOMAIN fs : fs[i].req = r,
         UNCHANGED <<env, lockVars>>,
         OthersKept(r),
         DoneFor(r)' = Pushed(fs, r) => Fate(r)'
  PROVE  FateInv'
<1>1. /\ stack[t] # <<>> /\ stack[t][1].req = r /\ r \in Requests
      /\ \A u \in Threads : \A i \in DOMAIN stack[u] : IsFrameOf(u, i, r) => u = t /\ i = 1
  <2>1. op \in RequestOps
    BY DEF RequestOps
  <2> QED BY <2>1, TopCarrier, TopIsOnlyFrame
<1>2. PICK k \in {0, 1} : k = 1
  OBVIOUS
<1>3. StackStep(t, k, fs)
  BY <1>1, <1>2 DEF StackStep, Rest, Replace
<1>4. DoneFor(r)' = Pushed(fs, r)
  BY <1>1, <1>2, <1>3, InvType, DoneAfter
<1>5. env[t] # "dead"
  BY <1>1 DEF FateInv, DeadIdle
<1>6. k = 1 => stack[t][1].req = r
  BY <1>1
<1>7. UNCHANGED lockVars /\ env' = env
  OBVIOUS
<1> QED BY <1>1, <1>3, <1>4, <1>5, <1>6, <1>7, OneRequestKeepsFate

(* What is pushed when there is one frame, or none. *)
LEMMA PushedOps ==
  ASSUME NEW f \in Frame, f.op \in RequestOps, NEW r, f.req = r
  PROVE  Pushed(<<f>>, r) = {f.op} /\ Pushed(<<>>, r) = {}
  BY OneFrame, NoFrame DEF Pushed

(* The frames of a request's callback. *)
LEMMA RequestFrames ==
  ASSUME NEW r \in Requests
  PROVE  /\ Call(r) \in Frame /\ Callback(r) \in Frame /\ Complete(r) \in Frame
         /\ Call(r).req = r /\ Callback(r).req = r /\ Complete(r).req = r
         /\ Pushed(<<Call(r)>>, r) = {"call"} /\ Pushed(<<Callback(r)>>, r) = {"callback"}
         /\ Pushed(<<Complete(r)>>, r) = {"complete"} /\ Pushed(<<>>, r) = {}
<1>1. /\ Call(r) \in Frame /\ Call(r).op = "call" /\ Call(r).req = r
      /\ Callback(r) \in Frame /\ Callback(r).op = "callback" /\ Callback(r).req = r
      /\ Complete(r) \in Frame /\ Complete(r).op = "complete" /\ Complete(r).req = r
  BY DEF Call, Callback, Complete, Frame
<1>2. {"call", "callback", "complete"} \subseteq RequestOps
  BY DEF RequestOps, CarrierOps
<1> HIDE DEF Call, Callback, Complete
<1> QED BY <1>1, <1>2, PushedOps

(* A callback is posted, or its request dropped with its engine. *)
LEMMA CallCallbackAsyncKeepsFate ==
  ASSUME IInv, FateInv, NEW t \in Threads, NEW r \in Requests, CallCallbackAsync(t, r)
  PROVE  FateInv'
<1>1. Top(t, "deliver", r) /\ "deliver" \in CarrierOps
  BY DEF CallCallbackAsync, CarrierOps
<1>2. CASE /\ env[req[r].owner] # "dead" /\ queued' = queued \cup {r} /\ Replace(t, <<>>)
           /\ UNCHANGED <<req, lockVars>> /\ UNCHANGED <<env, promise, attached>>
  <2>1. PICK fs \in Seq(Frame) : fs = <<>> /\ \A i \in DOMAIN fs : FALSE
    BY NoFrame
  <2>2. "deliver" \in DoneFor(r) /\ r \in heldList /\ r \notin attached
    <3>1. "deliver" \in RequestOps
      BY <1>1 DEF RequestOps
    <3> QED BY <1>1, <3>1, TopIsOnlyFrame, TopCarrier
  <2>3. promise[r] = "open" /\ (Live(r) /\ req[r].invalid => env[req[r].owner] # "alive")
    BY <2>2 DEF FateInv, Fate
  <2>4. ASSUME DoneFor(r)' = Pushed(fs, r)
        PROVE  Fate(r)'
    <3>1. DoneFor(r)' = {}
      BY <2>1, <2>4, RequestFrames
    <3>2. r \in heldList' /\ r \in queued' /\ r \notin attached'
      BY <1>2, <2>2 DEF lockVars
    <3> QED BY <1>2, <2>3, <3>1, <3>2 DEF Fate, Live
  <2>5. /\ Replace(t, fs) /\ \A i \in DOMAIN fs : fs[i].req = r
        /\ UNCHANGED <<env, lockVars>>
        /\ OthersKept(r)
    BY <1>2, <2>1 DEF OthersKept
  <2> QED BY <1>1, <2>4, <2>5, CarryOnKeepsFate
<1>3. CASE /\ CleanUpOnCompletion(t, r, Below(t)) /\ UNCHANGED queued
           /\ UNCHANGED <<env, promise, attached>>
  BY <1>1, <1>3, CompletionKeepsFate
<1> QED BY <1>2, <1>3 DEF CallCallbackAsync

(* A callback is called, or has ended, in one way or another. *)
LEMMA CallbackStepsKeepFate ==
  ASSUME IInv, FateInv, NEW t \in Threads, NEW r \in Requests,
         \/ CallCallback(t, r) \/ CallbackReturns(t, r) \/ CallbackReturnsPromise(t, r)
  PROVE  FateInv'
<1>1. PICK op \in {"call", "callback"} : Top(t, op, r)
  BY DEF CallCallback, CallbackReturns, CallbackReturnsPromise
<1>2. op \in CarrierOps /\ op \in RequestOps
  BY DEF CarrierOps, RequestOps
<1>3. /\ r \in heldList /\ Live(r) /\ r \notin queued /\ r \notin attached
      /\ op \in DoneFor(r) /\ ReqType(req) /\ PromiseType /\ req[r] \in Request
  BY <1>1, <1>2, TopCarrier, TopIsOnlyFrame, InvType DEF ReqType, Live
<1>4. promise[r] = "open" /\ (req[r].invalid => env[req[r].owner] # "alive")
  BY <1>1, <1>3 DEF FateInv, Fate
<1>5. /\ UNCHANGED <<env, lockVars>> /\ queued' = queued
      /\ heldList' = heldList /\ env' = env
  BY DEF CallCallback, CallbackReturns, CallbackReturnsPromise, lockVars
<1>6. /\ \A q \in Requests \ {r} : req'[q] = req[q] /\ promise'[q] = promise[q]
                                  /\ (q \in attached <=> q \in attached')
      /\ req'[r] # None /\ req'[r].invalid = req[r].invalid /\ req'[r].owner = req[r].owner
  <2>1. /\ UNCHANGED promise \/ Settle(r)
        /\ attached' = attached \/ attached' = attached \cup {r}
        /\ \/ UNCHANGED req
           \/ req' = [req EXCEPT ![r].timer = FALSE]
           \/ req' = [req EXCEPT ![r].hook = FALSE]
           \/ req' = [req EXCEPT ![r].hook = FALSE, ![r].timer = FALSE]
    BY DEF CallCallback, CallbackReturns, CallbackReturnsPromise, Release
  <2>2. /\ \A q \in Requests \ {r} : req'[q] = req[q]
        /\ req'[r].invalid = req[r].invalid
    BY <1>3, <2>1 DEF ReqType, Request
  <2>3. req'[r] # None /\ req'[r].owner = req[r].owner
    BY <1>3, <2>1, UpdateKeepsObjects DEF ObjectsKept, Live
  <2>4. \A q \in Requests \ {r} : promise'[q] = promise[q] /\ (q \in attached <=> q \in attached')
    BY <1>3, <2>1 DEF Settle, PromiseType
  <2> QED BY <2>2, <2>3, <2>4
<1>7. Settle(r) => promise'[r] = "settled"
  BY <1>3, <1>4 DEF Settle, PromiseType
<1>8. ASSUME NEW fs \in Seq(Frame), DoneFor(r)' = Pushed(fs, r),
             \/ fs = <<Callback(r)>> /\ promise' = promise /\ attached' = attached
             \/ fs = <<Complete(r)>> /\ Settle(r) /\ attached' = attached
             \/ fs = <<>> /\ Settle(r) /\ attached' = attached \cup {r}
      PROVE  Fate(r)'
  <2>1. CASE fs = <<Callback(r)>> /\ promise' = promise /\ attached' = attached
    <3>1. DoneFor(r)' = {"callback"}
      BY <1>8, <2>1, RequestFrames
    <3> QED BY <1>3, <1>4, <1>5, <1>6, <2>1, <3>1 DEF Fate, Live, CarrierOps
  <2>2. CASE fs = <<Complete(r)>> /\ Settle(r) /\ attached' = attached
    <3>1. DoneFor(r)' = {"complete"}
      BY <1>8, <2>2, RequestFrames
    <3> QED BY <1>3, <1>4, <1>5, <1>6, <1>7, <2>2, <3>1 DEF Fate, Live, CarrierOps
  <2>3. CASE fs = <<>> /\ Settle(r) /\ attached' = attached \cup {r}
    <3>1. DoneFor(r)' = {}
      BY <1>8, <2>3, RequestFrames
    <3> QED BY <1>3, <1>4, <1>5, <1>6, <1>7, <2>3, <3>1 DEF Fate, Live
  <2> QED BY <1>8, <2>1, <2>2, <2>3
<1>9. PICK fs \in Seq(Frame) :
        /\ Replace(t, fs)
        /\ \A i \in DOMAIN fs : fs[i].req = r
        /\ \/ fs = <<Callback(r)>> /\ promise' = promise /\ attached' = attached
           \/ fs = <<Complete(r)>> /\ Settle(r) /\ attached' = attached
           \/ fs = <<>> /\ Settle(r) /\ attached' = attached \cup {r}
  <2>1. /\ <<>> \in Seq(Frame) /\ <<Callback(r)>> \in Seq(Frame) /\ <<Complete(r)>> \in Seq(Frame)
        /\ \A i \in DOMAIN <<>> : FALSE
        /\ \A i \in DOMAIN <<Callback(r)>> : <<Callback(r)>>[i].req = r
        /\ \A i \in DOMAIN <<Complete(r)>> : <<Complete(r)>>[i].req = r
    BY RequestFrames, OneFrame, NoFrame
  <2>2. CASE CallCallback(t, r)
    BY <2>1, <2>2 DEF CallCallback
  <2>3. CASE CallbackReturns(t, r)
    BY <2>1, <2>3 DEF CallbackReturns
  <2>4. CASE CallbackReturnsPromise(t, r)
    BY <2>1, <2>4 DEF CallbackReturnsPromise
  <2> QED BY <2>2, <2>3, <2>4
<1>10. DoneFor(r)' = Pushed(fs, r) => Fate(r)'
  BY <1>8, <1>9
<1>11. OthersKept(r)
  BY <1>5, <1>6 DEF OthersKept
<1> QED BY <1>1, <1>2, <1>5, <1>9, <1>10, <1>11, CarryOnKeepsFate

(* The work that was posted to a thread runs there. *)
LEMMA AsyncAfterWorkCallbackKeepsFate ==
  ASSUME IInv, FateInv, NEW r \in Requests, AsyncAfterWorkCallback(r)
  PROVE  FateInv'
<1>1. PICK t \in Threads : t = req[r].owner
  BY WaitingCarrier DEF AsyncAfterWorkCallback
<1>2. /\ r \in heldList /\ Live(r) /\ r \in queued /\ r \notin attached /\ ReqType(req)
      /\ req[r] \in Request
  BY WaitingCarrier, InvType DEF AsyncAfterWorkCallback, IInv, OneCarrier, ReqType, Live
<1>3. /\ stack[t] = <<>> /\ env[t] # "dead" /\ queued' = queued \ {r} /\ attached' = attached
      /\ heldList' = heldList /\ promise' = promise /\ env' = env /\ UNCHANGED lockVars
  BY <1>1 DEF AsyncAfterWorkCallback, Idle, lockVars
<1>4. promise[r] = "open" /\ (req[r].invalid => env[req[r].owner] # "alive")
  BY <1>2 DEF FateInv, Fate
<1>5. PICK f \in Frame :
        /\ \/ f = Call(r) /\ req' = req
           \/ f = Complete(r) /\ req[r].invalid /\ Release(r)
        /\ stack' = [stack EXCEPT ![t] = <<f>>]
  BY <1>1, RequestFrames DEF AsyncAfterWorkCallback
<1>6. PICK fs \in Seq(Frame) : fs = <<f>> /\ (\A i \in DOMAIN fs : i = 1) /\ fs[1] = f
  BY OneFrame
<1>7. PICK k \in {0, 1} : k = 0
  OBVIOUS
<1>8. StackStep(t, k, fs)
  <2>1. Rest(t, k) = <<>> /\ fs \o <<>> = fs
    BY <1>3, <1>7, ConcatEmptySeq DEF Rest
  <2>2. stack' = [stack EXCEPT ![t] = fs \o Rest(t, k)]
    BY <1>5, <1>6, <2>1
  <2> QED BY <1>7, <2>2 DEF StackStep
<1>9. DoneFor(r)' = Pushed(fs, r)
  BY <1>2, <1>8, NobodyDoes, InvType, DoneAfter
<1>10. /\ \A q \in Requests \ {r} : req'[q] = req[q]
       /\ req'[r] # None /\ req'[r].invalid = req[r].invalid /\ req'[r].owner = req[r].owner
  <2>1. CASE req' = req
    BY <1>2, <2>1 DEF Live
  <2>2. CASE Release(r)
    <3>1. req' = [req EXCEPT ![r].timer = FALSE]
      BY <2>2 DEF Release
    <3>2. req'[r] # None /\ req'[r].owner = req[r].owner
      BY <1>2, <3>1, UpdateKeepsObjects DEF ObjectsKept, Live
    <3> QED BY <1>2, <3>1, <3>2 DEF ReqType, Request
  <2> QED BY <1>5, <2>1, <2>2
<1>11. Fate(r)'
  <2>1. r \in heldList' /\ r \notin queued' /\ r \notin attached' /\ promise'[r] = "open"
    BY <1>2, <1>3, <1>4
  <2>2. \/ DoneFor(r)' = {"call"}
        \/ DoneFor(r)' = {"complete"} /\ req[r].invalid
    BY <1>5, <1>6, <1>9, RequestFrames
  <2> QED BY <1>3, <1>4, <1>10, <2>1, <2>2 DEF Fate, Live, CarrierOps
<1>12. \A i \in DOMAIN fs : fs[i].req = r
  <2>1. f.req = r
    BY <1>5, RequestFrames
  <2> QED BY <1>6, <2>1
<1>13. OthersKept(r)
  BY <1>3, <1>10 DEF OthersKept
<1>14. k # 1
  BY <1>7
<1> QED BY <1>3, <1>8, <1>11, <1>12, <1>13, <1>14, OneRequestKeepsFate

----------------------------------------------------------------------------
(* Steps of requests that wait, of engines, and of the client. *)

(* A waiting request is deleted, with ProcessPendingLockRequest to come. *)
LEMMA RemovePendingKeepsFate ==
  ASSUME IInv, FateInv, NEW t \in Threads, stack[t] = <<>>, env[t] # "dead", env' = env,
         NEW r \in Requests, RemovePending(r), req' = [req EXCEPT ![r] = None],
         stack' = [stack EXCEPT ![t] = <<Process>>], UNCHANGED <<queued, attached>>,
         \A q \in Requests \ {r} : promise'[q] = promise[q]
  PROVE  FateInv'
<1>1. /\ ReqType(req) /\ StackType /\ EnvType
      /\ \A i \in DOMAIN pendingList : pendingList[i] \notin heldList
  BY InvType DEF LockOK
<1>2. /\ heldList' = heldList /\ IsPending(r)
      /\ \A q \in Requests : q # r /\ IsPending(q) => IsPending(q)'
  BY RemovePendingRemoves
<1>3. r \notin heldList /\ r \notin queued /\ r \notin attached
  BY <1>1, <1>2 DEF IsPending, IInv, OneCarrier
<1>4. Process \in Frame /\ Process.op \notin RequestOps
  BY DEF Process, Frame, RequestOps, CarrierOps
<1>5. PICK fs \in Seq(Frame) : fs = <<Process>> /\ (\A i \in DOMAIN fs : i = 1) /\ fs[1] = Process
  BY <1>4, OneFrame
<1>6. PICK k \in {0, 1} : k = 0
  OBVIOUS
<1>7. StackStep(t, k, fs)
  <2>1. Rest(t, k) = <<>> /\ fs \o <<>> = fs
    BY <1>6, ConcatEmptySeq DEF Rest
  <2>2. stack' = [stack EXCEPT ![t] = fs \o Rest(t, k)]
    BY <1>5, <2>1
  <2>3. k \in {0, 1} /\ k # 1 /\ fs \in Seq(Frame)
    BY <1>6
  <2> QED BY <2>2, <2>3, Zenon DEF StackStep
<1>8. ASSUME NEW q
      PROVE  DoneFor(q)' = DoneFor(q)
  <2>1. Pushed(fs, q) = {}
    BY <1>4, <1>5 DEF Pushed
  <2>2. k # 1
    BY <1>6
  <2>3. DoneFor(q)' = DoneFor(q) \cup Pushed(fs, q)
    BY <1>1, <1>7, <2>2, DoneAfter
  <2> QED BY <2>1, <2>3
<1>9. ASSUME NEW q \in Requests, q # r
      PROVE  Fate(q)'
  <2>1. req'[q] = req[q] /\ promise'[q] = promise[q]
    BY <1>1, <1>9 DEF ReqType
  <2>2. Untouched(q)
    BY <1>2, <1>8, <1>9, <2>1 DEF Untouched
  <2> QED BY <2>2, UntouchedKeepsFate DEF FateInv
<1>10. Fate(r)'
  <2>1. DoneFor(r)' = {}
    BY <1>2, <1>8, NobodyDoes
  <2>2. req'[r] = None /\ r \notin heldList' /\ r \notin queued' /\ r \notin attached'
    BY <1>1, <1>2, <1>3 DEF ReqType
  <2> QED BY <2>1, <2>2, DeletedHasFate
<1>11. DeadIdle'
  <2>1. \A u \in Threads : u # t => stack'[u] = stack[u]
    BY <1>1 DEF StackType
  <2> QED BY <1>1, <2>1, DeadStayIdle DEF FateInv
<1> QED BY <1>9, <1>10, <1>11 DEF FateInv

(* A request is marked where it is. *)
LEMMA MarkingKeepsFate ==
  ASSUME IInv, FateInv, NEW r \in Requests, Live(r),
         UNCHANGED <<env, lockVars, promise, queued, attached, stack>>,
         \/ req' = [req EXCEPT ![r].timer = FALSE]
         \/ /\ req' = [req EXCEPT ![r].hook = FALSE, ![r].invalid = TRUE]
            /\ r \in heldList /\ env[req[r].owner] # "alive"
  PROVE  FateInv'
<1>1. ReqType(req) /\ req[r] \in Request
  BY InvType DEF ReqType, Live
<1>2. \A q \in Requests : q # r => req'[q] = req[q]
  BY <1>1 DEF ReqType
<1>3. /\ req'[r] # None /\ req'[r].owner = req[r].owner
      /\ r \notin heldList => req'[r].hook = req[r].hook
      /\ req'[r].invalid => req[r].invalid \/ env[req[r].owner] # "alive"
      /\ req[r].invalid => req'[r].invalid
  <2>1. req'[r] # None /\ req'[r].owner = req[r].owner
    BY <1>1, UpdateKeepsObjects DEF ObjectsKept, Live
  <2>2. CASE req' = [req EXCEPT ![r].timer = FALSE]
    BY <1>1, <2>1, <2>2 DEF ReqType, Request
  <2>3. CASE /\ req' = [req EXCEPT ![r].hook = FALSE, ![r].invalid = TRUE]
             /\ r \in heldList /\ env[req[r].owner] # "alive"
    BY <1>1, <2>1, <2>3 DEF ReqType, Request
  <2> QED BY <2>2, <2>3
<1>4. \A q : DoneFor(q)' = DoneFor(q)
  BY DEF DoneFor
<1>5. \A q \in Requests : Fate(q)
  BY DEF FateInv
<1>6. heldList' = heldList /\ pendingList' = pendingList /\ env' = env
  BY DEF lockVars
<1>7. ASSUME NEW q \in Requests, q # r
      PROVE  Fate(q)'
  <2>1. Untouched(q)
    BY <1>2, <1>4, <1>6, <1>7 DEF Untouched, IsPending
  <2> QED BY <1>5, <1>6, <2>1, UntouchedKeepsFate
<1>8. Fate(r)'
  <2>1. /\ IsPending(r)' <=> IsPending(r)
        /\ Live(r)' /\ DoneFor(r)' = DoneFor(r) /\ heldList' = heldList
        /\ promise' = promise /\ queued' = queued /\ attached' = attached
    BY <1>3, <1>4, <1>6 DEF IsPending, Live
  <2>2. env'[req'[r].owner] = env[req[r].owner]
    BY <1>3, <1>6
  <2>3. Fate(r)
    BY <1>5
  <2>4. Live(r)' /\ req'[r].invalid => env'[req'[r].owner] # "alive"
    BY <1>3, <2>2, <2>3 DEF Fate
  <2>5. Live(r)' /\ r \notin heldList' => /\ IsPending(r)' \/ "enqueue" \in DoneFor(r)'
                                         /\ req'[r].hook /\ promise'[r] = "open"
    BY <1>3, <2>1, <2>3 DEF Fate
  <2>6. /\ "complete" \in DoneFor(r)' => promise'[r] = "settled" \/ req'[r].invalid
        /\ Live(r)' /\ env'[req'[r].owner] = "dead" => r \in heldList' /\ r \notin queued'
    BY <1>3, <2>1, <2>2, <2>3 DEF Fate
  <2> QED BY <2>1, <2>3, <2>4, <2>5, <2>6 DEF Fate
<1>9. DeadIdle'
  BY DEF FateInv, DeadIdle
<1> QED BY <1>7, <1>8, <1>9 DEF FateInv

(* The timer of a request fires. *)
LEMMA TimeoutCallbackKeepsFate ==
  ASSUME IInv, FateInv, NEW r \in Requests, TimeoutCallback(r)
  PROVE  FateInv'
<1>1. Live(r) /\ ReqType(req) /\ PromiseType
  BY InvType DEF TimeoutCallback
<1>2. PICK t \in Threads : t = req[r].owner
  BY <1>1 DEF ReqType, Live, Request
<1>3. /\ stack[t] = <<>> /\ env[t] # "dead" /\ env' = env /\ UNCHANGED <<queued, attached>>
  BY <1>2 DEF TimeoutCallback, Idle
<1>4. CASE /\ RemovePending(r) /\ Settle(r) /\ req' = [req EXCEPT ![r] = None]
           /\ stack' = [stack EXCEPT ![t] = <<Process>>]
  <2>1. \A q \in Requests \ {r} : promise'[q] = promise[q]
    BY <1>1, <1>4 DEF Settle, PromiseType
  <2> QED BY <1>3, <1>4, <2>1, RemovePendingKeepsFate
<1>5. CASE /\ req' = [req EXCEPT ![r].timer = FALSE]
           /\ UNCHANGED <<lockVars, promise, stack>>
  BY <1>1, <1>3, <1>5, MarkingKeepsFate
<1> QED BY <1>2, <1>4, <1>5 DEF TimeoutCallback

(* A cleanup hook: the request is removed from the queue, or it has been   *)
(* granted, since its thread is not about to queue it.                     *)
LEMMA EnvCleanupKeepsFate ==
  ASSUME IInv, FateInv, NEW r \in Requests, EnvCleanup(r)
  PROVE  FateInv'
<1>1. Live(r) /\ ReqType(req)
  BY InvType DEF EnvCleanup
<1>2. PICK t \in Threads : t = req[r].owner
  BY <1>1 DEF ReqType, Live, Request
<1>3. /\ stack[t] = <<>> /\ env[t] = "closing" /\ env' = env /\ promise' = promise
      /\ UNCHANGED <<queued, attached>>
  BY <1>2 DEF EnvCleanup, Idle
<1>4. CASE /\ RemovePending(r) /\ req' = [req EXCEPT ![r] = None]
           /\ stack' = [stack EXCEPT ![t] = <<Process>>]
  BY <1>3, <1>4, RemovePendingKeepsFate
<1>5. CASE /\ ~IsPending(r)
           /\ req' = [req EXCEPT ![r].hook = FALSE, ![r].invalid = TRUE]
           /\ UNCHANGED <<lockVars, stack>>
  <2>1. "enqueue" \notin DoneFor(r)
    BY <1>2, <1>3, Doers DEF Top
  <2>2. r \in heldList
    BY <1>1, <1>5, <2>1 DEF FateInv, Fate
  <2> QED BY <1>1, <1>2, <1>3, <1>5, <2>2, MarkingKeepsFate
<1> QED BY <1>2, <1>4, <1>5 DEF EnvCleanup

(* An engine goes away only when its hooks have run and its queued works   *)
(* are completed.                                                          *)
LEMMA EngineStepsKeepFate ==
  ASSUME IInv, FateInv, NEW t \in Threads, DestroyEngine(t) \/ EngineDestroyed(t)
  PROVE  FateInv'
<1>1. /\ stack[t] = <<>> /\ EnvType /\ env[t] # "dead"
      /\ \A q \in Requests : Fate(q)
  BY InvType DEF DestroyEngine, EngineDestroyed, Idle, FateInv
<1>2. /\ UNCHANGED <<req, promise, queued, attached, stack>>
      /\ heldList' = heldList /\ pendingList' = pendingList
  BY DEF DestroyEngine, EngineDestroyed, lockVars
<1>3. \A u \in Threads \ {t} : env'[u] = env[u]
  BY <1>1 DEF DestroyEngine, EngineDestroyed, EnvType
<1>4. env'[t] # "alive"
  BY <1>1 DEF DestroyEngine, EngineDestroyed, EnvType
<1>5. ASSUME NEW q \in Requests, Live(q)
      PROVE  req[q].owner \in Threads
  BY <1>5, InvType DEF ReqType, Live, Request
<1>6. ASSUME NEW q \in Requests, Live(q), req[q].owner = t, env'[t] = "dead"
      PROVE  q \in heldList /\ q \notin queued
  <2>1. EngineDestroyed(t)
    BY <1>1, <1>6 DEF DestroyEngine, EnvType
  <2>2. ~req[q].hook /\ q \notin queued
    BY <1>6, <2>1 DEF EngineDestroyed
  <2> QED BY <1>1, <1>6, <2>2 DEF Fate
<1>7. ASSUME NEW q \in Requests
      PROVE  Fate(q)'
  <2>1. DoneFor(q)' = DoneFor(q) /\ (IsPending(q)' <=> IsPending(q)) /\ (Live(q)' <=> Live(q))
    BY <1>2 DEF DoneFor, IsPending, Live
  <2>2. Fate(q)
    BY <1>1
  <2>3. CASE ~Live(q)
    BY <1>2, <2>1, <2>2, <2>3 DEF Fate
  <2>4. CASE Live(q) /\ req[q].owner = t
    BY <1>2, <1>4, <1>6, <2>1, <2>2, <2>4 DEF Fate
  <2>5. CASE Live(q) /\ req[q].owner # t
    <3>1. env'[req[q].owner] = env[req[q].owner]
      BY <1>3, <1>5, <2>5
    <3> QED BY <1>2, <2>1, <2>2, <2>5, <3>1 DEF Fate
  <2> QED BY <2>3, <2>4, <2>5
<1>8. DeadIdle'
  BY <1>1, <1>2, <1>3 DEF FateInv, DeadIdle
<1> QED BY <1>7, <1>8 DEF FateInv

(* The client makes a request. *)
LEMMA LockAsyncKeepsFate ==
  ASSUME IInv, FateInv, NEW t \in Threads, NEW r \in Requests, NEW mode \in Modes,
         NEW options \in SUBSET (Uses \ {"nested"}), LockAsync(t, r, mode, options)
  PROVE  FateInv'
<1> DEFINE object == [owner |-> t, mode |-> mode, timer |-> "timeout" \in options,
                      signal |-> "signal" \in options, hook |-> TRUE, invalid |-> FALSE]
<1>1. /\ ReqType(req) /\ StackType /\ PromiseType
      /\ LockOK(req, pendingList, heldList, lockStatus)
  BY InvType
<1>2. /\ ~Live(r) /\ req' = [req EXCEPT ![r] = object]
      /\ promise' = [promise EXCEPT ![r] = "open"]
      /\ stack' = [stack EXCEPT ![t] = <<Enqueue(r)>> \o stack[t]]
      /\ env' = env /\ queued' = queued /\ attached' = attached /\ UNCHANGED lockVars
      /\ heldList' = heldList
  BY DEF LockAsync, lockVars
<1>3. object.owner = t /\ object.hook /\ ~object.invalid
  OBVIOUS
<1> HIDE DEF object
<1>4. req'[r] = object /\ \A q \in Requests : q # r => req'[q] = req[q]
  BY <1>1, <1>2 DEF ReqType
<1>5. promise'[r] = "open" /\ \A q \in Requests : q # r => promise'[q] = promise[q]
  BY <1>1, <1>2 DEF PromiseType
<1>6. r \notin heldList /\ r \notin queued /\ r \notin attached
  BY <1>1, <1>2 DEF LockOK, Live, IInv, OneCarrier
<1>7. env[t] # "dead"
  BY DEF LockAsync, MayCallLockAsync
<1>8. Enqueue(r) \in Frame /\ Enqueue(r).op = "enqueue" /\ Enqueue(r).req = r
  BY DEF Enqueue, Frame
<1>9. PICK fs \in Seq(Frame) :
        fs = <<Enqueue(r)>> /\ (\A i \in DOMAIN fs : i = 1) /\ fs[1] = Enqueue(r)
  BY <1>8, OneFrame
<1>10. PICK k \in {0, 1} : k = 0
  OBVIOUS
<1>11. StackStep(t, k, fs) /\ k # 1
  BY <1>2, <1>9, <1>10 DEF StackStep, Rest
<1>12. DoneFor(r)' = {"enqueue"}
  <2>1. DoneFor(r) = {}
    BY <1>2, NobodyDoes
  <2>2. Pushed(fs, r) = {"enqueue"}
    <3>1. "enqueue" \in RequestOps
      BY DEF RequestOps
    <3> QED BY <1>8, <1>9, <3>1, PushedOps
  <2> QED BY <1>1, <1>11, <2>1, <2>2, DoneAfter
<1>13. Fate(r)'
  <2>1. env'[req'[r].owner] # "dead" /\ req'[r].hook /\ ~req'[r].invalid
    BY <1>2, <1>3, <1>4, <1>7
  <2> QED BY <1>2, <1>5, <1>6, <1>12, <2>1 DEF Fate, Live
<1>14. OthersKept(r)
  BY <1>2, <1>4, <1>5 DEF OthersKept
<1>15. \A i \in DOMAIN fs : fs[i].req = r
  BY <1>8, <1>9
<1> QED BY <1>2, <1>7, <1>11, <1>13, <1>14, <1>15, OneRequestKeepsFate

----------------------------------------------------------------------------
(* The invariant. *)

(* At the start there is no request. *)
LEMMA InitFate == Init => FateInv
<1> SUFFICES ASSUME Init PROVE FateInv
  OBVIOUS
<1>1. \A t \in Threads : env[t] = "alive" /\ DOMAIN stack[t] = {}
  <2>1. \A i \in DOMAIN <<>> : FALSE
    BY NoFrame
  <2> QED BY <2>1 DEF Init
<1>2. \A r : DoneFor(r) = {}
  BY <1>1 DEF DoneFor
<1>3. \A r \in Requests : ~Live(r) /\ r \notin heldList /\ r \notin queued /\ r \notin attached
  BY DEF Init, Live
<1>4. \A r \in Requests : Fate(r)
  BY <1>2, <1>3 DEF Fate
<1> QED BY <1>1, <1>4 DEF FateInv, DeadIdle

(* Every action preserves the fate of every request. *)
LEMMA NextFate == IInv /\ FateInv /\ [Next]_vars => FateInv'
<1> SUFFICES ASSUME IInv, FateInv, [Next]_vars PROVE FateInv'
  OBVIOUS
<1>1. CASE \E t \in Threads : Step(t)
  <2>1. PICK t \in Threads : Step(t)
    BY <1>1
  <2>2. ASSUME NEW r \in Requests, Completion(t, r)
        PROVE  FateInv'
    <3>1. "complete" \in CarrierOps
      BY DEF CarrierOps
    <3> QED BY <2>2, <3>1, CompletionKeepsFate DEF Completion
  <2>3. ASSUME NEW r \in Requests,
               \/ PushBack(t, r) \/ CallCallbackAsync(t, r) \/ CallCallback(t, r)
               \/ CallbackReturns(t, r) \/ CallbackReturnsPromise(t, r)
        PROVE  FateInv'
    BY <2>3, PushBackKeepsFate, CallCallbackAsyncKeepsFate, CallbackStepsKeepFate
  <2>4. ASSUME NEW sync \in Requests \cup {None},
               NextInBatch(t, sync) \/ ProcessPendingLockRequest(t)
        PROVE  FateInv'
    BY <2>4, ServingStepsKeepFate
  <2> QED BY <2>1, <2>2, <2>3, <2>4 DEF Step
<1>2. CASE \E t \in Threads : DestroyEngine(t) \/ EngineDestroyed(t)
  BY <1>2, EngineStepsKeepFate
<1>3. CASE \E t \in Threads, r \in Requests, mode \in Modes,
            options \in SUBSET (Uses \ {"nested"}) : LockAsync(t, r, mode, options)
  BY <1>3, LockAsyncKeepsFate
<1>4. CASE \E r \in Requests : \/ AsyncAfterWorkCallback(r) \/ FinallyCallback(r)
                               \/ TimeoutCallback(r) \/ EnvCleanup(r)
  BY <1>4, AsyncAfterWorkCallbackKeepsFate, FinallyCallbackKeepsFate,
     TimeoutCallbackKeepsFate, EnvCleanupKeepsFate
<1>5. CASE UNCHANGED vars
  BY <1>5 DEF vars, lockVars, FateInv, DeadIdle, Fate, DoneFor, Live, IsPending
<1> QED BY <1>1, <1>2, <1>3, <1>4, <1>5 DEF Next

(* Every request has its fate in every state the lock can be in. *)
THEOREM EveryRequestHasItsFate == Spec => []FateInv
  BY InitFate, NextFate, InductiveInvariant, PTL DEF Spec

----------------------------------------------------------------------------
(* The theorems. *)

(* The frames that CompletedOnce counts. *)
LEMMA CarrierFrames ==
  ASSUME NEW r
  PROVE  \A c : c \in Carriers(r) <=>
           \E t \in Threads : \E i \in DOMAIN stack[t] :
             Carries(t, i) /\ stack[t][i].req = r /\ c = <<t, i>>
  BY DEF Carriers, Carries, CarrierOps

(* A request that holds the lock is completed exactly once: it is carried  *)
(* by one frame, or by its work, or by its promise (async_lock.cpp,        *)
(* CleanUpLockRequestOnCompletion, logs a fatal error otherwise).          *)
THEOREM RequestsAreCompletedOnce == Spec => []CompletedOnce
<1>1. ASSUME IInv, FateInv, NEW r \in Requests
      PROVE  Cardinality(Carriers(r)) + (IF r \in queued THEN 1 ELSE 0)
                                      + (IF r \in attached THEN 1 ELSE 0)
             = IF r \in heldList THEN 1 ELSE 0
  <2>1. Fate(r) /\ OneCarrier
    BY <1>1 DEF FateInv, IInv
  <2>2. Carriers(r) # {} => r \in heldList /\ r \notin queued /\ r \notin attached
    BY <2>1, CarrierFrames DEF OneCarrier
  <2>3. CASE Carriers(r) = {}
    <3>1. Cardinality(Carriers(r)) = 0
      BY <2>3, FS_EmptySet
    <3>2. DoneFor(r) \cap CarrierOps = {}
      <4>1. ASSUME NEW op \in DoneFor(r) \cap CarrierOps
            PROVE  FALSE
        <5>1. PICK t \in Threads : \E i \in DOMAIN stack[t] :
                                     stack[t][i].op = op /\ stack[t][i].req = r
          BY <4>1 DEF DoneFor
        <5>2. PICK i \in DOMAIN stack[t] : stack[t][i].op = op /\ stack[t][i].req = r
          BY <5>1
        <5>3. <<t, i>> \in Carriers(r)
          BY <5>2, CarrierFrames DEF Carries
        <5> QED BY <2>3, <5>3
      <4> QED BY <4>1
    <3>3. r \in heldList <=> r \in queued \/ r \in attached
      BY <2>1, <3>2 DEF Fate, OneCarrier
    <3>4. ~(r \in queued /\ r \in attached)
      BY <2>1 DEF OneCarrier
    <3> QED BY <3>1, <3>3, <3>4
  <2>4. CASE Carriers(r) # {}
    <3>1. PICK c : c \in Carriers(r)
      BY <2>4
    <3>2. \A d \in Carriers(r) : d = c
      BY <2>1, <3>1, CarrierFrames DEF OneCarrier
    <3>3. Carriers(r) = {c}
      BY <3>1, <3>2
    <3>4. Cardinality(Carriers(r)) = 1
      BY <3>3, FS_Singleton
    <3> QED BY <2>2, <2>4, <3>4
  <2> QED BY <2>3, <2>4
<1>2. IInv /\ FateInv => CompletedOnce
  BY <1>1 DEF CompletedOnce
<1> QED BY <1>2, InductiveInvariant, EveryRequestHasItsFate, PTL

(* An engine that is gone has left no request in the queue, and none whose *)
(* work would never run: what is left of it is completed by a promise, or  *)
(* by the thread that is handing it over (lock_request.cpp, EnvCleanup).   *)
THEOREM DeadEnginesLeaveNoRequest == Spec => []NoRequestOfDeadEngine
<1>1. ASSUME IInv, FateInv, NEW r \in Requests, Live(r), env[req[r].owner] = "dead"
      PROVE  /\ ~IsPending(r)
             /\ r \in attached \/ \E t \in Threads : \E f \in Frames(t) : f.req = r
  <2>1. Fate(r)
    BY <1>1 DEF FateInv
  <2>2. r \in heldList /\ r \notin queued
    BY <1>1, <2>1 DEF Fate
  <2>3. ~IsPending(r)
    BY <1>1, <2>2, InvType DEF LockOK, IsPending
  <2>4. r \in attached \/ DoneFor(r) # {}
    BY <2>1, <2>2 DEF Fate
  <2> QED BY <2>3, <2>4 DEF DoneFor, Frames
<1>2. IInv /\ FateInv => NoRequestOfDeadEngine
  BY <1>1 DEF NoRequestOfDeadEngine
<1> QED BY <1>2, InductiveInvariant, EveryRequestHasItsFate, PTL

NothingDropped ==
  \A r \in Requests : Live(r) /\ env[req[r].owner] = "alive" /\ ~Live(r)'
    => promise'[r] = "settled"

(* A step that deletes one request, with its promise settled or its engine *)
(* no longer alive, drops none.                                            *)
LEMMA OneDeletedNoneDropped ==
  ASSUME IInv, NEW r \in Requests, req' = [req EXCEPT ![r] = None],
         env[req[r].owner] = "alive" => promise'[r] = "settled"
  PROVE  NothingDropped
<1>1. \A q \in Requests : q # r => req'[q] = req[q]
  BY InvType DEF ReqType
<1> QED BY <1>1 DEF NothingDropped, Live

(* A step that keeps every object drops none. *)
LEMMA KeptObjectsAreNotDropped == ObjectsKept => NothingDropped
  BY DEF ObjectsKept, NothingDropped

(* Only completion, timeout and cleanup delete a request, and the first    *)
(* two find its promise settled or settle it.                              *)
LEMMA NextDropsNothing == IInv /\ FateInv /\ [Next]_vars => NothingDropped
<1> SUFFICES ASSUME IInv, FateInv, [Next]_vars PROVE NothingDropped
  OBVIOUS
<1>1. ReqType(req) /\ PromiseType /\ \A r \in Requests : Fate(r)
  BY InvType DEF FateInv
<1>2. req' = req => NothingDropped
  BY DEF NothingDropped, Live
<1>3. ASSUME NEW t \in Threads, NEW r \in Requests, Completion(t, r)
      PROVE  NothingDropped
  <2>1. /\ Top(t, "complete", r) /\ req' = [req EXCEPT ![r] = None] /\ promise' = promise
    BY <1>3 DEF Completion, CleanUpOnCompletion
  <2>2. "complete" \in DoneFor(r) /\ Live(r)
    <3>1. "complete" \in RequestOps /\ "complete" \in CarrierOps
      BY DEF RequestOps, CarrierOps
    <3> QED BY <2>1, <3>1, TopIsOnlyFrame, TopCarrier
  <2>3. env[req[r].owner] = "alive" => promise[r] = "settled"
    BY <1>1, <2>2 DEF Fate
  <2> QED BY <2>1, <2>3, OneDeletedNoneDropped
<1>4. ASSUME NEW t \in Threads, NEW r \in Requests, CallCallbackAsync(t, r)
      PROVE  NothingDropped
  <2>1. \/ req' = req
        \/ env[req[r].owner] = "dead" /\ req' = [req EXCEPT ![r] = None]
    BY <1>4 DEF CallCallbackAsync, CleanUpOnCompletion
  <2> QED BY <1>2, <2>1, OneDeletedNoneDropped
<1>5. ASSUME NEW t \in Threads, NEW r \in Requests,
             CallCallback(t, r) \/ CallbackReturns(t, r)
      PROVE  NothingDropped
  <2>1. PICK op \in CarrierOps : Top(t, op, r)
    BY <1>5 DEF CallCallback, CallbackReturns, CarrierOps
  <2>2. Live(r)
    BY <2>1, TopCarrier
  <2>3. \/ req' = [req EXCEPT ![r].timer = FALSE]
        \/ req' = [req EXCEPT ![r].hook = FALSE]
        \/ req' = [req EXCEPT ![r].hook = FALSE, ![r].timer = FALSE]
    BY <1>5 DEF CallCallback, CallbackReturns, Release
  <2> QED BY <1>1, <2>2, <2>3, UpdateKeepsObjects, KeptObjectsAreNotDropped
<1>6. ASSUME NEW t \in Threads, NEW r \in Requests,
             PushBack(t, r) \/ CallbackReturnsPromise(t, r)
      PROVE  NothingDropped
  BY <1>2, <1>6 DEF PushBack, CallbackReturnsPromise
<1>7. ASSUME NEW t \in Threads, NEW sync \in Requests \cup {None},
             \/ NextInBatch(t, sync) \/ ProcessPendingLockRequest(t)
             \/ DestroyEngine(t) \/ EngineDestroyed(t)
      PROVE  NothingDropped
  BY <1>2, <1>7
     DEF NextInBatch, ProcessPendingLockRequest, DestroyEngine, EngineDestroyed
<1>8. ASSUME NEW t \in Threads, NEW r \in Requests, NEW mode \in Modes,
             NEW options \in SUBSET (Uses \ {"nested"}), LockAsync(t, r, mode, options)
      PROVE  NothingDropped
  <2>1. ~Live(r) /\ \A q \in Requests : q # r => req'[q] = req[q]
    BY <1>1, <1>8 DEF LockAsync, ReqType
  <2> QED BY <2>1 DEF NothingDropped, Live
<1>9. ASSUME NEW r \in Requests, AsyncAfterWorkCallback(r)
      PROVE  NothingDropped
  <2>1. Live(r) /\ (req' = req \/ req' = [req EXCEPT ![r].timer = FALSE])
    BY <1>9, WaitingCarrier DEF AsyncAfterWorkCallback, Release
  <2> QED BY <1>1, <1>2, <2>1, UpdateKeepsObjects, KeptObjectsAreNotDropped
<1>10. ASSUME NEW r \in Requests, FinallyCallback(r)
       PROVE  NothingDropped
  <2>1. r \in attached /\ req' = [req EXCEPT ![r] = None] /\ promise' = promise
    BY <1>10 DEF FinallyCallback, CleanUpOnCompletion
  <2> QED BY <1>1, <2>1, OneDeletedNoneDropped DEF Fate
<1>11. ASSUME NEW r \in Requests, TimeoutCallback(r)
       PROVE  NothingDropped
  <2>1. CASE RemovePending(r) /\ Settle(r) /\ req' = [req EXCEPT ![r] = None]
    <3>1. r \notin heldList /\ Live(r)
      BY <1>11, <2>1, InvType DEF RemovePending, TimeoutCallback, LockOK, IsPending
    <3>2. promise[r] = "open"
      BY <1>1, <3>1 DEF Fate
    <3>3. promise'[r] = "settled"
      BY <1>1, <2>1, <3>2 DEF Settle, PromiseType
    <3> QED BY <2>1, <3>3, OneDeletedNoneDropped
  <2>2. CASE Live(r) /\ req' = [req EXCEPT ![r].timer = FALSE]
    BY <1>1, <2>2, UpdateKeepsObjects, KeptObjectsAreNotDropped
  <2> QED BY <1>11, <2>1, <2>2 DEF TimeoutCallback
<1>12. ASSUME NEW r \in Requests, EnvCleanup(r)
       PROVE  NothingDropped
  <2>1. env[req[r].owner] = "closing" /\ Live(r)
    BY <1>12 DEF EnvCleanup
  <2>2. \/ req' = [req EXCEPT ![r] = None]
        \/ req' = [req EXCEPT ![r].hook = FALSE, ![r].invalid = TRUE]
    BY <1>12 DEF EnvCleanup
  <2> QED BY <1>1, <2>1, <2>2, OneDeletedNoneDropped, UpdateKeepsObjects,
             KeptObjectsAreNotDropped
<1>13. CASE UNCHANGED vars
  BY <1>2, <1>13 DEF vars
<1> QED BY <1>3, <1>4, <1>5, <1>6, <1>7, <1>8, <1>9, <1>10, <1>11, <1>12, <1>13 DEF Next, Step

(* No request of a live engine disappears with its promise still open,     *)
(* whether its time ran out, its callback ended or its signal was aborted. *)
THEOREM NoRequestIsDropped == Spec => NoSilentDrop
<1>1. IInv /\ FateInv /\ [Next]_vars =>
        [\A r \in Requests : Live(r) /\ env[req[r].owner] = "alive" /\ ~Live(r)'
           => promise'[r] = "settled"]_vars
  BY NextDropsNothing DEF NothingDropped
<1> QED BY <1>1, InductiveInvariant, EveryRequestHasItsFate, PTL DEF Spec, NoSilentDrop

----------------------------------------------------------------------------
(* Where the callbacks run. *)

(* A frame that calls a callback is on the thread that made the request,   *)
(* or above the loop whose sync request has the same address.              *)
CallOps == {"call", "callback"}
InPlace(t, i) ==
  stack[t][i].op \in CallOps =>
    \/ req[stack[t][i].req].owner = t
    \/ \E j \in DOMAIN stack[t] :
         j = i + 1 /\ stack[t][j].op = "batch" /\ stack[t][j].req = stack[t][i].req
InPlaceOK == \A t \in Threads : \A i \in DOMAIN stack[t] : InPlace(t, i)

(* The requests carried by the frames that stay keep their owners. *)
OwnersKept(t, k) ==
  \A u \in Threads : \A j \in DOMAIN stack[u] : Carries(u, j) /\ (u = t => j > k) =>
    req'[stack[u][j].req].owner = req[stack[u][j].req].owner

(* What a step may push: a call of the thread's own, one above its loop,   *)
(* or one that goes on where the frame it replaces was.                    *)
Placed(t, k, fs, i) ==
  \/ req'[fs[i].req].owner = t
  \/ \E j \in DOMAIN fs : j = i + 1 /\ fs[j].op = "batch" /\ fs[j].req = fs[i].req
  \/ /\ i = Len(fs) /\ k = 1 /\ stack[t][1].op \in CallOps /\ stack[t][1].req = fs[i].req
     /\ req'[fs[i].req].owner = req[fs[i].req].owner

(* Such a step keeps every call in its place.                              *)
LEMMA StepKeepsInPlaceOK ==
  ASSUME StackType, InPlaceOK, NEW t \in Threads, NEW k, NEW fs, StackStep(t, k, fs),
         OwnersKept(t, k), \A i \in DOMAIN fs : fs[i].op \in CallOps => Placed(t, k, fs, i)
  PROVE  InPlaceOK'
<1> DEFINE After(u, i) ==
             \/ req'[stack'[u][i].req].owner = u
             \/ \E j \in DOMAIN stack'[u] :
                  j = i + 1 /\ stack'[u][j].op = "batch" /\ stack'[u][j].req = stack'[u][i].req
<1>1. \A u \in Threads : \A j \in DOMAIN stack[u] : stack[u][j].op \in CallOps => Carries(u, j)
  BY DEF CallOps, Carries, CarrierOps
<1>2. /\ \A i \in DOMAIN fs : i \in DOMAIN stack'[t] /\ stack'[t][i] = fs[i]
      /\ \A j \in DOMAIN stack[t] : j > k =>
           j + Len(fs) - k \in DOMAIN stack'[t] /\ stack'[t][j + Len(fs) - k] = stack[t][j]
  BY StackStepPositions
<1>3. /\ \A u \in Threads : u # t => stack'[u] = stack[u]
      /\ \A i \in DOMAIN stack'[t] :
           \/ i \in DOMAIN fs /\ stack'[t][i] = fs[i]
           \/ \E j \in DOMAIN stack[t] :
                j > k /\ i = j + Len(fs) - k /\ stack'[t][i] = stack[t][j]
  BY StackStepFrames
<1>4. /\ Len(fs) \in Nat /\ k \in {0, 1} /\ DOMAIN stack[t] \subseteq Nat
      /\ k = 1 => 1 \in DOMAIN stack[t]
  BY LenProperties, Popping DEF StackStep, StackType
<1>5. ASSUME NEW u \in Threads, u # t, NEW i \in DOMAIN stack'[u], stack'[u][i].op \in CallOps
      PROVE  After(u, i)
  <2>1. stack'[u] = stack[u]
    BY <1>3, <1>5
  <2>2. InPlace(u, i) /\ Carries(u, i)
    BY <1>1, <1>5, <2>1 DEF InPlaceOK
  <2>3. req'[stack[u][i].req].owner = req[stack[u][i].req].owner
    BY <1>5, <2>1, <2>2 DEF OwnersKept
  <2> QED BY <1>5, <2>1, <2>2, <2>3 DEF InPlace
<1>6. ASSUME NEW j \in DOMAIN stack[t], j > k, stack[t][j].op \in CallOps
      PROVE  After(t, j + Len(fs) - k)
  <2>1. InPlace(t, j) /\ Carries(t, j)
    BY <1>1, <1>6 DEF InPlaceOK
  <2>2. req'[stack[t][j].req].owner = req[stack[t][j].req].owner
    BY <1>6, <2>1 DEF OwnersKept
  <2>3. CASE req[stack[t][j].req].owner = t
    BY <1>2, <1>6, <2>2, <2>3
  <2>4. CASE \E l \in DOMAIN stack[t] :
               l = j + 1 /\ stack[t][l].op = "batch" /\ stack[t][l].req = stack[t][j].req
    <3>1. PICK l \in DOMAIN stack[t] :
            l = j + 1 /\ stack[t][l].op = "batch" /\ stack[t][l].req = stack[t][j].req
      BY <2>4
    <3>2. l > k /\ l + Len(fs) - k = (j + Len(fs) - k) + 1
      BY <1>4, <1>6, <3>1
    <3> QED BY <1>2, <1>6, <3>1, <3>2
  <2> QED BY <1>6, <2>1, <2>3, <2>4 DEF InPlace
<1>7. ASSUME NEW i \in DOMAIN fs, fs[i].op \in CallOps
      PROVE  After(t, i)
  <2>1. CASE req'[fs[i].req].owner = t
    BY <1>2, <2>1
  <2>2. CASE \E j \in DOMAIN fs : j = i + 1 /\ fs[j].op = "batch" /\ fs[j].req = fs[i].req
    BY <1>2, <2>2
  <2>3. CASE /\ i = Len(fs) /\ k = 1 /\ stack[t][1].op \in CallOps /\ stack[t][1].req = fs[i].req
             /\ req'[fs[i].req].owner = req[fs[i].req].owner
    <3>1. InPlace(t, 1)
      BY <1>4, <2>3 DEF InPlaceOK
    <3>2. CASE req[stack[t][1].req].owner = t
      BY <2>1, <2>3, <3>2
    <3>3. CASE \E l \in DOMAIN stack[t] :
                 l = 1 + 1 /\ stack[t][l].op = "batch" /\ stack[t][l].req = stack[t][1].req
      <4>1. PICK l \in DOMAIN stack[t] :
              l = 2 /\ stack[t][l].op = "batch" /\ stack[t][l].req = fs[i].req
        BY <2>3, <3>3
      <4>2. l > k /\ l + Len(fs) - k = i + 1
        BY <1>4, <2>3, <4>1
      <4> QED BY <1>2, <4>1, <4>2
    <3> QED BY <2>3, <3>1, <3>2, <3>3 DEF InPlace
  <2> QED BY <1>7, <2>1, <2>2, <2>3 DEF Placed
<1>8. ASSUME NEW i \in DOMAIN stack'[t], stack'[t][i].op \in CallOps
      PROVE  After(t, i)
  <2> HIDE DEF After
  <2> QED BY <1>3, <1>6, <1>7, <1>8
<1> HIDE DEF After
<1>9. \A u \in Threads : \A i \in DOMAIN stack'[u] : stack'[u][i].op \in CallOps => After(u, i)
  BY <1>5, <1>8
<1> QED BY <1>9 DEF InPlaceOK, InPlace, After

(* Serving the queue calls in place only above the loop. *)
LEMMA ServingKeepsInPlaceOK ==
  ASSUME IInv, InPlaceOK, NEW t \in Threads, NEW k \in {0, 1}, k = 1 => stack[t] # <<>>,
         NEW pend, NEW held, Served(t, pend, held, Rest(t, k)), OwnersKept(t, k)
  PROVE  InPlaceOK'
<1>1. PICK granted \in SUBSET Requests, fs \in Seq(Frame) :
        /\ Granting(fs, granted)
        /\ stack' = [stack EXCEPT ![t] = fs \o Rest(t, k)]
  BY DEF Served
<1>2. StackStep(t, k, fs) /\ StackType
  BY <1>1, InvType DEF StackStep
<1>3. ASSUME NEW i \in DOMAIN fs, fs[i].op \in CallOps
      PROVE  Placed(t, k, fs, i)
  <2>1. fs[i].op = "call"
    BY <1>1, <1>3 DEF Granting, CallOps
  <2> QED BY <1>1, <2>1 DEF Granting, Placed
<1> QED BY <1>2, <1>3, StepKeepsInPlaceOK

(* So do the steps that push one frame, or none. *)
LEMMA PushingKeepsInPlaceOK ==
  ASSUME IInv, InPlaceOK, NEW t \in Threads, NEW k \in {0, 1}, k = 1 => stack[t] # <<>>,
         OwnersKept(t, k), NEW f \in Frame,
         \/ stack' = [stack EXCEPT ![t] = <<>> \o Rest(t, k)]
         \/ /\ stack' = [stack EXCEPT ![t] = <<f>> \o Rest(t, k)]
            /\ f.op \in CallOps =>
                 \/ req'[f.req].owner = t
                 \/ /\ k = 1 /\ stack[t][1].op \in CallOps /\ stack[t][1].req = f.req
                    /\ req'[f.req].owner = req[f.req].owner
  PROVE  InPlaceOK'
<1>1. /\ <<>> \in Seq(Frame) /\ \A i \in DOMAIN <<>> : FALSE
      /\ <<f>> \in Seq(Frame) /\ (\A i \in DOMAIN <<f>> : i = 1) /\ <<f>>[1] = f
      /\ Len(<<f>>) = 1
  BY NoFrame, OneFrame
<1>2. PICK fs \in Seq(Frame) :
        /\ stack' = [stack EXCEPT ![t] = fs \o Rest(t, k)]
        /\ \A i \in DOMAIN fs : fs[i].op \in CallOps =>
             /\ i = Len(fs)
             /\ \/ req'[fs[i].req].owner = t
                \/ /\ k = 1 /\ stack[t][1].op \in CallOps /\ stack[t][1].req = fs[i].req
                   /\ req'[fs[i].req].owner = req[fs[i].req].owner
  <2>1. CASE stack' = [stack EXCEPT ![t] = <<>> \o Rest(t, k)]
    BY <1>1, <2>1
  <2>2. CASE /\ stack' = [stack EXCEPT ![t] = <<f>> \o Rest(t, k)]
             /\ f.op \in CallOps =>
                  \/ req'[f.req].owner = t
                  \/ /\ k = 1 /\ stack[t][1].op \in CallOps /\ stack[t][1].req = f.req
                     /\ req'[f.req].owner = req[f.req].owner
    BY <1>1, <2>2
  <2> QED BY <2>1, <2>2
<1>3. StackStep(t, k, fs) /\ StackType
  BY <1>2, InvType DEF StackStep
<1>4. \A i \in DOMAIN fs : fs[i].op \in CallOps => Placed(t, k, fs, i)
  BY <1>2 DEF Placed
<1> QED BY <1>3, <1>4, StepKeepsInPlaceOK

(* A step that deletes no request, or only the one whose frame it takes    *)
(* off, keeps the owners that matter.                                      *)
LEMMA OwnersAreKept ==
  ASSUME IInv, NEW t \in Threads, NEW k
  PROVE  /\ (\A q \in Requests : Live(q) => req'[q].owner = req[q].owner) => OwnersKept(t, k)
         /\ \A r \in Requests :
              /\ \A q \in Requests \ {r} : req'[q] = req[q]
              /\ \A u \in Threads : \A j \in DOMAIN stack[u] :
                   Carries(u, j) /\ stack[u][j].req = r => u = t /\ j = 1 /\ k = 1
              => OwnersKept(t, k)
<1>1. \A u \in Threads : \A j \in DOMAIN stack[u] : Carries(u, j) =>
        stack[u][j].req \in Requests /\ Live(stack[u][j].req)
  BY InvType DEF IInv, OneCarrier, LockOK, Live
<1>2. (\A q \in Requests : Live(q) => req'[q].owner = req[q].owner) => OwnersKept(t, k)
  BY <1>1 DEF OwnersKept
<1>3. ASSUME NEW r \in Requests, \A q \in Requests \ {r} : req'[q] = req[q],
             \A u \in Threads : \A j \in DOMAIN stack[u] :
               Carries(u, j) /\ stack[u][j].req = r => u = t /\ j = 1 /\ k = 1
      PROVE  OwnersKept(t, k)
  <2>1. ASSUME NEW u \in Threads, NEW j \in DOMAIN stack[u], Carries(u, j), u = t => j > k
        PROVE  req'[stack[u][j].req].owner = req[stack[u][j].req].owner
    <3>1. stack[u][j].req # r
      BY <1>3, <2>1
    <3> QED BY <1>1, <1>3, <2>1, <3>1
  <2> QED BY <2>1 DEF OwnersKept
<1> QED BY <1>2, <1>3

(* A step that changes no stack. *)
LEMMA SameStacksKeepInPlaceOK ==
  ASSUME IInv, InPlaceOK, stack' = stack,
         \A q \in Requests : Live(q) => req'[q].owner = req[q].owner
  PROVE  InPlaceOK'
<1>1. \A u \in Threads : \A j \in DOMAIN stack[u] : stack[u][j].op \in CallOps =>
        stack[u][j].req \in Requests /\ Live(stack[u][j].req)
  BY InvType DEF IInv, OneCarrier, LockOK, Live, Carries, CarrierOps, CallOps
<1> QED BY <1>1 DEF InPlaceOK, InPlace

(* A request is completed and the queue served. *)
LEMMA CleanUpKeepsInPlaceOK ==
  ASSUME IInv, InPlaceOK, NEW t \in Threads, NEW k \in {0, 1}, k = 1 => stack[t] # <<>>,
         NEW r, CleanUpOnCompletion(t, r, Rest(t, k)),
         \A u \in Threads : \A i \in DOMAIN stack[u] :
           Carries(u, i) /\ stack[u][i].req = r => u = t /\ i = 1 /\ k = 1
  PROVE  InPlaceOK'
<1>1. /\ r \in Requests /\ req' = [req EXCEPT ![r] = None]
      /\ Served(t, pendingList, heldList \ {r}, Rest(t, k))
  BY CleanUpServes
<1>2. \A q \in Requests \ {r} : req'[q] = req[q]
  BY <1>1, InvType DEF ReqType
<1>3. OwnersKept(t, k)
  BY <1>1, <1>2, OwnersAreKept
<1> QED BY <1>1, <1>3, ServingKeepsInPlaceOK

(* The steps of a thread that is in the middle of something. *)
LEMMA FrameStepsKeepInPlaceOK ==
  ASSUME IInv, InPlaceOK, NEW t \in Threads, Step(t)
  PROVE  InPlaceOK'
<1>1. PICK k \in {0, 1} : k = 1
  OBVIOUS
<1>2. /\ StackType /\ ReqType(req) /\ Rest(t, k) = Below(t)
      /\ req' = req => OwnersKept(t, k)
  BY <1>1, InvType, OwnersAreKept DEF Rest
<1>3. ASSUME NEW op \in CarrierOps, NEW r, Top(t, op, r), CleanUpOnCompletion(t, r, Below(t))
      PROVE  InPlaceOK'
  BY <1>1, <1>2, <1>3, TopCarrier, CleanUpKeepsInPlaceOK
<1>4. ASSUME NEW pend, stack[t] # <<>>, req' = req, Served(t, pend, heldList, Rest(t, 1))
      PROVE  InPlaceOK'
  BY <1>1, <1>2, <1>4, ServingKeepsInPlaceOK
<1>5. ASSUME NEW r \in Requests, PushBack(t, r)
      PROVE  InPlaceOK'
  <2>1. /\ stack[t] # <<>> /\ req' = req
        /\ Served(t, Append(pendingList, r), heldList, Rest(t, 1))
    BY <1>5, PushBackServes DEF PushBack
  <2> QED BY <1>4, <2>1
<1>6. ASSUME NEW sync \in Requests \cup {None},
             NextInBatch(t, sync) \/ ProcessPendingLockRequest(t)
      PROVE  InPlaceOK'
  <2>1. /\ stack[t] # <<>> /\ req' = req
        /\ Served(t, pendingList, heldList, Rest(t, 1))
    BY <1>6, NextInBatchServes, ProcessPendingLockRequestServes
       DEF NextInBatch, ProcessPendingLockRequest
  <2> QED BY <1>4, <2>1
<1>7. ASSUME NEW r \in Requests, Completion(t, r)
      PROVE  InPlaceOK'
  BY <1>3, <1>7 DEF Completion, CarrierOps
<1>8. ASSUME NEW r \in Requests, NEW op \in CarrierOps, Top(t, op, r), Replace(t, <<>>),
             req' = req
      PROVE  InPlaceOK'
  <2>1. stack[t] # <<>> /\ Callback(r) \in Frame
    BY <1>8, TopCarrier, RequestFrames
  <2>2. stack' = [stack EXCEPT ![t] = <<>> \o Rest(t, k)]
    BY <1>2, <1>8 DEF Replace
  <2> QED BY <1>1, <1>2, <1>8, <2>1, <2>2, PushingKeepsInPlaceOK
<1>9. ASSUME NEW r \in Requests, NEW op \in CallOps, Top(t, op, r),
             \/ Replace(t, <<Complete(r)>>)
             \/ Replace(t, <<Callback(r)>>),
             \/ req' = [req EXCEPT ![r].timer = FALSE]
             \/ req' = [req EXCEPT ![r].hook = FALSE]
             \/ req' = [req EXCEPT ![r].hook = FALSE, ![r].timer = FALSE]
      PROVE  InPlaceOK'
  <2>1. op \in CarrierOps
    BY DEF CallOps, CarrierOps
  <2>2. /\ stack[t] # <<>> /\ Live(r) /\ stack[t][1].op \in CallOps /\ stack[t][1].req = r
    BY <1>2, <1>9, <2>1, TopCarrier, TopFrame
  <2>3. ObjectsKept
    BY <1>2, <1>9, <2>2, UpdateKeepsObjects
  <2>4. OwnersKept(t, k) /\ req'[r].owner = req[r].owner
    BY <2>2, <2>3, OwnersAreKept DEF ObjectsKept
  <2>5. PICK f \in Frame : f.req = r /\ Replace(t, <<f>>)
    BY <1>9, RequestFrames
  <2>6. stack' = [stack EXCEPT ![t] = <<f>> \o Rest(t, k)]
    BY <1>2, <2>5 DEF Replace
  <2> QED BY <1>1, <2>2, <2>4, <2>5, <2>6, PushingKeepsInPlaceOK
<1>10. ASSUME NEW r \in Requests, CallCallbackAsync(t, r)
       PROVE  InPlaceOK'
  <2>1. Top(t, "deliver", r) /\ "deliver" \in CarrierOps
    BY <1>10 DEF CallCallbackAsync, CarrierOps
  <2>2. (Replace(t, <<>>) /\ req' = req) \/ CleanUpOnCompletion(t, r, Below(t))
    BY <1>10 DEF CallCallbackAsync
  <2> QED BY <1>3, <1>8, <2>1, <2>2
<1>11. ASSUME NEW r \in Requests, CallCallback(t, r) \/ CallbackReturns(t, r)
       PROVE  InPlaceOK'
  <2>1. PICK op \in CallOps : Top(t, op, r)
    BY <1>11 DEF CallCallback, CallbackReturns, CallOps
  <2>2. /\ Replace(t, <<Complete(r)>>) \/ Replace(t, <<Callback(r)>>)
        /\ \/ req' = [req EXCEPT ![r].timer = FALSE]
           \/ req' = [req EXCEPT ![r].hook = FALSE]
           \/ req' = [req EXCEPT ![r].hook = FALSE, ![r].timer = FALSE]
    BY <1>11 DEF CallCallback, CallbackReturns, Release
  <2> QED BY <1>9, <2>1, <2>2
<1>12. ASSUME NEW r \in Requests, CallbackReturnsPromise(t, r)
       PROVE  InPlaceOK'
  <2>1. /\ Top(t, "callback", r) /\ "callback" \in CarrierOps
        /\ Replace(t, <<>>) /\ req' = req
    BY <1>12 DEF CallbackReturnsPromise, CarrierOps
  <2> QED BY <1>8, <2>1
<1> QED BY <1>5, <1>6, <1>7, <1>10, <1>11, <1>12 DEF Step

(* A posted callback begins on the thread it was posted to. *)
LEMMA AsyncAfterWorkKeepsInPlaceOK ==
  ASSUME IInv, InPlaceOK, NEW r \in Requests, AsyncAfterWorkCallback(r)
  PROVE  InPlaceOK'
<1>1. PICK k \in {0, 1} : k = 0
  OBVIOUS
<1>2. /\ StackType /\ ReqType(req) /\ k # 1
      /\ \A t : Rest(t, k) = stack[t]
      /\ \A f \in Frame : <<f>> \in Seq(Frame) /\ <<f>> \o <<>> = <<f>>
  BY <1>1, InvType, OneFrame, ConcatEmptySeq DEF Rest
<1>3. PICK t \in Threads : t = req[r].owner
  BY WaitingCarrier DEF AsyncAfterWorkCallback
<1>4. Live(r) /\ stack[t] = <<>>
  BY <1>3, WaitingCarrier DEF AsyncAfterWorkCallback, Idle
<1>5. ObjectsKept
  <2>1. req' = req \/ req' = [req EXCEPT ![r].timer = FALSE]
    BY <1>4 DEF AsyncAfterWorkCallback, Release
  <2> QED BY <1>2, <1>4, <2>1, UpdateKeepsObjects DEF ObjectsKept, Live
<1>6. OwnersKept(t, k) /\ req'[r].owner = t
  BY <1>3, <1>4, <1>5, OwnersAreKept DEF ObjectsKept
<1>7. PICK f \in Frame : f.req = r /\ stack' = [stack EXCEPT ![t] = <<f>>]
  BY <1>3, RequestFrames DEF AsyncAfterWorkCallback
<1>8. stack' = [stack EXCEPT ![t] = <<f>> \o Rest(t, k)]
  BY <1>2, <1>4, <1>7
<1>9. f.op \in CallOps => req'[f.req].owner = t
  BY <1>6, <1>7
<1>10. /\ k = 1 => stack[t] # <<>>
       /\ f.op \in CallOps =>
            \/ req'[f.req].owner = t
            \/ /\ k = 1 /\ stack[t][1].op \in CallOps /\ stack[t][1].req = f.req
               /\ req'[f.req].owner = req[f.req].owner
  BY <1>2, <1>9
<1>11. OwnersKept(t, k)
  BY <1>6
<1> QED BY <1>8, <1>10, <1>11, PushingKeepsInPlaceOK, Zenon

(* The steps that a thread begins when it is idle, or from a callback. *)
LEMMA OtherStepsKeepInPlaceOK ==
  ASSUME IInv, InPlaceOK, NEW r \in Requests,
         \/ \E t \in Threads, mode \in Modes, options \in SUBSET (Uses \ {"nested"}) :
              LockAsync(t, r, mode, options)
         \/ AsyncAfterWorkCallback(r) \/ FinallyCallback(r)
         \/ TimeoutCallback(r) \/ EnvCleanup(r)
  PROVE  InPlaceOK'
<1>1. PICK k \in {0, 1} : k = 0
  OBVIOUS
<1>2. /\ StackType /\ ReqType(req) /\ k # 1
      /\ \A t : Rest(t, k) = stack[t]
      /\ \A f \in Frame : <<f>> \in Seq(Frame) /\ <<f>> \o <<>> = <<f>>
  BY <1>1, InvType, OneFrame, ConcatEmptySeq DEF Rest
<1>3. ASSUME NEW t \in Threads, NEW mode \in Modes, NEW options \in SUBSET (Uses \ {"nested"}),
             LockAsync(t, r, mode, options)
      PROVE  InPlaceOK'
  <2>1. /\ ~Live(r) /\ stack' = [stack EXCEPT ![t] = <<Enqueue(r)>> \o Rest(t, k)]
        /\ \A q \in Requests \ {r} : req'[q] = req[q]
    BY <1>2, <1>3 DEF LockAsync, ReqType
  <2>2. OwnersKept(t, k)
    BY <2>1, OwnersAreKept
  <2>3. Enqueue(r) \in Frame /\ Enqueue(r).op \notin CallOps
    BY DEF Enqueue, Frame, CallOps
  <2> QED BY <1>2, <2>1, <2>2, <2>3, PushingKeepsInPlaceOK
<1>4. CASE AsyncAfterWorkCallback(r)
  BY <1>4, AsyncAfterWorkKeepsInPlaceOK
<1>5. CASE FinallyCallback(r)
  <2>1. PICK t \in Threads : t = req[r].owner
    BY <1>5, WaitingCarrier DEF FinallyCallback
  <2>2. /\ CleanUpOnCompletion(t, r, Rest(t, k)) /\ k # 1
        /\ \A u \in Threads : \A i \in DOMAIN stack[u] : ~(Carries(u, i) /\ stack[u][i].req = r)
    BY <1>1, <1>2, <1>5, <2>1, WaitingCarrier DEF FinallyCallback, Idle
  <2> QED BY <2>2, CleanUpKeepsInPlaceOK
<1>6. CASE TimeoutCallback(r) \/ EnvCleanup(r)
  <2>1. Live(r)
    BY <1>6 DEF TimeoutCallback, EnvCleanup
  <2>2. PICK t \in Threads : t = req[r].owner
    BY <1>2, <2>1 DEF ReqType, Live, Request
  <2>3. CASE /\ stack[t] = <<>> /\ RemovePending(r) /\ req' = [req EXCEPT ![r] = None]
             /\ stack' = [stack EXCEPT ![t] = <<Process>>]
    <3>1. r \notin heldList
      BY <2>3, InvType DEF RemovePending, IsPending, LockOK
    <3>2. \A u \in Threads : \A i \in DOMAIN stack[u] : ~(Carries(u, i) /\ stack[u][i].req = r)
      BY <3>1 DEF IInv, OneCarrier
    <3>3. \A q \in Requests \ {r} : req'[q] = req[q]
      BY <1>2, <2>3 DEF ReqType
    <3>4. OwnersKept(t, k)
      BY <3>2, <3>3, OwnersAreKept
    <3>5. Process \in Frame /\ Process.op \notin CallOps
      BY DEF Process, Frame, CallOps
    <3>6. stack' = [stack EXCEPT ![t] = <<Process>> \o Rest(t, k)]
      BY <1>2, <2>3, <3>5
    <3> QED BY <1>2, <3>4, <3>5, <3>6, PushingKeepsInPlaceOK
  <2>4. CASE /\ stack' = stack
             /\ \/ req' = [req EXCEPT ![r].timer = FALSE]
                \/ req' = [req EXCEPT ![r].hook = FALSE, ![r].invalid = TRUE]
    <3>1. ObjectsKept
      BY <1>2, <2>1, <2>4, UpdateKeepsObjects
    <3> QED BY <2>4, <3>1, SameStacksKeepInPlaceOK DEF ObjectsKept
  <2> QED BY <1>6, <2>2, <2>3, <2>4 DEF TimeoutCallback, EnvCleanup, Idle
<1> QED BY <1>3, <1>4, <1>5, <1>6

(* Every action calls callbacks in place. *)
LEMMA NextInPlace == IInv /\ InPlaceOK /\ [Next]_vars => InPlaceOK'
<1> SUFFICES ASSUME IInv, InPlaceOK, [Next]_vars PROVE InPlaceOK'
  OBVIOUS
<1>1. CASE \E t \in Threads : DestroyEngine(t) \/ EngineDestroyed(t)
  BY <1>1, SameStacksKeepInPlaceOK DEF DestroyEngine, EngineDestroyed
<1>2. CASE UNCHANGED vars
  BY <1>2, SameStacksKeepInPlaceOK DEF vars
<1> QED BY <1>1, <1>2, FrameStepsKeepInPlaceOK, OtherStepsKeepInPlaceOK DEF Next

(* A callback runs on the thread that made its request, or in place on a   *)
(* thread whose own request had the address (async_lock.cpp,               *)
(* ProcessLockRequest, compares the pointers).                             *)
THEOREM CallbacksRunInPlace == Spec => []CallbackOnOwnThread
<1>1. Init => InPlaceOK
  <2>1. \A i \in DOMAIN <<>> : FALSE
    BY NoFrame
  <2> QED BY <2>1 DEF Init, InPlaceOK
<1>2. ASSUME IInv, InPlaceOK, NEW t \in Threads, NEW r \in Requests, Callback(r) \in Frames(t)
      PROVE  req[r].owner = t \/ Batch(r) \in Frames(t)
  <2>1. PICK i \in DOMAIN stack[t] : stack[t][i] = Callback(r)
    BY <1>2 DEF Frames
  <2>2. InPlace(t, i) /\ stack[t][i].op \in CallOps /\ stack[t][i].req = r
    BY <1>2, <2>1 DEF InPlaceOK, Callback, CallOps
  <2>3. ASSUME NEW j \in DOMAIN stack[t], stack[t][j].op = "batch", stack[t][j].req = r
        PROVE  Batch(r) \in Frames(t)
    <3>1. stack[t][j] \in Frame
      BY <1>2, InvType, ElementOfSeq, LenProperties DEF StackType
    <3>2. stack[t][j] = Batch(r)
      BY <2>3, <3>1 DEF Frame, Batch
    <3> QED BY <3>2 DEF Frames
  <2> QED BY <2>2, <2>3 DEF InPlace
<1>3. IInv /\ InPlaceOK => CallbackOnOwnThread
  BY <1>2 DEF CallbackOnOwnThread
<1> QED BY <1>1, <1>3, NextInPlace, InductiveInvariant, PTL DEF Spec
=============================================================================
