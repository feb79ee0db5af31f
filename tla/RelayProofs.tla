---------------------------- MODULE RelayProofs ----------------------------
(***************************************************************************)
(* For any connections: the queues hold usable waiters only, and the relay *)
(* implements the rendezvous it promises, the pool and its clients         *)
(* included.                                                               *)
(***************************************************************************)
EXTENDS RelayPool, SequenceTheorems, FiniteSetTheorems, TLAPS

\* Taking one element out of a sequence keeps the others, in order.
LEMMA RemovalKeepsOthers ==
  ASSUME NEW S, NEW s \in Seq(S), NEW n \in DOMAIN s
  PROVE  /\ RemoveAt(s, n) \in Seq(S)
         /\ DOMAIN RemoveAt(s, n) = 1 .. (Len(s) - 1)
         /\ \A k \in 1 .. (Len(s) - 1) :
              RemoveAt(s, n)[k] = IF k < n THEN s[k] ELSE s[k + 1]
<1> DEFINE front == SubSeq(s, 1, n - 1)
           back == SubSeq(s, n + 1, Len(s))
<1>1. n \in 1 .. Len(s) /\ Len(s) \in Nat
  BY LenProperties
<1>2. /\ front \in Seq(S) /\ Len(front) = n - 1
      /\ \A k \in 1 .. (n - 1) : front[k] = s[k]
  BY <1>1, SubSeqProperties
<1>3. /\ back \in Seq(S) /\ Len(back) = Len(s) - n
      /\ \A k \in 1 .. (Len(s) - n) : back[k] = s[n + k]
  BY <1>1, SubSeqProperties
<1>4. RemoveAt(s, n) = front \o back
  BY DEF RemoveAt
<1> HIDE DEF front, back
<1>5. /\ front \o back \in Seq(S)
      /\ Len(front \o back) = Len(s) - 1
      /\ \A k \in 1 .. (Len(s) - 1) : (front \o back)[k] =
           IF k <= n - 1 THEN front[k] ELSE back[k - (n - 1)]
  <2>1. /\ front \o back \in Seq(S)
        /\ Len(front \o back) = Len(front) + Len(back)
        /\ \A k \in 1 .. (Len(front) + Len(back)) : (front \o back)[k] =
             IF k <= Len(front) THEN front[k] ELSE back[k - Len(front)]
    BY <1>2, <1>3, ConcatProperties
  <2>2. Len(front) = n - 1 /\ Len(front) + Len(back) = Len(s) - 1
    BY <1>1, <1>2, <1>3
  <2> QED
    BY <2>1, <2>2
<1>6. ASSUME NEW k \in 1 .. (Len(s) - 1)
      PROVE  (front \o back)[k] = IF k < n THEN s[k] ELSE s[k + 1]
  <2>1. CASE k < n
    BY <1>1, <1>2, <1>5, <2>1
  <2>2. CASE ~(k < n)
    <3>1. k - (n - 1) \in 1 .. (Len(s) - n) /\ n + (k - (n - 1)) = k + 1
      BY <1>1, <2>2
    <3>2. back[k - (n - 1)] = s[k + 1]
      BY <1>3, <3>1
    <3> QED
      BY <1>1, <1>5, <2>2, <3>2
  <2> QED
    BY <2>1, <2>2
<1> QED
  BY <1>1, <1>4, <1>5, <1>6, LenProperties

\* Initially nobody is queued.
LEMMA InitRelayInv == Init => RelayInv
BY RelayAssumption DEF Init, RelayInv, TypeOK, QueueIsFresh, MatesMatchPlace,
   Side, SideOf, Queued

\* The steps that leave the queues alone keep the invariant.
LEMMA OutsideTheHub ==
  ASSUME RelayInv, NEW c \in Conn,
         \/ Accept(c) \/ ReadPreamble(c) \/ BadPreamble(c) \/ Claimed(c)
         \/ Expire(c)
  PROVE  RelayInv'
<1> USE RelayAssumption DEF RelayInv, TypeOK, QueueIsFresh, MatesMatchPlace, Side,
        SideOf, Goto, Queued
<1>0. CASE Accept(c)
  BY <1>0 DEF Accept, Over
<1>1. CASE ReadPreamble(c)
  BY <1>1 DEF ReadPreamble
<1>2. CASE BadPreamble(c)
  BY <1>2 DEF BadPreamble
<1>3. CASE Claimed(c)
  BY <1>3 DEF Claimed
<1>4. CASE Expire(c)
  BY <1>4 DEF Expire
<1> QED
  BY <1>0, <1>1, <1>2, <1>3, <1>4

\* Both ends of a splice close, and neither was queued.
LEMMA SpliceEndsKeeps ==
  ASSUME RelayInv, NEW c \in Conn, SpliceEnds(c)
  PROVE  RelayInv'
BY RelayAssumption DEF SpliceEnds, RelayInv, TypeOK, QueueIsFresh, MatesMatchPlace,
   Side, SideOf, Goto, Queued

\* Claiming the oldest waiter keeps the invariant: the waiter leaves its queue as
\* it gets its mate.
LEMMA TryPairKeeps ==
  ASSUME RelayInv, NEW c \in Conn, TryPair(c)
  PROVE  RelayInv'
<1> DEFINE opp == OppositeSide(SideOf(c))
           waiters == queue[opp]
           h == Head(waiters)
<1> USE RelayAssumption DEF RelayInv, TypeOK, MatesMatchPlace, Goto
<1>1. opp \in Side /\ SideOf(c) \in Side /\ opp # SideOf(c) /\ waiters \in Seq(Conn)
  BY DEF Side, SideOf, OppositeSide
<1>2. CASE waiters = <<>>
  <2>1. /\ at' = [at EXCEPT ![c] = "missed"] /\ at[c] = "arrived"
        /\ queue' = queue /\ mate' = mate /\ open' = open
    BY <1>2 DEF TryPair
  <2> HIDE DEF opp, waiters, h
  <2>2. TypeOK'
    BY <2>1
  <2>3. \A d \in Conn : at'[d] = at[d] \/ (d = c /\ at'[d] = "missed" /\ at[d] = "arrived")
    BY <2>1
  <2>4. QueueIsFresh'
    <3>1. \A side \in Side : \A n \in DOMAIN queue[side] :
            queue[side][n] \in Conn /\ at[queue[side][n]] # "arrived"
      BY DEF QueueIsFresh
    <3> QED
      BY <2>1, <2>3, <3>1 DEF QueueIsFresh
  <2>5. MatesMatchPlace'
    <3>1. \A side : Queued(side)' = Queued(side)
      BY <2>1 DEF Queued
    <3> QED
      BY <2>1, <2>3, <3>1
  <2> QED
    BY <2>2, <2>4, <2>5
<1>3. CASE waiters # <<>>
  <2>1. /\ at' = [at EXCEPT ![c] = "splicing"]
        /\ mate' = [mate EXCEPT ![c] = h, ![h] = c]
        /\ queue' = [queue EXCEPT ![opp] = Tail(waiters)]
        /\ open' = open /\ at[c] = "arrived"
    BY <1>3 DEF TryPair
  <2>2. /\ h \in Conn /\ Tail(waiters) \in Seq(Conn) /\ h = waiters[1]
        /\ 1 \in DOMAIN waiters /\ Len(Tail(waiters)) = Len(waiters) - 1
        /\ \A n \in DOMAIN Tail(waiters) :
             n + 1 \in DOMAIN waiters /\ Tail(waiters)[n] = waiters[n + 1] /\ n + 1 # 1
        /\ \A n \in DOMAIN Tail(waiters) : n \in Int
    BY <1>1, <1>3, HeadTailProperties, LenProperties
  <2>3. /\ SideOf(h) = opp /\ h \in open /\ mate[h] = NoConn /\ h # c
        /\ at[h] \in {"waiting", "expired"}
    BY <1>1, <2>1, <2>2 DEF QueueIsFresh
  <2> HIDE DEF opp, waiters, h
  <2>4. TypeOK'
    BY <1>1, <2>1, <2>2
  <2>5. MatesMatchPlace'
    <3>1. \A d \in Conn : d # h /\ d \in Queued(SideOf(d)) => d \in Queued(SideOf(d))'
      <4> SUFFICES ASSUME NEW d \in Conn, d # h, d \in Queued(SideOf(d))
                   PROVE  d \in Queued(SideOf(d))'
        OBVIOUS
      <4>1. SideOf(d) \in Side
        BY DEF Side, SideOf
      <4>2. PICK n \in DOMAIN queue[SideOf(d)] : queue[SideOf(d)][n] = d
        BY DEF Queued
      <4>3. CASE SideOf(d) = opp
        <5>1. queue[SideOf(d)] = waiters /\ queue'[SideOf(d)] = Tail(waiters)
          BY <1>1, <2>1, <4>3 DEF waiters
        <5>2. n # 1
          BY <2>2, <4>2, <5>1
        <5>3. n - 1 \in DOMAIN Tail(waiters) /\ Tail(waiters)[n - 1] = waiters[n]
          <6>1. DOMAIN waiters = 1 .. Len(waiters) /\ Len(waiters) \in Nat
                /\ DOMAIN Tail(waiters) = 1 .. Len(Tail(waiters))
            BY <1>1, <2>2, LenProperties
          <6>2. n \in 1 .. Len(waiters)
            BY <4>2, <5>1, <6>1
          <6>3. n - 1 \in 1 .. Len(Tail(waiters)) /\ (n - 1) + 1 = n
            BY <2>2, <5>2, <6>1, <6>2
          <6> QED
            BY <2>2, <6>1, <6>3
        <5> QED
          BY <4>2, <5>1, <5>3 DEF Queued, SideOf
      <4>4. CASE SideOf(d) # opp
        <5>1. queue'[SideOf(d)] = queue[SideOf(d)]
          BY <2>1, <4>1, <4>4
        <5> QED
          BY <4>2, <5>1 DEF Queued, SideOf
      <4> QED
        BY <4>3, <4>4
    <3>2. c \in open /\ mate[c] = NoConn
      BY <2>1
    <3> QED
      BY <1>1, <2>1, <2>2, <2>3, <3>1, <3>2 DEF SideOf
  <2>6. QueueIsFresh'
    <3> SUFFICES ASSUME NEW side \in Side, NEW n \in DOMAIN queue'[side]
                 PROVE  LET d == queue'[side][n]
                        IN  /\ SideOf(d) = side /\ d \in open' /\ mate'[d] = NoConn
                            /\ at'[d] \in {"waiting", "expired"}
                            /\ \A m \in DOMAIN queue'[side] :
                                 queue'[side][m] = d => m = n
      BY DEF QueueIsFresh
    <3>1. CASE side = opp
      <4>1. queue'[side] = Tail(waiters) /\ queue[side] = waiters
        BY <1>1, <2>1, <3>1 DEF waiters
      <4>2. Tail(waiters)[n] = waiters[n + 1] /\ n + 1 \in DOMAIN waiters /\ n + 1 # 1
        BY <2>2, <4>1
      <4>3. \A m \in DOMAIN Tail(waiters) : Tail(waiters)[m] = Tail(waiters)[n] => m = n
        <5> SUFFICES ASSUME NEW m \in DOMAIN Tail(waiters),
                            Tail(waiters)[m] = Tail(waiters)[n]
                     PROVE  m = n
          OBVIOUS
        <5>1. /\ m + 1 \in DOMAIN waiters /\ Tail(waiters)[m] = waiters[m + 1]
              /\ n + 1 \in DOMAIN waiters /\ Tail(waiters)[n] = waiters[n + 1]
              /\ m \in Int /\ n \in Int
          BY <2>2, <4>1
        <5>2. \A j, k \in DOMAIN waiters : waiters[j] = waiters[k] => j = k
          <6> HIDE DEF TypeOK, MatesMatchPlace
          <6> QED
            BY <4>1 DEF QueueIsFresh
        <5> HIDE DEF TypeOK, MatesMatchPlace
        <5>3. m + 1 = n + 1
          BY <5>1, <5>2
        <5> QED
          BY <5>1, <5>3
      <4>4. waiters[n + 1] # h /\ waiters[n + 1] # c /\ waiters[n + 1] \in Conn
        <5>1. waiters[n + 1] # waiters[1]
          BY <2>2, <4>1, <4>2 DEF QueueIsFresh
        <5>2. waiters[n + 1] \in Conn
          BY <1>1, <4>2, ElementOfSeq, LenProperties
        <5>3. at[waiters[n + 1]] # "arrived"
          BY <4>1, <4>2 DEF QueueIsFresh
        <5> QED
          BY <2>1, <2>2, <5>1, <5>2, <5>3
      <4> QED
        BY <2>1, <3>1, <4>1, <4>2, <4>3, <4>4, <2>2 DEF QueueIsFresh
    <3>2. CASE side # opp
      <4>1. queue'[side] = queue[side] /\ queue[side] \in Seq(Conn)
        BY <1>1, <2>1, <3>2
      <4>2. queue[side][n] \in Conn /\ queue[side][n] # h /\ queue[side][n] # c
        BY <2>1, <2>3, <3>2, <4>1 DEF QueueIsFresh
      <4> QED
        BY <2>1, <2>2, <4>1, <4>2 DEF QueueIsFresh
    <3> QED
      BY <3>1, <3>2
  <2> QED
    BY <2>4, <2>5, <2>6
<1> QED
  BY <1>2, <1>3

\* Joining the queue keeps the invariant: who joins was in no queue.
LEMMA EnqueueKeeps ==
  ASSUME RelayInv, NEW c \in Conn, Enqueue(c)
  PROVE  RelayInv'
<1> USE RelayAssumption DEF RelayInv, TypeOK, MatesMatchPlace, Goto
<1> DEFINE mine == SideOf(c)
<1>1. mine \in Side /\ queue[mine] \in Seq(Conn)
  BY DEF Side, SideOf
<1>2. /\ at[c] = "missed" /\ at' = [at EXCEPT ![c] = "waiting"]
      /\ queue' = [queue EXCEPT ![mine] = Append(queue[mine], c)]
      /\ mate' = mate /\ open' = open
  BY DEF Enqueue
<1>3. /\ Append(queue[mine], c) \in Seq(Conn)
      /\ DOMAIN Append(queue[mine], c) = 1 .. (Len(queue[mine]) + 1)
      /\ DOMAIN queue[mine] = 1 .. Len(queue[mine]) /\ Len(queue[mine]) \in Nat
      /\ \A n \in DOMAIN queue[mine] : Append(queue[mine], c)[n] = queue[mine][n]
      /\ Append(queue[mine], c)[Len(queue[mine]) + 1] = c
  BY <1>1, AppendProperties, LenProperties
<1> HIDE DEF mine
<1>4. TypeOK' /\ MatesMatchPlace'
  <2>1. c \in Queued(SideOf(c))'
    <3>1. /\ queue'[mine] = Append(queue[mine], c)
          /\ Len(queue[mine]) + 1 \in DOMAIN Append(queue[mine], c)
      <4>1. Len(queue[mine]) + 1 \in 1 .. (Len(queue[mine]) + 1)
        BY <1>3
      <4>2. queue'[mine] = Append(queue[mine], c)
        BY <1>1, <1>2
      <4> QED
        BY <1>3, <4>1, <4>2, Zenon
    <3> QED
      BY <1>3, <3>1 DEF Queued, SideOf, mine
  <2>2. \A d \in Conn : d \in Queued(SideOf(d)) => d \in Queued(SideOf(d))'
    <3> SUFFICES ASSUME NEW d \in Conn, d \in Queued(SideOf(d))
                 PROVE  d \in Queued(SideOf(d))'
      OBVIOUS
    <3>1. SideOf(d) \in Side
      BY DEF Side, SideOf
    <3>2. PICK n \in DOMAIN queue[SideOf(d)] : queue[SideOf(d)][n] = d
      BY DEF Queued
    <3>3. n \in DOMAIN queue'[SideOf(d)] /\ queue'[SideOf(d)][n] = d
      <4>1. CASE SideOf(d) = mine
        BY <1>1, <1>2, <1>3, <3>2, <4>1
      <4>2. CASE SideOf(d) # mine
        BY <1>1, <1>2, <3>1, <3>2, <4>2
      <4> QED
        BY <4>1, <4>2
    <3> QED
      BY <3>3 DEF Queued, SideOf
  <2>3. TypeOK'
    BY <1>1, <1>2, <1>3
  <2> QED
    BY <1>2, <2>1, <2>2, <2>3 DEF SideOf
<1>5. QueueIsFresh'
  <2>1. \A side \in Side : \A n \in DOMAIN queue[side] : queue[side][n] # c
    BY <1>2 DEF QueueIsFresh
  <2>2. c \in open /\ mate[c] = NoConn
    BY <1>2
  <2> SUFFICES ASSUME NEW side \in Side, NEW n \in DOMAIN queue'[side]
               PROVE  LET d == queue'[side][n]
                      IN  /\ SideOf(d) = side /\ d \in open' /\ mate'[d] = NoConn
                          /\ at'[d] \in {"waiting", "expired"}
                          /\ \A m \in DOMAIN queue'[side] :
                               queue'[side][m] = d => m = n
    BY DEF QueueIsFresh
  <2>3. CASE side = mine
    <3>1. queue'[side] = Append(queue[mine], c)
      BY <1>1, <1>2, <2>3
    <3>2. CASE n = Len(queue[mine]) + 1
      BY <1>2, <1>3, <2>1, <2>2, <2>3, <3>1, <3>2 DEF mine, QueueIsFresh
    <3>3. CASE n \in DOMAIN queue[mine]
      <4>1. queue'[side][n] = queue[side][n] /\ queue[side][n] # c
            /\ queue[side][n] \in Conn
        BY <1>1, <1>3, <2>1, <2>3, <3>1, <3>3
      <4>2. ASSUME NEW m \in DOMAIN queue'[side], queue'[side][m] = queue[side][n]
            PROVE  m = n
        BY <1>3, <2>3, <3>1, <3>3, <4>1, <4>2 DEF QueueIsFresh
      <4> QED
        BY <1>2, <2>3, <3>3, <4>1, <4>2 DEF QueueIsFresh
    <3> QED
      BY <1>3, <3>1, <3>2, <3>3
  <2>4. CASE side # mine
    <3>1. queue'[side] = queue[side]
      BY <1>1, <1>2, <2>4
    <3> QED
      BY <1>2, <2>1, <3>1 DEF QueueIsFresh
  <2> QED
    BY <2>3, <2>4
<1> QED
  BY <1>4, <1>5

\* A waiter that gives up leaves its queue, unless somebody claimed it first.
LEMMA TimeOutKeeps ==
  ASSUME RelayInv, NEW c \in Conn, TimeOut(c)
  PROVE  RelayInv'
<1> USE RelayAssumption DEF RelayInv, TypeOK, MatesMatchPlace, Goto
<1> DEFINE mine == SideOf(c)
<1>1. mine \in Side /\ queue[mine] \in Seq(Conn)
  BY DEF Side, SideOf
<1>2. /\ at[c] = "expired" /\ at' = [at EXCEPT ![c] = "done"]
      /\ mate' = mate /\ open' = open \ {c}
  BY DEF TimeOut
<1>3. CASE c \notin Queued(mine) /\ queue' = queue
  <2>1. \A side \in Side : \A n \in DOMAIN queue[side] : queue[side][n] # c
    BY <1>3 DEF QueueIsFresh, Queued
  <2>2. QueueIsFresh'
    BY <1>2, <1>3, <2>1 DEF QueueIsFresh
  <2>3. Queued(SideOf(c)) = Queued(SideOf(c))' /\ ~(c \in open')
    BY <1>2, <1>3 DEF Queued, SideOf
  <2>4. TypeOK' /\ MatesMatchPlace'
    BY <1>2, <1>3 DEF Queued, SideOf
  <2> QED
    BY <2>2, <2>4
<1>4. ASSUME NEW n \in DOMAIN queue[mine], queue[mine][n] = c,
             queue' = [queue EXCEPT ![mine] = RemoveAt(queue[mine], n)]
      PROVE  RelayInv'
  <2> DEFINE rest == RemoveAt(queue[mine], n)
             old(k) == IF k < n THEN k ELSE k + 1
  <2>1. /\ rest \in Seq(Conn)
        /\ \A k \in DOMAIN rest :
             /\ k \in Int /\ old(k) \in DOMAIN queue[mine] /\ old(k) # n
             /\ rest[k] = queue[mine][old(k)]
    <3>1. DOMAIN queue[mine] = 1 .. Len(queue[mine]) /\ Len(queue[mine]) \in Nat
      BY <1>1, LenProperties
    <3>2. /\ rest \in Seq(Conn) /\ DOMAIN rest = 1 .. (Len(queue[mine]) - 1)
          /\ \A k \in 1 .. (Len(queue[mine]) - 1) :
               rest[k] = IF k < n THEN queue[mine][k] ELSE queue[mine][k + 1]
      BY <1>1, <1>4, RemovalKeepsOthers
    <3> HIDE DEF rest, mine
    <3> QED
      BY <1>4, <3>1, <3>2
  <2>2. \A j, k \in Int : old(j) = old(k) => j = k
    BY <1>1, LenProperties
  <2> HIDE DEF rest, old, mine
  <2>3. TypeOK' /\ MatesMatchPlace'
    <3>1. \A d \in Conn : d # c /\ d \in Queued(SideOf(d)) => d \in Queued(SideOf(d))'
      <4> SUFFICES ASSUME NEW d \in Conn, d # c, d \in Queued(SideOf(d))
                   PROVE  d \in Queued(SideOf(d))'
        OBVIOUS
      <4>1. SideOf(d) \in Side
        BY DEF Side, SideOf
      <4>0. PICK k \in DOMAIN queue[SideOf(d)] : queue[SideOf(d)][k] = d
        BY DEF Queued
      <4>2. CASE SideOf(d) = mine
        <5>1. queue'[SideOf(d)] = rest
          BY <1>1, <1>4, <4>2 DEF rest
        <5>2. PICK m \in DOMAIN rest : old(m) = k
          <6>1. /\ DOMAIN rest = 1 .. (Len(queue[mine]) - 1)
                /\ DOMAIN queue[mine] = 1 .. Len(queue[mine]) /\ Len(queue[mine]) \in Nat
            BY <1>1, <1>4, RemovalKeepsOthers, LenProperties DEF rest
          <6>2. k # n /\ k \in 1 .. Len(queue[mine]) /\ n \in 1 .. Len(queue[mine])
            BY <1>4, <4>0, <4>2, <6>1
          <6>3. CASE k < n
            <7>1. k \in DOMAIN rest
              BY <6>1, <6>2, <6>3
            <7> QED
              BY <6>3, <7>1 DEF old
          <6>4. CASE ~(k < n)
            <7>1. k - 1 \in DOMAIN rest /\ ~(k - 1 < n) /\ (k - 1) + 1 = k
              BY <6>1, <6>2, <6>4
            <7> QED
              BY <7>1 DEF old
          <6> QED
            BY <6>3, <6>4
        <5>3. rest[m] = d
          BY <2>1, <4>0, <4>2, <5>2
        <5> QED
          BY <5>1, <5>3 DEF Queued, SideOf
      <4>3. CASE SideOf(d) # mine
        <5>1. queue'[SideOf(d)] = queue[SideOf(d)]
          BY <1>1, <1>4, <4>1, <4>3
        <5> QED
          BY <4>0, <5>1 DEF Queued, SideOf
      <4> QED
        BY <4>2, <4>3
    <3>2. TypeOK'
      BY <1>1, <1>2, <1>4, <2>1 DEF rest
    <3> QED
      BY <1>2, <3>1, <3>2 DEF SideOf
  <2>4. QueueIsFresh'
    <3> SUFFICES ASSUME NEW side \in Side, NEW k \in DOMAIN queue'[side]
                 PROVE  LET d == queue'[side][k]
                        IN  /\ SideOf(d) = side /\ d \in open' /\ mate'[d] = NoConn
                            /\ at'[d] \in {"waiting", "expired"}
                            /\ \A m \in DOMAIN queue'[side] :
                                 queue'[side][m] = d => m = k
      BY DEF QueueIsFresh
    <3>1. CASE side = mine
      <4>1. queue'[side] = rest /\ queue[side] = queue[mine]
        BY <1>1, <1>4, <3>1 DEF rest
      <4>2. rest[k] = queue[side][old(k)] /\ old(k) \in DOMAIN queue[side] /\ old(k) # n
        BY <2>1, <4>1
      <4>3. rest[k] # c
        BY <1>4, <4>1, <4>2 DEF QueueIsFresh
      <4>4. \A m \in DOMAIN rest : rest[m] = rest[k] => m = k
        BY <2>1, <2>2, <4>1, <4>2 DEF QueueIsFresh
      <4> QED
        BY <1>2, <4>1, <4>2, <4>3, <4>4 DEF QueueIsFresh
    <3>2. CASE side # mine
      <4>1. queue'[side] = queue[side]
        BY <1>1, <1>4, <3>2
      <4>2. queue[side][k] # c
        BY <3>2, <4>1 DEF mine, QueueIsFresh
      <4> QED
        BY <1>2, <4>1, <4>2 DEF QueueIsFresh
    <3> QED
      BY <3>1, <3>2
  <2> QED
    BY <2>3, <2>4
<1> QED
  BY <1>3, <1>4 DEF TimeOut

\* Every step keeps the invariant.
LEMMA NextRelayInv == RelayInv /\ [Next]_vars => RelayInv'
<1>1. RelayInv /\ UNCHANGED vars => RelayInv'
  BY DEF vars, RelayInv, TypeOK, QueueIsFresh, MatesMatchPlace, Queued, SideOf
<1>2. ASSUME RelayInv, NEW c \in Conn, Handle(c)
      PROVE  RelayInv'
  BY <1>2, OutsideTheHub, SpliceEndsKeeps, TryPairKeeps, EnqueueKeeps, TimeOutKeeps
     DEF Handle
<1> QED
  BY <1>1, <1>2 DEF Next

\* The queues hold usable waiters only: queued once, on their own side, open,
\* unclaimed and still waiting (tryPair, enqueue and remove).
THEOREM QueueStaysFresh == Spec => []QueueIsFresh
<1>1. RelayInv => QueueIsFresh
  BY DEF RelayInv
<1> QED
  BY InitRelayInv, NextRelayInv, <1>1, PTL DEF Spec

\* No connection is forgotten, and mates are mutual (handle, tryPair): the types
\* of the variables come with it.
THEOREM NobodyForgotten == Spec => [](TypeOK /\ MatesMatchPlace)
<1>1. RelayInv => TypeOK /\ MatesMatchPlace
  BY DEF RelayInv
<1> QED
  BY InitRelayInv, NextRelayInv, <1>1, PTL DEF Spec

\* A step of the relay is a step of the rendezvous or leaves it alone.
LEMMA StepIsRendezvous ==
  ASSUME RelayInv, NEW c \in Conn, Handle(c)
  PROVE  [R!Next]_R!vars
<1> USE RelayAssumption DEF TypeOK, Goto, Phase
<1>0. /\ TypeOK /\ QueueIsFresh
      /\ at[c] \in {"new", "arrived", "missed"} => c \in open /\ mate[c] = NoConn
      /\ at[c] = "splicing" => c \in open /\ mate[c] # NoConn
      /\ mate[c] # NoConn => mate[mate[c]] = c
  BY DEF RelayInv, MatesMatchPlace
<1>1. CASE ReadPreamble(c)
  <2>1. R!Arrive(c)
    BY <1>0, <1>1 DEF ReadPreamble, R!Arrive
  <2> QED
    BY <2>1 DEF R!Next
<1>2. CASE BadPreamble(c)
  <2>1. R!TurnAway(c)
    BY <1>0, <1>2 DEF BadPreamble, R!TurnAway
  <2> QED
    BY <2>1 DEF R!Next
<1>3. CASE TryPair(c)
  <2> DEFINE opp == OppositeSide(SideOf(c))
             h == Head(queue[opp])
  <2>1. CASE queue[opp] = <<>>
    BY <1>0, <1>3, <2>1 DEF TryPair, R!vars
  <2>2. CASE queue[opp] # <<>>
    <3>1. /\ at' = [at EXCEPT ![c] = "splicing"] /\ at[c] = "arrived"
          /\ mate' = [mate EXCEPT ![c] = h, ![h] = c] /\ open' = open
      BY <1>3, <2>2 DEF TryPair
    <3>2. /\ opp \in Side /\ opp # SideOf(c) /\ queue[opp] \in Seq(Conn)
      BY <1>0 DEF Side, SideOf, OppositeSide
    <3>3. /\ h = queue[opp][1] /\ 1 \in DOMAIN queue[opp] /\ h \in Conn
      BY <2>2, <3>2, HeadTailProperties, LenProperties, ElementOfSeq
    <3> HIDE DEF opp, h
    <3>4. /\ SideOf(h) = opp /\ h \in open /\ mate[h] = NoConn
          /\ at[h] \in {"waiting", "expired"} /\ h # c
      BY <1>0, <3>1, <3>2, <3>3 DEF QueueIsFresh
    <3>5. PICK b \in Conn : b = h
      BY <3>3
    <3>6. R!Opposite(c, b)
      BY <3>2, <3>4, <3>5 DEF R!Opposite, SideOf
    <3>7. R!Join(c, b)
      BY <1>0, <3>1, <3>4, <3>5, <3>6 DEF R!Join
    <3> QED
      BY <3>7 DEF R!Next
  <2> QED
    BY <2>1, <2>2
<1>4. CASE Enqueue(c) \/ Claimed(c) \/ Expire(c)
  BY <1>0, <1>4 DEF Enqueue, Claimed, Expire, R!vars
<1>5. CASE TimeOut(c)
  <2>1. /\ at[c] = "expired" /\ at' = [at EXCEPT ![c] = "done"]
        /\ mate' = mate /\ open' = open \ {c}
    BY <1>5 DEF TimeOut
  <2>2. CASE c \notin open
    BY <1>0, <2>1, <2>2 DEF R!vars
  <2>3. CASE c \in open /\ mate[c] = NoConn
    <3>1. R!TurnAway(c)
      BY <1>0, <1>5, <2>1, <2>3 DEF R!TurnAway
    <3> QED
      BY <3>1 DEF R!Next
  <2>4. CASE c \in open /\ mate[c] # NoConn
    <3>1. R!Cut(c)
      BY <1>0, <2>1, <2>4 DEF R!Cut
    <3> QED
      BY <3>1 DEF R!Next
  <2> QED
    BY <2>2, <2>3, <2>4
<1>6. CASE SpliceEnds(c)
  <2>1. PICK b \in Conn : b = mate[c]
    BY <1>0, <1>6 DEF SpliceEnds
  <2>2. R!Part(c, b)
    BY <1>0, <1>6, <2>1 DEF SpliceEnds, R!Part
  <2> QED
    BY <2>2 DEF R!Next
<1>7. CASE Accept(c)
  <2>1. R!Renew(c)
    BY <1>0, <1>7 DEF Accept, Over, R!Renew
  <2> QED
    BY <2>1 DEF R!Next
<1> QED
  BY <1>1, <1>2, <1>3, <1>4, <1>5, <1>6, <1>7 DEF Handle

\* The relay implements the rendezvous: whatever arrivals, claims and pairing
\* timeouts interleave (handle, tryPair, enqueue), a connection is joined at most
\* once, to one of the opposite side.
THEOREM RelayImplements == Spec => ImplementsRendezvous
<1>1. Init => R!Init
  BY RelayAssumption DEF Init, R!Init, Phase
<1>2. RelayInv /\ [Next]_vars => [R!Next]_R!vars
  <2>1. UNCHANGED vars => UNCHANGED R!vars
    BY DEF vars, R!vars, Phase
  <2> QED
    BY <2>1, StepIsRendezvous DEF Next
<1> QED
  BY <1>1, <1>2, InitRelayInv, NextRelayInv, PTL
     DEF Spec, R!Spec, ImplementsRendezvous

\* What the pool and the clients do to the relay are steps of the relay
\* (relayPoolWorker, DialViaRelay, handle): all of the above holds for them.
THEOREM PoolKeepsRelay == PoolSpec => Spec
<1>1. PoolInit => Init
  BY DEF PoolInit
<1>2. ASSUME NEW p \in Party, Dial(p) \/ GiveUp(p) \/ EndSession(p)
      PROVE  [Next]_vars
  <2>1. ASSUME Dial(p) PROVE Next
    <3>1. PICK c \in Conn : Accept(c)
      <4>1. FreeNames(p) # {} /\ FreeNames(p) \subseteq Conn
        BY <2>1 DEF Dial, FreeNames
      <4>2. (CHOOSE c \in FreeNames(p) : TRUE) \in Conn
        BY <4>1
      <4> QED
        BY <2>1, <4>2 DEF Dial
    <3> QED
      BY <3>1 DEF Next, Handle
  <2>2. ASSUME GiveUp(p) \/ EndSession(p) PROVE UNCHANGED vars
    BY <2>2 DEF GiveUp, EndSession, HangUp
  <2> QED
    BY <1>2, <2>1, <2>2
<1>3. ASSUME NEW w \in Worker, NEW k \in Client, Handshake(w, k)
      PROVE  UNCHANGED vars
  BY <1>3 DEF Handshake
<1>4. ASSUME NEW c \in Conn, RelayStep(c) PROVE Next
  <2>1. Handle(c)
    BY <1>4 DEF RelayStep, Handle, Wait, Elapse, EndOfSplice
  <2> QED
    BY <2>1 DEF Next
<1>5. Tick \/ UNCHANGED poolVars => UNCHANGED vars
  BY DEF Tick, poolVars
<1>6. [PoolNext]_poolVars => [Next]_vars
  BY <1>2, <1>3, <1>4, <1>5 DEF PoolNext
<1> QED
  BY <1>1, <1>6, PTL DEF PoolSpec, Spec

-----------------------------------------------------------------------------
(* How much the relay keeps of a party. *)

\* Waiters that a party has left behind and the relay still keeps.
Orphans(p) ==
  {c \in hungUp : Owner[c] = p /\ at[c] = "waiting" /\ mate[c] = NoConn /\ ttl[c] > 0}
Age(c) == PairTTL - ttl[c]

PoolTypeOK ==
  /\ doing \in [Party -> {"off", "dialled", "session", "resting"}]
  /\ conn \in [Party -> Conn \cup {NoConn}]
  /\ left \in [Party -> Nat]
  /\ backoff \in [Party -> Nat] /\ \A p \in Party : backoff[p] >= FirstRest
  /\ hungUp \subseteq open
  /\ ttl \in [Conn -> Nat]

\* What is open was hung up or is what its party uses, and a party that has
\* dialled has been waiting since the instant its connection was queued.
EndsMatch ==
  /\ \A c \in open : c \in hungUp \/ conn[Owner[c]] = c
  /\ \A c \in hungUp : at[c] \notin {"new", "arrived", "missed"}
  /\ \A p \in Party :
       /\ (doing[p] \in {"off", "resting"}) <=> (conn[p] = NoConn)
       /\ conn[p] # NoConn => Owner[conn[p]] = p
       /\ doing[p] = "session" => conn[p] \notin open \/ mate[conn[p]] # NoConn
       /\ doing[p] = "dialled" =>
            /\ left[p] <= Patience
            /\ at[conn[p]] \in {"new", "arrived", "missed"} => left[p] = Patience
            /\ at[conn[p]] = "waiting" => Age(conn[p]) = Patience - left[p]

\* An orphan of p has aged by all that p has waited and rested since.
OrphansAged(p) ==
  /\ doing[p] = "off" => Orphans(p) = {}
  /\ doing[p] = "dialled" =>
       \A c \in Orphans(p) : Age(c) + left[p] >= 2 * Patience + FirstRest
  /\ doing[p] = "session" => \A c \in Orphans(p) : Age(c) >= Patience + FirstRest
  /\ doing[p] = "resting" =>
       /\ \A c \in Orphans(p) : Age(c) + left[p] >= Patience + FirstRest
       /\ \A b, c \in Orphans(p) :
            \/ b = c
            \/ Age(b) + left[p] >= 2 * (Patience + FirstRest)
            \/ Age(c) + left[p] >= 2 * (Patience + FirstRest)

\* It has at most one, and a second one while it rests.
OrphansAreFew(p) ==
  /\ doing[p] # "resting" => \A b, c \in Orphans(p) : b = c
  /\ \A a, b, c \in Orphans(p) : a = b \/ b = c \/ a = c

\* The inductive invariant behind BacklogIsBounded.
PoolInv ==
  /\ RelayInv /\ PoolTypeOK /\ EndsMatch
  /\ \A p \in Party : OrphansAged(p) /\ OrphansAreFew(p)

\* Initially the relay keeps nothing.
LEMMA InitPoolInv == PoolInit => PoolInv
<1> SUFFICES ASSUME PoolInit PROVE PoolInv
  OBVIOUS
<1>1. RelayInv
  BY InitRelayInv DEF PoolInit
<1>2. open = {} /\ hungUp = {}
  BY DEF PoolInit, Init
<1>3. \A p \in Party : Orphans(p) = {}
  BY <1>2 DEF Orphans
<1>4. PoolTypeOK
  BY <1>2, PoolAssumption DEF PoolInit, PoolTypeOK
<1>5. EndsMatch
  BY <1>2 DEF PoolInit, EndsMatch
<1>6. \A p \in Party : OrphansAged(p) /\ OrphansAreFew(p)
  BY <1>3 DEF OrphansAged, OrphansAreFew
<1> QED
  BY <1>1, <1>4, <1>5, <1>6 DEF PoolInv

\* With fewer orphans of the same age, and as long to wait, all is still well.
LEMMA FewerOrphans ==
  ASSUME PoolInv, NEW p \in Party, doing'[p] = doing[p], left'[p] = left[p],
         Orphans(p)' \subseteq Orphans(p), \A c \in Orphans(p)' : ttl'[c] = ttl[c]
  PROVE  OrphansAged(p)' /\ OrphansAreFew(p)'
<1>1. \A c \in Orphans(p)' : c \in Orphans(p) /\ Age(c)' = Age(c)
  BY DEF Age
<1>2. OrphansAged(p) /\ OrphansAreFew(p)
  BY DEF PoolInv
<1>3. OrphansAged(p)'
  BY <1>1, <1>2 DEF OrphansAged
<1>4. OrphansAreFew(p)'
  BY <1>1, <1>2 DEF OrphansAreFew
<1> QED
  BY <1>3, <1>4

\* What a step of the relay does to a connection, as far as its party can tell.
LEMMA RelayStepEffect ==
  ASSUME RelayInv, PoolTypeOK, NEW c \in Conn, RelayStep(c)
  PROVE  /\ open' \subseteq open /\ ttl' \in [Conn -> Nat]
         /\ \A d \in Conn :
              /\ at'[d] \in {"new", "arrived", "missed"} => at[d] \in {"new", "arrived", "missed"}
              /\ at'[d] = "waiting" => \/ at[d] = "waiting" /\ ttl'[d] = ttl[d]
                                       \/ at[d] = "missed" /\ ttl'[d] = PairTTL
              /\ mate'[d] = NoConn => mate[d] = NoConn \/ d \notin open'
<1> USE DEF PoolTypeOK, TypeOK, RelayInv, Goto
<1>1. CASE ReadPreamble(c) /\ UNCHANGED ttl
  BY <1>1 DEF ReadPreamble
<1>2. CASE BadPreamble(c) /\ UNCHANGED ttl
  BY <1>2 DEF BadPreamble
<1>3. CASE TryPair(c) /\ UNCHANGED ttl
  <2> DEFINE waiters == queue[OppositeSide(SideOf(c))]
             h == Head(waiters)
  <2>1. CASE waiters = <<>>
    BY <1>3, <2>1 DEF TryPair
  <2>2. CASE waiters # <<>>
    <3>1. waiters \in Seq(Conn)
      BY DEF OppositeSide, Side
    <3>2. h \in Conn
      BY <2>2, <3>1, HeadTailProperties
    <3>3. /\ at[c] = "arrived" /\ at' = [at EXCEPT ![c] = "splicing"]
          /\ mate' = [mate EXCEPT ![c] = h, ![h] = c] /\ UNCHANGED <<open, ttl>>
      BY <1>3, <2>2 DEF TryPair
    <3> HIDE DEF h
    <3> QED
      BY <3>2, <3>3, PoolAssumption
  <2> QED
    BY <2>1, <2>2
<1>4. CASE Wait(c)
  BY <1>4, PoolAssumption DEF Wait, Enqueue
<1>5. CASE Claimed(c) /\ ttl' = [ttl EXCEPT ![c] = 0]
  BY <1>5 DEF Claimed
<1>6. CASE Elapse(c) /\ UNCHANGED ttl
  BY <1>6 DEF Elapse, Expire
<1>7. CASE TimeOut(c) /\ UNCHANGED ttl
  BY <1>7 DEF TimeOut
<1>8. CASE EndOfSplice(c) /\ UNCHANGED ttl
  BY <1>8 DEF EndOfSplice, SpliceEnds
<1> QED
  BY <1>1, <1>2, <1>3, <1>4, <1>5, <1>6, <1>7, <1>8 DEF RelayStep

\* The relay only ever lets go of what a party left behind.
LEMMA RelayStepKeeps ==
  ASSUME PoolInv, NEW c \in Conn, RelayStep(c)
  PROVE  PoolInv'
<1>1. RelayInv'
  <2>1. Handle(c)
    BY DEF RelayStep, Handle, Wait, Elapse, EndOfSplice
  <2> QED
    BY <2>1, NextRelayInv DEF PoolInv, Next
<1>2. hungUp' = hungUp \cap open' /\ UNCHANGED <<doing, conn, left, backoff>>
  BY DEF RelayStep
<1>3. /\ open' \subseteq open /\ ttl' \in [Conn -> Nat]
      /\ \A d \in Conn :
           /\ at'[d] \in {"new", "arrived", "missed"} => at[d] \in {"new", "arrived", "missed"}
           /\ at'[d] = "waiting" => \/ at[d] = "waiting" /\ ttl'[d] = ttl[d]
                                    \/ at[d] = "missed" /\ ttl'[d] = PairTTL
           /\ mate'[d] = NoConn => mate[d] = NoConn \/ d \notin open'
  BY RelayStepEffect DEF PoolInv
<1>4. PoolTypeOK /\ EndsMatch /\ open \subseteq Conn
  BY DEF PoolInv, RelayInv, TypeOK
<1>5. PoolTypeOK'
  BY <1>2, <1>3, <1>4 DEF PoolTypeOK
<1>6. EndsMatch'
  <2>1. \A d \in open' : d \in hungUp' \/ conn'[Owner[d]] = d
    BY <1>2, <1>3, <1>4 DEF EndsMatch
  <2>2. \A d \in hungUp' : at'[d] \notin {"new", "arrived", "missed"}
    BY <1>2, <1>3, <1>4 DEF EndsMatch, PoolTypeOK
  <2>3. ASSUME NEW p \in Party
        PROVE  /\ (doing'[p] \in {"off", "resting"}) <=> (conn'[p] = NoConn)
               /\ conn'[p] # NoConn => Owner[conn'[p]] = p
               /\ doing'[p] = "session" => conn'[p] \notin open' \/ mate'[conn'[p]] # NoConn
    BY <1>2, <1>3, <1>4 DEF EndsMatch, PoolTypeOK
  <2>4. ASSUME NEW p \in Party, doing'[p] = "dialled"
        PROVE  /\ left'[p] <= Patience
               /\ at'[conn'[p]] \in {"new", "arrived", "missed"} => left'[p] = Patience
               /\ at'[conn'[p]] = "waiting" => Age(conn[p])' = Patience - left'[p]
    <3>1. conn[p] \in Conn /\ doing[p] = "dialled" /\ left[p] \in Nat
      BY <1>2, <1>4, <2>4 DEF EndsMatch, PoolTypeOK
    <3>2. CASE at'[conn[p]] = "waiting" /\ at[conn[p]] = "missed"
      BY <1>2, <1>3, <1>4, <3>1, <3>2, PoolAssumption DEF EndsMatch, Age
    <3>3. CASE ~(at'[conn[p]] = "waiting" /\ at[conn[p]] = "missed")
      BY <1>2, <1>3, <1>4, <3>1, <3>3 DEF EndsMatch, Age
    <3> QED
      BY <3>2, <3>3
  <2> QED
    BY <1>2, <2>1, <2>2, <2>3, <2>4 DEF EndsMatch
<1>7. ASSUME NEW p \in Party
      PROVE  Orphans(p)' \subseteq Orphans(p) /\ \A d \in Orphans(p)' : ttl'[d] = ttl[d]
  <2> SUFFICES ASSUME NEW d \in Orphans(p)'
               PROVE  d \in Orphans(p) /\ ttl'[d] = ttl[d]
    OBVIOUS
  <2>1. /\ d \in hungUp /\ d \in open' /\ d \in Conn /\ Owner[d] = p
        /\ at'[d] = "waiting" /\ mate'[d] = NoConn /\ ttl'[d] > 0
    BY <1>2, <1>3, <1>4 DEF Orphans
  <2>2. at[d] # "missed"
    BY <1>4, <2>1 DEF EndsMatch
  <2> QED
    BY <1>3, <2>1, <2>2 DEF Orphans
<1>8. \A p \in Party : OrphansAged(p)' /\ OrphansAreFew(p)'
  BY <1>2, <1>7, FewerOrphans
<1> QED
  BY <1>1, <1>5, <1>6, <1>8 DEF PoolInv

\* A party dials when its rest is over: by then the older of two orphans is gone.
LEMMA DialKeeps ==
  ASSUME PoolInv, PairTTL <= 2 * (Patience + FirstRest), NEW p \in Party, Dial(p)
  PROVE  PoolInv'
<1> DEFINE c == CHOOSE d \in FreeNames(p) : TRUE
<1>1. /\ Accept(c) /\ conn' = [conn EXCEPT ![p] = c]
      /\ doing' = [doing EXCEPT ![p] = "dialled"] /\ left' = [left EXCEPT ![p] = Patience]
      /\ UNCHANGED <<backoff, hungUp, ttl>>
      /\ doing[p] = "off" \/ (doing[p] = "resting" /\ left[p] = 0)
      /\ c \in FreeNames(p)
  BY DEF Dial
<1> HIDE DEF c
<1>2. /\ c \in Conn /\ Owner[c] = p /\ c \notin open /\ at' = [at EXCEPT ![c] = "new"]
      /\ open' = open \cup {c} /\ UNCHANGED <<queue, mate>>
  BY <1>1 DEF FreeNames, Accept, Over, Goto
<1>3. RelayInv'
  BY <1>1, <1>2, NextRelayInv DEF PoolInv, Next, Handle
<1>4. PoolTypeOK /\ EndsMatch /\ TypeOK /\ Patience \in Nat /\ FirstRest \in Nat /\ PairTTL \in Nat
  BY PoolAssumption DEF PoolInv, RelayInv
<1>5. PoolTypeOK'
  BY <1>1, <1>2, <1>4 DEF PoolTypeOK
<1>6. EndsMatch'
  <2>1. \A d \in open' : d \in hungUp' \/ conn'[Owner[d]] = d
    <3>1. \A d \in open : d # c /\ (d \in hungUp \/ conn[Owner[d]] = d)
      BY <1>2, <1>4 DEF EndsMatch
    <3>2. \A d \in open : Owner[d] = p => conn[p] # d
      BY <1>1, <1>4, PoolAssumption DEF EndsMatch, TypeOK
    <3> QED
      BY <1>1, <1>2, <1>4, <3>1, <3>2, PoolAssumption DEF PoolTypeOK
  <2>2. \A d \in hungUp' : at'[d] \notin {"new", "arrived", "missed"}
    BY <1>1, <1>2, <1>4 DEF EndsMatch, PoolTypeOK, TypeOK
  <2>3. ASSUME NEW q \in Party
        PROVE  /\ (doing'[q] \in {"off", "resting"}) <=> (conn'[q] = NoConn)
               /\ conn'[q] # NoConn => Owner[conn'[q]] = q
               /\ doing'[q] = "session" => conn'[q] \notin open' \/ mate'[conn'[q]] # NoConn
               /\ doing'[q] = "dialled" =>
                    /\ left'[q] <= Patience
                    /\ at'[conn'[q]] \in {"new", "arrived", "missed"} => left'[q] = Patience
                    /\ at'[conn'[q]] = "waiting" => Age(conn[q])' = Patience - left'[q]
    <3>1. CASE q = p
      BY <1>1, <1>2, <1>4, <3>1, PoolAssumption DEF PoolTypeOK, TypeOK
    <3>2. CASE q # p
      <4>1. conn'[q] = conn[q] /\ doing'[q] = doing[q] /\ left'[q] = left[q]
        BY <1>1, <1>4, <3>2 DEF PoolTypeOK
      <4>2. conn[q] # c
        BY <1>2, <1>4, <3>2, PoolAssumption DEF EndsMatch
      <4>3. at'[conn[q]] = at[conn[q]]
        BY <1>2, <1>4, <4>2 DEF TypeOK
      <4> QED
        BY <1>1, <1>2, <1>4, <4>1, <4>2, <4>3 DEF EndsMatch, Age
    <3> QED
      BY <3>1, <3>2
  <2> QED
    BY <2>1, <2>2, <2>3 DEF EndsMatch
<1>7. \A q \in Party : Orphans(q)' = Orphans(q)
  <2>1. \A d \in hungUp : d # c /\ at'[d] = at[d]
    BY <1>2, <1>4 DEF PoolTypeOK, TypeOK
  <2> QED
    BY <1>1, <1>2, <2>1 DEF Orphans
<1>8. \A d : Age(d)' = Age(d)
  BY <1>1 DEF Age
<1>9. ASSUME NEW q \in Party PROVE OrphansAged(q)' /\ OrphansAreFew(q)'
  <2>1. CASE q # p
    BY <1>1, <1>4, <1>7, <2>1, FewerOrphans DEF PoolTypeOK
  <2>2. CASE q = p
    <3>1. doing'[p] = "dialled" /\ left'[p] = Patience
      BY <1>1, <1>4 DEF PoolTypeOK
    <3>2. OrphansAged(p) /\ OrphansAreFew(p)
      BY DEF PoolInv
    <3>3. \A d \in Orphans(p) : Age(d) \in Int /\ Age(d) < PairTTL
      BY <1>4 DEF Orphans, Age, PoolTypeOK, TypeOK, PoolInv
    <3>4. \A d \in Orphans(p) : Age(d) >= Patience + FirstRest
      BY <1>1, <1>4, <3>2, <3>3 DEF OrphansAged
    <3>5. \A a, b \in Orphans(p) : a = b
      BY <1>1, <1>4, <3>2, <3>3 DEF OrphansAged
    <3>6. OrphansAged(p)'
      BY <1>4, <1>7, <1>8, <3>1, <3>3, <3>4 DEF OrphansAged
    <3>7. OrphansAreFew(p)'
      BY <1>7, <3>5 DEF OrphansAreFew
    <3> QED
      BY <2>2, <3>6, <3>7
  <2> QED
    BY <2>1, <2>2
<1> QED
  BY <1>3, <1>5, <1>6, <1>9 DEF PoolInv

\* Hanging up turns the connection of p into one it left behind.
LEMMA HangUpEffect ==
  ASSUME PoolInv, NEW p \in Party, doing[p] \in {"dialled", "session"},
         HangUp(p, "resting"),
         conn[p] \in open => at[conn[p]] \notin {"new", "arrived", "missed"},
         NEW rest \in Nat, left' = [left EXCEPT ![p] = rest],
         NEW next \in Nat, next >= FirstRest, backoff' = [backoff EXCEPT ![p] = next]
  PROVE  /\ RelayInv' /\ PoolTypeOK' /\ EndsMatch'
         /\ \A q \in Party \ {p} : OrphansAged(q)' /\ OrphansAreFew(q)'
         /\ \A d \in Orphans(p)' :
              \/ d \in Orphans(p)
              \/ d = conn[p] /\ d \in open /\ at[d] = "waiting" /\ mate[d] = NoConn
         /\ doing'[p] = "resting" /\ left'[p] = rest /\ ttl' = ttl
<1>1. /\ doing' = [doing EXCEPT ![p] = "resting"] /\ hungUp' = hungUp \cup ({conn[p]} \cap open)
      /\ conn' = [conn EXCEPT ![p] = NoConn] /\ UNCHANGED <<at, queue, mate, open, ttl>>
  BY DEF HangUp, vars
<1>2. PoolTypeOK /\ EndsMatch /\ TypeOK /\ Patience \in Nat /\ FirstRest \in Nat
  BY PoolAssumption DEF PoolInv, RelayInv
<1>3. RelayInv'
  BY <1>1, NextRelayInv DEF PoolInv, vars
<1>4. PoolTypeOK'
  BY <1>1, <1>2 DEF PoolTypeOK
<1>5. conn[p] # NoConn /\ conn[p] \in Conn /\ Owner[conn[p]] = p
  BY <1>2 DEF EndsMatch, PoolTypeOK
<1>6. EndsMatch'
  <2>1. \A d \in open' : d \in hungUp' \/ conn'[Owner[d]] = d
    BY <1>1, <1>2 DEF EndsMatch, PoolTypeOK
  <2>2. \A d \in hungUp' : at'[d] \notin {"new", "arrived", "missed"}
    BY <1>1, <1>2 DEF EndsMatch
  <2>3. ASSUME NEW q \in Party
        PROVE  /\ (doing'[q] \in {"off", "resting"}) <=> (conn'[q] = NoConn)
               /\ conn'[q] # NoConn => Owner[conn'[q]] = q
               /\ doing'[q] = "session" => conn'[q] \notin open' \/ mate'[conn'[q]] # NoConn
               /\ doing'[q] = "dialled" =>
                    /\ left'[q] <= Patience
                    /\ at'[conn'[q]] \in {"new", "arrived", "missed"} => left'[q] = Patience
                    /\ at'[conn'[q]] = "waiting" => Age(conn[q])' = Patience - left'[q]
    <3>1. CASE q = p
      BY <1>1, <1>2, <3>1 DEF PoolTypeOK
    <3>2. CASE q # p
      <4>1. conn'[q] = conn[q] /\ doing'[q] = doing[q] /\ left'[q] = left[q]
        BY <1>1, <1>2, <3>2 DEF PoolTypeOK
      <4> QED
        BY <1>1, <1>2, <4>1 DEF EndsMatch, Age
    <3> QED
      BY <3>1, <3>2
  <2> QED
    BY <1>1, <2>1, <2>2, <2>3 DEF EndsMatch
<1>7. ASSUME NEW q \in Party \ {p} PROVE OrphansAged(q)' /\ OrphansAreFew(q)'
  <2>1. Orphans(q)' = Orphans(q)
    BY <1>1, <1>5 DEF Orphans
  <2> QED
    BY <1>1, <1>2, <2>1, FewerOrphans DEF PoolTypeOK
<1>8. ASSUME NEW d \in Orphans(p)'
      PROVE  \/ d \in Orphans(p)
             \/ d = conn[p] /\ d \in open /\ at[d] = "waiting" /\ mate[d] = NoConn
  BY <1>1 DEF Orphans
<1> QED
  BY <1>1, <1>2, <1>3, <1>4, <1>6, <1>7, <1>8 DEF PoolTypeOK

\* What a longer backoff is.
LEMMA LongerTyped ==
  ASSUME NEW rest \in Nat, rest >= FirstRest
  PROVE  Longer(rest) \in Nat /\ Longer(rest) >= FirstRest
BY PoolAssumption DEF Longer

\* A party gives up: after all its patience, or because the relay let go first.
LEMMA GiveUpKeeps ==
  ASSUME PoolInv, NEW p \in Party, GiveUp(p)
  PROVE  PoolInv'
<1>1. /\ doing[p] = "dialled" /\ (left[p] = 0 \/ conn[p] \notin open) /\ HangUp(p, "resting")
      /\ left' = [left EXCEPT ![p] = backoff[p]]
      /\ backoff' = [backoff EXCEPT ![p] = Longer(backoff[p])]
  BY DEF GiveUp
<1>2. /\ PoolTypeOK /\ EndsMatch /\ TypeOK /\ Patience \in Nat \ {0} /\ FirstRest \in Nat
      /\ PairTTL \in Nat /\ OrphansAged(p) /\ OrphansAreFew(p)
  BY PoolAssumption DEF PoolInv, RelayInv
<1>3. /\ backoff[p] \in Nat /\ backoff[p] >= FirstRest /\ left[p] \in Nat
      /\ left[p] <= Patience
  BY <1>1, <1>2 DEF PoolTypeOK, EndsMatch
<1>4. Longer(backoff[p]) \in Nat /\ Longer(backoff[p]) >= FirstRest
  BY <1>3, LongerTyped
<1>5. conn[p] \in open => at[conn[p]] \notin {"new", "arrived", "missed"}
  BY <1>1, <1>2 DEF EndsMatch
<1>6. /\ RelayInv' /\ PoolTypeOK' /\ EndsMatch'
      /\ \A q \in Party \ {p} : OrphansAged(q)' /\ OrphansAreFew(q)'
      /\ \A d \in Orphans(p)' :
           \/ d \in Orphans(p)
           \/ d = conn[p] /\ d \in open /\ at[d] = "waiting" /\ mate[d] = NoConn
      /\ doing'[p] = "resting" /\ left'[p] = backoff[p] /\ ttl' = ttl
  BY <1>1, <1>3, <1>4, <1>5, HangUpEffect
<1>7. \A d : Age(d)' = Age(d)
  BY <1>6 DEF Age
<1>8. \A d \in Orphans(p) : Age(d) \in Int /\ Age(d) + left[p] >= 2 * Patience + FirstRest
  BY <1>1, <1>2 DEF OrphansAged, Orphans, Age, PoolTypeOK, TypeOK
<1>9. conn[p] \in Orphans(p)' => conn[p] \in Orphans(p) \/ (Age(conn[p]) = Patience /\ left[p] = 0)
  BY <1>1, <1>2, <1>3, <1>6 DEF EndsMatch
<1>10. \A b, c \in Orphans(p) : b = c
  BY <1>1, <1>2 DEF OrphansAreFew
<1>11. OrphansAged(p)'
  <2>1. \A d \in Orphans(p)' : Age(d) + backoff[p] >= Patience + FirstRest
    BY <1>2, <1>3, <1>6, <1>8, <1>9
  <2>2. ASSUME NEW b \in Orphans(p)', NEW c \in Orphans(p)', b # c
        PROVE  \/ Age(b) + backoff[p] >= 2 * (Patience + FirstRest)
               \/ Age(c) + backoff[p] >= 2 * (Patience + FirstRest)
    <3>1. left[p] = 0
      BY <1>6, <1>9, <1>10, <2>2
    <3>2. b \in Orphans(p) \/ c \in Orphans(p)
      BY <1>6, <2>2
    <3> QED
      BY <1>2, <1>3, <1>8, <3>1, <3>2
  <2> QED
    BY <1>6, <1>7, <2>1, <2>2 DEF OrphansAged
<1>12. OrphansAreFew(p)'
  BY <1>6, <1>10 DEF OrphansAreFew
<1> QED
  BY <1>6, <1>11, <1>12 DEF PoolInv

\* A session that ends leaves no orphan: the splice closes its connection.
LEMMA EndSessionKeeps ==
  ASSUME PoolInv, NEW p \in Party, EndSession(p)
  PROVE  PoolInv'
<1> DEFINE rest == IF p \in Worker THEN 0 ELSE backoff[p]
           next == IF p \in Worker THEN FirstRest ELSE Longer(backoff[p])
<1>1. /\ doing[p] = "session" /\ HangUp(p, "resting")
      /\ left' = [left EXCEPT ![p] = rest] /\ backoff' = [backoff EXCEPT ![p] = next]
  BY DEF EndSession
<1>2. /\ PoolTypeOK /\ EndsMatch /\ TypeOK /\ MatesMatchPlace /\ FirstRest \in Nat /\ Patience \in Nat
      /\ PairTTL \in Nat /\ OrphansAged(p) /\ OrphansAreFew(p)
  BY PoolAssumption DEF PoolInv, RelayInv
<1>3. rest \in Nat /\ next \in Nat /\ next >= FirstRest
  BY <1>2, LongerTyped DEF PoolTypeOK
<1> HIDE DEF rest, next
<1>4. conn[p] \in open => mate[conn[p]] # NoConn /\ conn[p] \in Conn
  BY <1>1, <1>2 DEF EndsMatch, TypeOK
<1>5. conn[p] \in open => at[conn[p]] \notin {"new", "arrived", "missed"}
  BY <1>2, <1>4 DEF MatesMatchPlace
<1>6. /\ RelayInv' /\ PoolTypeOK' /\ EndsMatch'
      /\ \A q \in Party \ {p} : OrphansAged(q)' /\ OrphansAreFew(q)'
      /\ \A d \in Orphans(p)' :
           \/ d \in Orphans(p)
           \/ d = conn[p] /\ d \in open /\ at[d] = "waiting" /\ mate[d] = NoConn
      /\ doing'[p] = "resting" /\ left'[p] = rest /\ ttl' = ttl
  BY <1>1, <1>3, <1>5, HangUpEffect
<1>7. \A d \in Orphans(p)' : d \in Orphans(p) /\ Age(d)' = Age(d) /\ Age(d) \in Int
  BY <1>2, <1>4, <1>6 DEF Age, Orphans, PoolTypeOK, TypeOK
<1>8. \A b, c \in Orphans(p) : b = c
  BY <1>1, <1>2 DEF OrphansAreFew
<1>9. \A d \in Orphans(p) : Age(d) >= Patience + FirstRest
  BY <1>1, <1>2 DEF OrphansAged
<1>10. OrphansAged(p)'
  BY <1>2, <1>3, <1>6, <1>7, <1>8, <1>9 DEF OrphansAged
<1>11. OrphansAreFew(p)'
  BY <1>6, <1>7, <1>8 DEF OrphansAreFew
<1> QED
  BY <1>6, <1>10, <1>11 DEF PoolInv

\* A handshake comes before the patience of either end is over.
LEMMA HandshakeKeeps ==
  ASSUME PoolInv, NEW w \in Worker, NEW k \in Client, Handshake(w, k)
  PROVE  PoolInv'
<1>1. /\ doing[w] = "dialled" /\ doing[k] = "dialled"
      /\ mate[conn[w]] = conn[k] /\ {conn[w], conn[k]} \subseteq open
      /\ doing' = [doing EXCEPT ![w] = "session", ![k] = "session"]
      /\ left' = [left EXCEPT ![w] = 0, ![k] = 0]
      /\ UNCHANGED <<vars, conn, backoff, hungUp, ttl>>
  BY DEF Handshake, Meet
<1>2. /\ PoolTypeOK /\ EndsMatch /\ TypeOK /\ MatesMatchPlace /\ FirstRest \in Nat
      /\ Patience \in Nat /\ PairTTL \in Nat /\ w \in Party /\ k \in Party /\ w # k
  BY PoolAssumption DEF PoolInv, RelayInv, Party
<1>3. RelayInv'
  BY <1>1, NextRelayInv DEF PoolInv
<1>4. /\ \A p \in Party : doing'[p] = IF p \in {w, k} THEN "session" ELSE doing[p]
      /\ \A p \in Party : left'[p] = IF p \in {w, k} THEN 0 ELSE left[p]
  BY <1>1, <1>2 DEF PoolTypeOK
<1>5. PoolTypeOK'
  BY <1>1, <1>2 DEF PoolTypeOK, vars
<1>6. \A p \in {w, k} : mate[conn[p]] # NoConn /\ conn[p] # NoConn
  BY <1>1, <1>2, RelayAssumption DEF MatesMatchPlace, TypeOK
<1>7. EndsMatch'
  <2>1. /\ \A d \in open' : d \in hungUp' \/ conn'[Owner[d]] = d
        /\ \A d \in hungUp' : at'[d] \notin {"new", "arrived", "missed"}
    BY <1>1, <1>2 DEF EndsMatch, vars
  <2>2. ASSUME NEW p \in Party
        PROVE  /\ (doing'[p] \in {"off", "resting"}) <=> (conn'[p] = NoConn)
               /\ conn'[p] # NoConn => Owner[conn'[p]] = p
               /\ doing'[p] = "session" => conn'[p] \notin open' \/ mate'[conn'[p]] # NoConn
               /\ doing'[p] = "dialled" =>
                    /\ left'[p] <= Patience
                    /\ at'[conn'[p]] \in {"new", "arrived", "missed"} => left'[p] = Patience
                    /\ at'[conn'[p]] = "waiting" => Age(conn[p])' = Patience - left'[p]
    <3>0. UNCHANGED <<at, mate, open, conn, ttl>>
      BY <1>1 DEF vars
    <3>1. CASE p \in {w, k}
      <4>1. doing'[p] = "session"
        BY <1>4, <3>1
      <4>2. Owner[conn[p]] = p
        BY <1>2, <1>6, <3>1 DEF EndsMatch
      <4> QED
        BY <1>6, <3>0, <3>1, <4>1, <4>2
    <3>2. CASE p \notin {w, k}
      <4>1. doing'[p] = doing[p] /\ left'[p] = left[p]
        BY <1>4, <3>2
      <4> QED
        BY <1>2, <3>0, <4>1 DEF EndsMatch, Age
    <3> QED
      BY <3>1, <3>2
  <2> QED
    BY <1>1, <2>1, <2>2 DEF EndsMatch
<1>8. \A p \in Party : Orphans(p)' = Orphans(p)
  BY <1>1 DEF Orphans, vars
<1>9. \A d : Age(d)' = Age(d)
  BY <1>1 DEF Age
<1>10. ASSUME NEW p \in Party PROVE OrphansAged(p)' /\ OrphansAreFew(p)'
  <2>1. CASE p \notin {w, k}
    BY <1>1, <1>4, <1>8, <2>1, FewerOrphans
  <2>2. CASE p \in {w, k}
    <3>1. doing[p] = "dialled" /\ doing'[p] = "session" /\ left[p] <= Patience /\ left[p] \in Nat
      BY <1>1, <1>2, <1>4, <2>2 DEF EndsMatch, PoolTypeOK
    <3>2. OrphansAged(p) /\ OrphansAreFew(p)
      BY DEF PoolInv
    <3>3. \A d \in Orphans(p) : Age(d) \in Int
      BY <1>2 DEF Orphans, Age, PoolTypeOK, TypeOK
    <3>4. OrphansAged(p)'
      BY <1>2, <1>8, <1>9, <3>1, <3>2, <3>3 DEF OrphansAged
    <3>5. OrphansAreFew(p)'
      BY <1>8, <3>1, <3>2 DEF OrphansAreFew
    <3> QED
      BY <3>4, <3>5
  <2> QED
    BY <2>1, <2>2
<1> QED
  BY <1>3, <1>5, <1>7, <1>10 DEF PoolInv

\* Time passes for orphans and parties alike.
LEMMA TickKeeps ==
  ASSUME PoolInv, Tick
  PROVE  PoolInv'
<1>1. /\ AtRest /\ \A p \in Party : ~PartyBusy(p)
      /\ left' = [p \in Party |-> IF left[p] = 0 THEN 0 ELSE left[p] - 1]
      /\ ttl' = [c \in Conn |-> IF at[c] = "waiting" THEN ttl[c] - 1 ELSE 0]
      /\ UNCHANGED <<at, queue, mate, open, doing, conn, backoff, hungUp>>
  BY DEF Tick, Busy, vars
<1>2. /\ PoolTypeOK /\ EndsMatch /\ TypeOK /\ FirstRest \in Nat
      /\ Patience \in Nat /\ PairTTL \in Nat
  BY PoolAssumption DEF PoolInv, RelayInv
<1>3. RelayInv'
  BY <1>1, NextRelayInv DEF PoolInv, vars
<1>4. \A c \in Conn : /\ at[c] \notin {"new", "arrived", "missed", "expired"}
                      /\ at[c] = "waiting" => ttl[c] > 0
  BY <1>1, <1>2 DEF AtRest, RelayBusy, PoolTypeOK
<1>5. \A p \in Party : /\ left'[p] \in Nat
                       /\ doing[p] \in {"dialled", "resting"} => left'[p] = left[p] - 1
  BY <1>1, <1>2 DEF PartyBusy, PoolTypeOK
<1>6. \A c \in Conn : ttl'[c] \in Nat /\ (at[c] = "waiting" => Age(c)' = Age(c) + 1)
  BY <1>1, <1>2, <1>4 DEF PoolTypeOK, Age
<1>7. PoolTypeOK'
  <2>1. ttl' \in [Conn -> Nat] /\ left' \in [Party -> Nat]
    BY <1>1, <1>5, <1>6
  <2> QED
    BY <1>1, <1>2, <2>1 DEF PoolTypeOK
<1>8. EndsMatch'
  <2>1. ASSUME NEW p \in Party, doing[p] = "dialled"
        PROVE  /\ left'[p] <= Patience
               /\ at[conn[p]] \in {"new", "arrived", "missed"} => left'[p] = Patience
               /\ at[conn[p]] = "waiting" => Age(conn[p])' = Patience - left'[p]
    <3>1. conn[p] \in Conn /\ left[p] \in Nat /\ left'[p] = left[p] - 1
      BY <1>2, <1>5, <2>1 DEF EndsMatch, PoolTypeOK
    <3>2. left[p] <= Patience /\ (at[conn[p]] = "waiting" => Age(conn[p]) = Patience - left[p])
      BY <1>2, <2>1 DEF EndsMatch
    <3>3. at[conn[p]] = "waiting" => Age(conn[p])' = Age(conn[p]) + 1
      BY <1>1, <1>6, <3>1 DEF Age
    <3> QED
      BY <1>2, <1>4, <3>1, <3>2, <3>3
  <2> QED
    BY <1>1, <1>2, <2>1 DEF EndsMatch
<1>9. ASSUME NEW p \in Party PROVE OrphansAged(p)' /\ OrphansAreFew(p)'
  <2>1. OrphansAged(p) /\ OrphansAreFew(p)
    BY DEF PoolInv
  <2>2. \A d \in Orphans(p)' : d \in Orphans(p) /\ Age(d) \in Int /\ Age(d)' = Age(d) + 1
    <3> SUFFICES ASSUME NEW d \in Orphans(p)'
                 PROVE  d \in Orphans(p) /\ Age(d) \in Int /\ Age(d)' = Age(d) + 1
      OBVIOUS
    <3>1. d \in Conn /\ at[d] = "waiting" /\ ttl[d] \in Nat
      BY <1>1, <1>2 DEF Orphans, PoolTypeOK, TypeOK
    <3>2. d \in Orphans(p)
      BY <1>1, <1>4, <3>1 DEF Orphans
    <3> QED
      BY <1>2, <1>6, <3>1, <3>2 DEF Age
  <2>3. /\ left[p] \in Nat /\ doing'[p] = doing[p]
        /\ doing[p] \in {"dialled", "resting"} => left'[p] = left[p] - 1
    BY <1>1, <1>2, <1>5 DEF PoolTypeOK
  <2>4. OrphansAged(p)'
    BY <1>2, <2>1, <2>2, <2>3 DEF OrphansAged
  <2>5. OrphansAreFew(p)'
    BY <2>1, <2>2, <2>3 DEF OrphansAreFew
  <2> QED
    BY <2>4, <2>5
<1> QED
  BY <1>3, <1>7, <1>8, <1>9 DEF PoolInv

\* Every step of the pool keeps the invariant.
LEMMA NextPoolInv ==
  PairTTL <= 2 * (Patience + FirstRest) => (PoolInv /\ [PoolNext]_poolVars => PoolInv')
<1> SUFFICES ASSUME PairTTL <= 2 * (Patience + FirstRest), PoolInv, [PoolNext]_poolVars
             PROVE  PoolInv'
  OBVIOUS
<1>1. CASE UNCHANGED poolVars
  <2>1. UNCHANGED <<vars, doing, conn, left, backoff, hungUp, ttl>>
    BY <1>1 DEF poolVars, ends
  <2>2. RelayInv'
    BY <2>1, NextRelayInv DEF PoolInv
  <2>3. PoolTypeOK' /\ EndsMatch'
    BY <2>1 DEF PoolInv, PoolTypeOK, EndsMatch, Age, vars
  <2>4. \A p \in Party : Orphans(p)' = Orphans(p)
    BY <2>1 DEF Orphans, vars
  <2>5. \A p \in Party : OrphansAged(p)' /\ OrphansAreFew(p)'
    BY <2>1, <2>4, FewerOrphans
  <2> QED
    BY <2>2, <2>3, <2>5 DEF PoolInv
<1>2. CASE PoolNext
  BY <1>2, DialKeeps, GiveUpKeeps, EndSessionKeeps, HandshakeKeeps, RelayStepKeeps, TickKeeps
  DEF PoolNext
<1> QED
  BY <1>1, <1>2

\* The relay's backlog is bounded whatever the parties, their dialling and the
\* backoff do, if a waiter does not outlive two rounds of patience and rest:
\* 60 <= 2 * (30 + 1) in the code (pairTTL, the handshake's deadline, backoff).
THEOREM BacklogStaysBounded ==
  ASSUME PairTTL <= 2 * (Patience + FirstRest)
  PROVE  PoolSpec => []BacklogIsBounded
<1>1. PoolInv => BacklogIsBounded
  <2> SUFFICES ASSUME PoolInv, AtRest, NEW p \in Party
               PROVE  Cardinality({c \in open : Owner[c] = p}) <= 2
    BY DEF BacklogIsBounded
  <2> DEFINE mine == {c \in open : Owner[c] = p}
  <2>1. /\ PoolTypeOK /\ EndsMatch /\ TypeOK /\ QueueIsFresh /\ MatesMatchPlace
        /\ OrphansAged(p) /\ OrphansAreFew(p)
    BY DEF PoolInv, RelayInv
  <2>2. ASSUME NEW c \in mine, c # conn[p] PROVE c \in Orphans(p)
    <3>1. c \in Conn /\ c \in open /\ c \in hungUp /\ Owner[c] = p
      BY <2>1, <2>2 DEF EndsMatch, TypeOK
    <3>2. ~RelayBusy(c)
      BY <3>1 DEF AtRest
    <3>3. mate[c] = NoConn \/ at[c] = "splicing" \/ at[mate[c]] = "splicing"
      BY <2>1, <3>1 DEF MatesMatchPlace
    <3>4. at[c] # "splicing"
      BY <3>1, <3>2 DEF RelayBusy, Severed
    <3>5. CASE mate[c] # NoConn
      <4>1. mate[c] \in Conn /\ at[mate[c]] = "splicing" /\ mate[mate[c]] = c
        BY <2>1, <3>1, <3>3, <3>4, <3>5 DEF MatesMatchPlace, TypeOK
      <4>2. RelayBusy(mate[c])
        BY <3>1, <4>1 DEF RelayBusy, Severed
      <4> QED
        BY <4>1, <4>2 DEF AtRest
    <3>6. CASE mate[c] = NoConn
      <4>1. c \in Queued(SideOf(c))
        BY <2>1, <3>1, <3>2, <3>6 DEF MatesMatchPlace, RelayBusy
      <4>2. at[c] = "waiting"
        <5>1. SideOf(c) \in Side
          BY DEF SideOf, Side
        <5>2. at[c] \in {"waiting", "expired"}
          BY <2>1, <4>1, <5>1 DEF Queued, QueueIsFresh
        <5> QED
          BY <3>2, <5>2 DEF RelayBusy
      <4>3. ttl[c] > 0
        BY <2>1, <3>1, <3>2, <4>2 DEF RelayBusy, PoolTypeOK
      <4> QED
        BY <3>1, <3>6, <4>2, <4>3 DEF Orphans
    <3> QED
      BY <3>5, <3>6
  <2>3. \A a, b, c \in mine : a = b \/ b = c \/ a = c
    <3>1. CASE doing[p] \in {"off", "resting"}
      <4>1. conn[p] = NoConn
        BY <2>1, <3>1 DEF EndsMatch
      <4>2. \A c \in mine : c \in Orphans(p)
        BY <2>1, <2>2, <4>1, RelayAssumption DEF TypeOK
      <4> QED
        BY <2>1, <4>2 DEF OrphansAreFew
    <3>2. CASE doing[p] \notin {"off", "resting"}
      BY <2>1, <2>2, <3>2 DEF OrphansAreFew
    <3> QED
      BY <3>1, <3>2
  <2> HIDE DEF mine
  <2>4. \E a, b : mine \subseteq {a, b}
    <3>1. CASE mine = {}
      BY <3>1
    <3>2. CASE mine # {}
      <4>1. PICK a \in mine : TRUE
        BY <3>2
      <4>2. CASE mine = {a}
        BY <4>2
      <4>3. CASE mine # {a}
        <5>1. PICK b \in mine : b # a
          BY <4>1, <4>3
        <5>2. mine \subseteq {a, b}
          BY <2>3, <4>1, <5>1
        <5> QED
          BY <5>2
      <4> QED
        BY <4>2, <4>3
    <3> QED
      BY <3>1, <3>2
  <2>5. PICK a, b : mine \subseteq {a, b}
    BY <2>4
  <2>6. IsFiniteSet({a, b}) /\ Cardinality({a, b}) \in Nat /\ Cardinality({a, b}) <= 2
    <3>1. IsFiniteSet({a}) /\ Cardinality({a}) = 1
      BY FS_Singleton
    <3>2. {a} \cup {b} = {a, b}
      OBVIOUS
    <3>3. /\ IsFiniteSet({a} \cup {b})
          /\ Cardinality({a} \cup {b}) = IF b \in {a} THEN Cardinality({a}) ELSE Cardinality({a}) + 1
      BY <3>1, FS_AddElement
    <3>4. CASE b \in {a}
      BY <3>1, <3>2, <3>3, <3>4
    <3>5. CASE b \notin {a}
      <4>1. Cardinality({a, b}) = Cardinality({a}) + 1
        BY <3>2, <3>3, <3>5
      <4> QED
        BY <3>1, <3>2, <3>3, <4>1
    <3> QED
      BY <3>4, <3>5
  <2>7. Cardinality(mine) \in Nat /\ Cardinality(mine) <= Cardinality({a, b})
    BY <2>5, <2>6, FS_Subset, FS_CardinalityType
  <2> QED
    BY <2>6, <2>7 DEF mine
<1> QED
  BY <1>1, InitPoolInv, NextPoolInv, PTL DEF PoolSpec
=============================================================================
