---------------------------- MODULE AttackProofs ----------------------------
(***************************************************************************)
(* For every number of threads, batch size, lane count and dictionary:     *)
(* parallel_for divides a batch into chunks that tile it, and a thread     *)
(* outlives what it uses only where parallel_for gave up waiting (IInv).   *)
(* On that rests the search itself (SearchInv): its end is conclusive,     *)
(* threads race only over a duplicate, and only an uneven dictionary is    *)
(* overread.                                                               *)
(***************************************************************************)
EXTENDS Attack, FiniteSetTheorems, TLAPS

\* parallel_for has divided a batch: the chunks are fixed, threads may run.
Divided == main \in {"begin", "join", "abandoned"}

Quotient == targetNum \div threads
Remainder == targetNum % threads

\* The types and ranges the division rests on.
Counts ==
    /\ remain \in Nat /\ targetNum \in Nat /\ threads \in Nat
    /\ made \in Nat /\ cursor \in Nat
    /\ chunk \in [Thread -> [begin : Nat, end : Nat]]
    /\ threads <= ThreadNum
    /\ main = "divide" \/ Divided => threads > 0 /\ targetNum <= remain /\ made <= threads
    /\ main = "divide" => made < threads

\* How far the division is: the closed form of begin in parallel_for's loop.
Cursor ==
    main = "divide" \/ Divided => cursor = made * Quotient + Least(made, Remainder)

\* The chunks made so far tile the indices below the cursor.
Tiles ==
    main = "divide" \/ Divided =>
        /\ \A t \in Thread : t < made => chunk[t].end <= cursor
        /\ \A i \in Nat : i < cursor =>
              \E t \in Thread : t < made /\ i \in chunk[t].begin .. chunk[t].end - 1
        /\ \A s, t \in Thread, i \in Nat :
              /\ s < made /\ i \in chunk[s].begin .. chunk[s].end - 1
              /\ t < made /\ i \in chunk[t].begin .. chunk[t].end - 1
              => s = t

\* Where a thread can be follows from where the constructor is.
Pcs == {"made", "test", "verify", "store", "announce", "done", "lost"}
Threads ==
    /\ pc \in [Thread -> Pcs]
    /\ Divided => made = threads
    /\ main = "divide" => \A t \in Thread : pc[t] = IF t < made THEN "made" ELSE "done"
    /\ ~Divided /\ main # "divide" => \A t \in Thread : pc[t] = "done"
    /\ main = "join" => \A t \in Thread : pc[t] # "made"
    /\ LostOnlyIfAbandoned

IInv == Counts /\ Cursor /\ Tiles /\ Threads
-----------------------------------------------------------------------------
LEMMA DivMod ==
    ASSUME NEW n \in Nat, NEW k \in Nat, k > 0
    PROVE  /\ n \div k \in Nat /\ n % k \in Nat
           /\ n % k < k
           /\ n = (k * (n \div k)) + (n % k)
  OBVIOUS

\* One turn of parallel_for's loop keeps the closed form of begin.
LEMMA CursorStep ==
    ASSUME NEW m \in Nat, NEW q \in Nat, NEW r \in Nat
    PROVE  (m + 1) * q + Least(m + 1, r)
             = m * q + Least(m, r) + (q + IF m < r THEN 1 ELSE 0)
  <1>1. (m + 1) * q = m * q + q
    OBVIOUS
  <1>2. m * q \in Nat
    OBVIOUS
  <1>3. Least(m + 1, r) = Least(m, r) + IF m < r THEN 1 ELSE 0
    BY DEF Least
  <1>4. Least(m, r) \in Nat
    BY DEF Least
  <1> QED
    BY <1>1, <1>2, <1>3, <1>4

LEMMA CursorStart ==
    ASSUME NEW q \in Nat, NEW r \in Nat
    PROVE  0 * q + Least(0, r) = 0
  BY DEF Least

LEMMA InitInv == Init => IInv
  <1> SUFFICES ASSUME Init PROVE IInv
    OBVIOUS
  <1>1. main = "batch" /\ ~Divided
    BY DEF Init, Divided
  <1>2. Counts
    BY <1>1, DictionariesAssumption, ThreadNumAssumption DEF Init, Counts
  <1>3. Cursor /\ Tiles
    BY <1>1 DEF Cursor, Tiles
  <1>4. pc \in [Thread -> Pcs] /\ \A t \in Thread : pc[t] = "done"
    BY DEF Init, Pcs
  <1>5. Threads
    BY <1>1, <1>4 DEF Threads, LostOnlyIfAbandoned
  <1> QED
    BY <1>2, <1>3, <1>5 DEF IInv

\* What a step leaves alone that divides nothing.
Stays == main' = main \/ (Divided /\ Divided')

LEMMA DivisionKept ==
    ASSUME IInv, UNCHANGED <<input, batch, division>>, Stays
    PROVE  Counts' /\ Cursor' /\ Tiles'
  <1>1. UNCHANGED <<remain, targetNum, threads, made, cursor, chunk>>
    BY DEF batch, division
  <1>2. (main' = "divide" => main = "divide") /\ (Divided' => Divided)
    BY DEF Stays, Divided
  <1>3. Counts'
    BY <1>1, <1>2 DEF IInv, Counts
  <1>4. Quotient' = Quotient /\ Remainder' = Remainder
    BY <1>1 DEF Quotient, Remainder
  <1>5. Cursor'
    BY <1>1, <1>2, <1>4 DEF IInv, Cursor
  <1>6. Tiles'
    BY <1>1, <1>2 DEF IInv, Tiles
  <1> QED
    BY <1>3, <1>5, <1>6

\* Where a thread that moves comes from and goes to.
LEMMA ThreadMoves ==
    ASSUME IInv, NEW t \in Thread, ThreadStep(t)
    PROVE  /\ UNCHANGED <<input, batch, division, main>> /\ Divided
           /\ pc[t] \in {"test", "verify", "store", "announce"}
           /\ pc' \in [Thread -> Pcs] /\ \A s \in Thread : s # t => pc'[s] = pc[s]
           /\ pc'[t] # "made" /\ (pc'[t] = "lost" => main = "abandoned")
  <1>1. UNCHANGED <<input, batch, division, main>>
    BY DEF ThreadStep, Test, Verify, VerifyThrows, Store, Announce, Outlive, shared
  <1>2. pc[t] \in {"test", "verify", "store", "announce"}
    BY DEF ThreadStep, Test, Verify, VerifyThrows, Store, Announce, Outlive
  <1>3. Divided
    <2>1. pc[t] # "done" /\ pc[t] # "made"
      BY <1>2
    <2>2. main = "divide" => pc[t] = IF t < made THEN "made" ELSE "done"
      BY DEF IInv, Threads
    <2>3. main # "divide"
      BY <2>1, <2>2
    <2> QED
      BY <2>1, <2>3 DEF IInv, Threads
  <1>4. PICK p \in {"test", "verify", "store", "announce", "done", "lost"} :
           /\ pc' = [pc EXCEPT ![t] = p] \/ (pc' = pc /\ p = "test")
           /\ p = "lost" => ~TargetLives
    BY DEF ThreadStep, Test, Verify, VerifyThrows, Store, Announce, Outlive
  <1>5. pc \in [Thread -> Pcs]
    BY DEF IInv, Threads
  <1>6. p \in Pcs /\ p # "made"
    BY DEF Pcs
  <1>7. pc' \in [Thread -> Pcs] /\ \A s \in Thread : s # t => pc'[s] = pc[s]
    BY <1>4, <1>5, <1>6
  <1>8. pc'[t] = p \/ pc'[t] = pc[t]
    BY <1>4, <1>5
  <1>9. pc'[t] # "made"
    BY <1>2, <1>6, <1>8
  <1>10. pc'[t] = "lost" => main = "abandoned"
    BY <1>2, <1>3, <1>4, <1>8 DEF TargetLives, Divided
  <1> QED
    BY <1>1, <1>2, <1>3, <1>7, <1>9, <1>10

LEMMA ThreadStepInv ==
    ASSUME IInv, NEW t \in Thread, ThreadStep(t)
    PROVE  IInv'
  <1>1. /\ UNCHANGED <<input, batch, division, main>> /\ Divided
        /\ pc' \in [Thread -> Pcs] /\ \A s \in Thread : s # t => pc'[s] = pc[s]
        /\ pc'[t] # "made" /\ (pc'[t] = "lost" => main = "abandoned")
    BY ThreadMoves
  <1>2. Divided' /\ main # "divide" /\ main' = main /\ made' = made /\ threads' = threads
    BY <1>1 DEF Divided, batch, division
  <1>3. Counts' /\ Cursor' /\ Tiles'
    BY <1>1, DivisionKept DEF Stays
  <1>4. \A s \in Thread : pc[s] = "lost" => main = "abandoned"
    BY DEF IInv, Threads, LostOnlyIfAbandoned
  <1>5. LostOnlyIfAbandoned'
    BY <1>1, <1>2, <1>4 DEF LostOnlyIfAbandoned
  <1>6. \A s \in Thread : main = "join" => pc'[s] # "made"
    BY <1>1 DEF IInv, Threads
  <1>7. made = threads
    BY <1>1 DEF IInv, Threads
  <1>8. Threads'
    BY <1>1, <1>2, <1>5, <1>6, <1>7 DEF Threads
  <1> QED
    BY <1>3, <1>8 DEF IInv

LEMMA BeginBatchInv ==
    ASSUME IInv, BeginBatch
    PROVE  IInv'
  <1>1. /\ main = "batch" /\ remain > 0 /\ remain' = remain /\ chunk' = chunk /\ pc' = pc
        /\ targetNum' = Least(remain, SepNum)
        /\ threads' = Least(ThreadNum, targetNum')
        /\ made' = 0 /\ cursor' = 0
        /\ main' = IF ThreadNum = 0 THEN "threw" ELSE "divide"
    BY DEF BeginBatch
  <1>2. remain \in Nat
    BY DEF IInv, Counts
  <1>3. targetNum' \in Nat /\ targetNum' > 0 /\ targetNum' <= remain
    BY <1>1, <1>2, SepNumAssumption DEF Least
  <1>4. /\ threads' \in Nat /\ threads' <= ThreadNum
        /\ main' = "divide" => threads' > 0
    BY <1>1, <1>3, ThreadNumAssumption DEF Least
  <1>5. Counts'
    BY <1>1, <1>3, <1>4 DEF IInv, Counts, Divided
  <1>6. Cursor'
    <2>1. CASE main' = "divide"
      <3>1. Quotient' \in Nat /\ Remainder' \in Nat
        BY <1>3, <1>4, <2>1, DivMod DEF Quotient, Remainder
      <3>2. 0 * Quotient' + Least(0, Remainder') = 0
        BY <3>1, CursorStart
      <3> QED
        BY <1>1, <3>2 DEF Cursor
    <2>2. CASE main' # "divide"
      BY <1>1, <2>2 DEF Cursor, Divided
    <2> QED
      BY <2>1, <2>2
  <1>7. Tiles'
    BY <1>1, ThreadNumAssumption DEF Tiles, Thread
  <1>8. Threads'
    <2>1. ~Divided /\ ~Divided' /\ main # "divide"
      BY <1>1 DEF Divided
    <2>2. pc' \in [Thread -> Pcs] /\ \A t \in Thread : pc'[t] = "done"
      BY <1>1, <2>1 DEF IInv, Threads
    <2>3. \A t \in Thread : ~(t < made')
      BY <1>1, ThreadNumAssumption DEF Thread
    <2> QED
      BY <1>1, <2>1, <2>2, <2>3 DEF Threads, LostOnlyIfAbandoned
  <1> QED
    BY <1>5, <1>6, <1>7, <1>8 DEF IInv

\* The chunk made next begins where the tiling ends.
LEMMA DivideInv ==
    ASSUME IInv, Divide
    PROVE  IInv'
  <1> DEFINE size == ChunkSize(made)
  <1>1. /\ main = "divide" /\ made < threads
        /\ chunk' = [chunk EXCEPT ![made] = [begin |-> cursor, end |-> cursor + size]]
        /\ cursor' = cursor + size
        /\ made' = made + 1
        /\ pc' = [pc EXCEPT ![made] = "made"]
        /\ main' = IF made' = threads THEN "begin" ELSE "divide"
        /\ UNCHANGED <<remain, targetNum, threads>>
    <2>1. main = "divide" => made < threads
      BY DEF IInv, Counts
    <2> QED
      BY <2>1 DEF Divide, Begin, batch
  <1>2. /\ made \in Nat /\ cursor \in Nat /\ targetNum \in Nat /\ threads \in Nat /\ threads > 0
        /\ chunk \in [Thread -> [begin : Nat, end : Nat]]
    BY <1>1 DEF IInv, Counts
  <1>3. made \in Thread
    BY <1>1, <1>2, ThreadNumAssumption DEF IInv, Counts, Thread
  <1>4. Quotient \in Nat /\ Remainder \in Nat
    BY <1>2, DivMod DEF Quotient, Remainder
  <1>5. size = Quotient + IF made < Remainder THEN 1 ELSE 0
    BY DEF ChunkSize, Extra, Quotient, Remainder
  <1>6. size \in Nat
    BY <1>4, <1>5
  <1> HIDE DEF size
  <1>7. Counts'
    <2>1. made' \in Nat /\ cursor' \in Nat /\ made' <= threads
      BY <1>1, <1>2, <1>6
    <2>2. [begin |-> cursor, end |-> cursor + size] \in [begin : Nat, end : Nat]
      BY <1>2, <1>6
    <2>3. chunk' \in [Thread -> [begin : Nat, end : Nat]]
      BY <1>1, <1>2, <2>2
    <2> QED
      BY <1>1, <1>2, <2>1, <2>3 DEF IInv, Counts, Divided
  <1>8. Cursor'
    <2>1. Quotient' = Quotient /\ Remainder' = Remainder
      BY <1>1 DEF Quotient, Remainder
    <2>2. cursor = made * Quotient + Least(made, Remainder)
      BY <1>1 DEF IInv, Cursor
    <2>3. cursor' = (made + 1) * Quotient + Least(made + 1, Remainder)
      <3> DEFINE old == made * Quotient + Least(made, Remainder)
                 new == (made + 1) * Quotient + Least(made + 1, Remainder)
      <3>1. made \in Nat /\ Quotient \in Nat /\ Remainder \in Nat
        BY <1>2, <1>4
      <3>2. new = old + (Quotient + IF made < Remainder THEN 1 ELSE 0)
        BY <3>1, CursorStep
      <3>3. cursor' = cursor + size /\ cursor = old
        BY <1>1, <2>2
      <3> HIDE DEF old, new
      <3>4. cursor' = new
        BY <1>5, <3>2, <3>3
      <3> QED
        BY <3>4 DEF new
    <2> QED
      BY <1>1, <2>1, <2>3 DEF Cursor
  <1>9. Tiles'
    <2>1. /\ chunk'[made].begin = cursor /\ chunk'[made].end = cursor + size
          /\ \A t \in Thread : t < made => chunk'[t] = chunk[t]
      BY <1>1, <1>2, <1>3 DEF Thread
    <2>2. /\ \A t \in Thread : t < made => chunk[t].end <= cursor
          /\ \A i \in Nat : i < cursor =>
                \E t \in Thread : t < made /\ i \in chunk[t].begin .. chunk[t].end - 1
          /\ \A s, t \in Thread, i \in Nat :
                /\ s < made /\ i \in chunk[s].begin .. chunk[s].end - 1
                /\ t < made /\ i \in chunk[t].begin .. chunk[t].end - 1
                => s = t
      BY <1>1 DEF IInv, Tiles
    <2>3. \A t \in Thread : t < made' <=> t < made \/ t = made
      BY <1>1, <1>2, ThreadNumAssumption DEF Thread
    <2>4. \A t \in Thread : chunk[t].begin \in Nat /\ chunk[t].end \in Nat
      BY <1>2
    <2>5. \A t \in Thread : t < made' => chunk'[t].end <= cursor'
      BY <1>1, <1>2, <1>6, <2>1, <2>2, <2>3, <2>4
    <2>6. ASSUME NEW i \in Nat, i < cursor'
          PROVE  \E t \in Thread : t < made' /\ i \in chunk'[t].begin .. chunk'[t].end - 1
      <3>1. CASE i < cursor
        <4>1. PICK t \in Thread : t < made /\ i \in chunk[t].begin .. chunk[t].end - 1
          BY <2>2, <3>1
        <4> QED
          BY <2>1, <2>3, <4>1
      <3>2. CASE i >= cursor
        <4>1. i \in cursor .. cursor + size - 1
          BY <1>1, <1>2, <1>6, <2>6, <3>2
        <4>2. made < made'
          BY <1>1, <1>2
        <4>3. i \in chunk'[made].begin .. chunk'[made].end - 1
          BY <1>2, <1>6, <2>1, <4>1
        <4> QED
          BY <1>3, <4>2, <4>3
      <3> QED
        BY <1>2, <3>1, <3>2
    <2>7. ASSUME NEW s \in Thread, NEW t \in Thread, NEW i \in Nat,
                 s < made', i \in chunk'[s].begin .. chunk'[s].end - 1,
                 t < made', i \in chunk'[t].begin .. chunk'[t].end - 1
          PROVE  s = t
      <3>1. \A u \in Thread : u < made /\ i \in chunk'[u].begin .. chunk'[u].end - 1 => i < cursor
        BY <1>2, <2>1, <2>2, <2>4
      <3>2. \A u \in Thread : u = made /\ i \in chunk'[u].begin .. chunk'[u].end - 1 => i >= cursor
        BY <1>2, <1>6, <2>1
      <3>3. CASE s < made /\ t < made
        BY <2>1, <2>2, <2>7, <3>3
      <3>4. CASE s = made /\ t = made
        BY <3>4
      <3>5. ~(i < cursor /\ i >= cursor)
        BY <1>2
      <3> QED
        BY <2>3, <2>7, <3>1, <3>2, <3>3, <3>4, <3>5
    <2> QED
      BY <2>5, <2>6, <2>7 DEF Tiles
  <1>10. Threads'
    <2>1. pc \in [Thread -> Pcs] /\ \A t \in Thread : pc[t] = IF t < made THEN "made" ELSE "done"
      BY <1>1 DEF IInv, Threads
    <2>2. pc' \in [Thread -> Pcs]
      BY <1>1, <2>1 DEF Pcs
    <2>3. \A t \in Thread : t < made' <=> t < made \/ t = made
      BY <1>1, <1>2, ThreadNumAssumption DEF Thread
    <2>4. \A t \in Thread : pc'[t] = IF t < made' THEN "made" ELSE "done"
      BY <1>1, <1>3, <2>1, <2>3
    <2>5. Divided' => made' = threads'
      BY <1>1 DEF Divided
    <2>6. main' # "join" /\ (Divided' \/ main' = "divide")
      BY <1>1 DEF Divided
    <2>7. \A t \in Thread : pc'[t] # "lost"
      BY <2>4
    <2> QED
      BY <2>2, <2>4, <2>5, <2>6, <2>7 DEF Threads, LostOnlyIfAbandoned
  <1> QED
    BY <1>7, <1>8, <1>9, <1>10 DEF IInv

LEMMA BeginThreadInv ==
    ASSUME IInv, BeginThread
    PROVE  IInv'
  <1>1. PICK t \in ToBegin : /\ pc' = [pc EXCEPT ![t] = "test"]
                             /\ main' = IF ToBegin = {t} THEN "join" ELSE "begin"
    BY DEF BeginThread
  <1>2. main = "begin" /\ UNCHANGED <<input, batch, division>> /\ Divided /\ Divided'
    BY <1>1 DEF BeginThread, Divided
  <1>3. Counts' /\ Cursor' /\ Tiles'
    BY <1>2, DivisionKept DEF Stays
  <1>4. t \in Thread /\ pc \in [Thread -> Pcs] /\ \A s \in Thread : pc[s] # "lost"
    BY <1>1, <1>2 DEF ToBegin, IInv, Threads, LostOnlyIfAbandoned
  <1>5. pc' \in [Thread -> Pcs] /\ pc'[t] = "test" /\ \A s \in Thread : s # t => pc'[s] = pc[s]
    BY <1>1, <1>4 DEF Pcs
  <1>6. main' = "join" => \A s \in Thread : pc'[s] # "made"
    BY <1>1, <1>5 DEF ToBegin
  <1>7. made' = threads'
    BY <1>2 DEF IInv, Threads, batch, division
  <1>8. main' # "divide"
    BY <1>1
  <1>9. LostOnlyIfAbandoned'
    BY <1>4, <1>5 DEF LostOnlyIfAbandoned
  <1>10. Threads'
    BY <1>2, <1>5, <1>6, <1>7, <1>8, <1>9 DEF Threads
  <1> QED
    BY <1>3, <1>10 DEF IInv

LEMMA AbandonInv ==
    ASSUME IInv, Abandon
    PROVE  IInv'
  <1>1. /\ main \in {"begin", "join"} /\ main' = "abandoned" /\ pc' = pc
        /\ UNCHANGED <<input, batch, division>> /\ Divided /\ Divided'
    BY DEF Abandon, Divided
  <1>2. Counts' /\ Cursor' /\ Tiles'
    BY <1>1, DivisionKept DEF Stays
  <1>3. Threads'
    BY <1>1 DEF IInv, Threads, LostOnlyIfAbandoned, batch, division
  <1> QED
    BY <1>2, <1>3 DEF IInv

LEMMA JoinThreadsInv ==
    ASSUME IInv, JoinThreads
    PROVE  IInv'
  <1>1. /\ main = "join" /\ Joined /\ main' \in {"threw", "end", "batch"}
        /\ UNCHANGED <<targetNum, threads, made, cursor, chunk, pc>>
        /\ remain' = remain \/ remain' = remain - targetNum
    BY DEF JoinThreads, division
  <1>2. Divided /\ ~Divided' /\ main' # "divide"
    BY <1>1 DEF Divided
  <1>3. remain' \in Nat
    BY <1>1, <1>2 DEF IInv, Counts
  <1>4. Counts'
    BY <1>1, <1>2, <1>3 DEF IInv, Counts
  <1>5. Cursor' /\ Tiles'
    BY <1>2 DEF Cursor, Tiles
  <1>6. Threads'
    BY <1>1, <1>2 DEF IInv, Threads, LostOnlyIfAbandoned, Joined
  <1> QED
    BY <1>4, <1>5, <1>6 DEF IInv

LEMMA NoMoreWordsInv ==
    ASSUME IInv, NoMoreWords
    PROVE  IInv'
  <1>1. /\ main = "batch" /\ main' = "end"
        /\ UNCHANGED <<remain, targetNum, threads, made, cursor, chunk, pc>>
    BY DEF NoMoreWords, batch, division
  <1>2. ~Divided /\ ~Divided' /\ main # "divide" /\ main' # "divide"
    BY <1>1 DEF Divided
  <1>3. Counts' /\ Cursor' /\ Tiles'
    BY <1>1, <1>2 DEF IInv, Counts, Cursor, Tiles
  <1>4. Threads'
    BY <1>1, <1>2 DEF IInv, Threads, LostOnlyIfAbandoned
  <1> QED
    BY <1>3, <1>4 DEF IInv

LEMMA NextInv == IInv /\ [Next]_vars => IInv'
  <1> SUFFICES ASSUME IInv, [Next]_vars PROVE IInv'
    OBVIOUS
  <1>1. CASE MainStep
    BY <1>1, BeginBatchInv, DivideInv, BeginThreadInv, JoinThreadsInv, NoMoreWordsInv DEF MainStep
  <1>2. CASE \E t \in Thread : ThreadStep(t)
    BY <1>2, ThreadStepInv
  <1>4. CASE Abandon
    BY <1>4, AbandonInv
  <1>3. CASE UNCHANGED vars
    <2>1. UNCHANGED <<input, batch, division, main>> /\ pc' = pc /\ Divided' = Divided
      BY <1>3 DEF vars, Divided
    <2>2. Counts' /\ Cursor' /\ Tiles'
      BY <2>1, DivisionKept DEF Stays
    <2>3. Threads'
      BY <2>1 DEF IInv, Threads, LostOnlyIfAbandoned, batch, division
    <2> QED
      BY <2>2, <2>3 DEF IInv
  <1> QED
    BY <1>1, <1>2, <1>3, <1>4 DEF Next, Returned

\* Once it has divided, the cursor is at the end of the batch.
LEMMA CursorAtEnd ==
    ASSUME IInv, Divided
    PROVE  cursor = targetNum /\ targetNum \in Nat /\ threads \in Nat /\ made = threads
  <1>1. /\ targetNum \in Nat /\ threads \in Nat /\ threads > 0 /\ made = threads
        /\ cursor = made * Quotient + Least(made, Remainder)
    BY DEF IInv, Counts, Threads, Cursor
  <1>2. /\ Quotient \in Nat /\ Remainder \in Nat /\ Remainder < threads
        /\ targetNum = threads * Quotient + Remainder
    BY <1>1, DivMod DEF Quotient, Remainder
  <1> QED
    BY <1>1, <1>2 DEF Least

LEMMA Tiled == IInv => Partition
  <1> SUFFICES ASSUME IInv, main \in {"begin", "join"} PROVE Partition
    BY DEF Partition
  <1>1. Divided
    BY DEF Divided
  <1>2. \A i \in 0 .. targetNum - 1 : i \in Nat /\ i < cursor
    BY <1>1, CursorAtEnd
  <1> QED
    BY <1>1, <1>2, CursorAtEnd DEF IInv, Tiles, Partition

LEMMA Invariant == Spec => []IInv
  BY InitInv, NextInv, PTL DEF Spec

\* parallel_for's chunks tile every batch: each index of it is in exactly one.
THEOREM ChunksTile == Spec => []Partition
  BY Invariant, Tiled, PTL

\* A thread goes on with what the constructor has destroyed only if another one
\* could not be begun or joined: not by a find, an error in a thread or an end.
THEOREM LostOnlyWhereAbandoned == Spec => []LostOnlyIfAbandoned
  <1>1. IInv => LostOnlyIfAbandoned
    BY DEF IInv, Threads
  <1> QED
    BY <1>1, Invariant, PTL
-----------------------------------------------------------------------------
(* The search.  A group of lanes is at an index of the batch that is a      *)
(* multiple of them.                                                        *)

\* The words one call checks, and the indices of a thread that start a group.
GroupAt(i) == (i + offset) .. (i + offset + lanes - 1)
Starts(t, i) == t < threads /\ i \in chunk[t].begin .. chunk[t].end - 1 /\ i % lanes = 0
\* Where a thread is with a group: before its check, or past it.
NotYet(t, i) == at[t] < i \/ (at[t] = i /\ pc[t] \in {"made", "test", "verify"})
Past(t, i) == at[t] > i \/ (at[t] = i /\ pc[t] \in {"store", "announce"})
\* The password was met, once; the dictionary holds it twice.
Hit == \E w \in Words : Recognised(w) /\ checked[w] = 1
Twice == \E v, w \in Words : v # w /\ Matches(v) /\ Matches(w)

\* A batch begins at a multiple of the lanes: sepNum is one.
Sizes ==
    /\ passSet \in Dictionaries /\ password \in Passwords /\ lanes \in LaneCounts
    /\ offset \in Nat /\ offset + remain = Len(passSet)
    /\ main = "divide" \/ Divided => remain > 0 /\ targetNum = Least(remain, SepNum)
    /\ main \in {"batch", "divide"} \/ Divided => (remain > 0 => offset % lanes = 0)

\* A thread checks only what its chunk has, and leaves it unfinished only for a
\* find or an error.
Places ==
    /\ at \in [Thread -> Nat] /\ err \in [Thread -> BOOLEAN] /\ hushed \in BOOLEAN /\ quit \in Nat
    /\ \A t \in Thread : pc[t] \in {"verify", "store", "announce"} => Starts(t, at[t])
    /\ \A t \in Thread : at[t] >= chunk[t].begin
    /\ \A t \in Thread : pc[t] = "made" => at[t] = chunk[t].begin
    /\ Divided =>
         \A t \in Thread :
            /\ pc[t] # "done" => t < threads
            /\ pc[t] = "done" /\ t < threads => at[t] >= chunk[t].end \/ quit > 0 \/ err[t] \/ hushed

\* How often a word was checked follows from where the batch and the threads are.
Marks ==
    /\ checked \in [Words -> Nat]
    /\ main \in {"batch", "divide"} => \A w \in Words : w >= offset => checked[w] = 0
    /\ Divided => \A w \in Words : w >= offset + targetNum => checked[w] = 0
    /\ Divided =>
         \A t \in Thread : \A i \in 0 .. targetNum - 1 : \A w \in Words \cap GroupAt(i) :
             Starts(t, i) =>
                /\ NotYet(t, i) => checked[w] = 0
                /\ Past(t, i) => checked[w] = 1

\* Who writes correctPass has a word that is recognised.
Found ==
    \A t \in Thread : pc[t] \in {"store", "announce"} => \E w \in GroupAt(at[t]) \cap Words : Recognised(w)

\* quit and correctPass speak of a find, and a find is told or about to be.
Told ==
    /\ correctPass \in {NoWord, password, Torn}
    /\ quit > 0 \/ correctPass # NoWord => Hit
    /\ Hit /\ password # NoWord /\ main # "abandoned" =>
          correctPass # NoWord \/ \E t \in Thread : pc[t] = "store"

\* Without a find or an unseen error, nothing behind the batch was left out.
Searched ==
    ~Hit /\ ~hushed =>
        /\ main \in {"batch", "divide"} \/ Divided => \A w \in Words : w < offset => checked[w] = 1
        /\ main = "end" => \A w \in Words : checked[w] = 1

\* Only a duplicate lets two threads write at once.
NoRace == correctPass = Torn => Twice

SearchInv == Sizes /\ Places /\ Marks /\ Found /\ Told /\ Searched /\ NoRace /\ OverreadsOnlyTail
-----------------------------------------------------------------------------
(* Multiples of the number of lanes *)

LEMMA Products ==
    ASSUME NEW p \in Nat, NEW q \in Nat, NEW n \in Nat
    PROVE  /\ p * n \in Nat
           /\ (p + 1) * n = p * n + n
           /\ (p + q) * n = p * n + q * n
           /\ p < q => p * n + n <= q * n
  <1>1. p * n \in Nat /\ (p + 1) * n = p * n + n /\ (p + q) * n = p * n + q * n
    OBVIOUS
  <1>2. ASSUME p < q PROVE (p + 1) * n <= q * n
    <2>1. p + 1 <= q
      BY <1>2
    <2> QED
      BY <2>1
  <1> QED
    BY <1>1, <1>2

LEMMA MultipleFacts ==
    ASSUME NEW n \in Nat, n > 0, NEW a \in Nat
    PROVE  a % n = 0 <=> \E q \in Nat : a = q * n
  <1> DEFINE d == a \div n
             r == a % n
  <1>1. d \in Nat /\ r \in Nat /\ r < n /\ a = n * d + r
    BY DivMod
  <1>2. n * d = d * n
    BY <1>1
  <1> HIDE DEF d, r
  <1>3. a = d * n + r /\ d * n \in Nat
    BY <1>1, <1>2, Products
  <1>4. r = 0 => \E q \in Nat : a = q * n
    <2>1. r = 0 => a = d * n
      BY <1>3
    <2> QED
      BY <1>1, <2>1
  <1>5. ASSUME NEW q \in Nat, a = q * n PROVE r = 0
    <2>1. q * n \in Nat /\ q * n = d * n + r
      BY <1>3, <1>5, Products
    <2>2. ~(d < q)
      BY <1>1, <1>3, <2>1, Products
    <2>3. ~(q < d)
      BY <1>1, <1>3, <2>1, Products
    <2>4. q = d
      BY <1>1, <2>2, <2>3
    <2> QED
      BY <1>1, <1>3, <2>1, <2>4
  <1> QED
    BY <1>4, <1>5 DEF r

LEMMA NextMultiple ==
    ASSUME NEW n \in Nat, n > 0, NEW a \in Nat, NEW b \in Nat, a % n = 0, b % n = 0
    PROVE  a < b => a + n <= b
  <1>1. PICK p \in Nat : a = p * n
    BY MultipleFacts
  <1>2. PICK q \in Nat : b = q * n
    BY MultipleFacts
  <1>3. p < q => a + n <= b
    BY <1>1, <1>2, Products
  <1>4. q < p => b + n <= a
    BY <1>1, <1>2, Products
  <1>5. p = q => a = b
    BY <1>1, <1>2
  <1> QED
    BY <1>3, <1>4, <1>5

LEMMA SumOfMultiples ==
    ASSUME NEW n \in Nat, n > 0, NEW a \in Nat, NEW b \in Nat, a % n = 0, b % n = 0
    PROVE  (a + b) % n = 0
  <1>1. PICK p \in Nat : a = p * n
    BY MultipleFacts
  <1>2. PICK q \in Nat : b = q * n
    BY MultipleFacts
  <1>3. a + b = (p + q) * n /\ p + q \in Nat /\ a + b \in Nat
    BY <1>1, <1>2, Products
  <1> QED
    BY <1>3, MultipleFacts

LEMMA GroupStart ==
    ASSUME NEW n \in Nat, n > 0, NEW a \in Nat
    PROVE  \E g \in Nat : g % n = 0 /\ g <= a /\ a < g + n
  <1> DEFINE d == a \div n
             r == a % n
  <1>1. d \in Nat /\ r \in Nat /\ r < n /\ a = n * d + r
    BY DivMod
  <1>2. n * d = d * n
    BY <1>1
  <1> HIDE DEF d, r
  <1>3. d * n \in Nat /\ d * n <= a /\ a < d * n + n
    BY <1>1, <1>2, Products
  <1>4. (d * n) % n = 0
    BY <1>1, <1>3, MultipleFacts
  <1> QED
    BY <1>3, <1>4
-----------------------------------------------------------------------------
(* A batch that is divided *)

LEMMA Lanes ==
    ASSUME SearchInv
    PROVE  lanes \in Nat /\ lanes > 0 /\ SepNum % lanes = 0
  BY LanesAssumption DEF SearchInv, Sizes

LEMMA WordFacts ==
    ASSUME SearchInv, NEW w \in Words
    PROVE  w \in Nat /\ w < Len(passSet) /\ Len(passSet) \in Nat
  BY DictionariesAssumption DEF SearchInv, Sizes, Words

\* A batch is a multiple of the lanes or the dictionary's last.
LEMMA BatchFacts ==
    ASSUME IInv, SearchInv, Divided
    PROVE  /\ offset \in Nat /\ offset % lanes = 0
           /\ targetNum \in Nat /\ offset + targetNum <= Len(passSet) /\ Len(passSet) \in Nat
           /\ targetNum % lanes = 0 \/ offset + targetNum = Len(passSet)
           /\ \A t \in Thread : t < threads =>
                chunk[t].begin \in Nat /\ chunk[t].end \in Nat /\ chunk[t].end <= targetNum
  <1>1. /\ remain \in Nat /\ chunk \in [Thread -> [begin : Nat, end : Nat]]
    BY DEF IInv, Counts
  <1>2. /\ offset \in Nat /\ offset + remain = Len(passSet) /\ offset % lanes = 0
        /\ targetNum = Least(remain, SepNum)
    BY DEF SearchInv, Sizes
  <1>3. targetNum \in Nat /\ offset + targetNum <= Len(passSet) /\ Len(passSet) \in Nat
    BY <1>1, <1>2, SepNumAssumption DEF Least
  <1>4. targetNum % lanes = 0 \/ offset + targetNum = Len(passSet)
    <2>1. CASE targetNum = SepNum
      BY <2>1, Lanes
    <2>2. CASE targetNum = remain
      BY <1>2, <2>2
    <2> QED
      BY <1>2, <2>1, <2>2 DEF Least
  <1>5. \A t \in Thread : t < threads =>
                chunk[t].begin \in Nat /\ chunk[t].end \in Nat /\ chunk[t].end <= targetNum
    BY <1>1, CursorAtEnd DEF IInv, Tiles
  <1> QED
    BY <1>2, <1>3, <1>4, <1>5

LEMMA StartFacts ==
    ASSUME IInv, SearchInv, Divided, NEW t \in Thread, NEW i, Starts(t, i)
    PROVE  i \in Nat /\ i < targetNum /\ i \in 0 .. targetNum - 1 /\ i % lanes = 0
  BY BatchFacts DEF Starts

\* The words of a group belong to its batch.
LEMMA GroupInBatch ==
    ASSUME IInv, SearchInv, Divided, NEW t \in Thread, NEW i, Starts(t, i),
           NEW w \in Words, w \in GroupAt(i)
    PROVE  w \in Nat /\ offset <= w /\ w < offset + targetNum /\ i + offset <= w /\ w < i + offset + lanes
  <1>1. /\ i \in Nat /\ i < targetNum /\ i % lanes = 0
        /\ w \in Nat /\ w < Len(passSet)
        /\ lanes \in Nat /\ lanes > 0
    BY StartFacts, WordFacts, Lanes
  <1>2. /\ offset \in Nat /\ targetNum \in Nat
        /\ targetNum % lanes = 0 \/ offset + targetNum = Len(passSet)
    BY BatchFacts
  <1>3. i + offset <= w /\ w < i + offset + lanes
    BY <1>1, <1>2 DEF GroupAt
  <1>4. targetNum % lanes = 0 => i + lanes <= targetNum
    BY <1>1, <1>2, NextMultiple
  <1> QED
    BY <1>1, <1>2, <1>3, <1>4

\* A word of the batch is in one group, and the group in one chunk.
LEMMA OneGroup ==
    ASSUME IInv, SearchInv, Divided,
           NEW s \in Thread, NEW i, Starts(s, i), NEW t \in Thread, NEW j, Starts(t, j),
           NEW w \in Words, w \in GroupAt(i), w \in GroupAt(j)
    PROVE  s = t /\ i = j
  <1>1. /\ i \in Nat /\ i % lanes = 0 /\ j \in Nat /\ j % lanes = 0
        /\ lanes \in Nat /\ lanes > 0 /\ offset \in Nat
    BY StartFacts, Lanes, BatchFacts
  <1>2. /\ i + offset <= w /\ w < i + offset + lanes /\ w \in Nat
        /\ j + offset <= w /\ w < j + offset + lanes
    BY GroupInBatch
  <1>3. i < j => i + lanes <= j
    BY <1>1, NextMultiple
  <1>4. j < i => j + lanes <= i
    BY <1>1, NextMultiple
  <1>5. i = j
    BY <1>1, <1>2, <1>3, <1>4
  <1>6. s = t
    BY <1>1, <1>5, CursorAtEnd DEF IInv, Tiles, Starts
  <1> QED
    BY <1>5, <1>6

\* Every word of the batch is in a group of a thread that runs.
LEMMA EveryWordHasGroup ==
    ASSUME IInv, SearchInv, Divided,
           NEW w \in Words, offset <= w, w < offset + targetNum
    PROVE  \E t \in Thread, i \in 0 .. targetNum - 1 : Starts(t, i) /\ w \in GroupAt(i)
  <1>1. /\ lanes \in Nat /\ lanes > 0 /\ offset \in Nat /\ w \in Nat /\ targetNum \in Nat
    BY Lanes, BatchFacts, WordFacts
  <1>2. PICK g \in Nat : g % lanes = 0 /\ g <= w - offset /\ w - offset < g + lanes
    <2>1. w - offset \in Nat
      BY <1>1
    <2> QED
      BY <1>1, <2>1, GroupStart
  <1>3. g < targetNum
    BY <1>1, <1>2
  <1>4. PICK t \in Thread : t < threads /\ g \in chunk[t].begin .. chunk[t].end - 1
    BY <1>3, CursorAtEnd DEF IInv, Tiles
  <1>5. Starts(t, g) /\ g \in 0 .. targetNum - 1
    BY <1>1, <1>2, <1>3, <1>4 DEF Starts
  <1>6. w \in GroupAt(g)
    BY <1>1, <1>2 DEF GroupAt
  <1> QED
    BY <1>5, <1>6
-----------------------------------------------------------------------------
LEMMA InitSearchInv == Init => SearchInv
  <1> SUFFICES ASSUME Init PROVE SearchInv
    OBVIOUS
  <1>1. /\ passSet \in Dictionaries /\ Len(passSet) \in Nat /\ lanes \in Nat /\ lanes > 0
        /\ main = "batch" /\ ~Divided
    BY DictionariesAssumption, LanesAssumption DEF Init, Divided
  <1>2. Sizes
    <2>1. 0 % lanes = 0
      BY <1>1, MultipleFacts, Products
    <2> QED
      BY <1>1, <2>1 DEF Init, Sizes
  <1>3. Places
    <2>1. \A t \in Thread : chunk[t].begin = 0 /\ at[t] = 0 /\ pc[t] = "done"
      BY DEF Init
    <2>2. \A t \in Thread : at[t] >= chunk[t].begin
      BY <2>1
    <2>3. at \in [Thread -> Nat] /\ err \in [Thread -> BOOLEAN] /\ hushed \in BOOLEAN /\ quit \in Nat
      BY DEF Init
    <2>4. \A t \in Thread : pc[t] \notin {"verify", "store", "announce", "made"}
      BY <2>1
    <2> QED
      BY <1>1, <2>2, <2>3, <2>4 DEF Places
  <1>4. Marks
    BY <1>1 DEF Init, Marks
  <1>5. Found
    BY DEF Init, Found
  <1>6. Told /\ Searched /\ NoRace
    <2>1. \A w \in Words : checked[w] = 0 /\ ~(w < offset)
      BY <1>1 DEF Init, Words
    <2>2. ~Hit
      BY <2>1 DEF Hit
    <2> QED
      BY <1>1, <2>1, <2>2, TornAssumption DEF Init, Told, Searched, NoRace
  <1> QED
    BY <1>2, <1>3, <1>4, <1>5, <1>6 DEF Init, SearchInv, OverreadsOnlyTail

\* What a step leaves alone that divides nothing.
LEMMA Kept ==
    ASSUME UNCHANGED <<input, batch, division>>, Stays
    PROVE  /\ Words' = Words /\ Len(passSet') = Len(passSet)
           /\ \A w : Matches(w)' = Matches(w) /\ Recognised(w)' = Recognised(w)
           /\ \A i : GroupAt(i)' = GroupAt(i)
           /\ \A t, i : Starts(t, i)' = Starts(t, i)
           /\ Twice' = Twice
           /\ Sizes => Sizes'
  <1> USE DEF input, batch, division
  <1>1. Words' = Words /\ Len(passSet') = Len(passSet) /\ \A w : Matches(w)' = Matches(w)
    BY DEF Words, Matches
  <1>2. \A w : Recognised(w)' = Recognised(w)
    BY DEF Recognised, Matches
  <1>3. /\ \A i : GroupAt(i)' = GroupAt(i)
        /\ \A t, i : Starts(t, i)' = Starts(t, i)
    BY DEF GroupAt, Starts
  <1>4. Twice' = Twice
    BY <1>1 DEF Twice
  <1>5. Sizes => Sizes'
    BY DEF Sizes, Stays, Divided
  <1> QED
    BY <1>1, <1>2, <1>3, <1>4, <1>5

LEMMA Runs ==
    ASSUME IInv, NEW t \in Thread, pc[t] \notin {"made", "done"}
    PROVE  Divided
  <1>1. main = "divide" => pc[t] = IF t < made THEN "made" ELSE "done"
    BY DEF IInv, Threads
  <1>2. main # "divide"
    BY <1>1
  <1> QED
    BY <1>2 DEF IInv, Threads

LEMMA PcType == IInv => pc \in [Thread -> Pcs]
  BY DEF IInv, Threads

\* A step that checks no word.
LEMMA MarksKept ==
    ASSUME SearchInv, UNCHANGED <<input, batch, division, checked, overread>>, Stays,
           \A t \in Thread : \A i \in 0 .. targetNum - 1 :
                Starts(t, i) => (NotYet(t, i)' => NotYet(t, i)) /\ (Past(t, i)' => Past(t, i))
    PROVE  Marks' /\ OverreadsOnlyTail' /\ Hit' = Hit /\ Sizes'
  <1>1. /\ Words' = Words /\ Len(passSet') = Len(passSet)
        /\ \A w : Recognised(w)' = Recognised(w)
        /\ \A i : GroupAt(i)' = GroupAt(i)
        /\ \A t, i : Starts(t, i)' = Starts(t, i)
        /\ Sizes'
    BY Kept DEF SearchInv
  <1>2. Marks
    BY DEF SearchInv
  <1>3. UNCHANGED <<offset, targetNum, checked, lanes, passSet>>
    BY DEF batch, input
  <1>4. (Divided' => Divided) /\ (main' \in {"batch", "divide"} => main' = main)
    BY DEF Stays, Divided
  <1>5. Divided =>
         \A t \in Thread : \A i \in 0 .. targetNum - 1 : \A w \in Words \cap GroupAt(i) :
             Starts(t, i) =>
                /\ NotYet(t, i)' => checked[w] = 0
                /\ Past(t, i)' => checked[w] = 1
    BY <1>2 DEF Marks
  <1>6. Marks'
    BY <1>1, <1>2, <1>3, <1>4, <1>5 DEF Marks
  <1>7. Hit' = Hit
    BY <1>1, <1>3 DEF Hit
  <1>8. OverreadsOnlyTail'
    BY <1>3 DEF SearchInv, OverreadsOnlyTail
  <1> QED
    BY <1>1, <1>6, <1>7, <1>8

LEMMA TestSearchInv ==
    ASSUME IInv, SearchInv, NEW t \in Thread, Test(t)
    PROVE  SearchInv'
  <1>1. /\ pc[t] = "test" /\ Divided
        /\ UNCHANGED <<input, batch, division, main, checked, overread, err, hushed, quit, correctPass>>
    BY Runs DEF Test, shared
  <1>2. /\ at \in [Thread -> Nat]
        /\ pc \in [Thread -> Pcs]
    BY PcType DEF SearchInv, Places
  <1>3. \/ pc' = [pc EXCEPT ![t] = "done"] /\ at' = at /\ (at[t] >= chunk[t].end \/ quit # 0)
        \/ pc' = [pc EXCEPT ![t] = "verify"] /\ at' = at /\ at[t] % lanes = 0 /\ ~(at[t] >= chunk[t].end)
        \/ pc' = pc /\ at' = [at EXCEPT ![t] = @ + 1] /\ at[t] % lanes # 0
    BY DEF Test, StartsGroup
  <1>4. /\ at' \in [Thread -> Nat]
        /\ pc'[t] \in {"done", "verify", "test"} /\ at'[t] \in {at[t], at[t] + 1}
        /\ at'[t] # at[t] => at[t] % lanes # 0
        /\ \A s \in Thread : s # t => pc'[s] = pc[s] /\ at'[s] = at[s]
    <2>1. CASE at' = at
      BY <1>1, <1>2, <1>3, <2>1
    <2>2. CASE pc' = pc /\ at' = [at EXCEPT ![t] = @ + 1] /\ at[t] % lanes # 0
      BY <1>1, <1>2, <2>2
    <2> QED
      BY <1>3, <2>1, <2>2
  <1>5. \A s \in Thread : \A i \in 0 .. targetNum - 1 :
                Starts(s, i) => (NotYet(s, i)' => NotYet(s, i)) /\ (Past(s, i)' => Past(s, i))
    <2> SUFFICES ASSUME NEW s \in Thread, NEW i \in 0 .. targetNum - 1, Starts(s, i)
                 PROVE  (NotYet(s, i)' => NotYet(s, i)) /\ (Past(s, i)' => Past(s, i))
      OBVIOUS
    <2>1. CASE s # t
      BY <1>4, <2>1 DEF NotYet, Past
    <2>2. CASE s = t
      <3>1. i \in Nat /\ i % lanes = 0 /\ at[t] \in Nat
        BY <1>1, <1>2, StartFacts
      <3> QED
        BY <1>1, <1>4, <2>2, <3>1 DEF NotYet, Past
    <2> QED
      BY <2>1, <2>2
  <1>6. Marks' /\ OverreadsOnlyTail' /\ Hit' = Hit /\ Sizes'
    BY <1>1, <1>5, MarksKept DEF Stays
  <1>7. /\ Words' = Words /\ \A w : Recognised(w)' = Recognised(w)
        /\ \A i : GroupAt(i)' = GroupAt(i)
        /\ \A s, i : Starts(s, i)' = Starts(s, i)
        /\ Twice' = Twice
    BY <1>1, Kept DEF Stays
  <1>8. Places'
    <2>1. /\ chunk \in [Thread -> [begin : Nat, end : Nat]]
          /\ at[t] >= chunk[t].begin /\ t < threads
      BY <1>1 DEF IInv, Counts, SearchInv, Places
    <2>2. pc'[t] = "verify" => Starts(t, at'[t])
      <3>1. pc'[t] = "verify" => at' = at /\ at[t] % lanes = 0 /\ ~(at[t] >= chunk[t].end)
        BY <1>1, <1>2, <1>3
      <3> QED
        BY <1>2, <2>1, <3>1 DEF Starts
    <2>3. at'[t] >= chunk[t].begin
      BY <1>2, <1>4, <2>1
    <2>4. pc'[t] = "done" => at'[t] >= chunk[t].end \/ quit > 0
      BY <1>1, <1>2, <1>3 DEF SearchInv, Places
    <2>5. UNCHANGED <<main, chunk, threads, quit, err, hushed>> /\ Divided' = Divided
      BY <1>1 DEF batch, division, Divided
    <2>6. \A s \in Thread : pc'[s] \in {"verify", "store", "announce"} => Starts(s, at[s])'
      BY <1>4, <1>7, <2>2 DEF SearchInv, Places
    <2>7. \A s \in Thread : pc'[s] = "made" => at'[s] = chunk[s].begin
      BY <1>4 DEF SearchInv, Places
    <2> QED
      BY <1>1, <1>4, <2>1, <2>3, <2>4, <2>5, <2>6, <2>7 DEF SearchInv, Places
  <1>9. Found'
    BY <1>4, <1>7 DEF SearchInv, Found
  <1>10. Told'
    BY <1>1, <1>4, <1>6 DEF SearchInv, Told, input
  <1>11. Searched' /\ NoRace'
    BY <1>1, <1>6, <1>7 DEF SearchInv, Searched, NoRace, batch, Divided
  <1> QED
    BY <1>6, <1>8, <1>9, <1>10, <1>11 DEF SearchInv

LEMMA VerifyThrowsSearchInv ==
    ASSUME IInv, SearchInv, NEW t \in Thread, VerifyThrows(t)
    PROVE  SearchInv'
  <1>1. PICK text \in BOOLEAN : err' = [err EXCEPT ![t] = text] /\ hushed' = (hushed \/ ~text)
    BY Zenon DEF VerifyThrows
  <1>2. /\ pc[t] = "verify" /\ Divided
        /\ UNCHANGED <<input, batch, division, main, checked, overread, at, quit, correctPass>>
        /\ pc' = [pc EXCEPT ![t] = "done"]
    BY Runs DEF VerifyThrows, shared
  <1>3. /\ at \in [Thread -> Nat] /\ err \in [Thread -> BOOLEAN] /\ hushed \in BOOLEAN
        /\ pc \in [Thread -> Pcs]
    BY PcType DEF SearchInv, Places
  <1>4. /\ pc'[t] = "done" /\ err'[t] = text
        /\ \A s \in Thread : s # t => pc'[s] = pc[s] /\ err'[s] = err[s]
    BY <1>1, <1>2, <1>3
  <1>5. err' \in [Thread -> BOOLEAN] /\ hushed' \in BOOLEAN /\ (hushed => hushed') /\ (~err'[t] => hushed')
    BY <1>1, <1>3, <1>4
  <1>6. \A s \in Thread : \A i \in 0 .. targetNum - 1 :
                Starts(s, i) => (NotYet(s, i)' => NotYet(s, i)) /\ (Past(s, i)' => Past(s, i))
    BY <1>2, <1>4 DEF NotYet, Past
  <1>7. Marks' /\ OverreadsOnlyTail' /\ Hit' = Hit /\ Sizes'
    BY <1>2, <1>6, MarksKept DEF Stays
  <1>8. /\ Words' = Words /\ \A w : Recognised(w)' = Recognised(w)
        /\ \A i : GroupAt(i)' = GroupAt(i)
        /\ \A s, i : Starts(s, i)' = Starts(s, i)
        /\ Twice' = Twice
    BY <1>2, Kept DEF Stays
  <1>9. Places'
    <2>1. UNCHANGED <<main, chunk, threads, quit, at>> /\ Divided' = Divided
      BY <1>2 DEF batch, division, Divided
    <2>2. \A s \in Thread : pc'[s] \in {"verify", "store", "announce"} => Starts(s, at[s])'
      BY <1>2, <1>4, <1>8 DEF SearchInv, Places
    <2> QED
      BY <1>2, <1>3, <1>4, <1>5, <2>1, <2>2 DEF SearchInv, Places
  <1>10. Found'
    BY <1>2, <1>4, <1>8 DEF SearchInv, Found
  <1>11. Told'
    BY <1>2, <1>4, <1>7 DEF SearchInv, Told, input
  <1>12. Searched' /\ NoRace'
    BY <1>2, <1>5, <1>7, <1>8 DEF SearchInv, Searched, NoRace, batch, Divided
  <1> QED
    BY <1>7, <1>9, <1>10, <1>11, <1>12 DEF SearchInv

\* A thread that goes on with what is gone.
LEMMA OutliveSearchInv ==
    ASSUME IInv, SearchInv, NEW t \in Thread, Outlive(t)
    PROVE  SearchInv'
  <1>1. /\ pc[t] \in {"test", "verify", "store", "announce"} /\ Divided /\ main = "abandoned"
        /\ UNCHANGED <<input, batch, division, main, checked, overread, at, err, hushed, quit, correctPass>>
        /\ pc' = [pc EXCEPT ![t] = "lost"]
    BY Runs DEF Outlive, shared, TargetLives, Divided
  <1>2. /\ at \in [Thread -> Nat]
        /\ pc \in [Thread -> Pcs]
    BY PcType DEF SearchInv, Places
  <1>3. pc'[t] = "lost" /\ \A s \in Thread : s # t => pc'[s] = pc[s]
    BY <1>1, <1>2
  <1>4. \A s \in Thread : \A i \in 0 .. targetNum - 1 :
                Starts(s, i) => (NotYet(s, i)' => NotYet(s, i)) /\ (Past(s, i)' => Past(s, i))
    BY <1>1, <1>3 DEF NotYet, Past
  <1>5. Marks' /\ OverreadsOnlyTail' /\ Hit' = Hit /\ Sizes'
    BY <1>1, <1>4, MarksKept DEF Stays
  <1>6. /\ Words' = Words /\ \A w : Recognised(w)' = Recognised(w)
        /\ \A i : GroupAt(i)' = GroupAt(i)
        /\ \A s, i : Starts(s, i)' = Starts(s, i)
        /\ Twice' = Twice
    BY <1>1, Kept DEF Stays
  <1>7. Places'
    <2>1. UNCHANGED <<main, chunk, threads, quit, err, hushed>> /\ Divided' = Divided
      BY <1>1 DEF batch, division, Divided
    <2>2. \A s \in Thread : pc'[s] \in {"verify", "store", "announce"} => Starts(s, at[s])'
      BY <1>1, <1>3, <1>6 DEF SearchInv, Places
    <2> QED
      BY <1>1, <1>2, <1>3, <2>1, <2>2 DEF SearchInv, Places
  <1>8. Found'
    BY <1>1, <1>3, <1>6 DEF SearchInv, Found
  <1>9. Told'
    BY <1>1, <1>5 DEF SearchInv, Told, input
  <1>10. Searched' /\ NoRace'
    BY <1>1, <1>5, <1>6 DEF SearchInv, Searched, NoRace, batch, Divided
  <1> QED
    BY <1>5, <1>7, <1>8, <1>9, <1>10 DEF SearchInv

\* A thread that writes correctPass has checked a word that matches.
LEMMA StorerHits ==
    ASSUME IInv, SearchInv, NEW t \in Thread, pc[t] \in {"store", "announce"}
    PROVE  Hit
  <1>1. Divided
    BY Runs
  <1>2. Starts(t, at[t]) /\ at[t] \in 0 .. targetNum - 1
    BY <1>1, StartFacts DEF SearchInv, Places
  <1>3. PICK w \in GroupAt(at[t]) \cap Words : Recognised(w)
    BY DEF SearchInv, Found
  <1>4. checked[w] = 1
    BY <1>1, <1>2, <1>3 DEF SearchInv, Marks, Past
  <1> QED
    BY <1>3, <1>4 DEF Hit

LEMMA TwoStorers ==
    ASSUME IInv, SearchInv, NEW s \in Thread, NEW t \in Thread, s # t, pc[s] = "store", pc[t] = "store"
    PROVE  Twice
  <1>1. Divided
    BY Runs
  <1>2. Starts(s, at[s]) /\ Starts(t, at[t])
    BY DEF SearchInv, Places
  <1>3. PICK v \in GroupAt(at[s]) \cap Words : Recognised(v)
    BY DEF SearchInv, Found
  <1>4. PICK w \in GroupAt(at[t]) \cap Words : Recognised(w)
    BY DEF SearchInv, Found
  <1>5. v # w
    BY <1>1, <1>2, <1>3, <1>4, OneGroup
  <1> QED
    BY <1>3, <1>4, <1>5 DEF Twice, Recognised

LEMMA StoreSearchInv ==
    ASSUME IInv, SearchInv, NEW t \in Thread, Store(t)
    PROVE  SearchInv'
  <1>1. /\ pc[t] = "store" /\ Divided
        /\ UNCHANGED <<input, batch, division, main, checked, overread, at, err, hushed, quit>>
        /\ pc' = [pc EXCEPT ![t] = "announce"]
    BY Runs DEF Store, shared
  <1>2. /\ at \in [Thread -> Nat]
        /\ pc \in [Thread -> Pcs]
    BY PcType DEF SearchInv, Places
  <1>3. pc'[t] = "announce" /\ \A s \in Thread : s # t => pc'[s] = pc[s]
    BY <1>1, <1>2
  <1>4. \A s \in Thread : \A i \in 0 .. targetNum - 1 :
                Starts(s, i) => (NotYet(s, i)' => NotYet(s, i)) /\ (Past(s, i)' => Past(s, i))
    BY <1>1, <1>3 DEF NotYet, Past
  <1>5. Marks' /\ OverreadsOnlyTail' /\ Hit' = Hit /\ Sizes'
    BY <1>1, <1>4, MarksKept DEF Stays
  <1>6. /\ Words' = Words /\ \A w : Recognised(w)' = Recognised(w)
        /\ \A i : GroupAt(i)' = GroupAt(i)
        /\ \A s, i : Starts(s, i)' = Starts(s, i)
        /\ Twice' = Twice
    BY <1>1, Kept DEF Stays
  <1>7. Places'
    <2>1. UNCHANGED <<main, chunk, threads, quit, err, hushed>> /\ Divided' = Divided
      BY <1>1 DEF batch, division, Divided
    <2>2. \A s \in Thread : pc'[s] \in {"verify", "store", "announce"} => Starts(s, at[s])'
      BY <1>1, <1>3, <1>6 DEF SearchInv, Places
    <2> QED
      BY <1>1, <1>2, <1>3, <2>1, <2>2 DEF SearchInv, Places
  <1>8. Found'
    BY <1>1, <1>3, <1>6 DEF SearchInv, Found
  <1>9. correctPass' \in {password, Torn} /\ password' = password /\ password \in Passwords
    BY <1>1 DEF Store, input, SearchInv, Sizes
  <1>10. Told'
    BY <1>1, <1>5, <1>9, StorerHits, TornAssumption DEF Told
  <1>11. NoRace'
    <2> SUFFICES ASSUME correctPass' = Torn PROVE Twice
      BY <1>6 DEF NoRace
    <2>1. CASE correctPass = Torn
      BY <2>1 DEF SearchInv, NoRace
    <2>2. CASE Storing # {t}
      <3>1. t \in Storing
        BY <1>1 DEF Storing
      <3>2. PICK s \in Storing : s # t
        BY <2>2, <3>1
      <3> QED
        BY <1>1, <3>2, TwoStorers DEF Storing
    <2>3. correctPass = Torn \/ Storing # {t}
      BY <1>9, TornAssumption DEF Store
    <2> QED
      BY <2>1, <2>2, <2>3
  <1>12. Searched'
    BY <1>1, <1>5, <1>6 DEF SearchInv, Searched, batch, Divided
  <1> QED
    BY <1>5, <1>7, <1>8, <1>10, <1>11, <1>12 DEF SearchInv

LEMMA AnnounceSearchInv ==
    ASSUME IInv, SearchInv, NEW t \in Thread, Announce(t)
    PROVE  SearchInv'
  <1>1. /\ pc[t] = "announce" /\ Divided
        /\ UNCHANGED <<input, batch, division, main, checked, overread, at, err, hushed, correctPass>>
        /\ pc' = [pc EXCEPT ![t] = "done"] /\ quit' = quit + 1
    BY Runs DEF Announce, shared
  <1>2. /\ at \in [Thread -> Nat] /\ quit \in Nat
        /\ pc \in [Thread -> Pcs]
    BY PcType DEF SearchInv, Places
  <1>3. quit' \in Nat /\ quit' > 0 /\ pc'[t] = "done" /\ \A s \in Thread : s # t => pc'[s] = pc[s]
    BY <1>1, <1>2
  <1>4. \A s \in Thread : \A i \in 0 .. targetNum - 1 :
                Starts(s, i) => (NotYet(s, i)' => NotYet(s, i)) /\ (Past(s, i)' => Past(s, i))
    BY <1>1, <1>3 DEF NotYet, Past
  <1>5. Marks' /\ OverreadsOnlyTail' /\ Hit' = Hit /\ Sizes'
    BY <1>1, <1>4, MarksKept DEF Stays
  <1>6. /\ Words' = Words /\ \A w : Recognised(w)' = Recognised(w)
        /\ \A i : GroupAt(i)' = GroupAt(i)
        /\ \A s, i : Starts(s, i)' = Starts(s, i)
        /\ Twice' = Twice
    BY <1>1, Kept DEF Stays
  <1>7. Places'
    <2>1. UNCHANGED <<main, chunk, threads, err, hushed>> /\ Divided' = Divided
      BY <1>1 DEF batch, division, Divided
    <2>2. \A s \in Thread : pc'[s] \in {"verify", "store", "announce"} => Starts(s, at[s])'
      BY <1>1, <1>3, <1>6 DEF SearchInv, Places
    <2> QED
      BY <1>1, <1>2, <1>3, <2>1, <2>2 DEF SearchInv, Places
  <1>8. Found'
    BY <1>1, <1>3, <1>6 DEF SearchInv, Found
  <1>9. Told'
    BY <1>1, <1>3, <1>5, StorerHits DEF SearchInv, Told, input
  <1>10. Searched' /\ NoRace'
    BY <1>1, <1>5, <1>6 DEF SearchInv, Searched, NoRace, batch, Divided
  <1> QED
    BY <1>5, <1>7, <1>8, <1>9, <1>10 DEF SearchInv

\* A group is checked for the first time, and no other word with it.
LEMMA VerifySearchInv ==
    ASSUME IInv, SearchInv, NEW t \in Thread, Verify(t)
    PROVE  SearchInv'
  <1> DEFINE a == at[t]
             hits == \E w \in GroupAt(a) \cap Words : Recognised(w)
  <1>1. /\ pc[t] = "verify" /\ Divided
        /\ UNCHANGED <<input, batch, division, main, err, hushed, quit, correctPass>>
    BY Runs DEF Verify
  <1>2. /\ at \in [Thread -> Nat] /\ checked \in [Words -> Nat]
        /\ pc \in [Thread -> Pcs]
    BY PcType DEF SearchInv, Places, Marks
  <1>3. /\ checked' = [w \in Words |-> checked[w] + IF w \in GroupAt(a) THEN 1 ELSE 0]
        /\ overread' = (overread \/ ~(GroupAt(a) \subseteq Words))
        /\ hits => pc' = [pc EXCEPT ![t] = "store"] /\ at' = at
        /\ ~hits => pc' = [pc EXCEPT ![t] = "test"] /\ at' = [at EXCEPT ![t] = @ + 1]
    BY DEF Verify, Group, GroupAt
  <1>4. Starts(t, a) /\ a \in Nat /\ a < targetNum /\ a \in 0 .. targetNum - 1 /\ a % lanes = 0
    BY <1>1, StartFacts DEF SearchInv, Places
  <1> HIDE DEF hits
  <1>5. /\ at' \in [Thread -> Nat]
        /\ (hits /\ pc'[t] = "store" /\ at'[t] = a) \/ (~hits /\ pc'[t] = "test" /\ at'[t] = a + 1)
        /\ \A s \in Thread : s # t => pc'[s] = pc[s] /\ at'[s] = at[s]
    <2>1. CASE hits
      BY <1>2, <1>3, <2>1
    <2>2. CASE ~hits
      BY <1>2, <1>3, <1>4, <2>2
    <2> QED
      BY <2>1, <2>2
  <1>6. /\ Words' = Words /\ \A w : Recognised(w)' = Recognised(w)
        /\ \A i : GroupAt(i)' = GroupAt(i)
        /\ \A s, i : Starts(s, i)' = Starts(s, i)
        /\ Twice' = Twice /\ Sizes'
    BY <1>1, Kept DEF SearchInv, Stays
  <1>7. \A w \in Words : w \in GroupAt(a) => checked[w] = 0 /\ checked'[w] = 1
    <2>1. NotYet(t, a)
      BY <1>1 DEF NotYet
    <2>2. \A w \in Words \cap GroupAt(a) : checked[w] = 0
      BY <1>1, <1>4, <2>1 DEF SearchInv, Marks
    <2> QED
      BY <1>2, <1>3, <2>2
  <1>8. checked' \in [Words -> Nat] /\ \A w \in Words : w \notin GroupAt(a) => checked'[w] = checked[w]
    BY <1>2, <1>3
  <1> HIDE DEF a
  <1>9. /\ UNCHANGED <<offset, targetNum, threads, chunk, lanes, passSet, password>>
        /\ Divided' = Divided /\ main \notin {"batch", "divide"}
    BY <1>1 DEF batch, division, input, Divided
  <1>10. Marks'
    <2>1. \A w \in Words : w >= offset + targetNum => checked'[w] = 0
      <3> SUFFICES ASSUME NEW w \in Words, w >= offset + targetNum PROVE checked'[w] = 0
        OBVIOUS
      <3>1. checked[w] = 0
        BY <1>1 DEF SearchInv, Marks
      <3>2. w \notin GroupAt(a)
        <4>1. offset \in Nat /\ targetNum \in Nat /\ w \in Nat
          BY <1>1, BatchFacts, WordFacts
        <4>2. w \in GroupAt(a) => w < offset + targetNum
          BY <1>1, <1>4, GroupInBatch
        <4> QED
          BY <4>1, <4>2
      <3> QED
        BY <1>8, <3>1, <3>2
    <2>2. ASSUME NEW s \in Thread, NEW i \in 0 .. targetNum - 1, NEW w \in Words \cap GroupAt(i), Starts(s, i)
          PROVE  (NotYet(s, i)' => checked'[w] = 0) /\ (Past(s, i)' => checked'[w] = 1)
      <3>1. i \in Nat
        BY <1>1, <2>2, StartFacts
      <3>2. CASE w \in GroupAt(a)
        <4>1. s = t /\ i = a
          BY <1>1, <1>4, <2>2, <3>2, OneGroup
        <4>2. ~NotYet(s, i)'
          BY <1>4, <1>5, <4>1 DEF NotYet
        <4> QED
          BY <1>7, <3>2, <4>2
      <3>3. CASE w \notin GroupAt(a)
        <4>1. i # a
          BY <3>3
        <4>2. (NotYet(s, i)' => NotYet(s, i)) /\ (Past(s, i)' => Past(s, i))
          <5>1. CASE s # t
            BY <1>5, <5>1 DEF NotYet, Past
          <5>2. CASE s = t
            BY <1>4, <1>5, <3>1, <4>1, <5>2 DEF NotYet, Past, a
          <5> QED
            BY <5>1, <5>2
        <4>3. (NotYet(s, i) => checked[w] = 0) /\ (Past(s, i) => checked[w] = 1)
          BY <1>1, <2>2 DEF SearchInv, Marks
        <4> QED
          BY <1>8, <3>3, <4>2, <4>3
      <3> QED
        BY <3>2, <3>3
    <2> QED
      BY <1>1, <1>6, <1>8, <1>9, <2>1, <2>2 DEF Marks
  <1>11. \A w \in Words : checked[w] = 1 => checked'[w] = 1
    BY <1>7, <1>8
  <1>12. Hit => Hit'
    BY <1>6, <1>11 DEF Hit
  <1>13. Hit' => Hit \/ hits
    BY <1>6, <1>8 DEF Hit, hits
  <1>14. Places'
    <2>1. UNCHANGED <<main, chunk, threads, quit, err, hushed>> /\ Divided' = Divided
      BY <1>1, <1>9
    <2>2. \A s \in Thread : pc'[s] \in {"verify", "store", "announce"} => Starts(s, at[s])'
      BY <1>4, <1>5, <1>6 DEF SearchInv, Places
    <2>3. chunk \in [Thread -> [begin : Nat, end : Nat]] /\ a >= chunk[t].begin /\ t < threads
      BY <1>1 DEF IInv, Counts, SearchInv, Places, a
    <2>4. at'[t] >= chunk[t].begin
      BY <1>4, <1>5, <2>3
    <2>5. \A s \in Thread : pc'[s] = "made" => at'[s] = chunk[s].begin
      BY <1>5 DEF SearchInv, Places
    <2> QED
      BY <1>1, <1>5, <2>1, <2>2, <2>3, <2>4, <2>5 DEF SearchInv, Places
  <1>15. Found'
    BY <1>5, <1>6 DEF SearchInv, Found, hits
  <1>16. Told'
    <2>1. hits => \E s \in Thread : pc'[s] = "store"
      BY <1>5
    <2>2. (\E s \in Thread : pc[s] = "store") => \E s \in Thread : pc'[s] = "store"
      BY <1>1, <1>5
    <2> QED
      BY <1>1, <1>9, <1>12, <1>13, <2>1, <2>2 DEF SearchInv, Told
  <1>17. Searched' /\ NoRace'
    BY <1>1, <1>6, <1>9, <1>11, <1>12 DEF SearchInv, Searched, NoRace
  <1>18. OverreadsOnlyTail'
    <2> SUFFICES ASSUME Len(passSet) % lanes = 0, overread' PROVE FALSE
      BY <1>9 DEF OverreadsOnlyTail
    <2>1. ~overread
      BY DEF SearchInv, OverreadsOnlyTail
    <2>2. ~(GroupAt(a) \subseteq Words)
      BY <1>3, <2>1 DEF a
    <2>3. /\ offset \in Nat /\ offset % lanes = 0 /\ offset + targetNum <= Len(passSet)
          /\ Len(passSet) \in Nat /\ targetNum \in Nat /\ lanes \in Nat /\ lanes > 0
      BY <1>1, BatchFacts, Lanes
    <2>4. (a + offset) % lanes = 0 /\ a + offset \in Nat
      <3>1. a + offset \in Nat
        BY <1>4, <2>3
      <3>2. (a + offset) % lanes = 0
        BY <1>4, <2>3, SumOfMultiples, Zenon
      <3> QED
        BY <3>1, <3>2
    <2>5. a + offset < Len(passSet)
      BY <1>4, <2>3
    <2>6. a + offset + lanes <= Len(passSet)
      BY <2>3, <2>4, <2>5, NextMultiple
    <2>7. PICK w \in GroupAt(a) : w \notin Words
      BY <2>2
    <2>8. w \in Nat /\ w < a + offset + lanes
      BY <1>4, <2>3, <2>7 DEF GroupAt
    <2>9. w < Len(passSet)
      BY <2>3, <2>4, <2>6, <2>8
    <2> QED
      BY <2>3, <2>7, <2>8, <2>9 DEF Words
  <1> QED
    BY <1>6, <1>10, <1>14, <1>15, <1>16, <1>17, <1>18 DEF SearchInv

LEMMA ThreadStepSearchInv ==
    ASSUME IInv, SearchInv, NEW t \in Thread, ThreadStep(t)
    PROVE  SearchInv'
  BY TestSearchInv, VerifySearchInv, VerifyThrowsSearchInv, StoreSearchInv, AnnounceSearchInv,
     OutliveSearchInv DEF ThreadStep
-----------------------------------------------------------------------------
(* The constructor's steps *)

\* The constructor before the threads run, and after they have left.
LEMMA Idle ==
    ASSUME IInv, ~Divided
    PROVE  \A t \in Thread : pc[t] \in {"made", "done"} /\ (main # "divide" => pc[t] = "done")
  BY DEF IInv, Threads

LEMMA InputKept ==
    ASSUME UNCHANGED <<input, checked>>
    PROVE  /\ Words' = Words /\ Len(passSet') = Len(passSet)
           /\ \A w : Recognised(w)' = Recognised(w)
           /\ Hit' = Hit /\ Twice' = Twice
  <1>1. Words' = Words /\ Len(passSet') = Len(passSet) /\ \A w : Matches(w)' = Matches(w)
    BY DEF Words, Matches, input
  <1>2. \A w : Recognised(w)' = Recognised(w)
    BY DEF Recognised, Matches, input
  <1> QED
    BY <1>1, <1>2 DEF Hit, Twice

LEMMA BeginBatchSearchInv ==
    ASSUME IInv, SearchInv, BeginBatch
    PROVE  SearchInv'
  <1>1. /\ main = "batch" /\ remain > 0 /\ main' \in {"threw", "divide"} /\ quit' = 0
        /\ targetNum' = Least(remain, SepNum)
        /\ UNCHANGED <<input, offset, remain, chunk, at, pc, hushed, correctPass, checked, overread>>
        /\ err' = [t \in Thread |-> FALSE] /\ ~Divided /\ ~Divided'
    BY DEF BeginBatch, Divided
  <1>2. \A t \in Thread : pc[t] = "done"
    BY <1>1, Idle
  <1>3. /\ Words' = Words /\ Len(passSet') = Len(passSet)
        /\ Hit' = Hit /\ Twice' = Twice
    BY <1>1, InputKept
  <1>4. UNCHANGED <<passSet, password, lanes>>
    BY <1>1 DEF input
  <1>5. Sizes'
    BY <1>1, <1>3, <1>4 DEF SearchInv, Sizes
  <1>6. Places'
    <2>1. err' \in [Thread -> BOOLEAN]
      BY <1>1
    <2> QED
      BY <1>1, <1>2, <2>1 DEF SearchInv, Places
  <1>7. Marks'
    BY <1>1, <1>3 DEF SearchInv, Marks
  <1>8. Found'
    BY <1>1, <1>2 DEF Found
  <1>9. Told' /\ Searched' /\ NoRace' /\ OverreadsOnlyTail'
    BY <1>1, <1>2, <1>3, <1>4 DEF SearchInv, Told, Searched, NoRace, OverreadsOnlyTail
  <1> QED
    BY <1>5, <1>6, <1>7, <1>8, <1>9 DEF SearchInv

\* A thread that is made has checked nothing of its chunk.
LEMMA DivideSearchInv ==
    ASSUME IInv, SearchInv, Divide
    PROVE  SearchInv'
  <1>1. /\ main = "divide" /\ main' = (IF made' = threads THEN "begin" ELSE "divide")
        /\ UNCHANGED <<input, batch, err, hushed, quit, correctPass, checked, overread>>
        /\ chunk' = [chunk EXCEPT ![made] = [begin |-> cursor, end |-> cursor + ChunkSize(made)]]
        /\ at' = [at EXCEPT ![made] = cursor]
    BY DEF Divide, shared, Begin
  <1>2. ~Divided
    BY <1>1 DEF Divided
  <1>3. UNCHANGED <<passSet, password, lanes, offset, remain, targetNum, threads>>
    BY <1>1 DEF input, batch
  <1>4. /\ chunk \in [Thread -> [begin : Nat, end : Nat]] /\ threads \in Nat /\ cursor \in Nat
        /\ targetNum \in Nat /\ at \in [Thread -> Nat]
    BY DEF IInv, Counts, SearchInv, Places
  <1>5. /\ made \in Thread /\ threads' = threads
        /\ chunk' \in [Thread -> [begin : Nat, end : Nat]]
    <2>1. made < threads /\ made \in Nat /\ threads <= ThreadNum
      BY <1>1 DEF IInv, Counts
    <2>2. IInv'
      BY DivideInv
    <2> QED
      BY <1>3, <1>4, <2>1, <2>2, ThreadNumAssumption DEF Thread, IInv, Counts
  <1>6. /\ at' \in [Thread -> Nat] /\ at'[made] = cursor /\ chunk'[made].begin = cursor
        /\ \A t \in Thread : t # made => at'[t] = at[t] /\ chunk'[t] = chunk[t]
    BY <1>1, <1>4, <1>5
  <1>7. \A t \in Thread : pc'[t] = (IF t < made' THEN "made" ELSE "done") /\ pc[t] \in {"made", "done"}
    <2>1. pc \in [Thread -> Pcs] /\ pc' = [pc EXCEPT ![made] = "made"] /\ made' = made + 1 /\ made \in Nat
      BY PcType DEF Divide, IInv, Counts
    <2>2. \A t \in Thread : pc[t] = IF t < made THEN "made" ELSE "done"
      BY <1>1 DEF IInv, Threads
    <2>3. \A t \in Thread : t < made' <=> t < made \/ t = made
      BY <2>1, ThreadNumAssumption DEF Thread
    <2> QED
      BY <1>5, <2>1, <2>2, <2>3
  <1>8. /\ Words' = Words /\ Len(passSet') = Len(passSet)
        /\ Hit' = Hit /\ Twice' = Twice
    BY <1>1, InputKept
  <1>9. \A i : GroupAt(i)' = GroupAt(i)
    BY <1>3 DEF GroupAt
  <1>10. Sizes'
    BY <1>1, <1>3, <1>8 DEF SearchInv, Sizes, Divided
  <1>11. \A t \in Thread : at'[t] >= chunk'[t].begin /\ (pc'[t] = "made" => at'[t] = chunk'[t].begin)
    <2> SUFFICES ASSUME NEW t \in Thread
                 PROVE  at'[t] >= chunk'[t].begin /\ (pc'[t] = "made" => at'[t] = chunk'[t].begin)
      OBVIOUS
    <2>1. CASE t = made
      BY <1>4, <1>6, <2>1
    <2>2. CASE t # made
      <3>1. pc'[t] = "made" => pc[t] = "made"
        BY <1>5, <2>2, PcType DEF Divide
      <3> QED
        BY <1>6, <2>2, <3>1 DEF SearchInv, Places
    <2> QED
      BY <2>1, <2>2
  <1>12. Divided' => \A t \in Thread : pc'[t] = IF t < threads THEN "made" ELSE "done"
    BY <1>1, <1>7 DEF Divided
  <1>13. Places'
    <2>1. \A t \in Thread : pc'[t] \notin {"verify", "store", "announce"}
      BY <1>7
    <2>2. Divided' => \A t \in Thread : /\ pc'[t] # "done" => t < threads'
                                       /\ ~(pc'[t] = "done" /\ t < threads')
      BY <1>3, <1>12
    <2> QED
      BY <1>1, <1>6, <1>11, <2>1, <2>2 DEF SearchInv, Places
  <1>14. Marks'
    <2>1. \A w \in Words : w >= offset => checked[w] = 0
      BY <1>1 DEF SearchInv, Marks
    <2>2. offset \in Nat /\ lanes \in Nat /\ \A w \in Words : w \in Nat
      BY Lanes, WordFacts DEF SearchInv, Sizes
    <2>3. \A w \in Words : w >= offset + targetNum => checked[w] = 0
      BY <1>4, <2>1, <2>2
    <2>4. ASSUME Divided', NEW t \in Thread, NEW i \in 0 .. targetNum - 1, NEW w \in Words \cap GroupAt(i),
                 Starts(t, i)'
          PROVE  checked[w] = 0 /\ ~Past(t, i)'
      <3>1. i \in Nat /\ t < threads /\ i >= chunk'[t].begin /\ chunk'[t].begin \in Nat
        BY <1>3, <1>4, <1>5, <2>4 DEF Starts
      <3>2. w >= offset
        BY <2>2, <2>4, <3>1 DEF GroupAt
      <3>3. pc'[t] = "made" /\ at'[t] = chunk'[t].begin
        BY <1>11, <1>12, <2>4, <3>1
      <3>4. ~Past(t, i)'
        BY <3>1, <3>3 DEF Past
      <3> QED
        BY <2>1, <3>2, <3>4
    <2>5. checked \in [Words -> Nat]
      BY DEF SearchInv, Marks
    <2> QED
      BY <1>1, <1>3, <1>8, <1>9, <2>1, <2>3, <2>4, <2>5 DEF Marks
  <1>15. Found'
    BY <1>7 DEF Found
  <1>16. Told'
    <2>1. \A t \in Thread : pc[t] # "store"
      BY <1>7
    <2> QED
      BY <1>1, <1>3, <1>8, <2>1 DEF SearchInv, Told
  <1>17. Searched'
    BY <1>1, <1>3, <1>8 DEF SearchInv, Searched
  <1>18. NoRace' /\ OverreadsOnlyTail'
    BY <1>1, <1>3, <1>8 DEF SearchInv, NoRace, OverreadsOnlyTail
  <1> QED
    BY <1>10, <1>13, <1>14, <1>15, <1>16, <1>17, <1>18 DEF SearchInv

LEMMA BeginThreadSearchInv ==
    ASSUME IInv, SearchInv, BeginThread
    PROVE  SearchInv'
  <1>1. PICK t \in ToBegin : /\ pc' = [pc EXCEPT ![t] = "test"]
                             /\ main' = IF ToBegin = {t} THEN "join" ELSE "begin"
    BY DEF BeginThread
  <1>2. /\ main = "begin" /\ Divided /\ Divided' /\ main' # "abandoned" /\ main' \notin {"batch", "divide", "end"}
        /\ UNCHANGED <<input, batch, division, at, err, hushed, quit, correctPass, checked, overread>>
    BY <1>1 DEF BeginThread, Divided, shared
  <1>3. t \in Thread /\ pc[t] = "made" /\ pc'[t] = "test" /\ \A s \in Thread : s # t => pc'[s] = pc[s]
    BY <1>1, PcType DEF ToBegin
  <1>4. \A s \in Thread : \A i \in 0 .. targetNum - 1 :
                Starts(s, i) => (NotYet(s, i)' => NotYet(s, i)) /\ (Past(s, i)' => Past(s, i))
    BY <1>2, <1>3 DEF NotYet, Past
  <1>5. Marks' /\ OverreadsOnlyTail' /\ Hit' = Hit /\ Sizes'
    BY <1>2, <1>4, MarksKept DEF Stays
  <1>6. /\ Words' = Words /\ \A w : Recognised(w)' = Recognised(w)
        /\ \A i : GroupAt(i)' = GroupAt(i)
        /\ \A s, i : Starts(s, i)' = Starts(s, i)
        /\ Twice' = Twice
    BY <1>2, Kept DEF Stays
  <1>7. UNCHANGED <<chunk, threads, offset, password>>
    BY <1>2 DEF batch, division, input
  <1>8. Places'
    <2>1. \A s \in Thread : pc'[s] \in {"verify", "store", "announce"} => Starts(s, at[s])'
      BY <1>2, <1>3, <1>6 DEF SearchInv, Places
    <2> QED
      BY <1>2, <1>3, <1>7, <2>1 DEF SearchInv, Places
  <1>9. Found'
    BY <1>2, <1>3, <1>6 DEF SearchInv, Found
  <1>10. Told'
    BY <1>2, <1>3, <1>5, <1>7 DEF SearchInv, Told
  <1>11. Searched' /\ NoRace'
    BY <1>2, <1>5, <1>6, <1>7 DEF SearchInv, Searched, NoRace
  <1> QED
    BY <1>5, <1>8, <1>9, <1>10, <1>11 DEF SearchInv

LEMMA AbandonSearchInv ==
    ASSUME IInv, SearchInv, Abandon
    PROVE  SearchInv'
  <1>1. /\ Divided /\ Divided' /\ main' = "abandoned"
        /\ UNCHANGED <<input, batch, division, at, pc, err, hushed, quit, correctPass, checked, overread>>
    BY DEF Abandon, Divided, shared
  <1>2. \A s \in Thread : \A i \in 0 .. targetNum - 1 :
                Starts(s, i) => (NotYet(s, i)' => NotYet(s, i)) /\ (Past(s, i)' => Past(s, i))
    BY <1>1 DEF NotYet, Past
  <1>3. Marks' /\ OverreadsOnlyTail' /\ Hit' = Hit /\ Sizes'
    BY <1>1, <1>2, MarksKept DEF Stays
  <1>4. /\ Words' = Words /\ \A w : Recognised(w)' = Recognised(w)
        /\ \A i : GroupAt(i)' = GroupAt(i)
        /\ \A s, i : Starts(s, i)' = Starts(s, i)
        /\ Twice' = Twice
    BY <1>1, Kept DEF Stays
  <1>5. UNCHANGED <<chunk, threads, offset, password>>
    BY <1>1 DEF batch, division, input
  <1>6. Places'
    BY <1>1, <1>4, <1>5 DEF SearchInv, Places
  <1>7. Found'
    BY <1>1, <1>4 DEF SearchInv, Found
  <1>8. Told'
    BY <1>1, <1>3, <1>5 DEF SearchInv, Told
  <1>9. Searched' /\ NoRace'
    BY <1>1, <1>3, <1>4, <1>5 DEF SearchInv, Searched, NoRace
  <1> QED
    BY <1>3, <1>6, <1>7, <1>8, <1>9 DEF SearchInv

\* Threads that left without a find or an error have checked the whole batch.
LEMMA BatchSearched ==
    ASSUME IInv, SearchInv, Divided, Joined, ~Failed, ~Hit, ~hushed, NEW w \in Words, w < offset + targetNum
    PROVE  checked[w] = 1
  <1>1. offset \in Nat /\ w \in Nat
    BY BatchFacts, WordFacts
  <1>2. CASE w < offset
    BY <1>2 DEF SearchInv, Searched
  <1>3. CASE offset <= w
    <2>1. PICK t \in Thread, i \in 0 .. targetNum - 1 : Starts(t, i) /\ w \in GroupAt(i)
      BY <1>3, EveryWordHasGroup
    <2>2. pc[t] = "done" /\ ~err[t] /\ t < threads
      BY <2>1 DEF Joined, Failed, Starts
    <2>3. quit = 0
      BY DEF SearchInv, Places, Told
    <2>4. at[t] >= chunk[t].end
      BY <2>2, <2>3 DEF SearchInv, Places
    <2>5. i \in Nat /\ i < chunk[t].end /\ at[t] \in Nat /\ chunk[t].end \in Nat
      BY <2>1, <2>2, StartFacts, BatchFacts DEF Starts, SearchInv, Places
    <2>6. Past(t, i)
      BY <2>4, <2>5 DEF Past
    <2> QED
      BY <2>1, <2>6 DEF SearchInv, Marks
  <1> QED
    BY <1>1, <1>2, <1>3

LEMMA JoinThreadsSearchInv ==
    ASSUME IInv, SearchInv, JoinThreads
    PROVE  SearchInv'
  <1>1. /\ main = "join" /\ Divided /\ Joined
        /\ UNCHANGED <<input, targetNum, threads, division, at, pc, err, hushed, quit, correctPass, checked, overread>>
    BY DEF JoinThreads, shared, Divided
  <1>2. \/ main' = "threw" /\ UNCHANGED <<offset, remain>>
        \/ main' = "end" /\ ~Failed /\ Stops /\ UNCHANGED <<offset, remain>>
        \/ main' = "batch" /\ ~Failed /\ ~Stops /\ offset' = offset + targetNum /\ remain' = remain - targetNum
    BY DEF JoinThreads, AdvanceTo
  <1>13. ~Divided' /\ main' # "divide" /\ UNCHANGED chunk
    BY <1>1, <1>2 DEF Divided, division
  <1>3. UNCHANGED <<passSet, password, lanes>>
    BY <1>1 DEF input
  <1>4. /\ Words' = Words /\ Len(passSet') = Len(passSet)
        /\ Hit' = Hit /\ Twice' = Twice
    BY <1>1, InputKept
  <1>5. /\ offset \in Nat /\ offset % lanes = 0 /\ remain \in Nat /\ remain > 0 /\ targetNum \in Nat
        /\ offset + remain = Len(passSet) /\ targetNum = Least(remain, SepNum) /\ targetNum <= remain
    BY <1>1, BatchFacts DEF IInv, Counts, SearchInv, Sizes
  <1>6. Sizes'
    <2>1. CASE main' = "batch"
      <3>1. offset' = offset + targetNum /\ remain' = remain - targetNum
        BY <1>2, <2>1
      <3>2. offset' \in Nat /\ offset' + remain' = Len(passSet)
        BY <1>5, <3>1, SMTT(30)
      <3>3. remain' > 0 => offset' % lanes = 0
        <4>1. remain' > 0 => targetNum = SepNum
          BY <1>5, <3>1, SepNumAssumption DEF Least
        <4>2. targetNum % lanes = 0 => (offset + targetNum) % lanes = 0
          BY <1>5, Lanes, SumOfMultiples
        <4> QED
          BY <3>1, <4>1, <4>2, Lanes
      <3> QED
        BY <1>3, <1>13, <2>1, <3>2, <3>3 DEF SearchInv, Sizes
    <2>2. CASE main' # "batch"
      BY <1>2, <1>3, <1>13, <2>2 DEF SearchInv, Sizes
    <2> QED
      BY <2>1, <2>2
  <1>7. Places'
    BY <1>1, <1>13 DEF SearchInv, Places, Joined
  <1>8. Marks'
    BY <1>1, <1>2, <1>4, <1>13 DEF SearchInv, Marks
  <1>9. Found'
    BY <1>1 DEF Found, Joined
  <1>10. Told'
    BY <1>1, <1>2, <1>3, <1>4 DEF SearchInv, Told
  <1>11. Searched'
    <2>1. CASE main' = "batch"
      BY <1>1, <1>2, <1>4, <1>13, <2>1, BatchSearched DEF Searched
    <2>2. CASE main' = "end"
      BY <1>2, <1>4, <1>13, <2>2 DEF SearchInv, Told, Searched, Stops
    <2> QED
      BY <1>2, <1>13, <2>1, <2>2 DEF Searched
  <1>12. NoRace' /\ OverreadsOnlyTail'
    BY <1>1, <1>3, <1>4 DEF SearchInv, NoRace, OverreadsOnlyTail
  <1> QED
    BY <1>6, <1>7, <1>8, <1>9, <1>10, <1>11, <1>12 DEF SearchInv

LEMMA NoMoreWordsSearchInv ==
    ASSUME IInv, SearchInv, NoMoreWords
    PROVE  SearchInv'
  <1>1. /\ main = "batch" /\ remain = 0 /\ main' = "end"
        /\ UNCHANGED <<input, batch, division, at, pc, err, hushed, quit, correctPass, checked, overread>>
        /\ ~Divided /\ ~Divided'
    BY DEF NoMoreWords, shared, Divided
  <1>2. UNCHANGED <<passSet, password, lanes, offset, remain, targetNum, threads, chunk>>
    BY <1>1 DEF input, batch, division
  <1>3. /\ Words' = Words /\ Len(passSet') = Len(passSet)
        /\ Hit' = Hit /\ Twice' = Twice
    BY <1>1, InputKept
  <1>4. \A t \in Thread : pc[t] = "done"
    BY <1>1, Idle
  <1>5. Sizes' /\ Places' /\ Marks'
    BY <1>1, <1>2, <1>3, <1>4 DEF SearchInv, Sizes, Places, Marks
  <1>6. Found' /\ Told' /\ NoRace' /\ OverreadsOnlyTail'
    BY <1>1, <1>2, <1>3, <1>4 DEF SearchInv, Found, Told, NoRace, OverreadsOnlyTail
  <1>7. Searched'
    <2>1. \A w \in Words : w < offset
      BY <1>1, WordFacts DEF SearchInv, Sizes
    <2> QED
      BY <1>1, <1>3, <2>1 DEF SearchInv, Searched
  <1> QED
    BY <1>5, <1>6, <1>7 DEF SearchInv

LEMMA StutterSearchInv ==
    ASSUME IInv, SearchInv, UNCHANGED vars
    PROVE  SearchInv'
  <1>1. /\ UNCHANGED <<input, batch, division, main, at, pc, err, hushed, quit, correctPass, checked, overread>>
        /\ Divided' = Divided
    BY DEF vars, shared, Divided
  <1>2. \A s \in Thread : \A i \in 0 .. targetNum - 1 :
                Starts(s, i) => (NotYet(s, i)' => NotYet(s, i)) /\ (Past(s, i)' => Past(s, i))
    BY <1>1 DEF NotYet, Past
  <1>3. Marks' /\ OverreadsOnlyTail' /\ Hit' = Hit /\ Sizes'
    BY <1>1, <1>2, MarksKept DEF Stays
  <1>4. /\ Words' = Words /\ \A w : Recognised(w)' = Recognised(w)
        /\ \A i : GroupAt(i)' = GroupAt(i)
        /\ \A s, i : Starts(s, i)' = Starts(s, i)
        /\ Twice' = Twice
    BY <1>1, Kept DEF Stays
  <1>5. Places'
    BY <1>1, <1>4 DEF SearchInv, Places, batch, division
  <1>6. Found'
    BY <1>1, <1>4 DEF SearchInv, Found
  <1>7. Told' /\ Searched' /\ NoRace'
    BY <1>1, <1>3, <1>4 DEF SearchInv, Told, Searched, NoRace, input, batch
  <1> QED
    BY <1>3, <1>5, <1>6, <1>7 DEF SearchInv

LEMMA NextSearchInv == IInv /\ SearchInv /\ [Next]_vars => SearchInv'
  <1> SUFFICES ASSUME IInv, SearchInv, [Next]_vars PROVE SearchInv'
    OBVIOUS
  <1>1. CASE MainStep
    BY <1>1, BeginBatchSearchInv, DivideSearchInv, BeginThreadSearchInv, JoinThreadsSearchInv,
       NoMoreWordsSearchInv DEF MainStep
  <1>2. CASE \E t \in Thread : ThreadStep(t)
    BY <1>2, ThreadStepSearchInv
  <1>4. CASE Abandon
    BY <1>4, AbandonSearchInv
  <1>3. CASE UNCHANGED vars
    BY <1>3, StutterSearchInv
  <1> QED
    BY <1>1, <1>2, <1>3, <1>4 DEF Next, Returned

LEMMA SearchInvariant == Spec => []SearchInv
  BY Invariant, InitSearchInv, NextSearchInv, PTL DEF Spec
-----------------------------------------------------------------------------
\* attack.hpp's search by any number of threads, lanes and batches: what it says is
\* in the dictionary, and an end without an unseen error is conclusive as far as the
\* build hashes with the file's own hash.
THEOREM SearchIsConclusive == Spec => []EndIsConclusive
  <1>1. IInv /\ SearchInv => EndIsConclusive
    <2> SUFFICES ASSUME IInv, SearchInv, main = "end"
                 PROVE  /\ correctPass \notin {NoWord, Torn} => InDictionary
                        /\ ~hushed =>
                              /\ IF InDictionary /\ hashing = "own"
                                 THEN \E w \in Words : Matches(w) /\ checked[w] = 1
                                 ELSE \A w \in Words : checked[w] = 1
                              /\ correctPass # Torn =>
                                    (correctPass # NoWord <=> password # NoWord /\ hashing = "own" /\ InDictionary)
      BY DEF EndIsConclusive
    <2>1. ~hushed => Hit \/ \A w \in Words : checked[w] = 1
      BY DEF SearchInv, Searched
    <2>2. ~hushed /\ hashing = "own" /\ InDictionary => Hit
      BY <2>1 DEF Hit, InDictionary, Recognised
    <2>3. Hit => hashing = "own" /\ \E w \in Words : Matches(w) /\ checked[w] = 1
      BY DEF Hit, Recognised
    <2>4. Hit => InDictionary
      BY <2>3 DEF InDictionary
    <2>5. \A t \in Thread : pc[t] # "store"
      BY Idle DEF Divided
    <2>6. correctPass # NoWord => Hit
      BY DEF SearchInv, Told
    <2>7. Hit /\ password # NoWord => correctPass # NoWord
      BY <2>5 DEF SearchInv, Told
    <2>8. correctPass \notin {Torn, NoWord} => password # NoWord
      BY DEF SearchInv, Told
    <2> QED
      BY <2>1, <2>2, <2>3, <2>4, <2>6, <2>7, <2>8
  <1> QED
    BY <1>1, Invariant, SearchInvariant, PTL

\* Two threads are never inside the assignment to correctPass at once unless
\* the dictionary has the password twice.
THEOREM OnlyDuplicatesRace == Spec => []RaceNeedsDuplicate
  <1>1. IInv /\ SearchInv => RaceNeedsDuplicate
    <2> SUFFICES ASSUME IInv, SearchInv, Cardinality(Storing) > 1 \/ correctPass = Torn
                 PROVE  Twice
      BY DEF RaceNeedsDuplicate, Twice
    <2>1. CASE correctPass = Torn
      BY <2>1 DEF SearchInv, NoRace
    <2>2. CASE Cardinality(Storing) > 1
      <3>1. PICK s, t \in Storing : s # t
        <4>1. Storing # {}
          BY <2>2, FS_EmptySet
        <4>2. PICK s \in Storing : TRUE
          BY <4>1
        <4>3. Storing # {s}
          BY <2>2, FS_Singleton
        <4> QED
          BY <4>2, <4>3
      <3> QED
        BY <3>1, TwoStorers DEF Storing
    <2> QED
      BY <2>1, <2>2
  <1> QED
    BY <1>1, Invariant, SearchInvariant, PTL

\* A group of lanes reaches past the dictionary only if the dictionary is not
\* a multiple of them.
THEOREM OverreadIsTail == Spec => []OverreadsOnlyTail
  <1>1. SearchInv => OverreadsOnlyTail
    BY DEF SearchInv
  <1> QED
    BY <1>1, SearchInvariant, PTL
=============================================================================
