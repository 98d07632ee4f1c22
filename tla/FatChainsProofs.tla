--------------------------- MODULE FatChainsProofs --------------------------
(***************************************************************************)
(* makeChains on every table of every size: the chains are paths of the    *)
(* table, a table is refused only for a bad word, no walk is longer than   *)
(* the table by more than two sectors, and of a well-formed table a chain  *)
(* is complete unless it links back.                                       *)
(*                                                                         *)
(* The inductive invariant adds to these what the destroyed table and the  *)
(* walk in progress have to do with the table as it was read: a word is    *)
(* either as it was or consumed (Freed); the word to follow is the one of  *)
(* the chain's last sector, or consumed (Walking); and every sector a walk *)
(* has entered is consumed, so it enters a sector twice only to stop there *)
(* (Entered).                                                              *)
(***************************************************************************)
EXTENDS FatChains, FiniteSetTheorems, SequenceTheorems, WellFoundedInduction, TLAPS

Freed == \A s \in Sectors : fatIdx[s] \in {fat[s], FREESECT}

Walking ==
    pc = "walk" =>
        /\ i \in Sectors
        /\ chains[i] # <<>>
        /\ v \in {fat[chains[i][Len(chains[i])]], FREESECT}

Entered ==
    pc = "walk" =>
        /\ \A x \in 2 .. Len(chains[i]) : fatIdx[chains[i][x]] = FREESECT
        /\ v # FREESECT =>
              \A x, y \in 2 .. Len(chains[i]) : x # y => chains[i][x] # chains[i][y]

IInv ==
    /\ TypeOK
    /\ Freed
    /\ Walking
    /\ Entered
    /\ ChainsFollowFat
    /\ WalksBounded
    /\ RefusesOnlyBadIdx

-----------------------------------------------------------------------------
(* Pigeonhole: distinct sectors at the places 2 .. L leave L <= N + 1. *)
LEMMA DistinctPlaces ==
    ASSUME NEW N \in Nat, NEW L \in Nat, NEW c,
           \A x \in 2 .. L : c[x] \in 0 .. N - 1,
           \A x, y \in 2 .. L : x # y => c[x] # c[y]
    PROVE  L <= N + 1
  <1> DEFINE f == [x \in 2 .. L |-> c[x]]
  <1>1. f \in Injection(2 .. L, 0 .. N - 1)
    BY DEF Injection, IsInjective
  <1>2. /\ IsFiniteSet(2 .. L) /\ IsFiniteSet(0 .. N - 1)
        /\ Cardinality(0 .. N - 1) = N
        /\ Cardinality(2 .. L) = IF 2 > L THEN 0 ELSE L - 2 + 1
    BY FS_Interval
  <1>3. Cardinality(2 .. L) <= Cardinality(0 .. N - 1)
    BY <1>1, <1>2, FS_Injection
  <1> QED
    BY <1>2, <1>3

LEMMA InitIInv == Init => IInv
  <1> SUFFICES ASSUME Init PROVE IInv
    OBVIOUS
  <1> USE NumSectorsAssumption, FatsAssumption DEF Init
  <1>1. fat \in [Sectors -> Int] /\ fatIdx = fat
    OBVIOUS
  <1>2. TypeOK
    BY <1>1 DEF TypeOK, ENDOFCHAIN
  <1>3. Freed
    BY <1>1 DEF Freed
  <1>4. Walking /\ Entered /\ RefusesOnlyBadIdx
    BY DEF Walking, Entered, RefusesOnlyBadIdx
  <1>5. ChainsFollowFat /\ WalksBounded
    BY DEF ChainsFollowFat, WalksBounded
  <1> QED
    BY <1>2, <1>3, <1>4, <1>5 DEF IInv

LEMMA SkipIInv == IInv /\ Skip => IInv'
  <1> SUFFICES ASSUME IInv, Skip PROVE IInv'
    OBVIOUS
  <1>1. TypeOK'
    BY NumSectorsAssumption DEF IInv, TypeOK, Skip
  <1>2. Freed' /\ Walking' /\ Entered'
    BY DEF IInv, Freed, Walking, Entered, Skip
  <1>3. ChainsFollowFat' /\ WalksBounded' /\ RefusesOnlyBadIdx'
    BY DEF IInv, ChainsFollowFat, WalksBounded, RefusesOnlyBadIdx, Skip
  <1> QED
    BY <1>1, <1>2, <1>3 DEF IInv

LEMMA StartChainIInv == IInv /\ StartChain => IInv'
  <1> SUFFICES ASSUME IInv, StartChain PROVE IInv'
    OBVIOUS
  <1> USE NumSectorsAssumption
  <1>1. /\ i \in Sectors
        /\ chains \in [Sectors -> Seq(Sectors)]
        /\ chains' = [chains EXCEPT ![i] = <<i>>]
        /\ fatIdx[i] \in Int
        /\ v' = fatIdx[i] /\ pc' = "walk"
        /\ UNCHANGED <<fat, fatIdx, i>>
    BY DEF IInv, TypeOK, StartChain, Sectors
  <1>2. chains'[i] = <<i>> /\ \A s \in Sectors : s # i => chains'[s] = chains[s]
    BY <1>1
  <1>3. TypeOK'
    BY <1>1 DEF IInv, TypeOK
  <1>4. Freed' /\ RefusesOnlyBadIdx'
    BY <1>1 DEF IInv, Freed, RefusesOnlyBadIdx
  <1>5. Walking'
    BY <1>1, <1>2 DEF IInv, Freed, Walking
  <1>6. Entered'
    BY <1>1, <1>2 DEF Entered
  <1>7. ChainsFollowFat'
    BY <1>1, <1>2 DEF IInv, ChainsFollowFat
  <1>8. WalksBounded'
    BY <1>1, <1>2 DEF IInv, WalksBounded
  <1> QED
    BY <1>3, <1>4, <1>5, <1>6, <1>7, <1>8 DEF IInv

LEMMA EndChainIInv == IInv /\ EndChain => IInv'
  <1> SUFFICES ASSUME IInv, EndChain PROVE IInv'
    OBVIOUS
  <1>1. i + 1 \in 0 .. NumSectors
    BY NumSectorsAssumption DEF IInv, Walking, EndChain, Sectors
  <1>2. TypeOK'
    BY <1>1 DEF IInv, TypeOK, EndChain
  <1>3. Freed' /\ Walking' /\ Entered'
    BY DEF IInv, Freed, Walking, Entered, EndChain
  <1>4. ChainsFollowFat' /\ WalksBounded' /\ RefusesOnlyBadIdx'
    BY DEF IInv, ChainsFollowFat, WalksBounded, RefusesOnlyBadIdx, EndChain
  <1> QED
    BY <1>2, <1>3, <1>4 DEF IInv

LEMMA BadIdxIInv == IInv /\ BadIdx => IInv'
  <1> SUFFICES ASSUME IInv, BadIdx PROVE IInv'
    OBVIOUS
  <1>1. TypeOK'
    BY DEF IInv, TypeOK, BadIdx
  <1>2. Freed' /\ Walking' /\ Entered'
    BY DEF IInv, Freed, Walking, Entered, BadIdx
  <1>3. ChainsFollowFat' /\ WalksBounded'
    BY DEF IInv, ChainsFollowFat, WalksBounded, BadIdx
  <1>4. RefusesOnlyBadIdx'
    <2> DEFINE last == chains[i][Len(chains[i])]
    <2>1. i \in Sectors /\ chains[i] # <<>> /\ v = fat[last]
      BY DEF IInv, Walking, BadIdx, EndsChain
    <2>2. last \in Sectors
      BY <2>1 DEF IInv, TypeOK
    <2>3. v \notin Sectors \cup {ENDOFCHAIN, FREESECT}
      BY NumSectorsAssumption DEF BadIdx, EndsChain, OutOfRange, Sectors, IInv, TypeOK
    <2> QED
      BY <2>1, <2>2, <2>3 DEF RefusesOnlyBadIdx, BadIdx
  <1> QED
    BY <1>1, <1>2, <1>3, <1>4 DEF IInv

LEMMA FollowIInv == IInv /\ Follow => IInv'
  <1> SUFFICES ASSUME IInv, Follow PROVE IInv'
    OBVIOUS
  <1> USE NumSectorsAssumption
  <1> DEFINE c == chains[i]
             L == Len(c)
  <1>1. /\ i \in Sectors /\ v \in Sectors /\ v # FREESECT
        /\ c \in Seq(Sectors) /\ c # <<>> /\ L \in Nat /\ L >= 1
        /\ v = fat[c[L]]
        /\ fatIdx \in [Sectors -> Int]
    <2>1. i \in Sectors /\ c # <<>> /\ v = fat[c[L]]
      BY DEF IInv, Walking, Follow, EndsChain
    <2>2. v \in Sectors /\ v # FREESECT
      BY DEF IInv, TypeOK, Follow, EndsChain, OutOfRange, Sectors
    <2>3. c \in Seq(Sectors) /\ fatIdx \in [Sectors -> Int]
      BY <2>1 DEF IInv, TypeOK
    <2>4. L \in Nat /\ L >= 1
      BY <2>1, <2>3
    <2> QED
      BY <2>1, <2>2, <2>3, <2>4
  <1>2. /\ chains'[i] = Append(c, v)
        /\ \A s \in Sectors : s # i => chains'[s] = chains[s]
        /\ Len(Append(c, v)) = L + 1
        /\ \A x \in 1 .. L : Append(c, v)[x] = c[x]
        /\ Append(c, v)[L + 1] = v
        /\ Append(c, v) \in Seq(Sectors)
    BY <1>1 DEF IInv, TypeOK, Follow
  <1>3. /\ fatIdx' = [fatIdx EXCEPT ![v] = FREESECT]
        /\ v' = fatIdx[v]
        /\ UNCHANGED <<fat, i, pc>>
        /\ pc = "walk"
    BY DEF Follow, Consume, WordAfter
  <1>4. TypeOK'
    <2>1. fatIdx' \in [Sectors -> Int] /\ v' \in Int
      BY <1>1, <1>3 DEF FREESECT
    <2>2. chains' \in [Sectors -> Seq(Sectors)]
      BY <1>1, <1>2 DEF IInv, TypeOK, Follow
    <2> QED
      BY <1>3, <2>1, <2>2 DEF IInv, TypeOK
  <1>5. Freed'
    BY <1>1, <1>3 DEF IInv, Freed
  <1>6. Walking'
    BY <1>1, <1>2, <1>3 DEF IInv, Freed, Walking
  <1>7. /\ \A x \in 2 .. L : fatIdx[c[x]] = FREESECT /\ c[x] \in Sectors
        /\ \A x, y \in 2 .. L : x # y => c[x] # c[y]
    <2>1. /\ \A x \in 2 .. L : fatIdx[c[x]] = FREESECT
          /\ \A x, y \in 2 .. L : x # y => c[x] # c[y]
      BY <1>1, <1>3 DEF IInv, Entered
    <2>2. \A x \in 2 .. L : x \in 1 .. L /\ c[x] \in Sectors
      BY <1>1
    <2> QED
      BY <2>1, <2>2
  <1>8. Entered'
    <2>1. \A x \in 2 .. L + 1 : fatIdx'[chains'[i][x]] = FREESECT
      <3> SUFFICES ASSUME NEW x \in 2 .. L + 1
                   PROVE  fatIdx'[chains'[i][x]] = FREESECT
        OBVIOUS
      <3>1. CASE x = L + 1
        BY <1>1, <1>2, <1>3, <3>1
      <3>2. CASE x \in 2 .. L
        BY <1>1, <1>2, <1>3, <1>7, <3>2
      <3> QED
        BY <1>1, <3>1, <3>2, SMTT(30)
    <2>2. ASSUME v' # FREESECT
          PROVE  \A x, y \in 2 .. L + 1 : x # y => chains'[i][x] # chains'[i][y]
      <3>1. \A x \in 2 .. L : c[x] # v
        BY <1>3, <1>7, <2>2
      <3> SUFFICES ASSUME NEW x \in 2 .. L + 1, NEW y \in 2 .. L + 1, x # y
                   PROVE  chains'[i][x] # chains'[i][y]
        OBVIOUS
      <3>2. CASE x \in 2 .. L /\ y \in 2 .. L
        BY <1>1, <1>2, <1>7, <3>2
      <3>3. CASE x = L + 1 /\ y \in 2 .. L
        BY <1>1, <1>2, <3>1, <3>3
      <3>4. CASE x \in 2 .. L /\ y = L + 1
        BY <1>1, <1>2, <3>1, <3>4
      <3>5. (x \in 2 .. L \/ x = L + 1) /\ (y \in 2 .. L \/ y = L + 1)
        BY <1>1, SMTT(30)
      <3> QED
        BY <3>2, <3>3, <3>4, <3>5
    <2>3. Len(chains'[i]) = L + 1 /\ i' = i
      BY <1>2, <1>3
    <2> QED
      BY <2>1, <2>2, <2>3 DEF Entered
  <1>9. ChainsFollowFat'
    <2> SUFFICES ASSUME NEW s \in Sectors
                 PROVE  /\ chains'[s] # <<>> => chains'[s][1] = s
                        /\ \A x \in 1 .. Len(chains'[s]) - 1 :
                              chains'[s][x + 1] = fat[chains'[s][x]]
      BY <1>3 DEF ChainsFollowFat
    <2>1. CASE s # i
      BY <1>2, <2>1 DEF IInv, ChainsFollowFat
    <2>2. CASE s = i
      <3>1. chains'[i][1] = i
        BY <1>1, <1>2 DEF IInv, ChainsFollowFat
      <3>2. ASSUME NEW x \in 1 .. L
            PROVE  chains'[i][x + 1] = fat[chains'[i][x]]
        <4>1. CASE x = L
          BY <1>1, <1>2, <4>1
        <4>2. CASE x \in 1 .. L - 1
          BY <1>1, <1>2, <4>2 DEF IInv, ChainsFollowFat
        <4> QED
          BY <1>1, <4>1, <4>2
      <3>3. Len(chains'[i]) - 1 = L
        BY <1>1, <1>2
      <3> QED
        BY <2>2, <3>1, <3>2, <3>3
    <2> QED
      BY <2>1, <2>2
  <1>10. WalksBounded'
    <2> HIDE DEF c, L
    <2>1. \A x \in 2 .. L : c[x] \in 0 .. NumSectors - 1
      BY <1>7 DEF Sectors
    <2>2. NumSectors \in Nat
      OBVIOUS
    <2>3. L <= NumSectors + 1
      BY <1>1, <1>7, <2>1, <2>2, DistinctPlaces
    <2>4. Len(chains'[i]) <= NumSectors + 2
      BY <1>1, <1>2, <2>2, <2>3
    <2>5. \A s \in Sectors : s # i => Len(chains'[s]) <= NumSectors + 2
      BY <1>2 DEF IInv, WalksBounded
    <2> QED
      BY <2>4, <2>5 DEF WalksBounded
  <1>11. RefusesOnlyBadIdx'
    BY <1>3 DEF RefusesOnlyBadIdx
  <1> QED
    BY <1>4, <1>5, <1>6, <1>8, <1>9, <1>10, <1>11 DEF IInv

LEMMA FinishIInv == IInv /\ Finish => IInv'
  <1> SUFFICES ASSUME IInv, Finish PROVE IInv'
    OBVIOUS
  <1>1. TypeOK'
    BY DEF IInv, TypeOK, Finish
  <1>2. Freed' /\ Walking' /\ Entered'
    BY DEF IInv, Freed, Walking, Entered, Finish
  <1>3. ChainsFollowFat' /\ WalksBounded' /\ RefusesOnlyBadIdx'
    BY DEF IInv, ChainsFollowFat, WalksBounded, RefusesOnlyBadIdx, Finish
  <1> QED
    BY <1>1, <1>2, <1>3 DEF IInv

LEMMA StutterIInv == IInv /\ UNCHANGED vars => IInv'
  <1> SUFFICES ASSUME IInv, UNCHANGED vars PROVE IInv'
    OBVIOUS
  <1> USE DEF vars, IInv
  <1>1. TypeOK'
    BY DEF TypeOK
  <1>2. Freed' /\ Walking' /\ Entered'
    BY DEF Freed, Walking, Entered
  <1>3. ChainsFollowFat' /\ WalksBounded' /\ RefusesOnlyBadIdx'
    BY DEF ChainsFollowFat, WalksBounded, RefusesOnlyBadIdx
  <1> QED
    BY <1>1, <1>2, <1>3

THEOREM Invariant == Spec => []IInv
  <1>1. IInv /\ [Next]_vars => IInv'
    BY SkipIInv, StartChainIInv, EndChainIInv, BadIdxIInv, FollowIInv, FinishIInv,
       StutterIInv DEF Next, Step, Stop
  <1> QED
    BY <1>1, InitIInv, PTL DEF Spec

-----------------------------------------------------------------------------
(* makeChains' table, map and loop variables keep their types: in          *)
(* particular every sector it puts into a chain is one of the table.       *)
THEOREM TypeCorrect == Spec => []TypeOK
  <1>1. IInv => TypeOK
    BY DEF IInv
  <1> QED
    BY <1>1, Invariant, PTL

(* Although the walks destroy the table, every chain is a path of the      *)
(* table as it was read.                                                   *)
THEOREM FollowsFat == Spec => []ChainsFollowFat
  <1>1. IInv => ChainsFollowFat
    BY DEF IInv
  <1> QED
    BY <1>1, Invariant, PTL

(* However cyclic the table, no chain outgrows it by more than two.        *)
THEOREM Bounded == Spec => []WalksBounded
  <1>1. IInv => WalksBounded
    BY DEF IInv
  <1> QED
    BY <1>1, Invariant, PTL

(* "bad idx" is thrown only for a word of the table that names no sector.  *)
THEOREM RefusesBadOnly == Spec => []RefusesOnlyBadIdx
  <1>1. IInv => RefusesOnlyBadIdx
    BY DEF IInv
  <1> QED
    BY <1>1, Invariant, PTL
-----------------------------------------------------------------------------
(* How a chain ends.  A walk stops at the end of the chain or at a word    *)
(* consumed before: by itself, or by a walk that began at a lower sector   *)
(* (Consumed, Stopped).  In a well-formed table the chain of a head never  *)
(* meets itself (Apart), and meets another chain only in sectors behind    *)
(* the one that starts it (Merge): so what stops the walk of a head is a   *)
(* lower sector it has come to, with two more after it.                    *)

LastOf(s) == chains[s][Len(chains[s])]

Started ==
    /\ pc = "done" => i = NumSectors
    /\ \A s \in Sectors : chains[s] # <<>> => s < i \/ (s = i /\ pc \in {"walk", "throw"})
    /\ WellFormed => \A h \in Heads : h < i \/ (h = i /\ pc = "walk") => chains[h] # <<>>

Consumed ==
    \A s \in Sectors : fatIdx[s] # fat[s] =>
        \E j \in Sectors : \E x \in 2 .. Len(chains[j]) : chains[j][x] = s

Met(s) ==
    \E j \in 0 .. s : \E x \in 2 .. Len(chains[j]) :
        chains[j][x] = LastOf(s) /\ (j = s => x < Len(chains[s]))

Stops(s) == fat[LastOf(s)] \in {ENDOFCHAIN, FREESECT} \/ Met(s)

Stopped ==
    /\ \A s \in Sectors : s < i /\ chains[s] # <<>> => Stops(s)
    /\ pc = "walk" => v = fat[LastOf(i)] \/ Met(i)

Apart ==
    WellFormed => \A h \in Heads : \A x, y \in 1 .. Len(chains[h]) : x # y => chains[h][x] # chains[h][y]

Merge ==
    WellFormed => \A h \in Heads : \A j \in Sectors \ {h} :
        \A y \in 1 .. Len(chains[h]), x \in 1 .. Len(chains[j]) :
            chains[h][y] = chains[j][x] => x <= y /\ chains[h][y - x + 1] = j

Ends == Started /\ Consumed /\ Stopped /\ Apart /\ Merge

-----------------------------------------------------------------------------
LEMMA SameTable == fat' = fat => (WellFormed' <=> WellFormed) /\ Heads' = Heads
  BY DEF WellFormed, Heads, Links, InUse

\* In a well-formed table a sector has one word that leads to it, a head none.
LEMMA OneBefore ==
    ASSUME TypeOK, WellFormed, NEW s \in Sectors, NEW t \in Sectors, fat[s] = fat[t], fat[s] \in Sectors
    PROVE  s = t
  BY DEF WellFormed, Links

LEMMA NoneBeforeHead ==
    ASSUME NEW h \in Heads
    PROVE  h \in Sectors /\ InUse(h) /\ \A t \in Sectors : fat[t] # h
  BY DEF Heads

\* A sector of a chain: its word is the next one of the chain.
LEMMA ChainFacts ==
    ASSUME IInv, NEW s \in Sectors
    PROVE  /\ chains[s] \in Seq(Sectors) /\ Len(chains[s]) \in Nat
           /\ \A x \in 1 .. Len(chains[s]) : chains[s][x] \in Sectors
           /\ chains[s] # <<>> => Len(chains[s]) >= 1 /\ chains[s][1] = s
           /\ \A x \in 2 .. Len(chains[s]) : x - 1 \in 1 .. Len(chains[s]) /\ chains[s][x] = fat[chains[s][x - 1]]
  <1>1. chains[s] \in Seq(Sectors)
    BY DEF IInv, TypeOK
  <1>2. Len(chains[s]) \in Nat /\ \A x \in 1 .. Len(chains[s]) : chains[s][x] \in Sectors
    BY <1>1
  <1>3. chains[s] # <<>> => Len(chains[s]) >= 1 /\ chains[s][1] = s
    BY <1>1 DEF IInv, ChainsFollowFat
  <1>4. ASSUME NEW x \in 2 .. Len(chains[s])
        PROVE  x - 1 \in 1 .. Len(chains[s]) /\ chains[s][x] = fat[chains[s][x - 1]]
    <2>1. x - 1 \in 1 .. Len(chains[s]) - 1 /\ (x - 1) + 1 = x
      BY <1>2
    <2>2. chains[s][(x - 1) + 1] = fat[chains[s][x - 1]]
      BY <2>1 DEF IInv, ChainsFollowFat
    <2> QED
      BY <1>2, <2>1, <2>2
  <1> QED
    BY <1>1, <1>2, <1>3, <1>4

LEMMA NoSectorIsMarker == \A s \in Sectors : s \notin Markers
  BY NumSectorsAssumption DEF Sectors, Markers, FREESECT, ENDOFCHAIN, FATSECT, DIFSECT

\* The word of a head is never consumed, and it starts a chain.
LEMMA HeadStarts ==
    ASSUME IInv, Consumed, WellFormed, NEW h \in Heads
    PROVE  ~ StartsNoChain(fatIdx[h])
  <1>1. fatIdx[h] = fat[h]
    <2> SUFFICES ASSUME fatIdx[h] # fat[h] PROVE FALSE
      OBVIOUS
    <2>1. PICK j \in Sectors : \E x \in 2 .. Len(chains[j]) : chains[j][x] = h
      BY NoneBeforeHead DEF Consumed
    <2>2. PICK x \in 2 .. Len(chains[j]) : chains[j][x] = h
      BY <2>1
    <2>3. chains[j][x - 1] \in Sectors /\ fat[chains[j][x - 1]] = h
      BY <2>2, ChainFacts
    <2> QED
      BY <2>3, NoneBeforeHead
  <1>2. fat[h] \in Sectors \/ fat[h] = ENDOFCHAIN
    BY NoneBeforeHead DEF InUse, Links
  <1> QED
    BY <1>1, <1>2, NoSectorIsMarker DEF StartsNoChain, Markers, FREESECT, ENDOFCHAIN, FATSECT, DIFSECT

LEMMA InitEnds == Init => Ends
  <1> SUFFICES ASSUME Init PROVE Ends
    OBVIOUS
  <1> USE NumSectorsAssumption DEF Init
  <1>1. \A s \in Sectors : chains[s] = <<>> /\ Len(chains[s]) = 0
    OBVIOUS
  <1>2. Started
    BY <1>1 DEF Started, Heads, Sectors
  <1>3. Consumed
    BY DEF Consumed
  <1>4. Stopped
    BY <1>1 DEF Stopped
  <1>5. Apart /\ Merge
    BY <1>1 DEF Apart, Merge, Heads
  <1> QED
    BY <1>2, <1>3, <1>4, <1>5 DEF Ends

\* What a step that leaves the chains and the tables alone keeps.
LEMMA SameChains ==
    ASSUME Ends, UNCHANGED <<fat, fatIdx, chains>>
    PROVE  Consumed' /\ Apart' /\ Merge' /\ (\A s \in Sectors : Stops(s) => Stops(s)')
  <1>1. Consumed'
    BY DEF Ends, Consumed
  <1>2. Apart'
    BY SameTable DEF Ends, Apart
  <1>3. Merge'
    BY SameTable DEF Ends, Merge
  <1>4. \A s \in Sectors : Stops(s) => Stops(s)'
    BY DEF Stops, Met, LastOf
  <1> QED
    BY <1>1, <1>2, <1>3, <1>4

LEMMA SkipEnds == IInv /\ Ends /\ Skip => Ends'
  <1> SUFFICES ASSUME IInv, Ends, Skip PROVE Ends'
    OBVIOUS
  <1>1. /\ i \in Sectors /\ i' = i + 1 /\ pc = "head" /\ StartsNoChain(fatIdx[i])
        /\ UNCHANGED <<fat, fatIdx, v, chains, pc>>
    BY NumSectorsAssumption DEF Skip, IInv, TypeOK, Sectors
  <1>2. Started'
    <2>1. \A s \in Sectors : chains'[s] # <<>> => s < i'
      BY <1>1, NumSectorsAssumption DEF Ends, Started, Sectors
    <2>2. ASSUME WellFormed', NEW h \in Heads', h < i' \/ (h = i' /\ pc' = "walk") PROVE chains'[h] # <<>>
      <3>1. WellFormed /\ h \in Heads
        BY <1>1, <2>2, SameTable
      <3>2. h # i
        BY <1>1, <3>1, HeadStarts DEF Ends
      <3>3. h < i
        BY <1>1, <2>2, <3>1, <3>2, NoneBeforeHead, NumSectorsAssumption DEF Sectors
      <3> QED
        BY <1>1, <3>1, <3>3 DEF Ends, Started
    <2> QED
      BY <1>1, <2>1, <2>2 DEF Started
  <1>3. Stopped'
    <2> SUFFICES ASSUME NEW s \in Sectors, s < i', chains'[s] # <<>> PROVE Stops(s)'
      BY <1>1 DEF Stopped
    <2>1. s < i
      BY <1>1 DEF Ends, Started
    <2> QED
      BY <1>1, <2>1, SameChains DEF Ends, Stopped
  <1> QED
    BY <1>1, <1>2, <1>3, SameChains DEF Ends

LEMMA StartChainEnds == IInv /\ Ends /\ StartChain => Ends'
  <1> SUFFICES ASSUME IInv, Ends, StartChain PROVE Ends'
    OBVIOUS
  <1> USE NumSectorsAssumption
  <1>1. /\ i \in Sectors /\ pc = "head" /\ ~ StartsNoChain(fatIdx[i])
        /\ v' = fatIdx[i] /\ pc' = "walk"
        /\ chains' = [chains EXCEPT ![i] = <<i>>]
        /\ UNCHANGED <<fat, fatIdx, i>>
    BY DEF StartChain, IInv, TypeOK, Sectors
  <1>2. chains'[i] = <<i>> /\ \A s \in Sectors : s # i => chains'[s] = chains[s]
    BY <1>1 DEF IInv, TypeOK
  <1>3. chains[i] = <<>>
    BY <1>1 DEF Ends, Started, Sectors
  <1>4. Len(<<i>>) = 1 /\ <<i>>[1] = i /\ <<i>> # <<>>
    OBVIOUS
  <1>5. Started'
    <2>1. \A s \in Sectors : chains'[s] # <<>> => s < i' \/ (s = i' /\ pc' \in {"walk", "throw"})
      BY <1>1, <1>2 DEF Ends, Started
    <2>2. ASSUME WellFormed', NEW h \in Heads', h < i' \/ (h = i' /\ pc' = "walk") PROVE chains'[h] # <<>>
      <3>1. WellFormed /\ h \in Heads /\ h \in Sectors
        BY <1>1, <2>2, SameTable, NoneBeforeHead
      <3>2. CASE h = i
        BY <1>2, <1>4, <3>2
      <3>3. CASE h # i
        BY <1>1, <1>2, <2>2, <3>1, <3>3 DEF Ends, Started
      <3> QED
        BY <3>2, <3>3
    <2> QED
      BY <1>1, <2>1, <2>2 DEF Started
  <1>6. Consumed'
    <2> SUFFICES ASSUME NEW s \in Sectors, fatIdx'[s] # fat'[s]
                 PROVE  \E j \in Sectors : \E x \in 2 .. Len(chains'[j]) : chains'[j][x] = s
      BY DEF Consumed
    <2>1. PICK j \in Sectors : \E x \in 2 .. Len(chains[j]) : chains[j][x] = s
      BY <1>1 DEF Ends, Consumed
    <2>2. j # i
      BY <1>3, <2>1
    <2> QED
      BY <1>2, <2>1, <2>2
  <1>7. Stopped'
    <2>1. ASSUME NEW s \in Sectors, s < i', chains'[s] # <<>> PROVE Stops(s)'
      <3>1. s < i /\ s # i /\ chains'[s] = chains[s]
        BY <1>1, <1>2, <2>1 DEF Sectors
      <3>2. \A j \in 0 .. s : chains'[j] = chains[j]
        <4>1. \A j \in 0 .. s : j \in Sectors /\ j # i
          BY <1>1, <3>1 DEF Sectors
        <4>2. \A t \in Sectors : t # i => chains'[t] = chains[t]
          BY <1>2
        <4> QED
          BY <4>1, <4>2
      <3>3. Stops(s)
        BY <2>1, <3>1 DEF Ends, Stopped
      <3> QED
        BY <1>1, <3>1, <3>2, <3>3 DEF Stops, Met, LastOf
    <2>2. v' = fat'[LastOf(i)']
      <3>1. v' = fat[i]
        BY <1>1 DEF IInv, Freed, StartsNoChain
      <3> QED
        BY <1>1, <1>2, <1>4, <3>1 DEF LastOf
    <2> QED
      BY <1>1, <2>1, <2>2 DEF Stopped, LastOf
  <1>8. Apart'
    <2> SUFFICES ASSUME WellFormed', NEW h \in Heads',
                        NEW x \in 1 .. Len(chains'[h]), NEW y \in 1 .. Len(chains'[h]), x # y
                 PROVE  chains'[h][x] # chains'[h][y]
      BY DEF Apart
    <2>1. WellFormed /\ h \in Heads /\ h \in Sectors
      BY <1>1, SameTable, NoneBeforeHead
    <2>2. h # i
      <3> SUFFICES ASSUME h = i PROVE FALSE
        OBVIOUS
      <3>1. Len(chains'[h]) = 1
        BY <1>2, <1>4
      <3> QED
        BY <3>1
    <2> QED
      BY <1>2, <2>1, <2>2 DEF Ends, Apart
  <1>9. Merge'
    <2> SUFFICES ASSUME WellFormed', NEW h \in Heads', NEW j \in Sectors \ {h},
                        NEW y \in 1 .. Len(chains'[h]), NEW x \in 1 .. Len(chains'[j]),
                        chains'[h][y] = chains'[j][x]
                 PROVE  x <= y /\ chains'[h][y - x + 1] = j
      BY DEF Merge
    <2>1. WellFormed /\ h \in Heads /\ h \in Sectors
      BY <1>1, SameTable, NoneBeforeHead
    <2>2. CASE h # i /\ j # i
      BY <1>2, <2>1, <2>2 DEF Ends, Merge
    <2>3. CASE j = i
      <3>1. h # i /\ x = 1 /\ chains'[h][y] = i /\ chains'[h] = chains[h]
        BY <1>2, <1>4, <2>1, <2>3
      <3>2. y \in Nat /\ 1 <= y /\ y - x + 1 = y
        BY <3>1, <2>1, ChainFacts
      <3> QED
        BY <2>3, <3>1, <3>2
    <2>4. CASE h = i
      <3>1. j # i /\ chains'[j] = chains[j] /\ y = 1 /\ chains[j][x] = h /\ x \in 1 .. Len(chains[j])
        BY <1>2, <1>4, <2>1, <2>4
      <3>2. CASE x = 1
        <4>1. chains[j] # <<>>
          BY <3>1, ChainFacts
        <4>2. chains[j][1] = j
          BY <4>1, ChainFacts
        <4> QED
          BY <2>4, <3>1, <3>2, <4>2
      <3>3. CASE x \in 2 .. Len(chains[j])
        <4>1. chains[j][x - 1] \in Sectors /\ fat[chains[j][x - 1]] = h
          BY <3>1, <3>3, ChainFacts
        <4> QED
          BY <2>1, <4>1, NoneBeforeHead
      <3>4. x = 1 \/ x \in 2 .. Len(chains[j])
        BY <3>1, ChainFacts
      <3> QED
        BY <3>2, <3>3, <3>4
    <2> QED
      BY <2>2, <2>3, <2>4
  <1> QED
    BY <1>5, <1>6, <1>7, <1>8, <1>9 DEF Ends

LEMMA EndChainEnds == IInv /\ Ends /\ EndChain => Ends'
  <1> SUFFICES ASSUME IInv, Ends, EndChain PROVE Ends'
    OBVIOUS
  <1> USE NumSectorsAssumption
  <1>1. /\ i \in Sectors /\ i' = i + 1 /\ pc = "walk" /\ pc' = "head" /\ EndsChain(v)
        /\ UNCHANGED <<fat, fatIdx, v, chains>>
    BY DEF EndChain, IInv, Walking
  <1>2. Started'
    <2>1. \A s \in Sectors : chains'[s] # <<>> => s < i'
      BY <1>1 DEF Ends, Started, Sectors
    <2>2. ASSUME WellFormed', NEW h \in Heads', h < i' \/ (h = i' /\ pc' = "walk") PROVE chains'[h] # <<>>
      <3>1. WellFormed /\ h \in Heads /\ h \in Sectors
        BY <1>1, <2>2, SameTable, NoneBeforeHead
      <3>2. h < i \/ h = i
        BY <1>1, <2>2, <3>1 DEF Sectors
      <3> QED
        BY <1>1, <3>1, <3>2 DEF Ends, Started
    <2> QED
      BY <1>1, <2>1, <2>2 DEF Started
  <1>3. Stopped'
    <2> SUFFICES ASSUME NEW s \in Sectors, s < i', chains'[s] # <<>> PROVE Stops(s)'
      BY <1>1 DEF Stopped
    <2>1. CASE s = i
      <3>1. Stops(i)
        BY <1>1 DEF Ends, Stopped, Stops, EndsChain
      <3> QED
        BY <1>1, <2>1, <3>1, SameChains
    <2>2. CASE s # i
      <3>1. s < i
        BY <1>1, <2>2 DEF Sectors
      <3> QED
        BY <1>1, <3>1, SameChains DEF Ends, Stopped
    <2> QED
      BY <2>1, <2>2
  <1> QED
    BY <1>1, <1>2, <1>3, SameChains DEF Ends

LEMMA BadIdxEnds == IInv /\ Ends /\ BadIdx => Ends'
  <1> SUFFICES ASSUME IInv, Ends, BadIdx PROVE Ends'
    OBVIOUS
  <1>1. pc = "walk" /\ pc' = "throw" /\ UNCHANGED <<fat, fatIdx, i, v, chains>>
    BY DEF BadIdx
  <1>2. Started'
    BY <1>1, SameTable DEF Ends, Started
  <1>3. Stopped'
    BY <1>1, SameChains DEF Ends, Stopped
  <1> QED
    BY <1>1, <1>2, <1>3, SameChains DEF Ends

LEMMA FinishEnds == IInv /\ Ends /\ Finish => Ends'
  <1> SUFFICES ASSUME IInv, Ends, Finish PROVE Ends'
    OBVIOUS
  <1>1. pc = "head" /\ pc' = "done" /\ i = NumSectors /\ UNCHANGED <<fat, fatIdx, i, v, chains>>
    BY DEF Finish
  <1>2. Started'
    BY <1>1, SameTable DEF Ends, Started
  <1>3. Stopped'
    BY <1>1, SameChains DEF Ends, Stopped
  <1> QED
    BY <1>1, <1>2, <1>3, SameChains DEF Ends

LEMMA StutterEnds == IInv /\ Ends /\ UNCHANGED vars => Ends'
  <1> SUFFICES ASSUME IInv, Ends, UNCHANGED vars PROVE Ends'
    OBVIOUS
  <1>1. UNCHANGED <<fat, fatIdx, i, v, chains, pc>>
    BY DEF vars
  <1>2. Started'
    BY <1>1, SameTable DEF Ends, Started
  <1>3. Stopped'
    <2>1. \A s \in Sectors : s < i' /\ chains'[s] # <<>> => Stops(s)'
      BY <1>1, SameChains DEF Ends, Stopped
    <2>2. pc' = "walk" => v' = fat'[LastOf(i)'] \/ Met(i)'
      BY <1>1 DEF Ends, Stopped, Met, LastOf
    <2> QED
      BY <2>1, <2>2 DEF Stopped
  <1> QED
    BY <1>1, <1>2, <1>3, SameChains DEF Ends

LEMMA FollowEnds == IInv /\ Ends /\ Follow => Ends'
  <1> SUFFICES ASSUME IInv, Ends, Follow PROVE Ends'
    OBVIOUS
  <1> USE NumSectorsAssumption
  <1> DEFINE c == chains[i]
             L == Len(c)
  <1>1. /\ i \in Sectors /\ v \in Sectors /\ v # FREESECT
        /\ c \in Seq(Sectors) /\ c # <<>> /\ L \in Nat /\ L >= 1
        /\ v = fat[c[L]] /\ c[L] \in Sectors
        /\ fatIdx \in [Sectors -> Int]
    <2>1. i \in Sectors /\ c # <<>> /\ v = fat[c[L]]
      BY DEF IInv, Walking, Follow, EndsChain
    <2>2. v \in Sectors /\ v # FREESECT
      BY DEF IInv, TypeOK, Follow, EndsChain, OutOfRange, Sectors
    <2>3. fatIdx \in [Sectors -> Int]
      BY DEF IInv, TypeOK
    <2> QED
      BY <2>1, <2>2, <2>3, ChainFacts
  <1>2. /\ chains'[i] = Append(c, v)
        /\ \A s \in Sectors : s # i => chains'[s] = chains[s]
        /\ Len(chains'[i]) = L + 1
        /\ \A x \in 1 .. L : chains'[i][x] = c[x]
        /\ chains'[i][L + 1] = v
        /\ chains'[i] # <<>>
    BY <1>1 DEF IInv, TypeOK, Follow
  <1>3. /\ fatIdx' = [fatIdx EXCEPT ![v] = FREESECT]
        /\ v' = fatIdx[v]
        /\ UNCHANGED <<fat, i, pc>>
        /\ pc = "walk"
    BY DEF Follow, Consume, WordAfter
  <1> HIDE DEF c, L
  \* Every place of a chain stays.
  <1>4. ASSUME NEW s \in Sectors, NEW x \in 1 .. Len(chains[s])
        PROVE  x \in 1 .. Len(chains'[s]) /\ chains'[s][x] = chains[s][x]
    <2>1. CASE s # i
      BY <1>2, <2>1
    <2>2. CASE s = i
      BY <1>1, <1>2, <2>2 DEF c, L
    <2> QED
      BY <2>1, <2>2
  <1>5. Started'
    <2>1. \A s \in Sectors : chains'[s] # <<>> => s < i' \/ (s = i' /\ pc' \in {"walk", "throw"})
      BY <1>1, <1>2, <1>3 DEF Ends, Started
    <2>2. ASSUME WellFormed', NEW h \in Heads', h < i' \/ (h = i' /\ pc' = "walk") PROVE chains'[h] # <<>>
      <3>1. WellFormed /\ h \in Heads /\ h \in Sectors
        BY <1>3, <2>2, SameTable, NoneBeforeHead
      <3> QED
        BY <1>2, <1>3, <2>2, <3>1 DEF Ends, Started
    <2> QED
      BY <1>3, <2>1, <2>2 DEF Started
  <1>6. Consumed'
    <2> SUFFICES ASSUME NEW s \in Sectors, fatIdx'[s] # fat'[s]
                 PROVE  \E j \in Sectors : \E x \in 2 .. Len(chains'[j]) : chains'[j][x] = s
      BY DEF Consumed
    <2>1. CASE s = v
      <3>1. L + 1 \in 2 .. Len(chains'[i])
        BY <1>1, <1>2
      <3> QED
        BY <1>1, <1>2, <2>1, <3>1
    <2>2. CASE s # v
      <3>1. PICK j \in Sectors : \E x \in 2 .. Len(chains[j]) : chains[j][x] = s
        BY <1>1, <1>3, <2>2 DEF Ends, Consumed
      <3>2. PICK x \in 2 .. Len(chains[j]) : chains[j][x] = s
        BY <3>1
      <3>3. x \in 1 .. Len(chains[j]) /\ x >= 2 /\ Len(chains[j]) \in Nat
        BY ChainFacts
      <3>4. x \in 1 .. Len(chains'[j]) /\ chains'[j][x] = s
        BY <1>4, <3>2, <3>3
      <3>5. x \in 2 .. Len(chains'[j])
        BY <3>3, <3>4
      <3> QED
        BY <3>4, <3>5
    <2> QED
      BY <2>1, <2>2
  <1>7. Stopped'
    <2>1. ASSUME NEW s \in Sectors, s < i', chains'[s] # <<>> PROVE Stops(s)'
      <3>0. s < i /\ s # i
        BY <1>1, <1>3, <2>1 DEF Sectors
      <3>1. s < i /\ s # i /\ chains'[s] = chains[s]
        BY <1>2, <3>0
      <3>2. \A j \in 0 .. s : chains'[j] = chains[j]
        <4>1. \A j \in 0 .. s : j \in Sectors /\ j # i
          BY <1>1, <3>1 DEF Sectors
        <4>2. \A t \in Sectors : t # i => chains'[t] = chains[t]
          BY <1>2
        <4> QED
          BY <4>1, <4>2
      <3>3. Stops(s)
        BY <2>1, <3>1 DEF Ends, Stopped
      <3> QED
        BY <1>3, <3>1, <3>2, <3>3 DEF Stops, Met, LastOf
    <2>2. chains'[i][Len(chains'[i])] = v
      BY <1>2
    <2>3. CASE fatIdx[v] = fat[v]
      BY <1>3, <2>1, <2>2, <2>3 DEF Stopped, LastOf
    <2>4. CASE fatIdx[v] # fat[v]
      <3>1. PICK j \in Sectors : \E x \in 2 .. Len(chains[j]) : chains[j][x] = v
        BY <1>1, <2>4 DEF Ends, Consumed
      <3>2. PICK x \in 2 .. Len(chains[j]) : chains[j][x] = v
        BY <3>1
      <3>3. x \in 1 .. Len(chains[j]) /\ x >= 2 /\ chains[j] # <<>> /\ Len(chains[j]) \in Nat
        BY ChainFacts
      <3>4. j \in 0 .. i
        BY <1>1, <3>3 DEF Ends, Started, Sectors
      <3>5. x \in 1 .. Len(chains'[j]) /\ chains'[j][x] = v
        BY <1>4, <3>2, <3>3
      <3>6. j = i => x < Len(chains'[i])
        BY <1>1, <1>2, <3>3 DEF c, L
      <3>7. x \in 2 .. Len(chains'[j])
        BY <3>3, <3>5
      <3>8. Met(i)'
        BY <1>3, <2>2, <3>4, <3>5, <3>6, <3>7 DEF Met, LastOf
      <3> QED
        BY <2>1, <3>8 DEF Stopped
    <2> QED
      BY <2>3, <2>4
  <1>8. Apart'
    <2> SUFFICES ASSUME WellFormed', NEW h \in Heads',
                        NEW x \in 1 .. Len(chains'[h]), NEW y \in 1 .. Len(chains'[h]), x # y,
                        chains'[h][x] = chains'[h][y]
                 PROVE  FALSE
      BY DEF Apart
    <2>1. WellFormed /\ h \in Heads /\ h \in Sectors
      BY <1>3, SameTable, NoneBeforeHead
    <2>2. CASE h # i
      BY <1>2, <2>1, <2>2 DEF Ends, Apart
    <2>3. CASE h = i
      <3>1. ASSUME NEW a \in 1 .. L PROVE c[a] # v
        <4>1. CASE a = 1
          BY <1>1, <2>1, <2>3, <4>1, ChainFacts, NoneBeforeHead DEF c
        <4>2. CASE a \in 2 .. L
          <5>1. a - 1 \in 1 .. L /\ c[a] = fat[c[a - 1]] /\ c[a - 1] \in Sectors
            BY <1>1, <4>2, ChainFacts DEF c, L
          <5>2. c[a] = v => c[a - 1] = c[L]
            BY <1>1, <2>1, <5>1, OneBefore DEF IInv
          <5>3. L \in 1 .. L /\ a - 1 # L
            BY <1>1, <4>2
          <5> QED
            BY <1>1, <2>1, <2>3, <5>1, <5>2, <5>3 DEF Ends, Apart, c, L
        <4> QED
          BY <1>1, <4>1, <4>2
      <3>2. (x \in 1 .. L \/ x = L + 1) /\ (y \in 1 .. L \/ y = L + 1)
        BY <1>1, <1>2, <2>3
      <3>3. CASE x \in 1 .. L /\ y \in 1 .. L
        BY <1>2, <2>1, <2>3, <3>3, SMTT(30) DEF Ends, Apart, c, L
      <3>4. CASE x \in 1 .. L /\ y = L + 1
        BY <1>2, <2>3, <3>1, <3>4
      <3>5. CASE x = L + 1 /\ y \in 1 .. L
        BY <1>2, <2>3, <3>1, <3>5
      <3> QED
        BY <3>2, <3>3, <3>4, <3>5
    <2> QED
      BY <2>2, <2>3
  <1>9. Merge'
    <2> SUFFICES ASSUME WellFormed', NEW h \in Heads', NEW j \in Sectors \ {h},
                        NEW y \in 1 .. Len(chains'[h]), NEW x \in 1 .. Len(chains'[j]),
                        chains'[h][y] = chains'[j][x]
                 PROVE  x <= y /\ chains'[h][y - x + 1] = j
      BY DEF Merge
    <2>1. WellFormed /\ h \in Heads /\ h \in Sectors
      BY <1>3, SameTable, NoneBeforeHead
    <2>2. CASE y \in 1 .. Len(chains[h]) /\ x \in 1 .. Len(chains[j])
      <3>1. chains[h][y] = chains[j][x]
        BY <1>4, <2>1, <2>2
      <3>2. x <= y /\ chains[h][y - x + 1] = j
        BY <2>1, <2>2, <3>1 DEF Ends, Merge
      <3>3. y - x + 1 \in 1 .. Len(chains[h])
        BY <2>1, <2>2, <3>2, ChainFacts
      <3> QED
        BY <1>4, <2>1, <3>2, <3>3
    \* The walk is h's.
    <2>3. CASE h = i /\ y = L + 1
      <3>1. j # i /\ chains'[j] = chains[j] /\ chains[j][x] = v /\ x \in 1 .. Len(chains[j])
        BY <1>2, <2>3
      <3>2. CASE x = 1
        <4>1. chains[j] # <<>>
          BY <3>1, ChainFacts
        <4>2. chains[j][1] = j
          BY <4>1, ChainFacts
        <4>3. y - x + 1 = L + 1 /\ x <= y
          BY <1>1, <2>3, <3>2
        <4> QED
          BY <1>2, <2>3, <3>1, <3>2, <4>2, <4>3
      <3>3. CASE x \in 2 .. Len(chains[j])
        <4>1. x - 1 \in 1 .. Len(chains[j]) /\ chains[j][x - 1] \in Sectors /\ fat[chains[j][x - 1]] = v
          BY <3>1, <3>3, ChainFacts
        <4>2. chains[j][x - 1] = c[L]
          BY <1>1, <2>1, <4>1, OneBefore DEF IInv
        <4>3. L \in 1 .. L /\ j \in Sectors \ {h}
          BY <1>1
        <4>4. x - 1 <= L /\ c[L - (x - 1) + 1] = j
          BY <2>1, <2>3, <4>1, <4>2, <4>3, SMTT(30) DEF Ends, Merge, c, L
        <4>5. L - (x - 1) + 1 \in 1 .. L /\ L - (x - 1) + 1 = y - x + 1 /\ x <= y
          BY <1>1, <2>3, <3>3, <4>4
        <4> QED
          BY <1>2, <2>3, <4>4, <4>5
      <3>4. x = 1 \/ x \in 2 .. Len(chains[j])
        BY <3>1, ChainFacts
      <3> QED
        BY <3>2, <3>3, <3>4
    \* The walk is the other's.
    <2>4. CASE j = i /\ x = L + 1
      <3>1. h # i /\ chains'[h] = chains[h] /\ chains[h][y] = v /\ y \in 1 .. Len(chains[h])
        BY <1>2, <2>1, <2>4
      <3>2. CASE y = 1
        <4>1. chains[h] # <<>>
          BY <2>1, <3>1, ChainFacts
        <4>2. chains[h][1] = h
          BY <2>1, <4>1, ChainFacts
        <4> QED
          BY <1>1, <2>1, <3>1, <3>2, <4>2, NoneBeforeHead
      <3>3. CASE y \in 2 .. Len(chains[h])
        <4>1. y - 1 \in 1 .. Len(chains[h]) /\ chains[h][y - 1] \in Sectors /\ fat[chains[h][y - 1]] = v
          BY <2>1, <3>1, <3>3, ChainFacts
        <4>2. chains[h][y - 1] = c[L]
          BY <1>1, <2>1, <4>1, OneBefore DEF IInv
        <4>3. L \in 1 .. L /\ j \in Sectors \ {h}
          BY <1>1
        <4>4. L <= y - 1 /\ chains[h][y - 1 - L + 1] = j
          BY <2>1, <2>4, <4>1, <4>2, <4>3 DEF Ends, Merge, c, L
        <4>5. y - 1 - L + 1 = y - x + 1 /\ x <= y
          BY <1>1, <2>1, <2>4, <3>3, <4>4, ChainFacts
        <4> QED
          BY <3>1, <4>4, <4>5
      <3>4. y = 1 \/ y \in 2 .. Len(chains[h])
        BY <2>1, <3>1, ChainFacts
      <3> QED
        BY <3>2, <3>3, <3>4
    <2>5. /\ y \in 1 .. Len(chains[h]) \/ (h = i /\ y = L + 1)
          /\ x \in 1 .. Len(chains[j]) \/ (j = i /\ x = L + 1)
      <3>1. h = i => y \in 1 .. Len(chains[h]) \/ y = L + 1
        BY <1>1, <1>2 DEF c, L
      <3>2. j = i => x \in 1 .. Len(chains[j]) \/ x = L + 1
        BY <1>1, <1>2 DEF c, L
      <3> QED
        BY <1>2, <2>1, <3>1, <3>2
    <2> QED
      BY <2>2, <2>3, <2>4, <2>5
  <1> QED
    BY <1>5, <1>6, <1>7, <1>8, <1>9 DEF Ends

THEOREM EndsAlways == Spec => []Ends
  <1>1. IInv /\ Ends /\ [Next]_vars => Ends'
    BY SkipEnds, StartChainEnds, EndChainEnds, BadIdxEnds, FollowEnds, FinishEnds,
       StutterEnds DEF Next, Step, Stop
  <1> QED
    BY <1>1, InitEnds, Invariant, PTL DEF Spec

-----------------------------------------------------------------------------
\* Induction over the naturals, of a set.
LEMMA NatSetInduction ==
    ASSUME NEW S, 0 \in S, \A n \in Nat : n \in S => n + 1 \in S
    PROVE  Nat \subseteq S
  <1> DEFINE R == OpToRel(<, Nat)
             T == Nat \ S
  <1>1. IsWellFoundedOn(R, Nat)
    BY NatLessThanWellFounded
  <1>2. \A x, y \in Nat : y < x => <<y, x>> \in R
    BY DEF OpToRel
  <1>3. CASE T # {}
    <2>1. PICK x \in T : \A y \in T : ~ (<<y, x>> \in R)
      <3>1. T \subseteq Nat
        OBVIOUS
      <3> HIDE DEF R, T
      <3> QED
        BY <1>1, <1>3, <3>1, WFMin
    <2>2. x \in Nat /\ x # 0 /\ x - 1 \in Nat /\ x - 1 < x
      OBVIOUS
    <2>3. x - 1 \in T
      BY <2>2
    <2> QED
      BY <1>2, <2>1, <2>2, <2>3
  <1> QED
    BY <1>3

\* The path from h is defined: one sector more at each step.
IsPathOf(p, h, n) ==
    p = [k \in 1 .. n |-> IF k = 1 THEN h
                          ELSE IF p[k - 1] \in Sectors THEN fat[p[k - 1]] ELSE ENDOFCHAIN]

LEMMA ChainAtUnfolds ==
    ASSUME NEW h
    PROVE  IsPathOf(ChainAt(h), h, NumSectors + 2)
  <1> DEFINE S == {n \in Nat : \E p : IsPathOf(p, h, n)}
  <1>1. 0 \in S
    <2> DEFINE p == [k \in 1 .. 0 |-> h]
    <2>1. IsPathOf(p, h, 0)
      BY DEF IsPathOf
    <2> QED
      BY <2>1
  <1>2. ASSUME NEW n \in Nat, n \in S PROVE n + 1 \in S
    <2>1. PICK p : IsPathOf(p, h, n)
      BY <1>2
    <2> DEFINE q == [k \in 1 .. n + 1 |-> IF k = 1 THEN h
                                          ELSE IF p[k - 1] \in Sectors THEN fat[p[k - 1]] ELSE ENDOFCHAIN]
    <2>2. \A k \in 1 .. n : q[k] = p[k]
      BY <2>1 DEF IsPathOf
    <2>3. \A k \in 2 .. n + 1 : k - 1 \in 1 .. n
      OBVIOUS
    <2>4. \A k \in 1 .. n + 1 : q[k] = IF k = 1 THEN h
                                       ELSE IF q[k - 1] \in Sectors THEN fat[q[k - 1]] ELSE ENDOFCHAIN
      <3> SUFFICES ASSUME NEW k \in 1 .. n + 1
                   PROVE  q[k] = IF k = 1 THEN h
                                 ELSE IF q[k - 1] \in Sectors THEN fat[q[k - 1]] ELSE ENDOFCHAIN
        OBVIOUS
      <3>1. q[k] = IF k = 1 THEN h
                   ELSE IF p[k - 1] \in Sectors THEN fat[p[k - 1]] ELSE ENDOFCHAIN
        OBVIOUS
      <3> HIDE DEF q
      <3>2. CASE k = 1
        BY <3>1, <3>2
      <3>3. CASE k # 1
        <4>1. q[k - 1] = p[k - 1]
          BY <2>2, <2>3, <3>3
        <4> QED
          BY <3>1, <3>3, <4>1
      <3> QED
        BY <3>2, <3>3
    <2>5. q = [k \in 1 .. n + 1 |-> q[k]]
      OBVIOUS
    <2> HIDE DEF q
    <2>6. IsPathOf(q, h, n + 1)
      BY <2>4, <2>5 DEF IsPathOf
    <2> QED
      BY <2>6
  <1>3. NumSectors + 2 \in S
    <2> HIDE DEF S
    <2>1. Nat \subseteq S
      BY <1>1, <1>2, NatSetInduction
    <2> QED
      BY <2>1, NumSectorsAssumption
  <1>4. PICK p : IsPathOf(p, h, NumSectors + 2)
    BY <1>3
  <1>5. ChainAt(h) = CHOOSE q : IsPathOf(q, h, NumSectors + 2)
    BY DEF ChainAt, IsPathOf
  <1> QED
    BY <1>4, <1>5


IsLinked(p, h, m) ==
    /\ p[1] = h
    /\ \A k \in 2 .. m : p[k - 1] \in Sectors /\ p[k] = fat[p[k - 1]]

\* A path of the table that starts at h is the chain of h as far as it goes.
LEMMA PathIsChainAt ==
    ASSUME NEW h, NEW m \in 1 .. NumSectors + 2, NEW p, IsLinked(p, h, m)
    PROVE  \A k \in 1 .. m : ChainAt(h)[k] = p[k]
  <1> DEFINE S == {k \in Nat : k >= 1 /\ k <= m => ChainAt(h)[k] = p[k]}
  <1> USE NumSectorsAssumption
  <1>1. \A k \in 1 .. NumSectors + 2 :
           ChainAt(h)[k] = IF k = 1 THEN h
                           ELSE IF ChainAt(h)[k - 1] \in Sectors THEN fat[ChainAt(h)[k - 1]] ELSE ENDOFCHAIN
    BY ChainAtUnfolds DEF IsPathOf
  <1>2. 0 \in S
    OBVIOUS
  <1>3. ASSUME NEW n \in Nat, n \in S PROVE n + 1 \in S
    <2> SUFFICES ASSUME n + 1 <= m PROVE ChainAt(h)[n + 1] = p[n + 1]
      OBVIOUS
    <2>1. n + 1 \in 1 .. NumSectors + 2
      OBVIOUS
    <2>2. CASE n = 0
      BY <1>1, <2>1, <2>2 DEF IsLinked
    <2>3. CASE n >= 1
      <3>1. ChainAt(h)[n] = p[n]
        BY <1>3, <2>3
      <3>2. n + 1 \in 2 .. m /\ (n + 1) - 1 = n /\ n + 1 # 1
        BY <2>3
      <3>3. p[n] \in Sectors /\ p[n + 1] = fat[p[n]]
        BY <3>2 DEF IsLinked
      <3>4. ChainAt(h)[n + 1] = IF ChainAt(h)[n] \in Sectors THEN fat[ChainAt(h)[n]] ELSE ENDOFCHAIN
        BY <1>1, <2>1, <3>2
      <3> QED
        BY <3>1, <3>3, <3>4
    <2> QED
      BY <2>2, <2>3
  <1>4. Nat \subseteq S
    <2> HIDE DEF S
    <2> QED
      BY <1>2, <1>3, NatSetInduction
  <1> QED
    BY <1>4

\* What is met is a sector below the head: the walk of another comes from there.
LEMMA EndsOfHeads ==
    ASSUME IInv, Ends, pc = "done", WellFormed, NEW h \in Heads
    PROVE  Complete(h) \/ BackLink(h)
  <1> USE NumSectorsAssumption
  <1> DEFINE c == chains[h]
             L == Len(c)
  <1>1. /\ h \in Sectors /\ c # <<>> /\ c[1] = h /\ L \in Nat /\ L >= 1
        /\ \A x \in 1 .. L : c[x] \in Sectors
        /\ \A x \in 2 .. L : c[x] = fat[c[x - 1]] /\ c[x - 1] \in Sectors
    <2>1. h \in Sectors
      BY NoneBeforeHead
    <2>2. h < i
      BY <2>1 DEF Ends, Started, Sectors
    <2>3. c # <<>>
      BY <2>2 DEF Ends, Started
    <2> QED
      BY <2>1, <2>3, ChainFacts
  <1>2. Stops(h)
    <2>1. h < i
      BY <1>1 DEF Ends, Started, Sectors
    <2> QED
      BY <1>1, <2>1 DEF Ends, Stopped
  <1>3. LastOf(h) = c[L]
    BY DEF LastOf
  <1> HIDE DEF c, L
  \* The last sector is in use, whatever it is.
  <1>4. InUse(c[L])
    <2>1. CASE L = 1
      BY <1>1, <2>1, NoneBeforeHead
    <2>2. CASE L >= 2
      <3>1. L \in 2 .. L
        BY <1>1, <2>2
      <3>2. c[L] = fat[c[L - 1]] /\ c[L - 1] \in Sectors /\ c[L] \in Sectors
        BY <1>1, <3>1
      <3> QED
        BY <3>2 DEF WellFormed, Links
    <2> QED
      BY <1>1, <2>1, <2>2
  <1>5. fat[c[L]] = ENDOFCHAIN \/ fat[c[L]] \in Sectors
    BY <1>4 DEF InUse, Links
  <1>6. CASE fat[c[L]] = ENDOFCHAIN
    BY <1>1, <1>6 DEF Complete, c, L
  <1>7. CASE fat[c[L]] \in Sectors
    <2>1. Met(h)
      BY <1>2, <1>3, <1>7, NoSectorIsMarker DEF Stops, Markers
    <2>2. PICK j \in 0 .. h : \E x \in 2 .. Len(chains[j]) :
                  chains[j][x] = c[L] /\ (j = h => x < L)
      BY <1>3, <2>1 DEF Met, c, L
    <2>3. PICK x \in 2 .. Len(chains[j]) : chains[j][x] = c[L] /\ (j = h => x < L)
      BY <2>2
    <2>4. L \in 1 .. L
      BY <1>1
    <2>5. j \in Sectors /\ Len(chains[j]) \in Nat
      <3>1. j \in Sectors
        BY <1>1 DEF Sectors
      <3> QED
        BY <3>1, ChainFacts
    <2>6. x \in 1 .. Len(chains[j])
      BY <2>5
    <2>7. j # h
      <3> SUFFICES ASSUME j = h PROVE FALSE
        OBVIOUS
      <3>1. x \in 1 .. L /\ x # L /\ c[x] = c[L]
        BY <1>1, <2>3, <2>5, <2>6 DEF c, L
      <3> QED
        BY <2>4, <3>1 DEF Ends, Apart, c, L
    <2>8. x <= L /\ c[L - x + 1] = j
      BY <2>3, <2>4, <2>5, <2>6, <2>7 DEF Ends, Merge, c, L
    <2> DEFINE n == L - x + 1
               p == [k \in 1 .. L + 1 |-> IF k <= L THEN c[k] ELSE fat[c[L]]]
    <2>9. n \in 2 .. L - 1 /\ n + 2 <= L + 1
      <3>1. n # 1
        BY <1>1, <2>7, <2>8
      <3> QED
        BY <1>1, <2>5, <2>8, <3>1
    <2>10. /\ p[1] = h
           /\ \A k \in 1 .. L + 1 : p[k] \in Sectors
           /\ \A k \in 2 .. L + 1 : p[k - 1] \in Sectors /\ p[k] = fat[p[k - 1]]
      <3>1. /\ \A k \in 1 .. L : p[k] = c[k]
            /\ p[L + 1] = fat[c[L]]
        BY <1>1
      <3> HIDE DEF p
      <3>2. \A k \in 1 .. L + 1 : p[k] \in Sectors
        <4>1. \A k \in 1 .. L + 1 : k \in 1 .. L \/ k = L + 1
          BY <1>1
        <4> QED
          BY <1>1, <1>7, <3>1, <4>1
      <3>3. ASSUME NEW k \in 2 .. L + 1 PROVE p[k - 1] \in Sectors /\ p[k] = fat[p[k - 1]]
        <4>1. CASE k = L + 1
          BY <1>1, <3>1, <4>1
        <4>2. CASE k \in 2 .. L
          <5>1. k \in 1 .. L /\ k - 1 \in 1 .. L
            BY <1>1, <4>2
          <5> QED
            BY <1>1, <3>1, <4>2, <5>1
        <4> QED
          BY <1>1, <4>1, <4>2
      <3> QED
        BY <1>1, <3>1, <3>2, <3>3
    \* The walk could have gone on, so it had not been everywhere.
    <2>11. L + 1 <= NumSectors + 2
      <3>1. \A y, z \in 2 .. L : y # z => c[y] # c[z]
        <4>1. \A y \in 2 .. L : y \in 1 .. L
          BY <1>1
        <4> QED
          BY <4>1 DEF Ends, Apart, c, L
      <3>2. \A y \in 2 .. L : c[y] \in 0 .. NumSectors - 1
        BY <1>1 DEF Sectors
      <3>3. L <= NumSectors + 1
        BY <1>1, <3>1, <3>2, DistinctPlaces
      <3> QED
        BY <1>1, <3>3
    <2> HIDE DEF p
    <2>12. \A k \in 1 .. L + 1 : ChainAt(h)[k] = p[k]
      <3> DEFINE m == L + 1
      <3>1. m \in 1 .. NumSectors + 2
        BY <1>1, <2>11
      <3>2. IsLinked(p, h, m)
        BY <2>10 DEF IsLinked
      <3> HIDE DEF m
      <3>3. \A k \in 1 .. m : ChainAt(h)[k] = p[k]
        BY <3>1, <3>2, PathIsChainAt
      <3> QED
        BY <3>3 DEF m
    <2>13. /\ n \in 2 .. NumSectors
           /\ n \in 1 .. L + 1 /\ n + 1 \in 1 .. L + 1 /\ n + 2 \in 1 .. L + 1
      BY <1>1, <2>9, <2>11
    <2>14. ChainAt(h)[n] = j
      <3>1. n \in 1 .. L + 1 /\ n <= L /\ c[n] = j
        BY <1>1, <2>8, <2>9
      <3> HIDE DEF n
      <3>2. p[n] = j
        BY <3>1 DEF p
      <3> QED
        BY <2>12, <3>1, <3>2
    <2>15. ChainAt(h)[n + 1] \in Sectors /\ ChainAt(h)[n + 2] \in Sectors
      <3> HIDE DEF n
      <3> QED
        BY <2>10, <2>12, <2>13
    <2>16. j \in 0 .. h - 1
      BY <1>1, <2>7 DEF Sectors
    <2> HIDE DEF n
    <2> QED
      BY <2>13, <2>14, <2>15, <2>16 DEF BackLink
  <1> QED
    BY <1>5, <1>6, <1>7

(* When makeChains is done with a well-formed table, the chain of every    *)
(* head runs to its end of chain, unless it links back below the head.     *)
THEOREM CompleteOrBackLink == Spec => []CompleteUnlessBackLink
  <1>1. IInv /\ Ends => CompleteUnlessBackLink
    BY EndsOfHeads DEF CompleteUnlessBackLink
  <1> QED
    BY <1>1, Invariant, EndsAlways, PTL
=============================================================================
