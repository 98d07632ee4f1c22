------------------------------ MODULE FatChains -----------------------------
(***************************************************************************)
(* FatSectors::makeChains (include/cfb.hpp), which turns the FAT, and in   *)
(* the same way the mini FAT, into a map from the first sector of a chain  *)
(* to the sectors of the chain.                                            *)
(*                                                                         *)
(* The table comes from a file and may hold anything.  The code goes up    *)
(* the sectors, starts a chain at every sector in use and follows the      *)
(* words; each word it follows is replaced by FREESECT, so that a sector   *)
(* already in a chain does not start one of its own and no walk goes       *)
(* around a cycle twice.  The word of the sector a walk starts at stays.   *)
(***************************************************************************)
EXTENDS CfbWords, Sequences

CONSTANTS
    NumSectors,     \* fatIdx.size()
    Fats            \* the tables that are tried

Sectors == 0 .. NumSectors - 1

ASSUME NumSectorsAssumption == NumSectors \in Nat
ASSUME FatsAssumption == Fats \subseteq [Sectors -> Int]

VARIABLES
    fat,            \* the table as it was read
    fatIdx,         \* the code's table, destroyed by the walks
    i,              \* the sector a chain may start at
    v,              \* the word to follow
    chains,         \* the map; <<>> where it has no entry
    pc

vars == <<fat, fatIdx, i, v, chains, pc>>

Init ==
    /\ fat \in Fats
    /\ fatIdx = fat
    /\ i = 0
    /\ v = ENDOFCHAIN
    /\ chains = [s \in Sectors |-> <<>>]
    /\ pc = "head"

\* A sector that starts no chain: free, consumed by a walk, or of a table.
StartsNoChain(w) == w \in {FREESECT, FATSECT, DIFSECT}

\* Mutation: "continue" does not reach the increment.
SkipStays ==
    /\ pc = "head" /\ i < NumSectors
    /\ StartsNoChain(fatIdx[i])
    /\ UNCHANGED vars

Skip ==
    /\ pc = "head" /\ i < NumSectors
    /\ StartsNoChain(fatIdx[i])
    /\ i' = i + 1
    /\ UNCHANGED <<fat, fatIdx, v, chains, pc>>

StartChain ==
    /\ pc = "head" /\ i < NumSectors
    /\ ~StartsNoChain(fatIdx[i])
    /\ v' = fatIdx[i]
    /\ chains' = [chains EXCEPT ![i] = <<i>>]
    /\ pc' = "walk"
    /\ UNCHANGED <<fat, fatIdx, i>>

\* The end of the chain, or a word an earlier walk has consumed.
EndsChain(w) == w = ENDOFCHAIN \/ w = FREESECT

EndChain ==
    /\ pc = "walk"
    /\ EndsChain(v)
    /\ i' = i + 1
    /\ pc' = "head"
    /\ UNCHANGED <<fat, fatIdx, v, chains>>

\* "bad idx": the whole file is refused.
BadIdx ==
    /\ pc = "walk"
    /\ ~EndsChain(v)
    /\ OutOfRange(v, NumSectors)
    /\ pc' = "throw"
    /\ UNCHANGED <<fat, fatIdx, i, v, chains>>

\* Mutations: the followed word is kept; the word of the first sector goes too.
ConsumeNothing(idx, s) == idx
ConsumeFirstToo(idx, s) == [idx EXCEPT ![s] = FREESECT, ![i] = FREESECT]

Consume(idx, s) == [idx EXCEPT ![s] = FREESECT]

\* Mutation: the loop variable instead of the sector reached.
WordAfterFirst(idx, s) == idx[i]

WordAfter(idx, s) == idx[s]

Follow ==
    /\ pc = "walk"
    /\ ~EndsChain(v)
    /\ ~OutOfRange(v, NumSectors)
    /\ chains' = [chains EXCEPT ![i] = Append(@, v)]
    /\ v' = WordAfter(fatIdx, v)
    /\ fatIdx' = Consume(fatIdx, v)
    /\ UNCHANGED <<fat, i, pc>>

Finish ==
    /\ pc = "head" /\ i = NumSectors
    /\ pc' = "done"
    /\ UNCHANGED <<fat, fatIdx, i, v, chains>>

Stop == pc \in {"done", "throw"} /\ UNCHANGED vars

Step == Skip \/ StartChain \/ EndChain \/ BadIdx \/ Follow \/ Finish
Next == Step \/ Stop
Spec == Init /\ [][Next]_vars
FairSpec == Spec /\ WF_vars(Step)       \* sequential code: it keeps running
-----------------------------------------------------------------------------
TypeOK ==
    /\ fat \in Fats
    /\ fatIdx \in [Sectors -> Int]
    /\ i \in 0 .. NumSectors
    /\ v \in Int
    /\ chains \in [Sectors -> Seq(Sectors)]
    /\ pc \in {"head", "walk", "done", "throw"}

\* Every chain, whatever the table holds and however many walks have been over
\* it, is a path of the table as it was read and starts at its own key: a
\* stream is never assembled from sectors the file did not link.
ChainsFollowFat ==
    \A s \in Sectors :
        /\ chains[s] # <<>> => chains[s][1] = s
        /\ \A x \in 1 .. Len(chains[s]) - 1 : chains[s][x + 1] = fat[chains[s][x]]

\* No walk goes around a cycle for long: a chain has at most two sectors more
\* than the table, the one it starts at and the one it meets again.
WalksBounded == \A s \in Sectors : Len(chains[s]) <= NumSectors + 2

\* A table is refused only for a word that names no sector.
RefusesOnlyBadIdx ==
    pc = "throw" => \E s \in Sectors : fat[s] \notin Sectors \cup {ENDOFCHAIN, FREESECT}

-----------------------------------------------------------------------------
(* Tables as the format describes them. *)

Links(s) == fat[s] \in Sectors
InUse(s) == Links(s) \/ fat[s] = ENDOFCHAIN

\* Every word names a sector or is a marker, a link leads to a sector in use,
\* and no two links to the same one.
WellFormed ==
    /\ \A s \in Sectors : fat[s] \in Sectors \cup Markers
    /\ \A s \in Sectors : Links(s) => InUse(fat[s])
    /\ \A s, t \in Sectors : s # t /\ Links(s) => fat[s] # fat[t]

Heads == {s \in Sectors : InUse(s) /\ \A t \in Sectors : fat[t] # s}

\* The n-th sector of the chain that starts at h, ENDOFCHAIN past its end.
ChainAt(h) ==
    LET p[n \in 1 .. NumSectors + 2] ==
            IF n = 1 THEN h
            ELSE IF p[n - 1] \in Sectors THEN fat[p[n - 1]] ELSE ENDOFCHAIN
    IN  p

Complete(h) == chains[h] # <<>> /\ fat[chains[h][Len(chains[h])]] = ENDOFCHAIN

\* The chain of h comes to a lower sector that has two more sectors after it.
\* The walk that started at the lower one has consumed the words of those two.
BackLink(h) ==
    \E n \in 2 .. NumSectors :
        /\ ChainAt(h)[n] \in 0 .. h - 1
        /\ ChainAt(h)[n + 1] \in Sectors
        /\ ChainAt(h)[n + 2] \in Sectors

\* A chain of a well-formed table is complete unless it links back to a sector
\* below its first one: in particular every chain the writer makes, ascending.
CompleteUnlessBackLink ==
    pc = "done" /\ WellFormed => \A h \in Heads : Complete(h) \/ BackLink(h)

\* makeChains ends on every table: it needs no protection against cycles.
Terminates == <>(pc \in {"done", "throw"})
=============================================================================
