------------------------------- MODULE Attack -------------------------------
(***************************************************************************)
(* The search of a dictionary by several threads: the constructor of       *)
(* Attack (include/attack.hpp) walks the dictionary batch by batch,        *)
(* cybozu::parallel_for divides a batch among the threads, and each thread *)
(* calls PassSetData::operator() for the words of its chunk.               *)
(*                                                                         *)
(* The threads share quit, which ends the batch, and correctPass.  A       *)
(* thread is inside the assignment to correctPass while its pc is "store": *)
(* two threads there at once race, and the string may come out torn.       *)
(* quit is read as it is: the library calls between two reads of it keep   *)
(* a compiler from remembering it.                                         *)
(*                                                                         *)
(* parallel_for begins its threads one after the other and waits for them. *)
(* If the system refuses to begin one, or to wait for one, parallel_for    *)
(* throws with others running, and what they use is destroyed: target, the *)
(* list of threads, correctPass.  The first step of such a thread is its   *)
(* last here ("lost"): the program has no meaning from there on.           *)
(***************************************************************************)
EXTENDS Naturals, FiniteSets, Sequences

CONSTANTS
    Dictionaries,   \* the dictionaries (passSet) that are tried
    Passwords,      \* the passwords of the document that are tried
    NoWord,         \* the empty string
    Torn,           \* a string two threads wrote at once
    ThreadNum,      \* -t: number of threads asked for
    SepNum,         \* words in a batch (sepNum, 100000)
    LaneCounts      \* words one call checks: 1, and Uint32Vec::size with SIMD

ASSUME DictionariesAssumption == \A d \in Dictionaries : Len(d) \in Nat
ASSUME TornAssumption == Torn \notin Passwords \cup {NoWord}
ASSUME ThreadNumAssumption == ThreadNum \in Nat
ASSUME SepNumAssumption == SepNum \in Nat \ {0}
ASSUME LanesAssumption == \A n \in LaneCounts : n \in Nat \ {0} /\ SepNum % n = 0

VARIABLES
    passSet, password,  \* the input
    lanes, hashing,     \* the build: its lanes, and how it hashes a word for this file
    offset, remain,     \* the batch starts at offset; words not searched yet
    targetNum, threads, \* words and threads of the batch
    made, cursor,       \* parallel_for's division: chunks made, first free index
    chunk,              \* begin_ and end_ of each thread
    at,                 \* i of each thread
    pc, err,            \* of each thread: where it is, and if its err_ has a text
    quit, correctPass,
    main,               \* where the constructor is
    checked,            \* how often each word was checked
    overread,           \* a call looked past the end of the dictionary
    hushed              \* a thread left by an exception without a text

input == <<passSet, password, lanes, hashing>>
batch == <<offset, remain, targetNum, threads>>
division == <<made, cursor, chunk>>
shared == <<quit, correctPass, checked, overread>>
vars == <<input, batch, division, at, pc, err, hushed, shared, main>>

Thread == 0 .. ThreadNum - 1
Words == 0 .. Len(passSet) - 1
Matches(w) == passSet[w + 1] = password
Least(a, b) == IF a < b THEN a ELSE b

\* The plain build hashes with encryptedKey.hashName.  Of a file with another hash
\* than SHA-1, the SIMD build computes SHA-1 all the same (sha1PasswordX), which
\* recognises nothing, and USE_CUSTOM_SHA1 without SIMD refuses (hashPassword).
Hashings(n) == {"own"} \cup IF n = 1 THEN {"refused"} ELSE {"SHA-1"}

Init ==
    /\ passSet \in Dictionaries /\ password \in Passwords
    /\ lanes \in LaneCounts /\ hashing \in Hashings(lanes)
    /\ offset = 0 /\ remain = Len(passSet)
    /\ targetNum = 0 /\ threads = 0 /\ made = 0 /\ cursor = 0
    /\ chunk = [t \in Thread |-> [begin |-> 0, end |-> 0]]
    /\ at = [t \in Thread |-> 0]
    /\ pc = [t \in Thread |-> "done"]
    /\ err = [t \in Thread |-> FALSE]
    /\ quit = 0 /\ correctPass = NoWord
    /\ main = "batch"
    /\ checked = [w \in Words |-> 0] /\ overread = FALSE /\ hushed = FALSE
-----------------------------------------------------------------------------
(* The constructor and parallel_for *)

BeginBatch ==
    /\ main = "batch" /\ remain > 0
    /\ targetNum' = Least(remain, SepNum)
    /\ threads' = Least(ThreadNum, targetNum')
    /\ made' = 0 /\ cursor' = 0
    /\ quit' = 0
    /\ err' = [t \in Thread |-> FALSE]
    /\ main' = IF ThreadNum = 0 THEN "threw" ELSE "divide"
    /\ UNCHANGED <<input, offset, remain, chunk, at, pc, hushed, correctPass, checked, overread>>

\* Mutation: the remainder is dropped.
ExtraNone(t) == 0

\* The first n % threadNum threads take one word more.
Extra(t) == IF t < targetNum % threads THEN 1 ELSE 0
ChunkSize(t) == (targetNum \div threads) + Extra(t)

\* Mutation: a chunk begins with the last word of the one before.
BeginOverlaps == IF made = 0 THEN cursor ELSE cursor - 1

Begin == cursor

Divide ==
    /\ main = "divide"
    /\ chunk' = [chunk EXCEPT ![made] = [begin |-> Begin, end |-> cursor + ChunkSize(made)]]
    /\ at' = [at EXCEPT ![made] = Begin]
    /\ pc' = [pc EXCEPT ![made] = "made"]
    /\ cursor' = cursor + ChunkSize(made)
    /\ made' = made + 1
    /\ main' = IF made' = threads THEN "begin" ELSE "divide"
    /\ UNCHANGED <<input, batch, err, hushed, shared>>

ToBegin == {t \in Thread : pc[t] = "made"}

\* The first of the threads not begun yet.
BeginThread ==
    /\ main = "begin"
    /\ \E t \in ToBegin :
          /\ \A s \in ToBegin : t <= s
          /\ pc' = [pc EXCEPT ![t] = "test"]
          /\ main' = IF ToBegin = {t} THEN "join" ELSE "begin"
    /\ UNCHANGED <<input, batch, division, at, err, hushed, shared>>

\* beginThread or joinThread returns false: the exception leaves the constructor
\* whatever the threads are doing.
Abandon ==
    /\ main \in {"begin", "join"}
    /\ main' = "abandoned"
    /\ UNCHANGED <<input, batch, division, at, pc, err, hushed, shared>>

\* Mutations: the errors are looked at while joining; the join waits for a find.
JoinedOrFailed == (\E t \in Thread : err[t]) \/ \A t \in Thread : pc[t] = "done"
JoinedOnQuit == quit > 0 /\ \A t \in Thread : pc[t] = "done"

\* joinThread came back for one thread after the other.
Joined == \A t \in Thread : pc[t] = "done"

\* Mutation: the next batch starts a word too far.
AdvanceOneTooFar == offset + targetNum + 1

AdvanceTo == offset + targetNum

Failed == \E t \in Thread : err[t]
Stops == correctPass # NoWord

\* The exception of parallel_for leaves the constructor.
JoinThreads ==
    /\ main = "join" /\ Joined
    /\ IF Failed THEN main' = "threw" /\ UNCHANGED <<offset, remain>>
       ELSE IF Stops THEN main' = "end" /\ UNCHANGED <<offset, remain>>
       ELSE /\ main' = "batch"
            /\ offset' = AdvanceTo
            /\ remain' = remain - targetNum
    /\ UNCHANGED <<input, targetNum, threads, division, at, pc, err, hushed, shared>>

NoMoreWords ==
    /\ main = "batch" /\ remain = 0
    /\ main' = "end"
    /\ UNCHANGED <<input, batch, division, at, pc, err, hushed, shared>>
-----------------------------------------------------------------------------
(* A thread *)

\* Mutation: with SIMD, every word starts a group.
StartsGroupAlways(i) == TRUE

\* With SIMD only the words at a multiple of N start a group.
StartsGroup(i) == i % lanes = 0

\* What the threads hold references to exists while parallel_for runs.
TargetLives == main \in {"begin", "join"}

\* threadEntry's loop, and the first two returns of operator().
Test(t) ==
    /\ pc[t] = "test" /\ TargetLives
    /\ IF at[t] >= chunk[t].end \/ quit # 0 THEN pc' = [pc EXCEPT ![t] = "done"] /\ UNCHANGED at
       ELSE IF StartsGroup(at[t]) THEN pc' = [pc EXCEPT ![t] = "verify"] /\ UNCHANGED at
       ELSE at' = [at EXCEPT ![t] = @ + 1] /\ UNCHANGED pc
    /\ UNCHANGED <<input, batch, division, err, hushed, shared, main>>

Group(t) == (at[t] + offset) .. (at[t] + offset + lanes - 1)
Recognised(w) == Matches(w) /\ hashing = "own"

Verify(t) ==
    /\ pc[t] = "verify" /\ TargetLives /\ hashing # "refused"
    /\ checked' = [w \in Words |-> checked[w] + IF w \in Group(t) THEN 1 ELSE 0]
    /\ overread' = (overread \/ ~(Group(t) \subseteq Words))
    /\ IF \E w \in Group(t) \cap Words : Recognised(w)
       THEN pc' = [pc EXCEPT ![t] = "store"] /\ UNCHANGED at
       ELSE pc' = [pc EXCEPT ![t] = "test"] /\ at' = [at EXCEPT ![t] = @ + 1]
    /\ UNCHANGED <<input, batch, division, err, hushed, quit, correctPass, main>>

\* Hashing and deciphering can throw: threadEntry keeps what() and leaves.  The
\* exception of hashPassword has a text; of others nothing is known.
VerifyThrows(t) ==
    /\ pc[t] = "verify" /\ TargetLives
    /\ \E text \in IF hashing = "refused" THEN {TRUE} ELSE BOOLEAN :
          /\ err' = [err EXCEPT ![t] = text]
          /\ hushed' = (hushed \/ ~text)
    /\ pc' = [pc EXCEPT ![t] = "done"]
    /\ UNCHANGED <<input, batch, division, at, shared, main>>

Storing == {t \in Thread : pc[t] = "store"}

Store(t) ==
    /\ pc[t] = "store" /\ TargetLives
    /\ correctPass' \in IF Storing = {t} /\ correctPass # Torn THEN {password} ELSE {password, Torn}
    /\ pc' = [pc EXCEPT ![t] = "announce"]
    /\ UNCHANGED <<input, batch, division, at, err, hushed, quit, checked, overread, main>>

Announce(t) ==
    /\ pc[t] = "announce" /\ TargetLives
    /\ quit' = quit + 1
    /\ pc' = [pc EXCEPT ![t] = "done"]
    /\ UNCHANGED <<input, batch, division, at, err, hushed, correctPass, checked, overread, main>>

\* A thread goes on with what is gone.
Outlive(t) ==
    /\ pc[t] \in {"test", "verify", "store", "announce"} /\ ~TargetLives
    /\ pc' = [pc EXCEPT ![t] = "lost"]
    /\ UNCHANGED <<input, batch, division, at, err, hushed, shared, main>>

Returned == main \in {"end", "threw", "abandoned"} /\ UNCHANGED vars

ThreadStep(t) == Test(t) \/ Verify(t) \/ VerifyThrows(t) \/ Store(t) \/ Announce(t) \/ Outlive(t)
MainStep == BeginBatch \/ Divide \/ BeginThread \/ JoinThreads \/ NoMoreWords
Next == MainStep \/ Abandon \/ (\E t \in Thread : ThreadStep(t)) \/ Returned
Spec == Init /\ [][Next]_vars

\* The threads are scheduled; nothing says that one must fail to begin or join.
FairSpec == Spec /\ WF_vars(MainStep) /\ \A t \in Thread : WF_vars(ThreadStep(t))
-----------------------------------------------------------------------------
TypeOK ==
    /\ offset \in Nat /\ remain \in Nat /\ offset + remain = Len(passSet)
    /\ targetNum \in 0 .. SepNum /\ threads \in 0 .. ThreadNum
    /\ made \in 0 .. threads /\ cursor \in 0 .. targetNum
    /\ chunk \in [Thread -> [begin : 0 .. SepNum, end : 0 .. SepNum]]
    /\ at \in [Thread -> 0 .. SepNum]
    /\ pc \in [Thread -> {"made", "test", "verify", "store", "announce", "done", "lost"}]
    /\ err \in [Thread -> BOOLEAN] /\ hushed \in BOOLEAN
    /\ quit \in 0 .. ThreadNum
    /\ correctPass \in {NoWord, password, Torn}
    /\ main \in {"batch", "divide", "begin", "join", "end", "threw", "abandoned"}

\* parallel_for (lines 66-74): the chunks tile the batch; no index is left out
\* and no two threads share one.
Partition ==
    main \in {"begin", "join"} =>
        \A i \in 0 .. targetNum - 1 :
            /\ \E t \in Thread : t < threads /\ i \in chunk[t].begin .. chunk[t].end - 1
            /\ \A s, t \in Thread :
                  /\ s < threads /\ i \in chunk[s].begin .. chunk[s].end - 1
                  /\ t < threads /\ i \in chunk[t].begin .. chunk[t].end - 1
                  => s = t

\* However a batch ends (a find, an error in a thread, the last word), no thread of
\* it goes on with a target, a list or a string that parallel_for's caller has
\* destroyed: only a thread that could not be begun or joined can leave another one
\* so (lines 76 and 79, which throw without waiting for the rest).
LostOnlyIfAbandoned == (\E t \in Thread : pc[t] = "lost") => main = "abandoned"

InDictionary == \E w \in Words : Matches(w)

\* A search that ends says only a password the dictionary holds.  If no error went
\* unseen for want of a text (parallel.hpp:83), it has checked the password if the
\* dictionary holds it and the build recognises it, and otherwise every word, none
\* of them twice; and it says so, unless the writes of a duplicate raced.  (The
\* empty password is the exception: correctPass cannot tell it from none.  And a
\* SIMD build ends having checked every word for nothing if the file's hash is not
\* SHA-1: attack.hpp:135.)
EndIsConclusive ==
    main = "end" =>
        /\ correctPass \notin {NoWord, Torn} => InDictionary
        /\ ~hushed =>
              /\ IF InDictionary /\ hashing = "own"
                 THEN \E w \in Words : Matches(w) /\ checked[w] = 1
                 ELSE \A w \in Words : checked[w] = 1
              /\ correctPass # Torn =>
                    (correctPass # NoWord <=> password # NoWord /\ hashing = "own" /\ InDictionary)

\* No two threads write correctPass at once unless the dictionary holds the
\* password twice: attack.cpp sorts it but keeps equal lines.
RaceNeedsDuplicate ==
    Cardinality(Storing) > 1 \/ correctPass = Torn =>
        \E v, w \in Words : v # w /\ Matches(v) /\ Matches(w)

\* A group of SIMD lanes reaches past the dictionary only if the last batch is
\* not a multiple of them: nothing rounds the dictionary up.
OverreadsOnlyTail == overread => Len(passSet) % lanes # 0

\* The constructor returns, by its end or by an exception.
Terminates == <>(main \in {"end", "threw", "abandoned"})
=============================================================================
