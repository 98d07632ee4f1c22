----------------------------- MODULE BCryptAlg -----------------------------
(***************************************************************************)
(* The algorithm provider that every hash of one size shares in a Windows  *)
(* build (BCryptAlg of cybozu/sha2.hpp).  The first thread to need it      *)
(* opens it, without a lock: each that finds none opens one of its own,    *)
(* and the exchange of hAlg_ decides whose stays.                          *)
(*                                                                         *)
(* A handle is known by the thread that opened it: a thread opens a second *)
(* one only after the first failed and was closed.  objSize_ is written    *)
(* before the exchange but read with no fence after hAlg_ was: a reader    *)
(* may still find the zero of the constructor.                             *)
(***************************************************************************)
EXTENDS Naturals

CONSTANTS
    Threads,
    NoHandle,       \* no handle in hAlg_
    ObjSize         \* size of the work area of a hash object

ASSUME NoHandleAssumption == NoHandle \notin Threads
ASSUME ObjSizeAssumption == ObjSize \in Nat \ {0}

VARIABLES
    hAlg, objSize,  \* of the shared provider
    handle,         \* of each thread: "none", "open" or "closed"
    apc,            \* where each thread is in open or with its hash object
    hashObj         \* the size of the work area each thread gave its hash object

algVars == <<hAlg, objSize, handle, apc, hashObj>>

AlgInit ==
    /\ hAlg = NoHandle /\ objSize = 0
    /\ handle = [t \in Threads |-> "none"]
    /\ apc = [t \in Threads |-> "idle"]
    /\ hashObj = [t \in Threads |-> 0]

Goes(t, from, to) == apc[t] = from /\ apc' = [apc EXCEPT ![t] = to]

\* createHash calls open, which returns if there is a handle.
Test(t) ==
    /\ apc[t] = "idle"
    /\ apc' = [apc EXCEPT ![t] = IF hAlg # NoHandle THEN "opened" ELSE "provider"]
    /\ UNCHANGED <<hAlg, objSize, handle, hashObj>>

\* An exception leaves open and the hash: the thread may try again.
OpenAlgorithmProvider(t) ==
    /\ \/ Goes(t, "provider", "property") /\ handle' = [handle EXCEPT ![t] = "open"]
       \/ Goes(t, "provider", "idle") /\ UNCHANGED handle
    /\ UNCHANGED <<hAlg, objSize, hashObj>>

GetProperty(t) ==
    /\ \/ Goes(t, "property", "size") /\ UNCHANGED handle
       \/ Goes(t, "property", "idle") /\ handle' = [handle EXCEPT ![t] = "none"]
    /\ UNCHANGED <<hAlg, objSize, hashObj>>

SetObjSize(t) ==
    /\ Goes(t, "size", "exchange")
    /\ objSize' = ObjSize
    /\ UNCHANGED <<hAlg, handle, hashObj>>

\* Mutation: a plain assignment instead of the exchange.
ExchangePlain(t) ==
    /\ Goes(t, "exchange", "opened")
    /\ hAlg' = t
    /\ UNCHANGED <<objSize, handle, hashObj>>

Exchange(t) ==
    /\ \/ hAlg = NoHandle /\ hAlg' = t /\ Goes(t, "exchange", "opened")
       \/ hAlg # NoHandle /\ UNCHANGED hAlg /\ Goes(t, "exchange", "close")
    /\ UNCHANGED <<objSize, handle, hashObj>>

CloseLoser(t) ==
    /\ Goes(t, "close", "opened")
    /\ handle' = [handle EXCEPT ![t] = "closed"]
    /\ UNCHANGED <<hAlg, objSize, hashObj>>

CreateHash(t) ==
    /\ \/ Goes(t, "opened", "hash") /\ \E n \in {0, objSize} : hashObj' = [hashObj EXCEPT ![t] = n]
       \/ Goes(t, "opened", "idle") /\ UNCHANGED hashObj
    /\ UNCHANGED <<hAlg, objSize, handle>>

DestroyHash(t) ==
    /\ Goes(t, "hash", "idle")
    /\ UNCHANGED <<hAlg, objSize, handle, hashObj>>

AlgStep(t) ==
    \/ Test(t) \/ OpenAlgorithmProvider(t) \/ GetProperty(t) \/ SetObjSize(t)
    \/ Exchange(t) \/ CloseLoser(t) \/ CreateHash(t) \/ DestroyHash(t)

AlgNext == \E t \in Threads : AlgStep(t)
AlgSpec == AlgInit /\ [][AlgNext]_algVars
-----------------------------------------------------------------------------
AlgTypeOK ==
    /\ hAlg \in Threads \cup {NoHandle}
    /\ objSize \in {0, ObjSize}
    /\ handle \in [Threads -> {"none", "open", "closed"}]
    /\ apc \in [Threads -> {"idle", "provider", "property", "size", "exchange", "close", "opened", "hash"}]
    /\ hashObj \in [Threads -> {0, ObjSize}]

Opening(t) == apc[t] \in {"property", "size", "exchange", "close"}

\* However the threads interleave, a hash is made of a provider that is open
\* and with a work area of the right size (or none, and then the system
\* allocates it).
HashesAreUsable ==
    \A t \in Threads :
        /\ apc[t] \in {"opened", "hash"} => hAlg # NoHandle /\ handle[hAlg] = "open"
        /\ hashObj[t] \in {0, ObjSize}

\* One handle stays open: a thread outside open has left none behind but the
\* one that all share, and that one is never replaced.
OneHandleStays ==
    \A t \in Threads : handle[t] = "open" => hAlg = t \/ Opening(t)

AlgSafe == HashesAreUsable /\ OneHandleStays
=============================================================================
