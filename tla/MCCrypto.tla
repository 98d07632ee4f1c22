----------------------------- MODULE MCCrypto ------------------------------
(***************************************************************************)
(* One thread does every job in every build: messages in three pieces of   *)
(* lengths around a block's, around its last bytes and around what the     *)
(* libraries take at once; keys shorter, as long and longer than a block.  *)
(* Three threads make a digest each where they share a provider.  The      *)
(* published digests are the examples of FIPS 180-4: one and two blocks.   *)
(* A cell of the cipher has 4 bytes; a text has up to 13 in three pieces,  *)
(* and the counters begin where one and where all bytes wrap.              *)
(***************************************************************************)
EXTENDS Crypto

CONSTANT MaxPieces      \* pieces before the last

Builds == {"portable", "openssl", "apple", "bcrypt"}

LengthsOf(alg) == IF alg = "SHA512" THEN {0, 1, 111, 112, 128, 239} ELSE {0, 1, 55, 56, 64, 119}
StreamJobs ==
    {[kind |-> "stream", alg |-> a, build |-> b, lengths |-> LengthsOf(a), pieces |-> MaxPieces] :
        a \in Names, b \in Builds}
HmacJobs ==
    {[kind |-> "hmac", alg |-> a, build |-> b, key |-> n, text |-> m] :
        a \in Names, b \in Builds, n \in {20, 63, 64, 65, 128, 129}, m \in {0, 64}}
PasswordJobs ==
    {[kind |-> "password", alg |-> a, build |-> b, text |-> 24, spin |-> 3] : a \in Names, b \in Builds}
CustomJobs ==
    {[kind |-> "custom", alg |-> "SHA1", build |-> b, text |-> 24, spin |-> 3] : b \in Builds}

\* "abc", and one character after the other from "abcd" or "abcdefgh" on.
Abc == <<97, 98, 99>>
From(first, n) == [c \in 1 .. 14 * n |-> 96 + first + ((c - 1) \div n) + ((c - 1) % n)]
VectorJob(a, m, w) == [kind |-> "vector", alg |-> a, build |-> "portable", message |-> m, words |-> w]
VectorJobs == {
    VectorJob("SHA1", Abc,
        << <<\ha999, \h3e36>>, <<\h4706, \h816a>>, <<\hba3e, \h2571>>, <<\h7850, \hc26c>>,
           <<\h9cd0, \hd89d>> >>),
    VectorJob("SHA1", From(1, 4),
        << <<\h8498, \h3e44>>, <<\h1c3b, \hd26e>>, <<\hbaae, \h4aa1>>, <<\hf951, \h29e5>>,
           <<\he546, \h70f1>> >>),
    VectorJob("SHA256", Abc,
        << <<\hba78, \h16bf>>, <<\h8f01, \hcfea>>, <<\h4141, \h40de>>, <<\h5dae, \h2223>>,
           <<\hb003, \h61a3>>, <<\h9617, \h7a9c>>, <<\hb410, \hff61>>, <<\hf200, \h15ad>> >>),
    VectorJob("SHA256", From(1, 4),
        << <<\h248d, \h6a61>>, <<\hd206, \h38b8>>, <<\he5c0, \h2693>>, <<\h0c3e, \h6039>>,
           <<\ha33c, \he459>>, <<\h64ff, \h2167>>, <<\hf6ec, \hedd4>>, <<\h19db, \h06c1>> >>),
    VectorJob("SHA512", Abc,
        << <<\hddaf, \h35a1, \h9361, \h7aba>>, <<\hcc41, \h7349, \hae20, \h4131>>,
           <<\h12e6, \hfa4e, \h89a9, \h7ea2>>, <<\h0a9e, \heee6, \h4b55, \hd39a>>,
           <<\h2192, \h992a, \h274f, \hc1a8>>, <<\h36ba, \h3c23, \ha3fe, \hebbd>>,
           <<\h454d, \h4423, \h643c, \he80e>>, <<\h2a9a, \hc94f, \ha54c, \ha49f>> >>),
    VectorJob("SHA512", From(1, 8),
        << <<\h8e95, \h9b75, \hdae3, \h13da>>, <<\h8cf4, \hf728, \h14fc, \h143f>>,
           <<\h8f77, \h79c6, \heb9f, \h7fa1>>, <<\h7299, \haead, \hb688, \h9018>>,
           <<\h501d, \h289e, \h4900, \hf7e4>>, <<\h331b, \h99de, \hc4b5, \h433a>>,
           <<\hc7d3, \h29ee, \hb6dd, \h2654>>, <<\h5e96, \he55b, \h874b, \he909>> >>)}

CipherJob(kind, b, m, n, c) ==
    [kind |-> kind, alg |-> "SHA1", build |-> b, mode |-> m, ivLen |-> n, counter |-> c,
     lengths |-> IF kind = "call" THEN 0 .. 13 ELSE {0, 1, 3, 4, 9}, pieces |-> MaxPieces + 1]
Wraps == Radix - 1
CipherJobs ==
    UNION {{CipherJob("cipher", b, "CBC", 4, << >>), CipherJob("cipher", b, "CBC", 3, << >>),
            CipherJob("cipher", b, "ECB", 0, << >>),
            CipherJob("cipher", b, "CTR", 4, <<0, 1, Wraps, Wraps>>),
            CipherJob("cipher", b, "CTR", 4, <<Wraps, Wraps, Wraps, Wraps - 1>>),
            CipherJob("call", b, "CBC", 4, << >>), CipherJob("call", b, "ECB", 0, << >>)} :
        b \in {"ni", "cng"}}
    \cup {[kind |-> "keys", alg |-> "SHA1", build |-> "ni", size |-> s] : s \in KeySizes}

First == CHOOSE t \in Threads : TRUE
NoJob == [kind |-> "done", alg |-> "SHA1", build |-> "portable"]
Together == [kind |-> "stream", alg |-> "SHA256", build |-> "bcrypt", lengths |-> {3}, pieces |-> 0]

MCJobs ==
    {[t \in Threads |-> IF t = First THEN j ELSE NoJob] :
        j \in StreamJobs \cup HmacJobs \cup PasswordJobs \cup CustomJobs \cup VectorJobs \cup CipherJobs}
    \cup {[t \in Threads |-> Together]}
=============================================================================
