-------------------------- MODULE MCEncryptionInfo --------------------------
(***************************************************************************)
(* Every cipher with every digest, both forms of the root tag, the spin    *)
(* counts encode_in lets pass at their ends, and two sets of bytes.  The   *)
(* longest text, the two that encode writes and Office 2007's are cut at   *)
(* every place.                                                            *)
(***************************************************************************)
EXTENDS EncryptionInfo

MCAgile ==
    [layout : {"agile"}, cipher : Ciphers, hash : Hashes, isOffice2013 : BOOLEAN,
     spin : {-10, 0, 100000, 10000000}, pattern : {0, 101}]
MCStandard == [layout : {"standard"}, major : {3, 4}, bits : StandardKeySizes, pattern : {0, 101}]

MCInfos == MCAgile \cup MCStandard
MCCutInfos ==
    {[layout |-> "agile", cipher |-> "AES256_CBC", hash |-> "SHA512", isOffice2013 |-> TRUE,
      spin |-> 10000000, pattern |-> 0],
     [layout |-> "agile", cipher |-> "AES128_CBC", hash |-> "SHA1", isOffice2013 |-> FALSE,
      spin |-> 0, pattern |-> 101]} \cup {m \in MCStandard : m.pattern = 101}
=============================================================================
