--------------------------- MODULE EncryptionInfo ---------------------------
(***************************************************************************)
(* The EncryptionInfo stream (include/crypto_util.hpp): encode_in fills an *)
(* object, addHeader and toXml write it, and the constructor with          *)
(* setAgileEncryptionInfo reads it back, by the XML reader (MiniXml),      *)
(* base64 and atoi (Base64).  Office 2007 writes another layout, which     *)
(* setStandardEncryptionInfo (standard_encryption.hpp) reads.              *)
(*                                                                         *)
(* Between the two the stream may lose its end, as a damaged file does.    *)
(* What the values mean is OfficeCrypto's subject: here they are bytes.    *)
(***************************************************************************)
EXTENDS Base64, MiniXml

CONSTANTS
    Infos,          \* what is written: see Info
    CutInfos,       \* those the stream of which may be cut
    BufSize         \* of toXml's buffer (2048)

VARIABLES
    made,           \* the member of Infos
    head,           \* the bytes before the text, or all of them
    wasCut,
    info,           \* what the reader has set
    pc

infoVars == <<made, head, wasCut, info, pc, xml>>

BlockKeySize == 16
RoundUp(n) == ((n + BlockKeySize - 1) \div BlockKeySize) * BlockKeySize

\* Any bytes: what FillRand draws, and what the ciphers make of it.
Bytes(pattern, field, n) == [a \in 1 .. n |-> (pattern + (field * 31) + (a * a * 7)) % 256]
-----------------------------------------------------------------------------
(* CipherParam *)

Ciphers == {"AES128_CBC", "AES256_CBC"}
KeyBits == [AES128_CBC |-> 128, AES256_CBC |-> 256]
HashSize == [SHA1 |-> 20, SHA256 |-> 32, SHA384 |-> 48, SHA512 |-> 64]
Hashes == DOMAIN HashSize

setByName(cipher, hash, saltValue) ==
    [cipherName |-> cipher, hashName |-> hash, saltSize |-> 16, blockSize |-> BlockKeySize,
     keyBits |-> KeyBits[cipher], hashSize |-> HashSize[hash], saltValue |-> saltValue]

\* encode_in and GenerateIntegrityParameter: the sizes of what they fill in.
AgileObject(m) ==
    LET hashCells == RoundUp(HashSize[m.hash])
    IN  [spinCount |-> m.spin,
         keyData |-> setByName(m.cipher, m.hash, Bytes(m.pattern, 1, 16)),
         encryptedHmacKey |-> Bytes(m.pattern, 2, hashCells),
         encryptedHmacValue |-> Bytes(m.pattern, 3, hashCells),
         encryptedKey |-> setByName(m.cipher, m.hash, Bytes(m.pattern, 4, 16)),
         encryptedVerifierHashInput |-> Bytes(m.pattern, 5, 16),
         encryptedVerifierHashValue |-> Bytes(m.pattern, 6, hashCells),
         encryptedKeyValue |-> Bytes(m.pattern, 7, KeyBits[m.cipher] \div 8)]
-----------------------------------------------------------------------------
(* addHeader and toXml *)

LE16(n) == <<n % 256, n \div 256>>
LE32(n) == LE16(n % 65536) \o LE16(n \div 65536)
Get16(s, p) == s[p + 1] + (256 * s[p + 2])
Get32(s, p) == Get16(s, p) + (65536 * Get16(s, p + 2))

AgileVersion == LE16(4) \o LE16(4)
Reserved == LE32(64)

Attribute(key, value) == <<" ", key, "=", "\"">> \o value \o <<"\"">>
Uri ==
    [encryption |-> "http://schemas.microsoft.com/office/2006/encryption",
     password |-> "http://schemas.microsoft.com/office/2006/keyEncryptor/password",
     certificate |-> "http://schemas.microsoft.com/office/2006/keyEncryptor/certificate"]

ParamXml(p) ==
    Attribute("saltSize", Printed(p.saltSize)) \o Attribute("blockSize", Printed(p.blockSize))
    \o Attribute("keyBits", Printed(p.keyBits)) \o Attribute("hashSize", Printed(p.hashSize))
    \o Attribute("cipherAlgorithm", <<"AES">>) \o Attribute("cipherChaining", <<"ChainingModeCBC">>)
    \o Attribute("hashAlgorithm", <<p.hashName>>) \o Attribute("saltValue", enc64(p.saltValue))

Declaration ==
    <<"<", "?", "xml">> \o Attribute("version", <<"1.0">>) \o Attribute("encoding", <<"UTF-8">>)
    \o Attribute("standalone", <<"yes">>) \o <<"?", ">", "\n">>
Root(isOffice2013) ==
    <<"<", "encryption">> \o Attribute("xmlns", <<Uri.encryption>>) \o Attribute("xmlns:p", <<Uri.password>>)
    \o (IF isOffice2013 THEN Attribute("xmlns:c", <<Uri.certificate>>) ELSE << >>) \o <<">">>
Content(o) ==
    <<"<", "keyData">> \o ParamXml(o.keyData) \o <<"/", ">", "<", "dataIntegrity">>
    \o Attribute("encryptedHmacKey", enc64(o.encryptedHmacKey))
    \o Attribute("encryptedHmacValue", enc64(o.encryptedHmacValue))
    \o <<"/", ">", "<", "keyEncryptors", ">", "<", "keyEncryptor">>
    \o Attribute("uri", <<Uri.password>>) \o <<">", "<", "p:encryptedKey">>
    \o Attribute("spinCount", Printed(o.spinCount)) \o ParamXml(o.encryptedKey)
    \o Attribute("encryptedVerifierHashInput", enc64(o.encryptedVerifierHashInput))
    \o Attribute("encryptedVerifierHashValue", enc64(o.encryptedVerifierHashValue))
    \o Attribute("encryptedKeyValue", enc64(o.encryptedKeyValue))
    \o <<"/", ">", "<", "/", "keyEncryptor", ">", "<", "/", "keyEncryptors", ">">>
EndOfRoot == <<"<", "/", "encryption", ">">>
Xml(o, isOffice2013) == ((Declaration \o Root(isOffice2013)) \o Content(o)) \o EndOfRoot

\* snprintf keeps the tokens that end before the buffer's last character.
Size(tokens) == Cardinality(UNION {{a} \X (1 .. Len(tokens[a])) : a \in DOMAIN tokens})
toXml(o, isOffice2013) ==
    LET whole == Xml(o, isOffice2013)
    IN  IF Size(whole) < BufSize THEN whole
        ELSE SubSeq(whole, 1, Max({n \in 0 .. Len(whole) : Size(SubSeq(whole, 1, n)) < BufSize}))
-----------------------------------------------------------------------------
(* What Office 2007 writes: [MS-OFFCRYPTO] 2.3.2, 2.3.3 as analyze reads it *)

CspName == LE16(77) \o LE16(83) \o LE16(0)
StandardKeySizes == {128, 192, 256}
AlgId(bits) == CASE bits = 128 -> 26126 [] bits = 192 -> 26127 [] bits = 256 -> 26128
StandardHeader(bits) ==
    LE32(36) \o LE32(0) \o LE32(AlgId(bits)) \o LE32(32772) \o LE32(bits) \o LE32(24)
    \o LE32(0) \o LE32(0) \o CspName

\* saltSize, salt, encryptedVerifier, verifierHashSize, encryptedVerifierHash.
StandardObject(m) ==
    [keySize |-> m.bits, salt |-> Bytes(m.pattern, 1, 16),
     encryptedVerifier |-> Bytes(m.pattern, 2, 16),
     encryptedVerifierHash |-> Bytes(m.pattern, 3, 32)]

StandardStream(m) ==
    LET o == StandardObject(m)
    IN  LE16(m.major) \o LE16(2) \o LE32(36) \o LE32(Len(StandardHeader(m.bits))) \o StandardHeader(m.bits)
        \o LE32(16) \o o.salt \o o.encryptedVerifier \o LE32(20) \o o.encryptedVerifierHash
-----------------------------------------------------------------------------
HasXml(m) == m.layout = "agile"

\* What encode_in and Office 2007 fill in.
ASSUME InfosAssumption ==
    /\ BufSize \in Nat \ {0}
    /\ \A m \in Infos :
          /\ m.pattern \in Nat
          /\ IF HasXml(m)
             THEN m.cipher \in Ciphers /\ m.hash \in Hashes /\ m.isOffice2013 \in BOOLEAN /\ m.spin \in Int
             ELSE m.major \in {3, 4} /\ m.bits \in StandardKeySizes

InfoInit ==
    /\ made \in Infos
    /\ head = IF HasXml(made) THEN AgileVersion \o Reserved ELSE StandardStream(made)
    /\ XmlInit(IF HasXml(made) THEN toXml(AgileObject(made), made.isOffice2013) ELSE << >>)
    /\ wasCut = FALSE
    /\ info = << >>
    /\ pc = "stored"

\* The end of the stream is lost.
LoseEnd ==
    /\ pc = "stored" /\ ~wasCut /\ made \in CutInfos
    /\ \/ \E n \in 0 .. Len(text) - 1 : text' = SubSeq(text, 1, n) /\ UNCHANGED head
       \/ \E n \in 0 .. Len(head) - 1 : head' = SubSeq(head, 1, n) /\ text' = << >>
    /\ wasCut' = TRUE
    /\ UNCHANGED <<made, info, pc, at, tag, nodes, open, mode>>

\* The constructor: a stream of at least 8 bytes, of a version it knows.
Version == <<Get16(head, 0), Get16(head, 2)>>
Open ==
    /\ pc = "stored"
    /\ pc' = IF Len(head) < 8 THEN "refused"
             ELSE CASE Version = <<4, 4>> -> IF Get32(head, 4) = 64 THEN "xml" ELSE "refused"
                    [] Version \in {<<3, 2>>, <<4, 2>>} -> "standard"
                    [] OTHER -> "refused"
    /\ UNCHANGED <<made, head, wasCut, info, xml>>

ReadXml ==
    /\ pc = "xml" /\ XmlNext
    /\ UNCHANGED <<made, head, wasCut, info, pc>>
-----------------------------------------------------------------------------
(* setAgileEncryptionInfo: every miss and every bad value throws.           *)

Val(attr, key) == attr[<<key>>]
HasAll(attr, keys) == \A key \in keys : <<key>> \in DOMAIN attr

\* setByXml
CipherOf(attr) ==
    {c \in Ciphers : /\ Val(attr, "cipherAlgorithm") = <<"AES">>
                     /\ Val(attr, "cipherChaining") = <<"ChainingModeCBC">>
                     /\ Unsigned(Val(attr, "keyBits")) = KeyBits[c]}
HashOf(attr) ==
    {h \in Hashes : Val(attr, "hashAlgorithm") = <<h>> /\ IntOf(Val(attr, "hashSize")) = HashSize[h]}

IsParam(attr) ==
    /\ HasAll(attr, {"saltSize", "blockSize", "keyBits", "hashSize", "saltValue",
                     "cipherChaining", "cipherAlgorithm", "hashAlgorithm"})
    /\ \A key \in {"saltSize", "blockSize", "keyBits"} : IsUnsigned(Val(attr, key))
    /\ IsInt(Val(attr, "hashSize"))
    /\ Unsigned(Val(attr, "saltSize")) \in 1 .. 65536
    /\ Unsigned(Val(attr, "blockSize")) \in {n \in 2 .. 4096 : n % 2 = 0}
    /\ CipherOf(attr) # {} /\ HashOf(attr) # {}

Param(attr) ==
    [cipherName |-> CHOOSE c \in CipherOf(attr) : TRUE, hashName |-> CHOOSE h \in HashOf(attr) : TRUE,
     saltSize |-> Unsigned(Val(attr, "saltSize")), blockSize |-> Unsigned(Val(attr, "blockSize")),
     keyBits |-> Unsigned(Val(attr, "keyBits")), hashSize |-> IntOf(Val(attr, "hashSize")),
     saltValue |-> dec64(Val(attr, "saltValue"))]

Node(name) == nodes[getFirstTagByName(name)].attr
HasNodes == \A name \in {"keyData", "dataIntegrity", "p:encryptedKey"} : getFirstTagByName(name) # 0

IsComplete ==
    /\ HasNodes
    /\ IsParam(Node("keyData"))
    /\ HasAll(Node("dataIntegrity"), {"encryptedHmacKey", "encryptedHmacValue"})
    /\ IsParam(Node("p:encryptedKey"))
    /\ HasAll(Node("p:encryptedKey"), {"spinCount", "encryptedVerifierHashInput",
                                       "encryptedVerifierHashValue", "encryptedKeyValue"})
    /\ IsInt(Val(Node("p:encryptedKey"), "spinCount"))

SetAgileEncryptionInfo ==
    LET integrity == Node("dataIntegrity")
        key == Node("p:encryptedKey")
    IN  /\ pc = "xml" /\ mode \in {"parsed", "threw"}
        /\ IF mode = "threw" \/ ~IsComplete THEN pc' = "refused" /\ UNCHANGED info
           ELSE /\ info' = [spinCount |-> IntOf(Val(key, "spinCount")),
                            keyData |-> Param(Node("keyData")),
                            encryptedHmacKey |-> dec64(Val(integrity, "encryptedHmacKey")),
                            encryptedHmacValue |-> dec64(Val(integrity, "encryptedHmacValue")),
                            encryptedKey |-> Param(key),
                            encryptedVerifierHashInput |-> dec64(Val(key, "encryptedVerifierHashInput")),
                            encryptedVerifierHashValue |-> dec64(Val(key, "encryptedVerifierHashValue")),
                            encryptedKeyValue |-> dec64(Val(key, "encryptedKeyValue"))]
                /\ pc' = "read"
        /\ UNCHANGED <<made, head, wasCut, xml>>
-----------------------------------------------------------------------------
(* setStandardEncryptionInfo *)

HeaderAt == 12
HeaderSize == Get32(head, 8)
VerifierAt == HeaderAt + HeaderSize
Header(i) == Get32(head, HeaderAt + (4 * i))

\* EncryptionHeader::analyze: the algorithm and the size of its key agree.
IsHeader ==
    /\ HeaderSize >= 32
    /\ Get16(head, VerifierAt - 2) = 0
    /\ Header(1) = 0 /\ Header(4) \in StandardKeySizes /\ Header(2) = AlgId(Header(4))
    /\ Header(3) \in {0, 32772} /\ Header(5) = 24 /\ Header(7) = 0

\* EncryptionVerifier::analyze: only 4 bytes are counted in front of the hash.
IsVerifier ==
    LET size == Len(head) - VerifierAt
    IN  /\ size >= 40
        /\ Get32(head, VerifierAt) = 16
        /\ Get32(head, VerifierAt + 36) + 4 <= size

\* The header's size is compared with that of the whole stream: a header that
\* is cut is read on past its end.  What is there decides where the reader
\* throws, not whether: the size left for the verifier wraps around, and assign
\* throws at the latest.
SetStandardEncryptionInfo ==
    /\ pc = "standard"
    /\ IF Len(head) < HeaderAt \/ HeaderSize > Len(head) THEN pc' = "refused" /\ UNCHANGED info
       ELSE IF VerifierAt > Len(head) THEN pc' = "past the end" /\ UNCHANGED info
       ELSE IF ~IsHeader \/ ~IsVerifier THEN pc' = "refused" /\ UNCHANGED info
       ELSE /\ info' = [keySize |-> Header(4),
                        salt |-> SubSeq(head, VerifierAt + 5, VerifierAt + 20),
                        encryptedVerifier |-> SubSeq(head, VerifierAt + 21, VerifierAt + 36),
                        encryptedVerifierHash |-> SubSeq(head, VerifierAt + 41, Len(head))]
            /\ pc' = "read"
    /\ UNCHANGED <<made, head, wasCut, xml>>

Stop == pc \in {"read", "refused", "past the end"} /\ UNCHANGED infoVars

InfoNext ==
    \/ LoseEnd \/ Open \/ ReadXml \/ SetAgileEncryptionInfo \/ SetStandardEncryptionInfo
    \/ Stop
InfoSpec == InfoInit /\ [][InfoNext]_infoVars
-----------------------------------------------------------------------------
Written == IF HasXml(made) THEN AgileObject(made) ELSE StandardObject(made)

\* What the reader gets of a stream nothing happened to is what was written,
\* of every cipher, digest, spin count and salt, and Office 2007's as well.
InfoSurvives ==
    ~wasCut => /\ pc # "refused"
               /\ pc = "read" => info = Written

\* An Agile stream that lost its end is refused wherever it was cut.  Of a
\* Standard one the end of the verifier's hash may be missing, and nothing
\* else; only a cut inside the header is read past.
CutIsNoticed ==
    wasCut =>
        /\ pc = "read" => /\ ~HasXml(made)
                          /\ \E n \in 0 .. 31 :
                                info = [Written EXCEPT !.encryptedVerifierHash = SubSeq(@, 1, n)]
        /\ pc = "past the end" => Len(head) \in Len(StandardHeader(made.bits)) .. VerifierAt - 1
=============================================================================
