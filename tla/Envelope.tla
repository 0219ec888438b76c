-------------------------------- MODULE Envelope --------------------------------
(***************************************************************************)
(* What happens to a report on its way: the agent encrypts, compresses and *)
(* signs it, and the server's chain of middleware undoes this. Source:     *)
(* internal/httpclient, internal/grpclient, internal/hash, internal/crypto,*)
(* internal/compress, internal/subnet, internal/middleware and NewServer.  *)
(*                                                                         *)
(* A byte of an encrypted block records the key and the plain bytes the    *)
(* block was made from; hashes are taken to be free of collisions.         *)
(***************************************************************************)
EXTENDS Config, Sequences, FiniteSetsExt, SequencesExt

CONSTANTS
    NoSign,     \* no HashSHA256 header
    KeySize,    \* bytes of a block made with the RSA key: public.Size()
    Overhead    \* bytes of a block that OAEP uses up: 2*hash.Size() + 2

ASSUME EnvelopeAssumption ==
    /\ KeySize \in Nat /\ Overhead \in Nat /\ Overhead < KeySize

Plain(t)            == [key |-> NoKey, of |-> t, at |-> 0]
CipherByte(k, m, j) == [key |-> k, of |-> m, at |-> j]
IsPlain(b)          == b.key = NoKey
----------------------------------------------------------------------------
(* RSA-OAEP in blocks *)

Chunks_Whole(len, step) == len \div step                 \* fault: the last, short one is left out

\* How many turns the loop "for start := 0; start < len; start += step" takes.
Chunks(len, step) == (len + step - 1) \div step

Chunk(msg, i, step) == SubSeq(msg, (i - 1) * step + 1, Min({i * step, Len(msg)}))

Block(k, m) == [j \in 1 .. KeySize |-> CipherByte(k, m, j)]

EncryptOAEP(public, msg) ==
    LET step == KeySize - Overhead
    IN  FlattenSeq([i \in 1 .. Chunks(Len(msg), step) |-> Block(public, Chunk(msg, i, step))])

\* Every block must be one that was made with the key.
Decrypts(private, msg) ==
    \A i \in 1 .. Chunks(Len(msg), KeySize) :
        LET c == Chunk(msg, i, KeySize) IN c[1].key = private /\ c = Block(private, c[1].of)

DecryptOAEP(private, msg) ==
    FlattenSeq([i \in 1 .. Chunks(Len(msg), KeySize) |-> Chunk(msg, i, KeySize)[1].of])
----------------------------------------------------------------------------
(* The agent's side. A body is a sequence of bytes, compressed or not; a      *)
(* report's list of metrics becomes plain bytes.                              *)

Body(zipped, bytes) == [zipped |-> zipped, bytes |-> bytes]
Marshal(list)       == [j \in DOMAIN list |-> Plain(list[j])]
Hash(key, body)     == [mac |-> key, of |-> body, text |-> FALSE]
Base64(hash)        == [hash EXCEPT !.text = TRUE]

\* Fault: the hash is made before the body is compressed.
SealHTTP_SignsPlain(a, list) ==
    LET plain == Marshal(list)
        bytes == IF a.CryptoKey = NoKey THEN plain ELSE EncryptOAEP(a.CryptoKey, plain)
    IN  [body |-> Body(TRUE, bytes), realIP |-> TRUE,
         sign |-> IF a.Key = NoKey THEN NoSign ELSE Base64(Hash(a.Key, Body(FALSE, bytes)))]

\* HTTPClient.Publish, with the agent's address in X-Real-IP.
SealHTTP(a, list) ==
    LET plain == Marshal(list)
        body  == Body(TRUE, IF a.CryptoKey = NoKey THEN plain ELSE EncryptOAEP(a.CryptoKey, plain))
    IN  [body |-> body, realIP |-> TRUE,
         sign |-> IF a.Key = NoKey THEN NoSign ELSE Base64(Hash(a.Key, body))]

\* GRPClient.Publish: the bytes of the hash as they are, and no X-Real-IP. The
\* library compresses and expands the message.
SealGRPC(a, list) ==
    LET body == Body(FALSE, Marshal(list))
    IN  [body |-> body, realIP |-> FALSE,
         sign |-> IF a.Key = NoKey THEN NoSign ELSE Hash(a.Key, body)]

\* grpc-go refuses to send metadata with a value that is not printable text, unless the
\* name of its key ends in "-bin". That of the hash does not. (The bytes of a hash are
\* taken never to be printable by chance.)
Sendable(req) == req.sign # NoSign => req.sign.text
----------------------------------------------------------------------------
(* The server's side: each middleware passes the request on, changed or not,  *)
(* or answers it.                                                             *)

Passed(req)          == [status |-> "ok", req |-> req]
Answer(status, x)    == [x EXCEPT !.status = status]
Check(ok, status, x) == IF x.status # "ok" \/ ok THEN x ELSE Answer(status, x)

\* The signature is over the body as it was sent. A request without one passes.
SignFits(s, x) ==
    s.Key # NoKey /\ x.req.sign # NoSign => x.req.sign = Base64(Hash(s.Key, x.req.body))

WithHash(s, x) == Check(SignFits(s, x), "wrongSignature", x)

WithGzip(s, x) ==
    IF x.status # "ok" THEN x
    ELSE IF x.req.body.zipped THEN [x EXCEPT !.req.body.zipped = FALSE]
    ELSE Answer("internalError", x)

WithTrustedSubnet(s, x) ==
    Check(s.TrustedSubnet # Empty => x.req.realIP /\ s.TrustedSubnet = "inside", "forbidden", x)

\* The interceptor lets a request without an address pass.
SubnetInterceptor(s, x) ==
    Check(s.TrustedSubnet # Empty /\ x.req.realIP => s.TrustedSubnet = "inside", "forbidden", x)

WithDecrypt(s, x) ==
    IF x.status # "ok" \/ s.CryptoKey = NoKey THEN x
    ELSE IF ~x.req.body.zipped /\ Decrypts(s.CryptoKey, x.req.body.bytes)
    THEN [x EXCEPT !.req.body.bytes = DecryptOAEP(s.CryptoKey, @)]
    ELSE Answer("forbidden", x)

\* updatesHandlerJSON decodes what is left.
Decode(s, x) ==
    Check(~x.req.body.zipped /\ \A j \in DOMAIN x.req.body.bytes : IsPlain(x.req.body.bytes[j]),
          "badRequest", x)

OpenHTTP_DecryptFirst(s, req) ==                         \* fault: the order of the chain
    Decode(s, WithTrustedSubnet(s, WithGzip(s, WithDecrypt(s, WithHash(s, Passed(req))))))

\* The chain of /updates/, outermost first: hash, gzip, (logging,) subnet, decrypt.
OpenHTTP(s, req) ==
    Decode(s, WithDecrypt(s, WithTrustedSubnet(s, WithGzip(s, WithHash(s, Passed(req))))))

\* The interceptors of the gRPC server: hash, then subnet.
OpenGRPC(s, req) == SubnetInterceptor(s, WithHash(s, Passed(req)))

\* The list of metrics in a request that came through.
Contents(x) == [j \in DOMAIN x.req.body.bytes |-> x.req.body.bytes[j].of]
=============================================================================
