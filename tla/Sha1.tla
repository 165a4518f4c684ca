-------------------------------- MODULE Sha1 --------------------------------
(***************************************************************************)
(* The five implementations of SHA-1 that sha1-test compares, and the HMAC *)
(* of one of them: how each cuts a message that comes in pieces into       *)
(* blocks, counts its length in words of limited width, and pads it.       *)
(*                                                                         *)
(* The rounds are not calculated: a hash value stands for the sequence of  *)
(* the blocks it was made of.  The sizes are parameters, so that a counter *)
(* overflows after a message that TLC can feed: a block has BLOCK bytes    *)
(* (64 in the code), a word WORD (4), a byte BITS bits (8) and RADIX       *)
(* values (256).                                                           *)
(***************************************************************************)
EXTENDS Integers, Sequences, FiniteSets, SequencesExt

CONSTANTS BLOCK, WORD, BITS, RADIX,
    MaxChunk,     \* bound: bytes of one call
    MaxLen,       \* bound: bytes of a message
    KeyLens       \* the key lengths of the HMAC

M == RADIX ^ WORD              \* 2^32
LenPos == BLOCK - 2 * WORD     \* 56: where the length begins
Capacity == (M * M) \div BITS  \* 2^61: messages that SHA-1 is defined for are shorter

ASSUME SizeAssumption ==
    /\ {BLOCK, WORD, BITS, RADIX, MaxChunk, MaxLen} \subseteq Nat \ {0}
    /\ BLOCK % WORD = 0 /\ LenPos > 0
    /\ M % BITS = 0 /\ (M \div BITS) % BLOCK = 0 /\ M % RADIX = 0
    /\ MaxChunk < M \div 2
    /\ KeyLens \subseteq 0..MaxChunk

VARIABLES
    impl,     \* the implementation that is compiled in
    ctx,      \* its context
    keyLen,   \* the length of the key of the HMAC
    fed,      \* what it was given, and took, since it was initialised
    digest,   \* the last hash value it delivered, or NoDigest
    ret       \* the last error code of the implementation of RFC 3174

vars == <<impl, ctx, keyLen, fed, digest, ret>>

Impls == {"rfc", "google", "hmac", "gladman", "pd", "oryx"}
NoDigest == <<>>

\* What a byte can be: one of the message or the key, a number, or left over.
Data(k) == <<"data", k>>
Num(n) == <<"num", n>>
Garbage == <<"garbage">>
Zero == Num(0)
Stop == Num("0x80")
XorWith(byte, pad) == <<"xor", pad, byte>>
DigestByte(chain, i) == <<"digest", chain, i>>

Zeros(n) == [i \in 1..n |-> Zero]

\* The digits of a length, which is written in 2 * WORD bytes.
LengthBytes(n) == [i \in 1 .. 2 * WORD |-> Num((n \div RADIX ^ (2 * WORD - i)) % RADIX)]

\* The error codes of rfc_sha1.h.
shaSuccess == 0
shaNull == 1
shaInputTooLong == 2
shaStateError == 3

\* A new context: its buffer and counters, the blocks processed, and flags.
Fresh == [buf |-> [i \in 1..BLOCK |-> Garbage], off |-> 0, lo |-> 0, hi |-> 0,
          chain |-> <<>>, computed |-> FALSE, corrupted |-> shaSuccess, key |-> <<>>]

TypeOK ==
    /\ impl \in Impls
    /\ DOMAIN ctx.buf = 1..BLOCK
    /\ ctx.off \in 0 .. BLOCK - 1
    /\ ctx.lo \in 0 .. M - 1 /\ ctx.hi \in 0 .. M - 1
    /\ \A i \in DOMAIN ctx.chain : Len(ctx.chain[i]) = BLOCK
    /\ ctx.corrupted \in {shaSuccess, shaNull, shaStateError}
    /\ keyLen \in KeyLens
    /\ Len(fed) <= MaxLen
    /\ ret \in {shaSuccess, shaNull, shaStateError}

-----------------------------------------------------------------------------
(***************************************************************************)
(* rfc_sha1.c: byte by byte, the length in bits in two words.              *)
(***************************************************************************)

\* Plausible bug: the index is not reset.
SHA1ProcessMessageBlock_KeepsIndex(c) == [c EXCEPT !.chain = Append(@, c.buf)]

\* SHA1ProcessMessageBlock(): the rounds work on a copy of the block.
SHA1ProcessMessageBlock(c) == [c EXCEPT !.chain = Append(@, c.buf), !.off = 0]

\* Message_Block[Message_Block_Index++] = byte.
Put(c, byte) == [c EXCEPT !.buf[c.off + 1] = byte, !.off = @ + 1]
PutAll(c, bytes) == FoldLeft(Put, c, bytes)

\* The length goes up by one byte.  When both words overflow, the message is too
\* long, for which the code has the number 1, that of shaNull.
CountByte(c) ==
    LET lo == (c.lo + BITS) % M
        hi == IF lo = 0 THEN (c.hi + 1) % M ELSE c.hi
    IN  [c EXCEPT !.lo = lo, !.hi = hi,
                  !.corrupted = IF lo = 0 /\ hi = 0 THEN 1 ELSE @]

InputByte(c, byte) ==
    IF c.corrupted # shaSuccess THEN c
    ELSE LET d == CountByte(Put(c, byte))
         IN  IF d.off = BLOCK THEN SHA1ProcessMessageBlock(d) ELSE d

\* SHA1Input(): the new context.
SHA1Input(c, bytes) ==
    IF bytes # <<>> /\ c.computed THEN [c EXCEPT !.corrupted = shaStateError]
    ELSE FoldLeft(InputByte, c, bytes)

\* What SHA1Input() returns: not that the message has become too long.
SHA1InputReturns(c, bytes) ==
    IF bytes = <<>> THEN shaSuccess
    ELSE IF c.computed THEN shaStateError ELSE c.corrupted

\* SHA1PadMessage(): the block is padded and processed first if it has no room
\* for the length.
SHA1PadMessage(c) ==
    LET d == Put(c, Stop)
        e == IF c.off > LenPos - 1
             THEN SHA1ProcessMessageBlock(PutAll(d, Zeros(BLOCK - d.off))) ELSE d
        f == PutAll(e, Zeros(LenPos - e.off))
    IN  SHA1ProcessMessageBlock(
          [f EXCEPT !.buf = SubSeq(f.buf, 1, LenPos) \o LengthBytes(f.hi * M + f.lo)])

\* SHA1Result(): a second call returns the same value.
SHA1Result(c) ==
    IF c.corrupted # shaSuccess \/ c.computed THEN c
    ELSE [SHA1PadMessage(c) EXCEPT !.buf = Zeros(BLOCK), !.lo = 0, !.hi = 0,
                                   !.computed = TRUE]

-----------------------------------------------------------------------------
(***************************************************************************)
(* google_sha1.c: byte by byte, the length in bytes in one word.           *)
(***************************************************************************)

\* The rounds expand the block in place.
sha1_hashBlock(c) ==
    [c EXCEPT !.chain = Append(@, c.buf), !.buf = Fresh.buf, !.off = 0]

sha1_addUncounted(c, byte) ==
    LET d == Put(c, byte) IN IF d.off = BLOCK THEN sha1_hashBlock(d) ELSE d

sha1_writebyte(c, byte) == sha1_addUncounted([c EXCEPT !.lo = (@ + 1) % M], byte)

sha1_write(c, bytes) == FoldLeft(sha1_writebyte, c, bytes)

\* Plausible bug: the padding is counted as well.
sha1_pad_Counted(c) ==
    LET d == sha1_writebyte(c, Stop)
        e == FoldLeft(sha1_writebyte, d, Zeros((LenPos - d.off) % BLOCK))
    IN  FoldLeft(sha1_addUncounted, e, LengthBytes(e.lo * BITS))

sha1_pad(c) ==
    LET d == sha1_addUncounted(c, Stop)
        e == FoldLeft(sha1_addUncounted, d, Zeros((LenPos - d.off) % BLOCK))
    IN  FoldLeft(sha1_addUncounted, e, LengthBytes(c.lo * BITS))

\* sha1_result(): the bytes of the state are swapped in place afterwards, so
\* that it can be called once only.
sha1_result(c) == [sha1_pad(c) EXCEPT !.computed = TRUE]

HashLength == WORD   \* shorter than a block, as the 20 bytes of the code are
DigestBytes(c) == [i \in 1..HashLength |-> DigestByte(c.chain, i)]

\* sha1_init() leaves the buffer and the key as they are.
sha1_init(c) == [Fresh EXCEPT !.buf = c.buf, !.key = c.key]

\* Plausible bug: long keys are cut off.
keyBuffer_Cut(key) ==
    [i \in 1..BLOCK |-> IF i <= Len(key) THEN key[i] ELSE Zero]

\* The key as sha1_initHmac() keeps it: zeros fill it up, a long one is hashed.
keyBuffer(key) ==
    LET k == IF Len(key) > BLOCK THEN DigestBytes(sha1_result(sha1_write(Fresh, key)))
             ELSE key
    IN  [i \in 1..BLOCK |-> IF i <= Len(k) THEN k[i] ELSE Zero]

Padded(key, pad) == [i \in 1..BLOCK |-> XorWith(key[i], pad)]

sha1_initHmac(c, key) ==
    sha1_write(sha1_init([c EXCEPT !.key = keyBuffer(key)]),
               Padded(keyBuffer(key), "ipad"))

sha1_resultHmac(c) ==
    LET outer == sha1_write(sha1_init(c), Padded(c.key, "opad"))
    IN  sha1_result(sha1_write(outer, DigestBytes(sha1_result(c))))

-----------------------------------------------------------------------------
(***************************************************************************)
(* The others copy pieces of up to a block at once.                        *)
(***************************************************************************)

\* The loop all three have: the bytes follow those at the first pos places of
\* the buffer, each full block is processed, the rest stays in the buffer.
Feed(c, pos, bytes) ==
    LET stream == SubSeq(c.buf, 1, pos) \o bytes
        n == Len(stream) \div BLOCK
        rest == Len(stream) % BLOCK
    IN  [c EXCEPT !.chain = @ \o [k \in 1..n |-> SubSeq(stream, (k - 1) * BLOCK + 1, k * BLOCK)],
                  !.buf = [i \in 1..BLOCK |-> IF i <= rest THEN stream[n * BLOCK + i]
                                              ELSE IF n > 0 THEN Garbage ELSE c.buf[i]]]

\* sha1.c: sha1_hash() counts bytes in two words.
sha1_hash(c, bytes) ==
    LET lo == (c.lo + Len(bytes)) % M
    IN  [Feed(c, c.lo % BLOCK, bytes) EXCEPT
            !.lo = lo, !.hi = IF lo < Len(bytes) THEN (@ + 1) % M ELSE @]

sha1_compile(c) == [c EXCEPT !.chain = Append(@, c.buf), !.buf = Fresh.buf]

\* Plausible bug: the last word is taken to be clear.
Mask_LastWord(c, i) ==
    [k \in 1..BLOCK |-> IF k <= i THEN c.buf[k] ELSE IF k = i + 1 THEN Stop
                        ELSE IF (k - 1) \div WORD = i \div WORD THEN Zero ELSE c.buf[k]]

\* The mask of sha1_end(): of the word in which the message ends, what comes after
\* it is cleared; if the block is to be processed now, so is the last word.
Mask(c, i) ==
    [k \in 1..BLOCK |->
        IF k <= i THEN c.buf[k] ELSE IF k = i + 1 THEN Stop
        ELSE IF \/ (k - 1) \div WORD = i \div WORD
                \/ i >= LenPos /\ i < BLOCK - WORD /\ k > BLOCK - WORD
             THEN Zero ELSE c.buf[k]]

\* The last block of sha1_end(): zeros from byte "from" on, and the length.
sha1_end(c) ==
    LET i == c.lo % BLOCK
        d == [c EXCEPT !.buf = Mask(c, i)]
        full == i > BLOCK - 2 * WORD - 1
        e == IF full THEN sha1_compile(d) ELSE d
        from == IF full THEN 0 ELSE (i \div WORD + 1) * WORD
        low == [k \in 1..LenPos |-> IF k <= from THEN e.buf[k] ELSE Zero]
        hi == (c.hi * BITS + (c.lo * BITS) \div M) % M
        lo == (c.lo * BITS) % M
    IN  sha1_compile([e EXCEPT !.buf = low \o LengthBytes(hi * M + lo)])

\* pd_sha1.c: SHA1_Update() counts bits in two words.  Blocks after the first are
\* processed where the caller has them, and expanded there.
SHA1_Update(c, bytes) ==
    LET lo == (c.lo + Len(bytes) * BITS) % M
        carry == IF lo < (Len(bytes) * BITS) % M THEN 1 ELSE 0
    IN  [Feed(c, (c.lo \div BITS) % BLOCK, bytes) EXCEPT
            !.lo = lo, !.hi = (@ + carry + (Len(bytes) * BITS) \div M) % M]

\* SHA1_Final(): zeros one by one, until the length has its place, which is kept
\* from before; the context is wiped.
SHA1_Final(c) ==
    LET d == SHA1_Update(c, <<Stop>>)
        missing == (LenPos - (d.lo \div BITS)) % BLOCK
        e == FoldLeft(LAMBDA x, b : SHA1_Update(x, <<b>>), d, Zeros(missing))
        f == SHA1_Update(e, LengthBytes(c.hi * M + c.lo))
    IN  [Fresh EXCEPT !.chain = f.chain, !.buf = Zeros(BLOCK)]

\* oryx_sha1.c: sha1Update() counts bytes in one word of double width.
sha1Update(c, bytes) ==
    LET total == (c.hi * M + c.lo + Len(bytes)) % (M * M)
    IN  [Feed(c, c.off, bytes) EXCEPT
            !.off = (@ + Len(bytes)) % BLOCK, !.lo = total % M, !.hi = total \div M]

sha1ProcessBlock(c) == [c EXCEPT !.chain = Append(@, c.buf), !.buf = Fresh.buf]

sha1Final(c) ==
    LET size == IF c.off < LenPos THEN LenPos - c.off ELSE BLOCK + LenPos - c.off
        d == sha1Update(c, <<Stop>> \o Zeros(size - 1))
    IN  sha1ProcessBlock([d EXCEPT
            !.buf = SubSeq(@, 1, LenPos)
                      \o LengthBytes(((c.hi * M + c.lo) * BITS) % (M * M))])

-----------------------------------------------------------------------------
(***************************************************************************)
(* The caller: do_test() feeds a message byte by byte, and once more at    *)
(* one go; here the pieces may have any length.                            *)
(***************************************************************************)

Key(n) == [i \in 1..n |-> Data(-i)]

\* The context before the first byte, for an HMAC with a key of n bytes.
Begin(i, c, n) ==
    CASE i \in {"rfc", "gladman", "pd", "oryx"} ->
           [Fresh EXCEPT !.buf = c.buf]
      [] i = "google" -> sha1_init(c)
      [] i = "hmac" -> sha1_initHmac(c, Key(n))

Update(bytes) ==
    CASE impl = "rfc" -> SHA1Input(ctx, bytes)
      [] impl \in {"google", "hmac"} -> sha1_write(ctx, bytes)
      [] impl = "gladman" -> sha1_hash(ctx, bytes)
      [] impl = "pd" -> SHA1_Update(ctx, bytes)
      [] impl = "oryx" -> sha1Update(ctx, bytes)

Final ==
    CASE impl = "rfc" -> SHA1Result(ctx)
      [] impl = "google" -> sha1_result(ctx)
      [] impl = "hmac" -> sha1_resultHmac(ctx)
      [] impl = "gladman" -> sha1_end(ctx)
      [] impl = "pd" -> SHA1_Final(ctx)
      [] impl = "oryx" -> sha1Final(ctx)

Init ==
    /\ impl \in Impls
    /\ keyLen \in KeyLens /\ (impl # "hmac" => keyLen = 0)
    /\ ctx = Begin(impl, Fresh, keyLen)
    /\ fed = <<>>
    /\ digest = NoDigest /\ ret = shaSuccess

\* The implementations other than that of the RFC forbid input after the result
\* and say nothing if it comes: their callers do not.
MayFeed == digest = NoDigest \/ impl = "rfc"

Input ==
    /\ MayFeed
    /\ \E n \in 0 .. MaxChunk :
        /\ Len(fed) + n <= MaxLen
        /\ LET bytes == [i \in 1..n |-> Data(Len(fed) + i)]
           IN  /\ ctx' = Update(bytes)
               /\ ret' = IF impl = "rfc" THEN SHA1InputReturns(ctx, bytes) ELSE ret
               /\ IF ret' = shaSuccess /\ n > 0
                  THEN fed' = fed \o bytes /\ digest' = NoDigest
                  ELSE UNCHANGED <<fed, digest>>
    /\ UNCHANGED <<impl, keyLen>>

\* The caller gets a hash value, or, from the implementation of the RFC,
\* an error code in its stead.
Result ==
    /\ MayFeed
    /\ ctx' = Final
    /\ ret' = IF impl = "rfc" THEN ctx.corrupted ELSE ret
    /\ digest' = IF ret' = shaSuccess THEN Final.chain ELSE NoDigest
    /\ UNCHANGED <<impl, keyLen, fed>>

\* The context is used again, whatever it holds.
Reset ==
    /\ ctx' = Begin(impl, ctx, keyLen)
    /\ fed' = <<>> /\ digest' = NoDigest /\ ret' = shaSuccess
    /\ UNCHANGED <<impl, keyLen>>

Next == Input \/ Result \/ Reset

Spec == Init /\ [][Next]_vars

-----------------------------------------------------------------------------
(***************************************************************************)
(* Properties.                                                             *)
(***************************************************************************)

\* The standard: the message, one bit, as few zeros as possible, its length.
Blocks(message) ==
    LET n == Len(message)
        padded == message \o <<Stop>> \o Zeros((LenPos - n - 1) % BLOCK)
                    \o LengthBytes(n * BITS)
    IN  [k \in 1 .. Len(padded) \div BLOCK |->
            SubSeq(padded, (k - 1) * BLOCK + 1, k * BLOCK)]

Keyed(pad) ==
    LET key == Key(keyLen)
        short == IF keyLen <= BLOCK THEN key
                 ELSE [i \in 1..HashLength |-> DigestByte(Blocks(key), i)]
    IN  Padded(short \o Zeros(BLOCK - Len(short)), pad)

\* The hash value of what was fed, or its HMAC, by the standards.
Standard ==
    IF impl # "hmac" THEN Blocks(fed)
    ELSE LET inner == Blocks(Keyed("ipad") \o fed)
         IN  Blocks(Keyed("opad") \o [i \in 1..HashLength |-> DigestByte(inner, i)])

\* The length from which on an implementation is not right: one that counts
\* bytes in one word, and the HMAC with it, ends before the others.
Limit ==
    CASE impl = "google" -> M
      [] impl = "hmac" -> M - BLOCK
      [] OTHER -> Capacity

\* Whatever pieces a message comes in, and whatever the buffer held before, the
\* hash value is that of the standard: the padding fits or needs a block of its
\* own, the length carries into the second word.  When both words overflow ("Message
\* is too long"), the implementation of the RFC gives none.
DigestIsRight ==
    digest # NoDigest =>
        /\ Len(fed) < Limit => digest = Standard
        /\ impl = "rfc" => Len(fed) < Capacity

=============================================================================
