---------------------------- MODULE FrameFormat -----------------------------
(***************************************************************************)
(* The bytes of a protocol frame (frame/encrypt.go, ranges.go, uleb128.go, *)
(* gcm8.go): the interleaved media frame, the tag, the nonce, the          *)
(* unencrypted ranges, the size of all that, and the magic marker.         *)
(*                                                                         *)
(* Bytes are numbers, with the widths of the code as constants: a byte     *)
(* carries Group values in a ULEB128, a uint32 is below ValueLimit, an int *)
(* from -IntLimit to IntLimit - 1.  A call that returns an error returns   *)
(* failed.  AES-GCM is replaced by a sum that uses the same inputs.        *)
(***************************************************************************)
EXTENDS Integers, Sequences, FiniteSetsExt

CONSTANTS Group,       \* 2^7
          ValueLimit,  \* 2^32
          MaxULEBLen,  \* 5, the bytes of the longest ULEB128
          IntLimit,    \* 2^31 or 2^63, by the build
          TagLen,      \* tagLen, 8
          Magic,       \* magicByte, 0xFA
          Media,       \* the media frames to encrypt
          RangeList,   \* the lists of unencrypted ranges a caller may pass
          Nonce,       \* the truncated nonces
          WireByte,    \* the bytes before the size in a packet of the network
          MaxPacket,   \* bound: the size of such a packet
          MaxRanged    \* bound: the size of the frames encrypted with any ranges

ByteSize == 2 * Group
Byte == 0 .. ByteSize - 1
maxSupplSize == ByteSize - 1

FrameRange == [Offset : Int, Length : Int]

(* 1 << shift, after i bytes of a ULEB128.                                 *)
weight[i \in Nat] == IF i = 0 THEN 1 ELSE Group * weight[i - 1]

(* The last byte of the longest ULEB128 has room for the last bits of a    *)
(* value, and perhaps for more.                                            *)
ASSUME WidthAssumption ==
  /\ Group \in Nat \ {0, 1} /\ MaxULEBLen \in Nat \ {0}
  /\ ValueLimit \in Nat
  /\ weight[MaxULEBLen - 1] < ValueLimit /\ ValueLimit <= weight[MaxULEBLen]
  /\ ValueLimit % weight[MaxULEBLen - 1] = 0
  /\ IntLimit \in Nat /\ 2 * IntLimit >= ValueLimit

(* A footer without ranges has a size that a byte can hold; a frame is     *)
(* shorter than 2^32 bytes.                                                *)
ASSUME FrameAssumption ==
  /\ TagLen \in Nat /\ TagLen + MaxULEBLen + 3 <= maxSupplSize
  /\ Magic \in Byte /\ WireByte \subseteq Byte
  /\ Media \subseteq Seq(Byte) /\ RangeList \subseteq Seq(FrameRange)
  /\ Nonce \subseteq 0 .. ValueLimit - 1
  /\ MaxPacket \in Nat
  /\ MaxRanged \in Nat /\ MaxRanged < IntLimit /\ MaxRanged < ValueLimit

VARIABLES media, ranges, nonce,   \* the last frame encrypted
          packet, sent            \* a packet, and whether it is that frame

frameVars == <<media, ranges, nonce, packet, sent>>

failed == [ok |-> FALSE]

(* The conversion of a uint32 to an int.                                   *)
int(v) == IF v < IntLimit THEN v ELSE v - 2 * IntLimit

-----------------------------------------------------------------------------
(* The sequences of ss, one appended to the other.                         *)
flatten(ss) ==
  LET all[i \in 0 .. Len(ss)] == IF i = 0 THEN <<>> ELSE all[i - 1] \o ss[i]
  IN all[Len(ss)]

(* The sum of the numbers of a sequence.                                   *)
total(s) ==
  LET sum[i \in 0 .. Len(s)] == IF i = 0 THEN 0 ELSE sum[i - 1] + s[i]
  IN sum[Len(s)]

(* The bytes it takes until the rest of v is less than 2^7.                *)
ulebLen(v) == Min({k \in 1 .. MaxULEBLen : v < weight[k]})

(* Byte i is what is left of v after i - 1 shifts.                         *)
appendULEB128(v) ==
  [i \in 1 .. ulebLen(v) |->
     ((v \div weight[i - 1]) % Group) + (IF i < ulebLen(v) THEN Group ELSE 0)]

(* The first byte that says that no other follows, of the first max; or 0. *)
lastByte(data, max) ==
  LET ends == {i \in 1 .. Len(data) : i <= max /\ data[i] < Group}
  IN IF ends = {} THEN 0 ELSE Min(ends)

digit(data, i) == (data[i] % Group) * weight[i - 1]

digits(data, n) == [i \in 1 .. n |-> digit(data, i)]

\* mutant: padded values are decoded too.
DecodeULEB128_padded(data) ==
  LET n == lastByte(data, MaxULEBLen)
  IN IF n = 0 \/ digit(data, n) >= ValueLimit
     THEN failed
     ELSE [ok |-> TRUE, n |-> n, value |-> total(digits(data, n))]

DecodeULEB128(data) ==
  LET n == lastByte(data, MaxULEBLen)
  IN IF n = 0 \/ (n > 1 /\ data[n] = 0) \/ digit(data, n) >= ValueLimit
     THEN failed
     ELSE [ok |-> TRUE, n |-> n, value |-> total(digits(data, n))]

-----------------------------------------------------------------------------
rangeEnd(r) == r.Offset + r.Length

\* mutant: the end of a range is computed, and wraps.
ValidateRanges_wraps(list, size) ==
  \A i \in DOMAIN list :
    /\ list[i].Offset >= 0 /\ list[i].Length >= 0
    /\ int(rangeEnd(list[i])) <= size
    /\ i > 1 => list[i].Offset >= rangeEnd(list[i - 1])

ValidateRanges(list, size) ==
  \A i \in DOMAIN list :
    /\ list[i].Offset >= 0 /\ list[i].Length >= 0
    /\ list[i].Length <= size - list[i].Offset
    /\ i > 1 => list[i].Offset >= rangeEnd(list[i - 1])

upTo(from, to) == [k \in 1 .. to - from |-> from + k]

(* The positions of the encrypted bytes, in the order in which             *)
(* ExtractCiphertext, ReconstructPlaintext and appendInterleaved walk      *)
(* them: up to each range, and after the last.                             *)
gaps(size, list) ==
  LET last(i) == IF i = 1 THEN 0 ELSE rangeEnd(list[i - 1])
      next(i) == IF i > Len(list) THEN size ELSE list[i].Offset
  IN flatten([i \in 1 .. Len(list) + 1 |-> upTo(last(i), next(i))])

ExtractCiphertext(frame, list) ==
  LET g == gaps(Len(frame), list) IN [k \in DOMAIN g |-> frame[g[k]]]

(* appendInterleaved and ReconstructPlaintext: data in the place of the    *)
(* encrypted bytes.                                                        *)
ReconstructPlaintext(frame, data, list) ==
  LET g == gaps(Len(frame), list)
  IN [p \in DOMAIN frame |->
        IF p \in Range(g) THEN data[CHOOSE k \in DOMAIN g : g[k] = p] ELSE frame[p]]

buildAAD(frame, list) ==
  flatten([i \in DOMAIN list |-> SubSeq(frame, list[i].Offset + 1, rangeEnd(list[i]))])

-----------------------------------------------------------------------------
keystream(n, i) == (5 * n + i) % ByteSize

authTag(n, text, aad) ==
  LET mix(s) == total([i \in DOMAIN s |-> i * s[i]])
  IN [i \in 1 .. TagLen |-> (n + 2 * mix(text) + 3 * mix(aad) + i) % ByteSize]

Seal(n, text, aad) ==
  [i \in DOMAIN text |-> (text[i] + keystream(n, i)) % ByteSize] \o authTag(n, text, aad)

Open(n, sealed, aad) ==
  LET size == Len(sealed) - TagLen
      text == [i \in 1 .. size |-> (sealed[i] - keystream(n, i)) % ByteSize]
  IN IF size < 0 THEN failed
     ELSE IF SubSeq(sealed, size + 1, Len(sealed)) # authTag(n, text, aad) THEN failed
     ELSE [ok |-> TRUE, text |-> text]

-----------------------------------------------------------------------------
rangeBytes(list) ==
  flatten([i \in DOMAIN list |-> appendULEB128(list[i].Offset % ValueLimit)
                                    \o appendULEB128(list[i].Length % ValueLimit)])

footer(tag, n, list, size) ==
  tag \o appendULEB128(n) \o rangeBytes(list) \o <<size % ByteSize, Magic, Magic>>

\* mutant: the size is cut to a byte without a check.
supplSizeFits_always(size, list) == TRUE

(* The check is there only when there are ranges.                          *)
supplSizeFits(size, list) == list = <<>> \/ size <= maxSupplSize

(* What was sealed, in the place of the plaintext, and the footer.         *)
interleave(frame, n, list, sealed) ==
  LET cut == Len(sealed) - TagLen
      size == TagLen + Len(appendULEB128(n)) + Len(rangeBytes(list)) + 3
  IN IF supplSizeFits(size, list)
     THEN [ok |-> TRUE,
           packet |-> ReconstructPlaintext(frame, SubSeq(sealed, 1, cut), list)
                      \o footer(SubSeq(sealed, cut + 1, Len(sealed)), n, list, size)]
     ELSE failed

encryptCoreAppend(frame, n, list) ==
  interleave(frame, n, list, Seal(n, ExtractCiphertext(frame, list), buildAAD(frame, list)))

(* Encrypt and EncryptWithCipher: no frame of bad ranges.                  *)
EncryptWithCipher(frame, n, list) ==
  IF ValidateRanges(list, Len(frame)) THEN encryptCoreAppend(frame, n, list) ELSE failed

inRoom(result, room) ==
  IF result.ok /\ Len(result.packet) > room THEN failed ELSE result

(* EncryptInto and EncryptWithCipherInto: in a buffer with room for so     *)
(* many bytes.                                                             *)
encryptInto(frame, n, list, room) == inRoom(EncryptWithCipher(frame, n, list), room)

LooksLikeDAVEFrame(p) ==
  Len(p) >= TagLen + 3 /\ p[Len(p) - 1] = Magic /\ p[Len(p)] = Magic

(* One round of the loop over the ranges: the next two values of the rest. *)
parseRange(w) ==
  LET offset == DecodeULEB128(w.rest)
      length == DecodeULEB128(SubSeq(w.rest, offset.n + 1, Len(w.rest)))
  IN IF ~w.ok \/ w.rest = <<>> THEN w
     ELSE IF ~offset.ok \/ ~length.ok THEN [w EXCEPT !.ok = FALSE]
     ELSE [ok |-> TRUE,
           rest |-> SubSeq(w.rest, offset.n + length.n + 1, Len(w.rest)),
           list |-> Append(w.list, [Offset |-> int(offset.value), Length |-> int(length.value)])]

(* A round takes a byte, or is the last one.                               *)
parseRanges(data) ==
  LET round[i \in 0 .. Len(data)] ==
        IF i = 0 THEN [ok |-> TRUE, rest |-> data, list |-> <<>>]
                 ELSE parseRange(round[i - 1])
  IN round[Len(data)]

Parse(p) ==
  LET supplSize == p[Len(p) - 2]
      body == SubSeq(p, Len(p) - supplSize + TagLen + 1, Len(p) - 3)
      n == DecodeULEB128(body)
      list == parseRanges(SubSeq(body, n.n + 1, Len(body)))
      interleaved == SubSeq(p, 1, Len(p) - supplSize)
  IN IF \/ ~LooksLikeDAVEFrame(p)
        \/ supplSize < TagLen + 3 \/ supplSize > Len(p)
        \/ ~n.ok
        \/ ~list.ok
        \/ ~ValidateRanges(list.list, Len(interleaved))
     THEN failed
     ELSE [ok |-> TRUE, interleaved |-> interleaved, nonce |-> n.value, list |-> list.list,
           tag |-> SubSeq(p, Len(p) - supplSize + 1, Len(p) - supplSize + TagLen),
           size |-> supplSize]

decryptParsed(parsed) ==
  LET opened == Open(parsed.nonce,
                     ExtractCiphertext(parsed.interleaved, parsed.list) \o parsed.tag,
                     buildAAD(parsed.interleaved, parsed.list))
  IN IF ~parsed.ok \/ ~opened.ok THEN failed
     ELSE [ok |-> TRUE, nonce |-> parsed.nonce,
           media |-> ReconstructPlaintext(parsed.interleaved, opened.text, parsed.list)]

Decrypt(p) == decryptParsed(Parse(p))

-----------------------------------------------------------------------------
(* A media frame of a caller with ranges of its own, or nothing yet from   *)
(* the network.                                                            *)
FrameInit ==
  /\ media \in Media
  /\ ranges = <<>> /\ nonce = 0
  /\ packet = <<>> /\ sent = FALSE

(* A caller of the package that has ranges of its own.                     *)
EncryptRanges(list, n) ==
  LET result == EncryptWithCipher(media, n, list)
  IN /\ ~sent /\ packet = <<>>
     /\ Len(media) <= MaxRanged
     /\ result.ok
     /\ ranges' = list /\ nonce' = n
     /\ packet' = result.packet /\ sent' = TRUE
     /\ UNCHANGED media

(* Some packet, from its end to its start: the marker, since any other     *)
(* packet fails the first check, any size, and then bytes of WireByte.     *)
Arrive(b) ==
  /\ media = <<>> /\ ~sent
  /\ Len(packet) < MaxPacket
  /\ CASE Len(packet) < 2 -> b = Magic
       [] Len(packet) = 2 -> TRUE
       [] OTHER -> b \in WireByte
  /\ packet' = <<b>> \o packet
  /\ UNCHANGED <<media, ranges, nonce, sent>>

FrameNext ==
  \/ \E list \in RangeList, n \in Nonce : EncryptRanges(list, n)
  \/ \E b \in Byte : Arrive(b)

-----------------------------------------------------------------------------
(* Whatever the ranges, the receiver of a frame gets the media, the nonce  *)
(* and the ranges it was made of, and takes it for a protocol frame.       *)
SealedFrameOpens ==
  sent =>
    /\ LooksLikeDAVEFrame(packet)
    /\ Decrypt(packet) = [ok |-> TRUE, nonce |-> nonce, media |-> media]
    /\ Parse(packet).list = ranges

(* "Each value has one encoding, so a frame has one set of bytes": the     *)
(* parts that Parse returns determine the packet it was given.             *)
OneSetOfBytes ==
  \A parsed \in {Parse(packet)} :
    parsed.ok =>
      packet = parsed.interleaved
               \o footer(parsed.tag, parsed.nonce, parsed.list, parsed.size)

(* The positions of the readable bytes, and then of the encrypted ones.    *)
positions(size, list) ==
  flatten([i \in DOMAIN list |-> upTo(list[i].Offset, rangeEnd(list[i]))])
  \o gaps(size, list)

(* Ranges that Parse lets through lie within the media frame, one after    *)
(* the other, so every byte is authenticated in the clear or decrypted,    *)
(* once, and the slices taken of the packet exist.                         *)
RangesPartitionFrame ==
  \A parsed \in {Parse(packet)} :
    parsed.ok =>
      LET all == positions(Len(parsed.interleaved), parsed.list)
      IN /\ Range(all) = DOMAIN parsed.interleaved
         /\ Len(all) = Len(parsed.interleaved)
=============================================================================
