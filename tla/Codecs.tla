------------------------------- MODULE Codecs -------------------------------
(***************************************************************************)
(* Which bytes of a media frame stay readable, by its codec (codecs/), and *)
(* the encryption of a sequence of media frames under one key.             *)
(*                                                                         *)
(* The entry points of codecs/ refuse every video codec, and the session   *)
(* never names one to them; the video code they would dispatch to is       *)
(* modelled too, because the package keeps it to be enabled again, and     *)
(* UnencryptedRanges still reaches part of it.  The fields of the headers  *)
(* have fewer bits than in the code, and an int holds every LEB128 (a      *)
(* 64-bit build).                                                          *)
(***************************************************************************)
EXTENDS FrameFormat

CONSTANTS VP8HeaderLen,    \* 10
          MaxVCL264,       \* 5, the last VCL type of H264
          MaxVCL265,       \* 31, the last VCL type of H265
          NALTypes264,     \* 32, the NAL unit types of H264
          NALTypes265,     \* 64, the NAL unit types of H265
          DroppedOBUs,     \* the OBU types 2, 8 and 15
          MaxLEBLen,       \* 8
          maxH26xRetries,  \* 10
          FrameOverhead,   \* 64
          MaxFrames        \* bound: frames encrypted under one key

VARIABLE used              \* what became of the nonces of the counter: the nonce the
                           \* frame went out with, or Lost

(* A key is for one generation: 2^24 frames, of the 2^32 nonces.  A footer *)
(* with one range has a size that a byte can hold.                         *)
ASSUME CodecAssumption ==
  /\ VP8HeaderLen \in Nat /\ MaxLEBLen \in Nat
  /\ TagLen + 3 * MaxULEBLen + 3 <= maxSupplSize
  /\ MaxFrames \in Nat /\ MaxFrames < ValueLimit

Lost == -1

codecVars == <<frameVars, used>>

Kind == {"Unknown", "Opus", "VP8", "VP9", "H264", "H265", "AV1"}

-----------------------------------------------------------------------------
\* mutant: a key frame may be shorter than its header.
vp8Ranges_unchecked(payload) ==
  IF payload = <<>> THEN <<>>
  ELSE <<[Offset |-> 0, Length |-> IF payload[1] % 2 = 0 THEN VP8HeaderLen ELSE 1]>>

vp8Ranges(payload) ==
  IF payload = <<>> THEN <<>>
  ELSE LET header == IF payload[1] % 2 = 0 THEN VP8HeaderLen ELSE 1
       IN <<[Offset |-> 0, Length |-> Min({header, Len(payload)})]>>

-----------------------------------------------------------------------------
(* The start codes of H264 and H265; offsets are the code's, from 0.       *)
isAt(payload, offset, bytes) ==
  /\ offset >= 0 /\ offset + Len(bytes) <= Len(payload)
  /\ SubSeq(payload, offset + 1, offset + Len(bytes)) = bytes

startCodeLen(payload, offset) ==
  CASE isAt(payload, offset, <<0, 0, 1>>) -> 3
    [] isAt(payload, offset, <<0, 0, 0, 1>>) -> 4
    [] OTHER -> 0

isVCL(kind, header) ==
  IF kind = "H264" THEN header % NALTypes264 \in 1 .. MaxVCL264
                   ELSE (header \div 2) % NALTypes265 <= MaxVCL265

\* mutant: only start codes of three bytes are found.
findNextStartCode_short(payload, from) ==
  LET found == {i \in from .. Len(payload) - 4 : isAt(payload, i, <<0, 0, 1>>)}
  IN IF found = {} THEN Len(payload) ELSE Min(found)

(* Len(payload) is the code's -1: every caller replaces it.                *)
findNextStartCode(payload, from) ==
  LET found == {i \in from .. Len(payload) - 4 : startCodeLen(payload, i) # 0}
  IN IF found = {} THEN Len(payload) ELSE Min(found)

(* One round of the loop over the NAL units.                               *)
h26xRange(kind, payload, w) ==
  LET code == startCodeLen(payload, w.offset)
      nalStart == w.offset + code
      nextOffset == findNextStartCode(payload, nalStart)
  IN IF w.offset >= Len(payload) \/ code = 0 \/ nalStart >= Len(payload) THEN w
     ELSE [offset |-> nextOffset,
           list |-> IF isVCL(kind, payload[nalStart + 1]) THEN w.list
                    ELSE Append(w.list, [Offset |-> w.offset, Length |-> nextOffset - w.offset])]

h26xRanges(kind, payload) ==
  LET round[i \in 0 .. Len(payload)] ==
        IF i = 0 THEN [offset |-> 0, list |-> <<>>]
                 ELSE h26xRange(kind, payload, round[i - 1])
  IN round[Len(payload)].list

hasStartCodeSequence(data) ==
  \E i \in 0 .. Len(data) - 3 : startCodeLen(data, i) # 0

clean(size, list, p) ==
  /\ ~hasStartCodeSequence(ExtractCiphertext(SubSeq(p, 1, size), list))
  /\ ~hasStartCodeSequence(SubSeq(p, size + 1, Len(p)))

(* The first attempt without a start code, or the last one; the first that *)
(* fails ends it too.                                                      *)
chooseAttempt(attempt, size, list) ==
  attempt[Min({i \in DOMAIN attempt : ~attempt[i].ok \/ clean(size, list, attempt[i].packet)}
              \cup {maxH26xRetries - 1})]

encryptH26xInto(kind, payload, baseNonce, room) ==
  LET list == h26xRanges(kind, payload)
  IN chooseAttempt([i \in 0 .. maxH26xRetries - 1 |->
                      encryptInto(payload, (baseNonce + i) % ValueLimit, list, room)],
                   Len(payload), list)

-----------------------------------------------------------------------------
(* decodeLEB128: unlike DecodeULEB128 it takes a padded value.             *)
decodeLEB128(data) ==
  LET n == lastByte(data, MaxLEBLen)
  IN IF n = 0 THEN failed ELSE [ok |-> TRUE, n |-> n, value |-> total(digits(data, n))]

(* A header byte: its type, and whether an extension and a size follow.    *)
obuType(header) == header \div 4
hasExt(header) == (header \div 2) % 2 = 1
hasSize(header) == header % 2 = 1

shouldDropOBU(type) == type \in DroppedOBUs

(* One round of the first pass of prepareAV1Frame: the next OBU.           *)
parseOBU(w) ==
  LET header == Head(w.rest)
      ext == IF hasExt(header) THEN SubSeq(w.rest, 2, Min({2, Len(w.rest)})) ELSE <<>>
      afterExt == SubSeq(w.rest, 2 + Len(ext), Len(w.rest))
      size == IF hasSize(header) THEN decodeLEB128(afterExt)
                                 ELSE [ok |-> TRUE, n |-> 0, value |-> Len(afterExt)]
      end == Min({size.n + size.value, Len(afterExt)})
      obu == [header |-> header, ext |-> ext, data |-> SubSeq(afterExt, size.n + 1, end),
              sizeBytes |-> SubSeq(afterExt, 1, size.n)]
  IN IF ~w.ok \/ w.rest = <<>> \/ (hasExt(header) /\ ext = <<>>) THEN w
     ELSE IF ~size.ok THEN [w EXCEPT !.ok = FALSE]
     ELSE [ok |-> TRUE, rest |-> SubSeq(afterExt, end + 1, Len(afterExt)),
           obus |-> IF shouldDropOBU(obuType(header)) THEN w.obus ELSE Append(w.obus, obu)]

parseOBUs(payload) ==
  LET round[i \in 0 .. Len(payload)] ==
        IF i = 0 THEN [ok |-> TRUE, rest |-> payload, obus |-> <<>>] ELSE parseOBU(round[i - 1])
  IN round[Len(payload)]

\* mutant: the last OBU keeps its size.
lastUnsized_not(obus) == obus

lastUnsized(obus) ==
  [i \in DOMAIN obus |->
     IF i < Len(obus) THEN obus[i]
     ELSE [obus[i] EXCEPT !.header = @ - (@ % 2), !.sizeBytes = <<>>]]

(* The second pass.                                                        *)
transformed(obus) ==
  LET head(obu) == <<obu.header>> \o obu.ext \o obu.sizeBytes
      written(i) == flatten([k \in 1 .. i |-> head(obus[k]) \o obus[k].data])
  IN [ok |-> TRUE, frame |-> written(Len(obus)),
      list |-> [i \in DOMAIN obus |-> [Offset |-> Len(written(i - 1)),
                                       Length |-> Len(head(obus[i]))]]]

prepareAV1Frame(payload) ==
  LET parsed == parseOBUs(payload)
  IN IF parsed.ok THEN transformed(lastUnsized(parsed.obus)) ELSE failed

-----------------------------------------------------------------------------
UnencryptedRanges(kind, payload) ==
  CASE kind = "VP8" -> vp8Ranges(payload)
    [] kind \in {"H264", "H265"} -> h26xRanges(kind, payload)
    [] OTHER -> <<>>

\* mutant: H264 and H265 are let through.
supportedForEncrypt_h26x(kind) == kind \in {"Opus", "Unknown", "H264", "H265"}

supportedForEncrypt(kind) == kind \in {"Opus", "Unknown"}

EncryptWithCipherInto(kind, payload, n, room) ==
  LET av1 == prepareAV1Frame(payload)
  IN CASE ~supportedForEncrypt(kind) -> failed
       [] supportedForEncrypt(kind) /\ kind = "AV1" ->
            IF av1.ok THEN encryptInto(av1.frame, n, av1.list, room) ELSE failed
       [] OTHER -> encryptInto(payload, n, UnencryptedRanges(kind, payload), room)

(* EncryptInto differs from it for H264 and H265 only.                     *)
EncryptInto(kind, payload, n, room) ==
  IF supportedForEncrypt(kind) /\ kind \in {"H264", "H265"}
  THEN encryptH26xInto(kind, payload, n, room)
  ELSE EncryptWithCipherInto(kind, payload, n, room)

-----------------------------------------------------------------------------
(* As much as any frame of the codecs takes, or nothing for the footer.    *)
MaxEncryptedFrameSize(frameSize) == frameSize + FrameOverhead

ShortMedia == {m \in Media : Len(m) <= MaxRanged}

CodecInit == FrameInit /\ used = <<>>

(* The next nonce of the counter is taken before the frame is encrypted,   *)
(* and is lost with it if that fails.                                      *)
encryptNext(kind, attempt) ==
  /\ ~sent /\ packet = <<>>
  /\ Len(used) < MaxFrames
  /\ Len(media) <= MaxRanged
  /\ \E result \in {attempt} :
       IF result.ok
       THEN /\ ranges' = UnencryptedRanges(kind, media)
            /\ nonce' = Parse(result.packet).nonce
            /\ packet' = result.packet /\ sent' = TRUE
            /\ used' = Append(used, nonce')
       ELSE /\ used' = Append(used, Lost)
            /\ UNCHANGED <<ranges, nonce, packet, sent>>
  /\ UNCHANGED media

(* A codec of the application is Opus to the session, or none it knows ... *)
toCodecKind(codec) == IF codec = "Opus" THEN "Opus" ELSE "Unknown"

(* ... and what it does not know it sends as Opus.                         *)
kindToSend(codec) == IF toCodecKind(codec) = "Unknown" THEN "Opus" ELSE toCodecKind(codec)

(* Session.Encrypt, of an SSRC with this codec.                            *)
EncryptMedia(codec, room) ==
  LET kind == kindToSend(codec)
      n == Len(used) + 1
  IN encryptNext(kind, IF kind \in {"H264", "H265"}
                       THEN EncryptInto(kind, media, n, room)
                       ELSE EncryptWithCipherInto(kind, media, n, room))

(* A caller of the package, with a key and a counter of its own.           *)
CallEncryptInto(kind, room) ==
  encryptNext(kind, EncryptInto(kind, media, Len(used) + 1, room))

(* It has another frame.                                                   *)
Produce(m) ==
  /\ used # <<>>
  /\ media' = m
  /\ packet' = <<>> /\ sent' = FALSE
  /\ ranges' = <<>> /\ nonce' = 0
  /\ UNCHANGED used

CodecNext ==
  \/ used = <<>> /\ FrameNext /\ UNCHANGED used
  \/ \E codec \in Kind : \E room \in {Len(media), MaxEncryptedFrameSize(Len(media))} :
       EncryptMedia(codec, room)
  \/ \E kind \in Kind : \E room \in {Len(media), MaxEncryptedFrameSize(Len(media))} :
       CallEncryptInto(kind, room)
  \/ \E m \in ShortMedia : Produce(m)

CodecSpec == CodecInit /\ [][CodecNext]_codecVars

-----------------------------------------------------------------------------
clearBytes(list) ==
  UNION {Range(upTo(list[i].Offset, rangeEnd(list[i]))) : i \in DOMAIN list}

(* No two frames under one key go out with the same nonce, whatever codec  *)
(* the application names to the session, or a caller to codecs.EncryptInto *)
(* with a counter of its own: codecs/errors.go gives the nonce reuse of    *)
(* the retry as the reason to refuse video.                                *)
NonceUsedOnce ==
  \A i, j \in DOMAIN used : used[i] = used[j] /\ used[i] # Lost => i = j

(* Whatever the payload, the ranges a codec asks for lie in the frame, one *)
(* after the other: what is left for frame.Encrypt to refuse is a footer   *)
(* whose size a byte cannot hold, as a frame of H264, H265 or AV1 of many  *)
(* units has.  The one range of VP8, or none, never makes it that large.   *)
CodecRangesAccepted ==
  /\ \A kind \in Kind : ValidateRanges(UnencryptedRanges(kind, media), Len(media))
  /\ LET av1 == prepareAV1Frame(media)
     IN av1.ok => ValidateRanges(av1.list, Len(av1.frame))
  /\ \A kind \in {"Unknown", "Opus", "VP8", "VP9"}, n \in Nonce :
       EncryptWithCipher(media, n, UnencryptedRanges(kind, media)).ok

(* "Fully encrypt the payload of any Video Coding Layer (VCL) NAL unit":   *)
(* if the payload begins with a start code, the readable bytes are exactly *)
(* those of the units of other types, each from its start code, of three   *)
(* or four bytes, to the next; and otherwise there are none.  A start code *)
(* of four bytes at the end, with no unit after it, is encrypted.          *)
OnlyMetadataReadable ==
  \A kind \in {"H264", "H265"} :
    LET units == {i \in 3 .. Len(media) - 1 : SubSeq(media, i - 2, i) = <<0, 0, 1>>}
        begin(i) == IF i > 3 /\ media[i - 3] = 0 THEN i - 3 ELSE i - 2
        codes == units \cup (IF isAt(media, Len(media) - 4, <<0, 0, 0, 1>>)
                             THEN {Len(media)} ELSE {})
        end(i) == Min({begin(j) - 1 : j \in {k \in codes : k > i}} \cup {Len(media)})
        readable == {i \in units : ~isVCL(kind, media[i + 1])}
    IN clearBytes(h26xRanges(kind, media)) =
         IF \E i \in units : begin(i) = 1
         THEN UNION {begin(i) .. end(i) : i \in readable} ELSE {}

(* The AV1 frame that is sent splits into the units of the original frame  *)
(* that are not dropped, the last of them to the end of the frame, and     *)
(* what is encrypted of it is the content of the units.                    *)
AV1FrameSplitsAgain ==
  \A kept \in {parseOBUs(media)}, av1 \in {prepareAV1Frame(media)} :
    kept.ok =>
      \E again \in {parseOBUs(av1.frame)} :
        LET content(obus) == [i \in DOMAIN obus |->
              <<obuType(obus[i].header), obus[i].ext, obus[i].data>>]
        IN /\ again.ok
           /\ content(again.obus) = content(kept.obus)
           /\ \A i \in DOMAIN again.obus :
                hasSize(again.obus[i].header) <=> i < Len(again.obus)
           /\ ExtractCiphertext(av1.frame, av1.list) =
                flatten([i \in DOMAIN kept.obus |-> kept.obus[i].data])
=============================================================================
