------------------------------ MODULE MCCodecs ------------------------------
EXTENDS Codecs

Words(bytes, n) == UNION {[1 .. k -> bytes] : k \in 0 .. n}

(* Start codes with headers of both classes; AV1 headers and sizes; a      *)
(* frame whose encryption under the first nonce has a start code.          *)
MCMedia == Words({0, 1, 8}, 8) \cup Words({0, 1, 3, 8, 9}, 6) \cup {<<10, 9, 9>>}

(* Up to two ranges, and as many as make the size of the footer too large. *)
MCRange == [Offset : 0 .. 3, Length : 0 .. 3]
MCRangeList == {<<>>} \cup {<<r>> : r \in MCRange} \cup (MCRange \X MCRange)
               \cup {[i \in 1 .. k |-> [Offset |-> 0, Length |-> 0]] : k \in 4 .. 6}
=============================================================================
