---------------------------- MODULE MCEncodeName ----------------------------
(***************************************************************************)
(* Instances of EncodeName for TLC: all strings of up to three bytes out   *)
(* of a letter, a blank, a backslash, bytes that may follow in a character *)
(* and bytes that may begin one of two and of three bytes, among them such *)
(* as begin an encoding that is too long, a surrogate and a byte order     *)
(* mark; and longer strings around the characters of four and more bytes.  *)
(***************************************************************************)
EXTENDS EncodeName, SequencesExt

Bytes == {97, 32, 92, 128, 144, 160, 183, 190, 191, 192, 195, 224, 237, 239}
Leads == {<<240, 144>>, <<240, 128>>, <<244, 143>>, <<244, 144>>,
          <<247, 191>>, <<248, 136>>, <<252, 132>>}
MCStrings ==
    BoundedSeq(Bytes, 3) \cup
    {l \o t : l \in Leads, t \in UNION {[1..n -> {128, 97, 191}] : n \in 0..4}}
MCLengths == 0..13
=============================================================================
