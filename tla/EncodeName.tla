----------------------------- MODULE EncodeName -----------------------------
(***************************************************************************)
(* udev_util_encode_string (src/udev-utils.c): a string in a form that is  *)
(* safe in the name of a device node.  With the option enable-gpl it is    *)
(* encode_devnode_name of src/utils-gpl.c, which keeps letters, digits and *)
(* well-formed UTF-8, and writes any other byte as \x and two hexadecimal  *)
(* digits; without the option it is strlcpy(3).                            *)
(*                                                                         *)
(* A byte is a number.  sprintf(3) writes the terminator of what it writes *)
(* too: four bytes of room are asked for, five bytes are written.  Behind  *)
(* the buffer there is memory that is not the caller's to give.            *)
(***************************************************************************)
EXTENDS Integers, Sequences, FiniteSetsExt

CONSTANTS
    Strings, \* the strings to encode: sequences of bytes, without the
             \* terminator
    Lengths  \* the sizes of the buffer

ASSUME EncodeAssumption ==
    Strings \subseteq Seq(1..255) /\ Lengths \subseteq Nat

EINVAL == -22
Backslash == 92
Digits == 48..57
Letters == 65..90 \cup 97..122
Hex(d) == IF d < 10 THEN 48 + d ELSE 87 + d

VARIABLES
    gpl, \* ENABLE_GPL
    str, \* the string
    len, \* the size of the buffer
    i,   \* the next byte of the string, counted from 0
    j,   \* the next byte of the buffer, counted from 0
    buf, \* the bytes written from the start of the buffer on
    ret, \* what was returned
    pc   \* encode or done

input == <<gpl, str, len>>
vars == <<input, i, j, buf, ret, pc>>

Init ==
    /\ gpl \in BOOLEAN /\ str \in Strings /\ len \in Lengths
    /\ i = 0 /\ j = 0 /\ buf = <<>> /\ ret = 0 /\ pc = "encode"

-----------------------------------------------------------------------------
(* UTF-8.  The string ends with a byte 0.                                  *)

At(k) == IF k < Len(str) THEN str[k + 1] ELSE 0

ExpectedLen(c) ==
    CASE c < 128 -> 1
      [] c \in 192..223 -> 2
      [] c \in 224..239 -> 3
      [] c \in 240..247 -> 4
      [] c \in 248..251 -> 5
      [] c \in 252..253 -> 6
      [] OTHER -> 0

(* The bits of n bytes from k on: 7 - n of the first, 6 of each other.     *)
FirstBits(c, n) ==
    CASE n = 2 -> c % 32 [] n = 3 -> c % 16 [] n = 4 -> c % 8
      [] n = 5 -> c % 4  [] OTHER -> c % 2
Bits(k, n) ==
    LET u[m \in 1..n] == IF m = 1 THEN FirstBits(At(k), n)
                         ELSE 64 * u[m - 1] + (At(k + m - 1) % 64)
    IN u[n]

(* utf8_encoded_to_unichar, of more than one byte.                         *)
ToUnichar(k, n) ==
    IF \A m \in 1..n - 1 : At(k + m) \in 128..191 THEN Bits(k, n) ELSE EINVAL

UnicharToLen(u) ==
    IF u < 128 THEN 1 ELSE IF u < 2048 THEN 2 ELSE IF u < 65536 THEN 3
    ELSE IF u < 2097152 THEN 4 ELSE IF u < 67108864 THEN 5 ELSE 6

(* Beyond Unicode, a surrogate of UTF-16, not a character, a byte order    *)
(* mark of the wrong order.                                                *)
UnicharIsValid(u) ==
    /\ u < 1114112 /\ u \notin 55296..57343
    /\ u \notin 64976..65007 /\ u % 65536 \notin {65534, 65535}

(* Refuted by KeepsOnlyText: an encoding may be longer than it has to be.  *)
ValidUnicharOverlong(k) ==
    LET n == ExpectedLen(At(k))
    IN IF n = 1 THEN 1
       ELSE IF /\ n # 0 /\ \A m \in 0..n - 1 : At(k + m) >= 128
               /\ ToUnichar(k, n) >= 0 /\ UnicharIsValid(ToUnichar(k, n))
            THEN n ELSE EINVAL

(* utf8_encoded_valid_unichar: the length of the character at k.           *)
ValidUnichar(k) ==
    LET n == ExpectedLen(At(k))
    IN IF n = 1 THEN 1
       ELSE IF /\ n # 0 /\ \A m \in 0..n - 1 : At(k + m) >= 128
               /\ UnicharToLen(ToUnichar(k, n)) = n
               /\ UnicharIsValid(ToUnichar(k, n))
            THEN n ELSE EINVAL

(* whitelisted_char_for_devnode: letters, digits and #+-.:=@_              *)
Whitelisted(c) ==
    c \in Digits \cup Letters \cup {35, 43, 45, 46, 58, 61, 64, 95}

-----------------------------------------------------------------------------

Write(bytes) == buf' = SubSeq(buf, 1, j) \o bytes

Fail ==
    /\ ret' = EINVAL /\ pc' = "done"
    /\ UNCHANGED <<input, i, j, buf>>

More == gpl /\ pc = "encode" /\ i < Len(str)

(* Refuted by StaysInBuffer: a character is copied wherever a byte fits.   *)
CopyUnchecked ==
    /\ More
    /\ LET n == ValidUnichar(i)
       IN /\ n > 1
          /\ IF len - j < 1 THEN Fail
             ELSE /\ Write(SubSeq(str, i + 1, i + n))
                  /\ i' = i + n /\ j' = j + n
                  /\ UNCHANGED <<input, ret, pc>>

(* A character of more than one byte is copied.                            *)
Copy ==
    /\ More
    /\ LET n == ValidUnichar(i)
       IN /\ n > 1
          /\ IF len - j < n THEN Fail
             ELSE /\ Write(SubSeq(str, i + 1, i + n))
                  /\ i' = i + n /\ j' = j + n
                  /\ UNCHANGED <<input, ret, pc>>

(* Refuted by Decodable: a backslash stands for itself.                    *)
MustEscapeButBackslash(c) == ~Whitelisted(c) /\ c # Backslash

MustEscape(c) == c = Backslash \/ ~Whitelisted(c)

Escape ==
    /\ More /\ ValidUnichar(i) <= 1 /\ MustEscape(At(i))
    /\ IF len - j < 4 THEN Fail
       ELSE /\ Write(<<Backslash, 120, Hex(At(i) \div 16), Hex(At(i) % 16), 0>>)
            /\ i' = i + 1 /\ j' = j + 4
            /\ UNCHANGED <<input, ret, pc>>

Keep ==
    /\ More /\ ValidUnichar(i) <= 1 /\ ~MustEscape(At(i))
    /\ IF len - j < 1 THEN Fail
       ELSE /\ Write(<<At(i)>>)
            /\ i' = i + 1 /\ j' = j + 1
            /\ UNCHANGED <<input, ret, pc>>

Terminate ==
    /\ gpl /\ pc = "encode" /\ i = Len(str)
    /\ IF len - j < 1 THEN Fail
       ELSE /\ Write(<<0>>)
            /\ ret' = 0 /\ pc' = "done"
            /\ UNCHANGED <<input, i, j>>

(* strlcpy(3) cuts what does not fit, and says how long it is.             *)
Strlcpy ==
    /\ ~gpl /\ pc = "encode" /\ pc' = "done"
    /\ buf' = IF len = 0 THEN <<>>
              ELSE Append(SubSeq(str, 1, Min({Len(str), len - 1})), 0)
    /\ ret' = IF Len(str) < len THEN 0 ELSE EINVAL
    /\ UNCHANGED <<input, i, j>>

Next == Copy \/ Escape \/ Keep \/ Terminate \/ Strlcpy

Spec == Init /\ [][Next]_vars

-----------------------------------------------------------------------------

Encoded == pc = "done" /\ ret = 0
Out == SubSeq(buf, 1, Len(buf) - 1)

(* Reading an encoded string back: \x and two digits are a byte.           *)
Value(h) == IF h \in Digits THEN h - 48 ELSE h - 87
Decode(s) ==
    LET d[k \in 1..Len(s) + 1] ==
            IF k > Len(s) THEN <<>>
            ELSE IF s[k] = Backslash /\ k + 3 <= Len(s)
            THEN <<16 * Value(s[k + 2]) + Value(s[k + 3])>> \o d[k + 4]
            ELSE <<s[k]>> \o d[k + 1]
    IN d[1]

(* What was encoded is terminated, and the string can be read back from    *)
(* it: no two strings have the same encoding, whatever bytes they hold.    *)
Decodable ==
    Encoded => /\ buf # <<>> /\ buf[Len(buf)] = 0
               /\ IF gpl THEN Decode(Out) = str ELSE Out = str

(* utf8_encode_unichar: a character in its shortest form.                  *)
Utf8(u) ==
    IF u < 128 THEN <<u>>
    ELSE IF u < 2048 THEN <<192 + (u \div 64), 128 + (u % 64)>>
    ELSE IF u < 65536
    THEN <<224 + (u \div 4096), 128 + ((u \div 64) % 64), 128 + (u % 64)>>
    ELSE IF u < 2097152
    THEN <<240 + (u \div 262144), 128 + ((u \div 4096) % 64),
           128 + ((u \div 64) % 64), 128 + (u % 64)>>
    ELSE <<>>

(* The n bytes from k on are the UTF-8 of a character.                     *)
IsText(k, n) ==
    /\ k + n <= Len(str) /\ Utf8(Bits(k, n)) = SubSeq(str, k + 1, k + n)
    /\ UnicharIsValid(Bits(k, n))
TextAt(k) == {n \in 2..4 : IsText(k, n)}

(* The reference: what the bytes from k on become.                         *)
Piece(c) ==
    IF MustEscape(c) THEN <<Backslash, 120, Hex(c \div 16), Hex(c % 16)>>
    ELSE <<c>>
Reference ==
    LET r[k \in 0..Len(str)] ==
            IF k = Len(str) THEN <<>>
            ELSE IF TextAt(k) = {} THEN Piece(At(k)) \o r[k + 1]
            ELSE LET n == Min(TextAt(k)) IN SubSeq(str, k + 1, k + n) \o r[k + n]
    IN r[0]

(* Bytes above 127 come through just where they are a character of more    *)
(* than one byte in its shortest form, as src/utils-gpl.c itself would     *)
(* write it: not cut off by the end of the string, no surrogate, none      *)
(* beyond Unicode.  Every other byte that is not whitelisted is escaped.   *)
(* The call succeeds just if that and its terminator fit into the buffer.  *)
KeepsOnlyText ==
    pc = "done" =>
        /\ ret = 0 <=> Len(IF gpl THEN Reference ELSE str) < len
        /\ gpl /\ ret = 0 => Out = Reference

(* The buffer is kept to but for one byte: where an escape just fits, its  *)
(* terminator is written behind the buffer.  Then the call fails.          *)
StaysInBuffer ==
    /\ j <= len /\ Len(buf) <= len + 1
    /\ Len(buf) = len + 1 => gpl /\ j = len /\ (pc = "done" => ret = EINVAL)
=============================================================================
