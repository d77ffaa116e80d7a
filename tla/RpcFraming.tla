----------------------------- MODULE RpcFraming -----------------------------
(***************************************************************************)
(* The frames of an RPC connection (core/match_condition.hpp): a length    *)
(* prefix of one, three or nine bytes and the payload.  A buffer is given  *)
(* by its first bytes, as many of a prefix as have arrived, and its size;  *)
(* payload bytes are only counted.  Numbers of 64 bits are read byte by    *)
(* byte from the top, so that TLC needs no number above a length.          *)
(***************************************************************************)
EXTENDS Integers, Sequences

Q1(n) == n \div 256
Q2(n) == Q1(n) \div 256
Q3(n) == Q2(n) \div 256
Q4(n) == Q3(n) \div 256
Q5(n) == Q4(n) \div 256
Q6(n) == Q5(n) \div 256
Q7(n) == Q6(n) \div 256

(* A length with the most significant of its 64 bits zero. *)
IsLength(n) == n \in Nat /\ Q7(n) < 128

(* The prefix of a payload of n bytes, little endian. *)
generate_length(n) ==
  IF n < 254 THEN <<n>>
  ELSE IF n <= 65535 THEN <<254, n % 256, Q1(n)>>
  ELSE <<255, n % 256, Q1(n) % 256, Q2(n) % 256, Q3(n) % 256, Q4(n) % 256,
         Q5(n) % 256, Q6(n) % 256, Q7(n) % 256>>

(* The numbers in the bytes after the first. *)
Uint16(h) == h[2] + 256 * h[3]
Uint63(h) ==
  h[2] + 256 * (h[3] + 256 * (h[4] + 256 * (h[5] + 256 *
    (h[6] + 256 * (h[7] + 256 * (h[8] + 256 * h[9]))))))

(* The results: the match is not complete, and is tried again from the start *)
(* of the buffer; it is one frame of so many bytes; the data is illegal.     *)
NotYet == [found |-> FALSE, bytes |-> 0]
Frame(k) == [found |-> TRUE, bytes |-> k]
Illegal == [found |-> TRUE, bytes |-> 0]

(* A prefix of k bytes says n. *)
Payload(size, k, n) == IF size - k < n THEN NotYet ELSE Frame(k + n)

(* Mutant: 16 bits are expected to hold what one byte could not. *)
M_Match_boundary(h, size) ==
  IF size = 0 THEN NotYet
  ELSE IF h[1] < 254 THEN Payload(size, 1, h[1])
  ELSE IF h[1] = 254
       THEN IF size < 3 THEN NotYet
            ELSE IF Uint16(h) <= 254 THEN Illegal
            ELSE Payload(size, 3, Uint16(h))
       ELSE IF size < 9 THEN NotYet
            ELSE IF h[9] >= 128 \/ Uint63(h) <= 65535 THEN Illegal
            ELSE Payload(size, 9, Uint63(h))

(* operator(): the match of a buffer of that size which begins with h. *)
Match(h, size) ==
  IF size = 0 THEN NotYet
  ELSE IF h[1] < 254 THEN Payload(size, 1, h[1])
  ELSE IF h[1] = 254
       THEN IF size < 3 THEN NotYet
            ELSE IF Uint16(h) < 254 THEN Illegal
            ELSE Payload(size, 3, Uint16(h))
       ELSE IF size < 9 THEN NotYet
            ELSE IF h[9] >= 128 \/ Uint63(h) <= 65535 THEN Illegal
            ELSE Payload(size, 9, Uint63(h))

(* How many bytes of a frame get_payload drops. *)
get_payload(h) == IF h[1] < 254 THEN 1 ELSE IF h[1] = 254 THEN 3 ELSE 9
------------------------------------------------------------------------------
(* What has arrived of the prefix of n when size bytes have arrived. *)
Arrived(n, size) ==
  [i \in 1 .. (IF size < Len(generate_length(n)) THEN size ELSE Len(generate_length(n)))
     |-> generate_length(n)[i]]

(* However the frame of a payload of n bytes arrives in pieces, it is not    *)
(* matched before its last byte is there, and from then on it is matched     *)
(* whole, whatever follows it; what get_payload leaves is the payload.       *)
FrameIsFound(n, size) ==
  LET whole == Len(generate_length(n)) + n
      h == Arrived(n, size)
  IN  /\ size < whole => Match(h, size) = NotYet
      /\ size >= whole => /\ Match(h, size) = Frame(whole)
                          /\ whole - get_payload(h) = n
=============================================================================
