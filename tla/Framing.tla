-------------------------------- MODULE Framing --------------------------------
(***************************************************************************)
(* The length field of a message, as TcpTool::read decodes it: the four      *)
(* bytes after the flag go through atoi, as if they were text, and the       *)
(* result through ntohl, which swaps its bytes on the machines this program  *)
(* is built for.  int has 32 bits.  Module Reactor takes from here what a    *)
(* header can make a worker do.                                              *)
(***************************************************************************)
EXTENDS Integers

BUFFMAXSIZE == 1024

\* What atoi can make of four characters, a sign among them.
Texts == -999..9999

\* An int with these bytes, the lowest first.
Int32(b0, b1, b2, b3) ==
  b0 + 256 * b1 + 65536 * b2 + 16777216 * (IF b3 < 128 THEN b3 ELSE b3 - 256)

ntohl(n) == Int32((n \div 16777216) % 256, (n \div 65536) % 256,
                  (n \div 256) % 256, n % 256)

\* What readn(buf + 1, len) does next: nothing and return zero, nothing and
\* return a negative number, read a message that fits behind the flag, or read
\* on past the end of buf until the peer ends the connection.
Frame(text) ==
  LET len == ntohl(text) IN
  CASE len = 0 -> "zero"
    [] len < 0 -> "negative"
    [] len > 0 /\ len < BUFFMAXSIZE -> "good"
    [] len >= BUFFMAXSIZE -> "long"

===============================================================================
