------------------------ MODULE FramingCounter_proofs ------------------------
(* Theorems about the message framing of shared.h and about the counter of    *)
(* task0.  Both need what a recursive function computes, the length in a      *)
(* header and the sum of what the clients asked for; Induction_lemmas has the *)
(* induction.                                                                 *)
EXTENDS Framing, Counter, Induction_lemmas, SequenceTheorems, TLAPS

-----------------------------------------------------------------------------
\* Framing: the length in a header, and the stream of bytes.

LEMMA Weights ==
  /\ Weight \in [0..length_size_field -> Nat \ {0}]
  /\ Weight[0] = 1
  /\ \A k \in 1..length_size_field : Weight[k] = Base * Weight[k - 1]
<1>1. length_size_field \in Nat /\ Base \in Nat \ {0}
  BY FramingAssumption
<1>2. PICK G : G = [k \in 1..length_size_field |-> [w \in Nat \ {0} |-> Base * w]]
  OBVIOUS
<1>3. G \in [1..length_size_field -> [Nat \ {0} -> Nat \ {0}]]
  <2>1. \A w \in Nat \ {0} : Base * w \in Nat \ {0}
    BY <1>1
  <2> QED
    BY <1>2, <2>1
<1>4. PICK f : IsRecursion(f, length_size_field, Nat \ {0}, 1, G)
  <2>1. 1 \in Nat \ {0} /\ IsStep(G, length_size_field, Nat \ {0})
    BY <1>3 DEF IsStep
  <2> QED
    BY <1>1, <2>1, RecursionExists
<1>5. ASSUME NEW n \in 0..length_size_field
      PROVE  f[n] = IF n = 0 THEN 1 ELSE Base * f[n - 1]
  <2>1. n = 0 \/ (n \in 1..length_size_field /\ n - 1 \in 0..length_size_field)
    BY <1>1
  <2> QED
    BY <1>2, <1>4, <2>1 DEF IsRecursion
<1>6. f = [n \in 0..length_size_field |-> IF n = 0 THEN 1 ELSE Base * f[n - 1]]
  <2>1. f = [n \in 0..length_size_field |-> f[n]]
    BY <1>4 DEF IsRecursion
  <2> QED
    BY <1>5, <2>1, Zenon
<1>7. Weight = [n \in 0..length_size_field |-> IF n = 0 THEN 1 ELSE Base * Weight[n - 1]]
  BY <1>6 DEF Weight
<1>8. PICK W : W = Weight
  OBVIOUS
<1>9. ASSUME NEW n \in 0..length_size_field
      PROVE  W[n] = IF n = 0 THEN 1 ELSE Base * W[n - 1]
  <2>1. W = [k \in 0..length_size_field |-> IF k = 0 THEN 1 ELSE Base * W[k - 1]]
    BY <1>7, <1>8, Zenon
  <2> QED
    BY <2>1, Zenon
<1>10. W = [n \in 0..length_size_field |-> W[n]]
  BY <1>7, <1>8, <1>9
<1>11. /\ W[0] = 1
       /\ \A k \in 1..length_size_field : W[k] = Base * W[k - 1]
  <2>1. 0 \in 0..length_size_field
    BY <1>1
  <2>2. ASSUME NEW k \in 1..length_size_field PROVE k \in 0..length_size_field /\ k # 0
    BY <1>1
  <2> QED
    BY <1>9, <2>1, <2>2
<1>12. W \in [0..length_size_field -> Nat \ {0}]
  <2>1. ASSUME NEW n \in 1..length_size_field, W[n - 1] \in Nat \ {0} PROVE W[n] \in Nat \ {0}
    BY <1>1, <1>11, <2>1
  <2>2. W[0] \in Nat \ {0}
    BY <1>11
  <2> QED
    BY <1>1, <1>10, <2>1, <2>2, RecursionTyped
<1> QED
  BY <1>8, <1>11, <1>12

\* What two sequences are, one behind the other.
LEMMA Joined ==
  ASSUME NEW V, NEW s \in Seq(V), NEW t \in Seq(V)
  PROVE  /\ s \o t \in Seq(V) /\ Len(s \o t) = Len(s) + Len(t)
         /\ \A x \in 1..Len(s) : (s \o t)[x] = s[x]
         /\ \A x \in 1..Len(t) : (s \o t)[Len(s) + x] = t[x]
<1>1. Len(s) \in Nat /\ Len(t) \in Nat /\ s \o t \in Seq(V) /\ Len(s \o t) = Len(s) + Len(t)
  OBVIOUS
<1>2. ASSUME NEW x \in 1..Len(s) PROVE (s \o t)[x] = s[x]
  OBVIOUS
<1>3. ASSUME NEW x \in 1..Len(t) PROVE (s \o t)[Len(s) + x] = t[x]
  <2>1. Len(s) + x \in 1..(Len(s) + Len(t)) /\ ~ (Len(s) + x <= Len(s)) /\ (Len(s) + x) - Len(s) = x
    BY <1>1
  <2> QED
    BY <1>1, <2>1
<1> QED
  BY <1>1, <1>2, <1>3

\* What a sequence is, cut behind its n-th element.
LEMMA CutAt ==
  ASSUME NEW V, NEW s \in Seq(V), NEW n \in 0..Len(s)
  PROVE  /\ SubSeq(s, 1, n) \in Seq(V) /\ Len(SubSeq(s, 1, n)) = n
         /\ SubSeq(s, n + 1, Len(s)) \in Seq(V) /\ Len(SubSeq(s, n + 1, Len(s))) = Len(s) - n
         /\ \A x \in 1..n : SubSeq(s, 1, n)[x] = s[x]
         /\ \A x \in 1..(Len(s) - n) : SubSeq(s, n + 1, Len(s))[x] = s[n + x]
<1>1. Len(s) \in Nat /\ \A x \in 1..Len(s) : s[x] \in V
  OBVIOUS
<1>2. PICK a : a = [x \in 1..n |-> s[x]]
  OBVIOUS
<1>3. SubSeq(s, 1, n) = a /\ a \in Seq(V) /\ Len(a) = n /\ \A x \in 1..n : a[x] = s[x]
  BY <1>1, <1>2
<1>4. PICK b : b = [x \in 1..(Len(s) - n) |-> s[n + x]]
  OBVIOUS
<1>5. b \in Seq(V) /\ Len(b) = Len(s) - n /\ \A x \in 1..(Len(s) - n) : b[x] = s[n + x]
  BY <1>1, <1>4
<1>6. SubSeq(s, n + 1, Len(s)) = b
  <2>1. PICK c : c = SubSeq(s, n + 1, Len(s))
    OBVIOUS
  <2>2. c \in Seq(V) /\ Len(c) = Len(s) - n
    BY <1>1, <2>1
  <2>3. ASSUME NEW x \in 1..(Len(s) - n) PROVE c[x] = b[x]
    <3>1. c[x] = s[(n + 1) + x - 1] /\ (n + 1) + x - 1 = n + x
      BY <1>1, <2>1, <2>3
    <3> QED
      BY <1>5, <3>1
  <2> QED
    BY <1>5, <2>1, <2>2, <2>3, SeqEqual
<1> QED
  BY <1>3, <1>5, <1>6

\* A digit more: dividing by w and by Base * w.
LEMMA NextDigit ==
  ASSUME NEW n \in Nat, NEW b \in Nat \ {0}, NEW w \in Nat \ {0}
  PROVE  (n \div (b * w)) * b + ((n \div w) % b) = n \div w
<1>1. PICK q : q = n \div w
  OBVIOUS
<1>2. q \in Nat /\ w * q <= n /\ n < w * q + w
  BY <1>1
<1>3. PICK a : a = q \div b
  OBVIOUS
<1>4. a \in Nat /\ b * a <= q /\ q < b * a + b
  BY <1>2, <1>3
<1>5. q % b = q - b * a
  BY <1>2, <1>3
<1>6. PICK p : p = b * w
  OBVIOUS
<1>7. p \in Nat \ {0}
  BY <1>6
<1>8. PICK d : d = n \div p
  OBVIOUS
<1>9. d \in Nat /\ p * d <= n /\ n < p * d + p
  BY <1>7, <1>8
<1>10. p * a <= n /\ n < p * a + p
  <2>1. w * (b * a) <= w * q /\ w * (b * a) = p * a
    BY <1>2, <1>4, <1>6
  <2>2. q + 1 <= b * a + b /\ w * (q + 1) <= w * (b * a + b) /\ w * (b * a + b) = p * a + p
    BY <1>2, <1>4, <1>6
  <2>3. w * (q + 1) = w * q + w
    BY <1>2
  <2>4. p * a \in Nat /\ w * q \in Nat
    BY <1>2, <1>4, <1>7
  <2> QED
    BY <1>2, <1>7, <2>1, <2>2, <2>3, <2>4
<1>11. a = d
  <2>1. CASE a < d
    <3>1. a + 1 <= d /\ p * (a + 1) <= p * d /\ p * (a + 1) = p * a + p
      BY <1>4, <1>7, <1>9, <2>1
    <3> QED
      BY <1>4, <1>7, <1>9, <1>10, <3>1
  <2>2. CASE d < a
    <3>1. d + 1 <= a /\ p * (d + 1) <= p * a /\ p * (d + 1) = p * d + p
      BY <1>4, <1>7, <1>9, <2>2
    <3> QED
      BY <1>4, <1>7, <1>9, <1>10, <3>1
  <2> QED
    BY <1>4, <1>9, <2>1, <2>2
<1>13. n \div (b * w) = d /\ (n \div w) % b = q % b
  BY <1>1, <1>6, <1>8, Zenon
<1>12. d * b + (q % b) = q
  <2>1. PICK r : r = q % b
    OBVIOUS
  <2>2. r = q - b * d
    BY <1>5, <1>11, <2>1
  <2>3. d * b + r = q
    BY <1>2, <1>9, <2>2
  <2> QED
    BY <2>1, <2>3, Zenon
<1> QED
  BY <1>1, <1>13, <1>12, Zenon

\* Which values convert_byte_array_to_int has come to, byte by byte.
LEMMA LengthSteps ==
  ASSUME NEW h \in Seq(Nat)
  PROVE  \E v : /\ Length(h) = v[Len(h)]
                /\ v[0] = 0
                /\ \A i \in 1..Len(h) : v[i] = v[i - 1] * Base + h[i]
<1>1. Len(h) \in Nat /\ Base \in Nat
  BY FramingAssumption
<1>2. PICK G : G = [i \in 1..Len(h) |-> [x \in Nat |-> x * Base + h[i]]]
  OBVIOUS
<1>3. G \in [1..Len(h) -> [Nat -> Nat]]
  <2>1. ASSUME NEW i \in 1..Len(h), NEW x \in Nat PROVE x * Base + h[i] \in Nat
    <3>1. h[i] \in Nat /\ x * Base \in Nat
      BY <1>1
    <3> QED
      BY <3>1
  <2> QED
    BY <1>2, <2>1
<1>4. PICK f : IsRecursion(f, Len(h), Nat, 0, G)
  <2>1. 0 \in Nat /\ IsStep(G, Len(h), Nat)
    BY <1>3 DEF IsStep
  <2> QED
    BY <1>1, <2>1, RecursionExists
<1>5. f = [i \in 0..Len(h) |-> IF i = 0 THEN 0 ELSE f[i - 1] * Base + h[i]]
  <2>1. f = [n \in 0..Len(h) |-> f[n]]
    BY <1>4 DEF IsRecursion
  <2>2. ASSUME NEW n \in 0..Len(h)
        PROVE  f[n] = IF n = 0 THEN 0 ELSE f[n - 1] * Base + h[n]
    <3>1. n = 0 \/ (n \in 1..Len(h) /\ n - 1 \in 0..Len(h))
      BY <1>1
    <3> QED
      BY <1>2, <1>4, <3>1 DEF IsRecursion
  <2> QED
    BY <2>1, <2>2, Zenon
<1>6. PICK v : /\ v = [i \in 0..Len(h) |-> IF i = 0 THEN 0 ELSE v[i - 1] * Base + h[i]]
               /\ Length(h) = v[Len(h)]
  BY <1>5 DEF Length
<1>7. ASSUME NEW n \in 0..Len(h)
      PROVE  v[n] = IF n = 0 THEN 0 ELSE v[n - 1] * Base + h[n]
  BY <1>6, Zenon
<1>8. v[0] = 0 /\ \A i \in 1..Len(h) : v[i] = v[i - 1] * Base + h[i]
  <2>1. 0 \in 0..Len(h)
    BY <1>1
  <2>2. ASSUME NEW i \in 1..Len(h) PROVE i \in 0..Len(h) /\ i # 0
    BY <1>1
  <2> QED
    BY <1>7, <2>1, <2>2
<1> QED
  BY <1>6, <1>8

\* A length that fits into the field comes out of the header as it went in:
\* convert_byte_array_to_int undoes convert_int_to_byte_array.
THEOREM LengthOfHeader ==
  ASSUME NEW n \in Nat, n < Weight[length_size_field]
  PROVE  Header(n) \in Seq(Bytes) /\ Len(Header(n)) = length_size_field /\ Length(Header(n)) = n
<1>1. length_size_field \in Nat \ {0} /\ Base \in Nat \ {0}
  BY FramingAssumption
<1>2. PICK L : L = length_size_field
  OBVIOUS
<1>3. PICK h : h = Header(n)
  OBVIOUS
<1>4. /\ \A k \in 0..L : Weight[k] \in Nat \ {0}
      /\ Weight[0] = 1
      /\ \A k \in 1..L : Weight[k] = Base * Weight[k - 1]
  BY <1>2, Weights
<1>5. ASSUME NEW i \in 1..L PROVE (n \div Weight[L - i]) % Base \in Bytes
  <2>1. L - i \in 0..L
    BY <1>1, <1>2
  <2>2. n \div Weight[L - i] \in Nat
    BY <1>4, <2>1
  <2> QED
    BY <1>1, <2>2 DEF Bytes
<1>6. h \in Seq(Bytes) /\ Len(h) = L /\ \A i \in 1..L : h[i] = (n \div Weight[L - i]) % Base
  BY <1>1, <1>2, <1>3, <1>5 DEF Header
<1>7. h \in Seq(Nat)
  <2>1. \A b \in Bytes : b \in Nat
    BY <1>1 DEF Bytes
  <2> QED
    BY <1>6, <2>1
<1>8. PICK v : /\ Length(h) = v[L]
               /\ v[0] = 0
               /\ \A i \in 1..L : v[i] = v[i - 1] * Base + h[i]
  BY <1>6, <1>7, LengthSteps
<1> DEFINE S == {i \in 0..L : v[i] = n \div Weight[L - i]}
<1>9. 0 \in S
  <2>1. 0 \in 0..L /\ L - 0 = L /\ L \in 0..L
    BY <1>1, <1>2
  <2>2. n \div Weight[L] = 0
    BY <1>2, <1>4, <2>1
  <2> QED
    BY <1>8, <2>1, <2>2
<1>10. ASSUME NEW i \in 0..(L - 1), i \in S PROVE i + 1 \in S
  <2>1. /\ i + 1 \in 1..L /\ (i + 1) - 1 = i /\ L - i \in 1..L /\ (L - i) - 1 = L - (i + 1)
        /\ L - (i + 1) \in 0..L /\ i + 1 \in 0..L
    BY <1>1, <1>2
  <2>2. v[i + 1] = (n \div Weight[L - i]) * Base + ((n \div Weight[L - (i + 1)]) % Base)
    <3>1. v[i + 1] = v[(i + 1) - 1] * Base + h[i + 1]
      BY <1>8, <2>1
    <3>2. h[i + 1] = (n \div Weight[L - (i + 1)]) % Base
      BY <1>6, <2>1
    <3>3. v[(i + 1) - 1] = n \div Weight[L - i]
      BY <1>10, <2>1
    <3> QED
      BY <3>1, <3>2, <3>3
  <2>3. Weight[L - i] = Base * Weight[L - (i + 1)]
    BY <1>4, <2>1
  <2>4. Weight[L - (i + 1)] \in Nat \ {0}
    BY <1>4, <2>1
  <2>5. v[i + 1] = n \div Weight[L - (i + 1)]
    <3>1. PICK w : w = Weight[L - (i + 1)]
      OBVIOUS
    <3>2. (n \div (Base * w)) * Base + ((n \div w) % Base) = n \div w
      BY <1>1, <2>4, <3>1, NextDigit
    <3> QED
      BY <2>2, <2>3, <3>1, <3>2, Zenon
  <2> QED
    BY <2>1, <2>5
<1>11. v[L] = n \div Weight[0]
  <2>1. L \in Nat /\ L \in 0..L /\ L - L = 0
    BY <1>1, <1>2
  <2>2. L \in S
    <3>1. \A i \in 0..(L - 1) : i \in S => i + 1 \in S
      BY <1>10
    <3> HIDE DEF S
    <3> QED
      BY <1>9, <2>1, <3>1, BoundedInduction
  <2> QED
    BY <2>1, <2>2
<1>12. n \div Weight[0] = n
  BY <1>4
<1> QED
  BY <1>2, <1>3, <1>6, <1>8, <1>11, <1>12

------------------------------------------------------------------------------
(* The stream and where the receiver is in it.                                *)

\* All bytes of the messages sent so far, S, and where each of them ends, p.
Frames(S, p) ==
  /\ p \in [0..Len(frames) -> Nat]
  /\ p[0] = 0
  /\ \A i \in 1..Len(frames) : p[i] = p[i - 1] + (length_size_field + Len(frames[i]))
  /\ \A i, j \in 0..Len(frames) : i <= j => p[i] <= p[j]
  /\ S \in Seq(Bytes)
  /\ Len(S) = p[Len(frames)]
  /\ \A i \in 1..Len(frames) : \A x \in 1..(length_size_field + Len(frames[i])) :
        S[p[i - 1] + x] = construct_message(frames[i])[x]

\* The read_n in progress began behind byte r: what it has read, what is in
\* flight and what is still to be sent are the bytes that follow.
Flow(S, r) ==
  /\ r \in Nat
  /\ \A x \in 1..Len(buffer) : buffer[x] = S[r + x]
  /\ \A x \in 1..Len(wire) : wire[x] = S[r + Len(buffer) + x]
  /\ link = "open" =>
       /\ r + Len(buffer) + Len(wire) + Len(unsent) = Len(S)
       /\ \A x \in 1..Len(unsent) : unsent[x] = S[r + Len(buffer) + Len(wire) + x]

\* What has been accepted and not lost: all of each complete message, unless the
\* connection was reset, and never all of one that is not complete.
Accepted(p, r) ==
  /\ r + Len(buffer) + Len(wire) <= p[Len(frames)]
  /\ complete # Len(frames) => r + Len(buffer) + Len(wire) < p[Len(frames)]
  /\ link # "reset" => p[complete] <= r + Len(buffer) + Len(wire)

\* secure_recv is at the beginning of a message, or behind its header.
Place(p, r) ==
  /\ Len(received) <= complete
  /\ rpc = "header" => r = p[Len(received)] /\ need = length_size_field
  /\ rpc = "payload" =>
       /\ Len(received) < Len(frames)
       /\ r = p[Len(received)] + length_size_field
       /\ need = Len(frames[Len(received) + 1])

StreamInv == \E S, p, r : Frames(S, p) /\ Flow(S, r) /\ Accepted(p, r) /\ Place(p, r)

WireInv == WireTypeOK /\ StreamInv

\* What construct_message makes of a message.
LEMMA FrameShape ==
  ASSUME MessagesFit, NEW m \in Messages
  PROVE  LET f == construct_message(m)
         IN /\ f \in Seq(Bytes) /\ m \in Seq(Bytes) /\ Len(m) \in Nat
            /\ Len(f) = length_size_field + Len(m)
            /\ Len(Header(Len(m))) = length_size_field
            /\ \A x \in 1..length_size_field : f[x] = Header(Len(m))[x]
            /\ \A x \in 1..Len(m) : f[length_size_field + x] = m[x]
            /\ Header(Len(m)) \in Seq(Bytes)
            /\ Length(Header(Len(m))) = Len(m)
<1>1. m \in Seq(Bytes) /\ Len(m) \in Nat
  BY FramingAssumption DEF Bytes
<1>2. PICK h : h = Header(Len(m))
  OBVIOUS
<1>3. h \in Seq(Bytes) /\ Len(h) = length_size_field /\ Length(h) = Len(m)
  BY <1>1, <1>2, LengthOfHeader DEF MessagesFit
<1>4. PICK f : f = h \o m
  OBVIOUS
<1>5. /\ f \in Seq(Bytes)
      /\ Len(f) = length_size_field + Len(m)
      /\ \A x \in 1..length_size_field : f[x] = h[x]
      /\ \A x \in 1..Len(m) : f[length_size_field + x] = m[x]
  <2>1. f \in Seq(Bytes) /\ Len(f) = Len(h) + Len(m)
    BY <1>1, <1>3, <1>4, Joined
  <2>2. \A x \in 1..Len(h) : f[x] = h[x]
    BY <1>1, <1>3, <1>4, Joined
  <2>3. \A x \in 1..Len(m) : f[Len(h) + x] = m[x]
    BY <1>1, <1>3, <1>4, Joined
  <2> QED
    BY <1>3, <2>1, <2>2, <2>3
<1>6. construct_message(m) = f
  BY <1>2, <1>4 DEF construct_message
<1> QED
  BY <1>1, <1>2, <1>3, <1>5, <1>6

LEMMA StreamBegins == WireInit => WireInv
<1> SUFFICES ASSUME WireInit PROVE WireInv
  OBVIOUS
<1>1. length_size_field \in Nat /\ max_retries \in Nat
  BY FramingAssumption
<1>2. WireTypeOK
  BY <1>1 DEF WireInit, WireTypeOK
<1>3. PICK p : p = [i \in 0..0 |-> 0]
  OBVIOUS
<1>4. /\ Len(frames) = 0 /\ Len(buffer) = 0 /\ Len(wire) = 0 /\ Len(unsent) = 0
      /\ Len(received) = 0 /\ complete = 0 /\ rpc = "header" /\ need = length_size_field
  BY DEF WireInit
<1>5. p[0] = 0 /\ p \in [0..0 -> Nat] /\ \A i, j \in 0..0 : p[i] = p[j]
  BY <1>3
<1>6. << >> \in Seq(Bytes) /\ Len(<< >>) = 0
  OBVIOUS
<1>7. Frames(<< >>, p)
  BY <1>4, <1>5, <1>6 DEF Frames
<1>8. Flow(<< >>, 0) /\ Accepted(p, 0) /\ Place(p, 0)
  BY <1>4, <1>5, <1>6 DEF Flow, Accepted, Place
<1> QED
  BY <1>2, <1>7, <1>8 DEF WireInv, StreamInv

\* A new message is put behind all others.
LEMMA SendMessageStream ==
  ASSUME MessagesFit, WireInv, NEW m \in Messages, SendMessage(m)
  PROVE  WireInv'
<1>1. PICK S, p, r : Frames(S, p) /\ Flow(S, r) /\ Accepted(p, r) /\ Place(p, r)
  BY DEF WireInv, StreamInv
<1>2. /\ link = "open" /\ unsent = << >> /\ unsent' = construct_message(m)
      /\ frames' = Append(frames, m)
      /\ UNCHANGED <<wire, link, rpc, buffer, need, retries, received, complete>>
  BY DEF SendMessage
<1>3. WireTypeOK
  BY DEF WireInv
<1>4. PICK f : f = construct_message(m)
  OBVIOUS
<1>5. /\ f \in Seq(Bytes) /\ Len(m) \in Nat /\ Len(f) = length_size_field + Len(m)
  BY <1>4, FrameShape
<1>6. PICK N : N = Len(frames)
  OBVIOUS
<1>7. N \in Nat /\ length_size_field \in Nat \ {0}
  BY <1>3, <1>6, FramingAssumption DEF WireTypeOK
<1>8. /\ Len(frames') = N + 1 /\ frames'[N + 1] = m /\ \A i \in 1..N : frames'[i] = frames[i]
      /\ frames' \in Seq(Messages)
  BY <1>2, <1>3, <1>6 DEF WireTypeOK
<1>9. PICK T : T = S \o f
  OBVIOUS
<1>10. PICK q : q = [i \in 0..(N + 1) |-> IF i = N + 1 THEN p[N] + Len(f) ELSE p[i]]
  OBVIOUS
<1>11. /\ S \in Seq(Bytes) /\ Len(S) = p[N] /\ p \in [0..N -> Nat] /\ p[0] = 0
       /\ \A i \in 1..N : p[i] = p[i - 1] + (length_size_field + Len(frames[i]))
       /\ \A i, j \in 0..N : i <= j => p[i] <= p[j]
       /\ \A i \in 1..N : \A x \in 1..(length_size_field + Len(frames[i])) :
             S[p[i - 1] + x] = construct_message(frames[i])[x]
  BY <1>1, <1>6 DEF Frames
<1>12. /\ T \in Seq(Bytes) /\ Len(T) = p[N] + Len(f)
       /\ \A x \in 1..p[N] : T[x] = S[x]
       /\ \A x \in 1..Len(f) : T[p[N] + x] = f[x]
  <2>1. S \in Seq(Bytes) /\ f \in Seq(Bytes) /\ Len(S) = p[N]
    BY <1>5, <1>11
  <2>2. \A x \in 1..Len(S) : T[x] = S[x]
    BY <1>9, <2>1, Joined
  <2>3. \A x \in 1..Len(f) : T[Len(S) + x] = f[x]
    BY <1>9, <2>1, Joined
  <2>4. T \in Seq(Bytes) /\ Len(T) = Len(S) + Len(f)
    BY <1>9, <2>1, Joined
  <2> QED
    BY <2>1, <2>2, <2>3, <2>4
<1>13. /\ q \in [0..(N + 1) -> Nat] /\ q[N + 1] = p[N] + Len(f)
       /\ \A i \in 0..N : q[i] = p[i]
  <2>1. /\ \A i \in 0..N : p[i] \in Nat /\ i \in 0..(N + 1) /\ i # N + 1
        /\ p[N] + Len(f) \in Nat /\ N + 1 \in 0..(N + 1)
        /\ \A i \in 0..(N + 1) : i \in 0..N \/ i = N + 1
    <3>1. p \in [0..N -> Nat] /\ N \in Nat /\ Len(f) \in Nat
      BY <1>5, <1>7, <1>11
    <3> QED
      BY <3>1
  <2> QED
    BY <1>10, <2>1
<1>14. Frames(T, q)'
  <2>1. q[0] = 0
    BY <1>7, <1>11, <1>13
  <2>2. ASSUME NEW i \in 1..(N + 1)
        PROVE  q[i] = q[i - 1] + (length_size_field + Len(frames'[i]))
    <3>1. (i \in 1..N /\ i - 1 \in 0..N /\ i \in 0..N) \/ (i = N + 1 /\ i - 1 = N /\ N \in 0..N)
      BY <1>7
    <3> QED
      BY <1>5, <1>8, <1>11, <1>13, <3>1
  <2>3. ASSUME NEW i \in 0..(N + 1), NEW j \in 0..(N + 1), i <= j PROVE q[i] <= q[j]
    <3>1. CASE j \in 0..N
      <4>1. i \in 0..N
        BY <1>7, <2>3, <3>1
      <4> QED
        BY <1>11, <1>13, <2>3, <3>1, <4>1
    <3>2. CASE j = N + 1 /\ i \in 0..N
      <4>1. p[i] <= p[N] /\ p[i] \in Nat /\ p[N] \in Nat
        BY <1>7, <1>11, <3>2
      <4> QED
        BY <1>5, <1>7, <1>13, <3>2, <4>1
    <3>3. CASE i = N + 1 /\ j = N + 1
      BY <1>13, <3>3
    <3> QED
      BY <1>7, <2>3, <3>1, <3>2, <3>3
  <2>4. ASSUME NEW i \in 1..(N + 1), NEW x \in 1..(length_size_field + Len(frames'[i]))
        PROVE  T[q[i - 1] + x] = construct_message(frames'[i])[x]
    <3>1. CASE i \in 1..N
      <4>1. i - 1 \in 0..N /\ i \in 0..N /\ N \in 0..N /\ i <= N
        BY <1>7, <3>1
      <4>2. /\ frames'[i] = frames[i] /\ q[i - 1] = p[i - 1] /\ p[i] <= p[N]
            /\ p[i] = p[i - 1] + (length_size_field + Len(frames[i]))
            /\ p[i - 1] \in Nat /\ p[N] \in Nat
        BY <1>8, <1>11, <1>13, <3>1, <4>1
      <4>3. x \in 1..(length_size_field + Len(frames[i]))
        BY <4>2
      <4>4. p[i - 1] + x \in 1..p[N]
        <5>1. Len(frames[i]) \in Nat
          BY <1>3, <1>6, <3>1, ElementOfSeq, FrameShape DEF WireTypeOK
        <5> QED
          BY <1>7, <4>2, <4>3, <5>1
      <4>5. S[p[i - 1] + x] = construct_message(frames[i])[x]
        BY <1>11, <3>1, <4>3
      <4> QED
        BY <1>12, <4>2, <4>4, <4>5
    <3>2. CASE i = N + 1
      <4>1. frames'[i] = m /\ i - 1 = N /\ q[N] = p[N]
        BY <1>7, <1>8, <1>13, <3>2
      <4>2. x \in 1..Len(f)
        BY <1>5, <4>1
      <4> QED
        BY <1>4, <1>12, <4>1, <4>2
    <3> QED
      BY <1>7, <3>1, <3>2
  <2> QED
    BY <1>8, <1>12, <1>13, <2>1, <2>2, <2>3, <2>4 DEF Frames
<1>15. /\ Len(buffer) \in Nat /\ Len(wire) \in Nat /\ Len(unsent) = 0 /\ r \in Nat
       /\ r + Len(buffer) + Len(wire) = p[N] /\ complete \in {N - 1, N}
  <2>1. Len(buffer) \in Nat /\ Len(wire) \in Nat /\ Len(unsent) = 0 /\ r \in Nat
    BY <1>1, <1>2, <1>3 DEF WireTypeOK, Flow
  <2>2. r + Len(buffer) + Len(wire) + Len(unsent) = p[N]
    BY <1>1, <1>2, <1>11 DEF Flow
  <2> QED
    BY <1>3, <1>6, <2>1, <2>2 DEF WireTypeOK
<1>16. complete = N
  <2>1. complete # N => r + Len(buffer) + Len(wire) < p[N]
    BY <1>1, <1>6 DEF Accepted
  <2> QED
    BY <1>15, <2>1
<1>17. Flow(T, r)'
  <2>1. p[N] + Len(f) = Len(T) /\ r + Len(buffer) + Len(wire) + Len(f) = Len(T)
    BY <1>12, <1>15
  <2>2. ASSUME NEW x \in 1..Len(buffer) PROVE buffer[x] = T[r + x]
    <3>1. r + x \in 1..p[N]
      BY <1>15
    <3> QED
      BY <1>1, <1>12, <3>1 DEF Flow
  <2>3. ASSUME NEW x \in 1..Len(wire) PROVE wire[x] = T[r + Len(buffer) + x]
    <3>1. r + Len(buffer) + x \in 1..p[N]
      BY <1>15
    <3> QED
      BY <1>1, <1>12, <3>1 DEF Flow
  <2>4. ASSUME NEW x \in 1..Len(f) PROVE f[x] = T[r + Len(buffer) + Len(wire) + x]
    BY <1>12, <1>15
  <2> QED
    BY <1>2, <1>4, <1>15, <2>1, <2>2, <2>3, <2>4 DEF Flow
<1>18. Accepted(q, r)'
  <2>1. q[N] = p[N] /\ p[N] \in Nat /\ q[N + 1] = p[N] + Len(f) /\ Len(f) \in Nat \ {0}
    BY <1>5, <1>7, <1>11, <1>13
  <2> QED
    BY <1>2, <1>8, <1>15, <1>16, <2>1 DEF Accepted
<1>19. Place(q, r)'
  <2>1. Len(received) <= complete /\ Len(received) \in 0..N
    BY <1>1, <1>3, <1>7, <1>16 DEF Place, WireTypeOK
  <2>2. q[Len(received)] = p[Len(received)]
    BY <1>13, <2>1
  <2>3. rpc = "payload" => Len(received) < N + 1 /\ Len(received) + 1 \in 1..N
    BY <1>1, <1>6, <1>7, <2>1 DEF Place
  <2>4. rpc = "payload" => frames'[Len(received) + 1] = frames[Len(received) + 1]
    BY <1>8, <2>3
  <2> QED
    BY <1>1, <1>2, <1>8, <2>1, <2>2, <2>3, <2>4 DEF Place
<1>20. WireTypeOK'
  BY <1>2, <1>3, <1>4, <1>5, <1>7, <1>8, <1>16 DEF WireTypeOK
<1> QED
  BY <1>14, <1>17, <1>18, <1>19, <1>20 DEF WireInv, StreamInv

\* What the steps of the stream leave alone.
LEMMA FramesKept ==
  ASSUME NEW S, NEW p, Frames(S, p), UNCHANGED frames
  PROVE  Frames(S, p)'
BY DEF Frames

\* A step of send.
LEMMA SendStream ==
  ASSUME WireInv, NEW n \in 1..Len(unsent), Send(n)
  PROVE  WireInv'
<1>1. PICK S, p, r : Frames(S, p) /\ Flow(S, r) /\ Accepted(p, r) /\ Place(p, r)
  BY DEF WireInv, StreamInv
<1>2. /\ link = "open" /\ wire' = wire \o SubSeq(unsent, 1, n)
      /\ unsent' = SubSeq(unsent, n + 1, Len(unsent))
      /\ complete' = IF n = Len(unsent) THEN Len(frames) ELSE complete
      /\ UNCHANGED <<link, rpc, buffer, need, retries, received, frames>>
  BY DEF Send, Remaining
<1>3. WireTypeOK
  BY DEF WireInv
<1>4. PICK a : a = SubSeq(unsent, 1, n)
  OBVIOUS
<1>5. /\ Len(unsent) \in Nat /\ n \in 1..Len(unsent) /\ Len(wire) \in Nat /\ Len(buffer) \in Nat
      /\ r \in Nat /\ Len(received) \in Nat /\ Len(frames) \in Nat
  BY <1>1, <1>3 DEF WireTypeOK, Flow
<1>6. /\ a \in Seq(Bytes) /\ Len(a) = n /\ \A x \in 1..n : a[x] = unsent[x]
      /\ unsent' \in Seq(Bytes) /\ Len(unsent') = Len(unsent) - n
      /\ \A x \in 1..(Len(unsent) - n) : unsent'[x] = unsent[n + x]
  <2>1. unsent \in Seq(Bytes) /\ n \in 0..Len(unsent)
    BY <1>3, <1>5 DEF WireTypeOK
  <2>2. PICK b : b = SubSeq(unsent, n + 1, Len(unsent))
    OBVIOUS
  <2>3. a \in Seq(Bytes) /\ Len(a) = n /\ b \in Seq(Bytes) /\ Len(b) = Len(unsent) - n
    BY <1>4, <2>1, <2>2, CutAt
  <2>4. \A x \in 1..n : a[x] = unsent[x]
    BY <1>4, <2>1, CutAt
  <2>5. \A x \in 1..(Len(unsent) - n) : b[x] = unsent[n + x]
    BY <2>1, <2>2, CutAt
  <2> QED
    BY <1>2, <2>2, <2>3, <2>4, <2>5
<1>7. wire' \in Seq(Bytes) /\ Len(wire') = Len(wire) + n
  <2>1. wire' = wire \o a /\ wire \in Seq(Bytes)
    BY <1>2, <1>3, <1>4 DEF WireTypeOK
  <2> QED
    BY <1>6, <2>1, Joined
<1>8. \A x \in 1..Len(wire) : wire'[x] = wire[x]
  <2>1. wire' = wire \o a /\ wire \in Seq(Bytes)
    BY <1>2, <1>3, <1>4 DEF WireTypeOK
  <2> QED
    BY <1>6, <2>1, Joined
<1>9. \A x \in 1..n : wire'[Len(wire) + x] = unsent[x]
  <2>1. wire' = wire \o a /\ wire \in Seq(Bytes)
    BY <1>2, <1>3, <1>4 DEF WireTypeOK
  <2>2. \A x \in 1..Len(a) : wire'[Len(wire) + x] = a[x]
    BY <1>6, <2>1, Joined
  <2> QED
    BY <1>6, <2>2
<1>10. /\ r + Len(buffer) + Len(wire) + Len(unsent) = Len(S)
       /\ \A x \in 1..Len(unsent) : unsent[x] = S[r + Len(buffer) + Len(wire) + x]
       /\ \A x \in 1..Len(wire) : wire[x] = S[r + Len(buffer) + x]
       /\ \A x \in 1..Len(buffer) : buffer[x] = S[r + x]
  BY <1>1, <1>2 DEF Flow
<1>11. Flow(S, r)'
  <2>1. ASSUME NEW x \in 1..Len(wire') PROVE wire'[x] = S[r + Len(buffer) + x]
    <3>1. CASE x \in 1..Len(wire)
      BY <1>8, <1>10, <3>1
    <3>2. CASE x \notin 1..Len(wire)
      <4>1. /\ x - Len(wire) \in 1..n /\ x - Len(wire) \in 1..Len(unsent)
            /\ x = Len(wire) + (x - Len(wire))
        BY <1>5, <1>7, <3>2
      <4>2. wire'[Len(wire) + (x - Len(wire))] = unsent[x - Len(wire)]
        BY <1>9, <4>1
      <4>3. unsent[x - Len(wire)] = S[r + Len(buffer) + Len(wire) + (x - Len(wire))]
        BY <1>10, <4>1
      <4>4. r + Len(buffer) + Len(wire) + (x - Len(wire)) = r + Len(buffer) + x
        BY <1>5, <1>7
      <4> QED
        BY <4>1, <4>2, <4>3, <4>4
    <3> QED
      BY <3>1, <3>2
  <2>2. ASSUME NEW x \in 1..Len(unsent') PROVE unsent'[x] = S[r + Len(buffer) + Len(wire') + x]
    <3>1. n + x \in 1..Len(unsent) /\ x \in 1..(Len(unsent) - n)
      BY <1>5, <1>6
    <3>2. unsent'[x] = S[r + Len(buffer) + Len(wire) + (n + x)]
      BY <1>6, <1>10, <3>1
    <3>3. r + Len(buffer) + Len(wire) + (n + x) = r + Len(buffer) + Len(wire') + x
      BY <1>5, <1>7, <3>1
    <3> QED
      BY <3>2, <3>3
  <2>3. r + Len(buffer) + Len(wire') + Len(unsent') = Len(S)
    <3>1. Len(wire') + Len(unsent') = Len(wire) + Len(unsent)
      BY <1>5, <1>6, <1>7
    <3>2. PICK w, u : w = Len(wire') /\ u = Len(unsent')
      OBVIOUS
    <3>3. w \in Nat /\ u \in Nat /\ w + u = Len(wire) + Len(unsent)
      BY <1>6, <1>7, <3>1, <3>2
    <3>4. r + Len(buffer) + w + u = r + Len(buffer) + Len(wire) + Len(unsent)
      BY <1>5, <3>3
    <3>5. r + Len(buffer) + Len(wire) + Len(unsent) = Len(S)
      BY <1>10
    <3> QED
      BY <3>2, <3>4, <3>5
  <2> QED
    BY <1>2, <1>5, <1>10, <2>1, <2>2, <2>3 DEF Flow
<1>12. Len(S) = p[Len(frames)] /\ p \in [0..Len(frames) -> Nat]
  BY <1>1 DEF Frames
<1>13. complete = Len(frames) - 1 /\ complete \in Nat
  <2>1. r + Len(buffer) + Len(wire) # p[Len(frames)]
    BY <1>5, <1>10, <1>12
  <2>2. complete # Len(frames)
    <3>1. complete = Len(frames) =>
            /\ r + Len(buffer) + Len(wire) <= p[Len(frames)]
            /\ p[Len(frames)] <= r + Len(buffer) + Len(wire)
      BY <1>1, <1>2 DEF Accepted
    <3>2. p[Len(frames)] \in Nat
      BY <1>5, <1>12
    <3> QED
      BY <1>5, <2>1, <3>1, <3>2
  <2>3. Len(received) <= complete
    BY <1>1 DEF Place
  <2> QED
    BY <1>3, <1>5, <2>2, <2>3 DEF WireTypeOK
<1>14. Accepted(p, r)'
  <2>1. p[complete] <= r + Len(buffer) + Len(wire)
    BY <1>1, <1>2 DEF Accepted
  <2>2. p[complete] \in Nat /\ p[Len(frames)] \in Nat
    <3>1. complete \in 0..Len(frames) /\ Len(frames) \in 0..Len(frames)
      BY <1>5, <1>13
    <3> QED
      BY <1>12, <3>1
  <2>3. CASE n = Len(unsent)
    <3>1. complete' = Len(frames) /\ r + Len(buffer) + Len(wire') = p[Len(frames)]
      BY <1>2, <1>5, <1>7, <1>10, <1>12, <2>3
    <3> QED
      BY <1>2, <2>2, <3>1 DEF Accepted
  <2>4. CASE n # Len(unsent)
    <3>1. complete' = complete
      BY <1>2, <2>4
    <3>2. r + Len(buffer) + Len(wire') < p[Len(frames)]
      BY <1>2, <1>5, <1>7, <1>10, <1>12, <2>4
    <3>3. p[complete] <= r + Len(buffer) + Len(wire')
      BY <1>5, <1>7, <2>1, <2>2
    <3> QED
      BY <1>2, <1>5, <1>7, <2>2, <3>1, <3>2, <3>3 DEF Accepted
  <2> QED
    BY <2>3, <2>4
<1>15. Place(p, r)'
  <2>1. complete' >= complete
    BY <1>2, <1>5, <1>13
  <2>2. Len(received) <= complete'
    <3>1. Len(received) <= complete
      BY <1>1 DEF Place
    <3>2. complete' \in Nat
      BY <1>2, <1>5, <1>13
    <3> QED
      BY <1>5, <1>13, <2>1, <3>1, <3>2
  <2> QED
    BY <1>1, <1>2, <2>2 DEF Place
<1>16. WireTypeOK'
  <2>1. complete' \in {Len(frames) - 1, Len(frames)}
    BY <1>2, <1>13
  <2> QED
    BY <1>2, <1>3, <1>6, <1>7, <2>1 DEF WireTypeOK
<1> QED
  BY <1>1, <1>2, <1>11, <1>14, <1>15, <1>16, FramesKept DEF WireInv, StreamInv

\* The sender is gone: what it has not sent is no longer of interest.
LEMMA CloseStream ==
  ASSUME WireInv, CloseSender
  PROVE  WireInv'
<1>1. PICK S, p, r : Frames(S, p) /\ Flow(S, r) /\ Accepted(p, r) /\ Place(p, r)
  BY DEF WireInv, StreamInv
<1>2. /\ link = "open" /\ link' = "eof" /\ unsent' = << >>
      /\ UNCHANGED <<wire, rpc, buffer, need, retries, received, frames, complete>>
  BY DEF CloseSender
<1>3. WireTypeOK'
  BY <1>2 DEF WireInv, WireTypeOK
<1>4. Flow(S, r)' /\ Accepted(p, r)' /\ Place(p, r)'
  BY <1>1, <1>2 DEF Flow, Accepted, Place
<1> QED
  BY <1>1, <1>2, <1>3, <1>4, FramesKept DEF WireInv, StreamInv

\* A reset cuts the bytes in flight short.
LEMMA ResetStream ==
  ASSUME WireInv, NEW n \in 0..Len(wire), ResetLink(n)
  PROVE  WireInv'
<1>1. PICK S, p, r : Frames(S, p) /\ Flow(S, r) /\ Accepted(p, r) /\ Place(p, r)
  BY DEF WireInv, StreamInv
<1>2. /\ link = "open" /\ link' = "reset" /\ unsent' = << >> /\ wire' = SubSeq(wire, 1, n)
      /\ UNCHANGED <<rpc, buffer, need, retries, received, frames, complete>>
  BY DEF ResetLink
<1>3. WireTypeOK
  BY DEF WireInv
<1>4. wire \in Seq(Bytes) /\ Len(wire) \in Nat /\ Len(buffer) \in Nat /\ r \in Nat
  BY <1>1, <1>3 DEF WireTypeOK, Flow
<1>5. wire' \in Seq(Bytes) /\ Len(wire') = n
  BY <1>2, <1>4, CutAt
<1>6. \A x \in 1..n : wire'[x] = wire[x]
  BY <1>2, <1>4, CutAt
<1>7. WireTypeOK'
  BY <1>2, <1>3, <1>5 DEF WireTypeOK
<1>8. Flow(S, r)'
  <2>1. ASSUME NEW x \in 1..Len(wire') PROVE wire'[x] = S[r + Len(buffer) + x]
    <3>1. x \in 1..n /\ x \in 1..Len(wire)
      BY <1>4, <1>5
    <3> QED
      BY <1>1, <1>6, <3>1 DEF Flow
  <2> QED
    BY <1>1, <1>2, <2>1 DEF Flow
<1>9. Accepted(p, r)'
  <2>1. p[Len(frames)] \in Nat
    BY <1>1, <1>3 DEF Frames, WireTypeOK
  <2>2. r + Len(buffer) + n <= r + Len(buffer) + Len(wire)
    BY <1>4
  <2>3. r + Len(buffer) + Len(wire) <= p[Len(frames)] => r + Len(buffer) + n <= p[Len(frames)]
    BY <1>4, <2>1, <2>2
  <2>4. r + Len(buffer) + Len(wire) < p[Len(frames)] => r + Len(buffer) + n < p[Len(frames)]
    BY <1>4, <2>1, <2>2
  <2> QED
    BY <1>1, <1>2, <1>5, <2>3, <2>4 DEF Accepted
<1>10. Place(p, r)'
  BY <1>1, <1>2 DEF Place
<1> QED
  BY <1>1, <1>2, <1>7, <1>8, <1>9, <1>10, FramesKept DEF WireInv, StreamInv

\* A step of recv moves bytes from the wire to the end of the buffer.
LEMMA RecvStream ==
  ASSUME WireInv, NEW n \in 1..Len(wire), Recv(n)
  PROVE  WireInv'
<1>1. PICK S, p, r : Frames(S, p) /\ Flow(S, r) /\ Accepted(p, r) /\ Place(p, r)
  BY DEF WireInv, StreamInv
<1>2. /\ buffer' = buffer \o SubSeq(wire, 1, n) /\ wire' = SubSeq(wire, n + 1, Len(wire))
      /\ retries' = 0
      /\ UNCHANGED <<unsent, link, rpc, need, received, frames, complete>>
  BY DEF Recv
<1>3. WireTypeOK
  BY DEF WireInv
<1>4. /\ wire \in Seq(Bytes) /\ buffer \in Seq(Bytes) /\ Len(wire) \in Nat /\ Len(buffer) \in Nat
      /\ r \in Nat /\ n \in 0..Len(wire) /\ Len(unsent) \in Nat
  BY <1>1, <1>3 DEF WireTypeOK, Flow
<1>5. PICK a : a = SubSeq(wire, 1, n)
  OBVIOUS
<1>6. a \in Seq(Bytes) /\ Len(a) = n /\ wire' \in Seq(Bytes) /\ Len(wire') = Len(wire) - n
  BY <1>2, <1>4, <1>5, CutAt
<1>7. \A x \in 1..n : a[x] = wire[x]
  BY <1>4, <1>5, CutAt
<1>8. \A x \in 1..(Len(wire) - n) : wire'[x] = wire[n + x]
  BY <1>2, <1>4, CutAt
<1>9. buffer' = buffer \o a
  BY <1>2, <1>5
<1>10. buffer' \in Seq(Bytes) /\ Len(buffer') = Len(buffer) + n
  BY <1>4, <1>6, <1>9, Joined
<1>11. \A x \in 1..Len(buffer) : buffer'[x] = buffer[x]
  BY <1>4, <1>6, <1>9, Joined
<1>12. \A x \in 1..n : buffer'[Len(buffer) + x] = wire[x]
  <2>1. \A x \in 1..Len(a) : buffer'[Len(buffer) + x] = a[x]
    BY <1>4, <1>6, <1>9, Joined
  <2> QED
    BY <1>6, <1>7, <2>1
<1>13. WireTypeOK'
  <2>1. 0 \in 0..max_retries
    BY FramingAssumption
  <2> QED
    BY <1>2, <1>3, <1>6, <1>10, <2>1 DEF WireTypeOK
<1>14. r + Len(buffer') + Len(wire') = r + Len(buffer) + Len(wire)
  <2>1. PICK b, w : b = Len(buffer') /\ w = Len(wire')
    OBVIOUS
  <2>2. b = Len(buffer) + n /\ w = Len(wire) - n
    BY <1>6, <1>10, <2>1
  <2>3. r + b + w = r + Len(buffer) + Len(wire)
    BY <1>4, <2>2
  <2> QED
    BY <2>1, <2>3
<1>15. Flow(S, r)'
  <2>1. ASSUME NEW x \in 1..Len(buffer') PROVE buffer'[x] = S[r + x]
    <3>1. CASE x \in 1..Len(buffer)
      BY <1>1, <1>11, <3>1 DEF Flow
    <3>2. CASE x \notin 1..Len(buffer)
      <4>1. /\ x - Len(buffer) \in 1..n /\ x - Len(buffer) \in 1..Len(wire)
            /\ Len(buffer) + (x - Len(buffer)) = x
            /\ r + Len(buffer) + (x - Len(buffer)) = r + x
        BY <1>4, <1>10, <3>2
      <4>2. buffer'[Len(buffer) + (x - Len(buffer))] = wire[x - Len(buffer)]
        BY <1>12, <4>1
      <4>3. wire[x - Len(buffer)] = S[r + Len(buffer) + (x - Len(buffer))]
        BY <1>1, <4>1 DEF Flow
      <4> QED
        BY <4>1, <4>2, <4>3
    <3> QED
      BY <3>1, <3>2
  <2>2. ASSUME NEW x \in 1..Len(wire') PROVE wire'[x] = S[r + Len(buffer') + x]
    <3>1. x \in 1..(Len(wire) - n) /\ n + x \in 1..Len(wire)
      BY <1>4, <1>6
    <3>2. wire'[x] = S[r + Len(buffer) + (n + x)]
      <4>1. wire[n + x] = S[r + Len(buffer) + (n + x)]
        BY <1>1, <3>1 DEF Flow
      <4> QED
        BY <1>8, <3>1, <4>1
    <3>3. r + Len(buffer) + (n + x) = r + Len(buffer') + x
      BY <1>4, <1>10, <3>1
    <3> QED
      BY <3>2, <3>3
  <2>3. link = "open" =>
          /\ r + Len(buffer') + Len(wire') + Len(unsent) = Len(S)
          /\ \A x \in 1..Len(unsent) : unsent[x] = S[r + Len(buffer') + Len(wire') + x]
    BY <1>1, <1>14 DEF Flow
  <2> QED
    BY <1>2, <1>4, <2>1, <2>2, <2>3 DEF Flow
<1>16. Accepted(p, r)' /\ Place(p, r)'
  BY <1>1, <1>2, <1>14 DEF Accepted, Place
<1> QED
  BY <1>1, <1>2, <1>13, <1>15, <1>16, FramesKept DEF WireInv, StreamInv

\* An empty read, and the end.
LEMMA IdleStream ==
  ASSUME WireInv, RecvNothing \/ End \/ UNCHANGED wireVars
  PROVE  WireInv'
<1>1. PICK S, p, r : Frames(S, p) /\ Flow(S, r) /\ Accepted(p, r) /\ Place(p, r)
  BY DEF WireInv, StreamInv
<1>2. /\ rpc' \in {rpc, "ended"}
      /\ UNCHANGED <<unsent, wire, link, buffer, need, received, frames, complete>>
  BY DEF RecvNothing, End, wireVars
<1>3. WireTypeOK'
  <2>1. retries' \in 0..max_retries
    <3>1. retries \in 0..max_retries /\ max_retries \in Nat
      BY FramingAssumption DEF WireInv, WireTypeOK
    <3>2. retries' = retries \/ (retries < max_retries /\ retries' = retries + 1)
      BY DEF RecvNothing, End, wireVars
    <3> QED
      BY <3>1, <3>2
  <2> QED
    BY <1>2, <2>1 DEF WireInv, WireTypeOK
<1>4. Flow(S, r)' /\ Accepted(p, r)' /\ Place(p, r)'
  BY <1>1, <1>2 DEF Flow, Accepted, Place
<1> QED
  BY <1>1, <1>2, <1>3, <1>4, FramesKept DEF WireInv, StreamInv

\* A header that was read is that of the next message.
LEMMA HeaderStream ==
  ASSUME MessagesFit, WireInv, HeaderRead
  PROVE  WireInv'
<1>1. PICK S, p, r : Frames(S, p) /\ Flow(S, r) /\ Accepted(p, r) /\ Place(p, r)
  BY DEF WireInv, StreamInv
<1>2. /\ rpc = "header" /\ Len(buffer) = need /\ rpc' = "payload" /\ need' = Length(buffer)
      /\ buffer' = << >> /\ retries' = 0
      /\ UNCHANGED <<unsent, wire, link, received, frames, complete>>
  BY DEF HeaderRead, ReadAll
<1>3. WireTypeOK
  BY DEF WireInv
<1>4. PICK k, N : k = Len(received) /\ N = Len(frames)
  OBVIOUS
<1>5. /\ k \in Nat /\ N \in Nat /\ r = p[k] /\ need = length_size_field
      /\ length_size_field \in Nat \ {0} /\ Len(wire) \in Nat
      /\ k <= complete /\ complete \in {N - 1, N}
      /\ buffer \in Seq(Bytes)
  BY <1>1, <1>2, <1>3, <1>4, FramingAssumption DEF Place, WireTypeOK
<1>6. /\ p \in [0..N -> Nat]
      /\ \A i \in 1..N : p[i] = p[i - 1] + (length_size_field + Len(frames[i]))
      /\ \A i, j \in 0..N : i <= j => p[i] <= p[j]
      /\ \A i \in 1..N : \A x \in 1..(length_size_field + Len(frames[i])) :
            S[p[i - 1] + x] = construct_message(frames[i])[x]
  BY <1>1, <1>4 DEF Frames
<1>7. k \in 0..N /\ N \in 0..N /\ p[k] \in Nat /\ p[N] \in Nat
  <2>1. complete \in Nat /\ complete <= N
    BY <1>5
  <2>2. k \in 0..N /\ N \in 0..N
    BY <1>5, <2>1
  <2>3. p \in [0..N -> Nat]
    BY <1>6
  <2> QED
    BY <2>2, <2>3
<1>8. p[k] + length_size_field + Len(wire) <= p[N]
  BY <1>1, <1>2, <1>4, <1>5 DEF Accepted
<1>9. k < N /\ k + 1 \in 1..N /\ (k + 1) - 1 = k
  BY <1>5, <1>7, <1>8
<1>10. PICK m : m = frames[k + 1]
  OBVIOUS
<1>11. m \in Messages
  BY <1>3, <1>4, <1>9, <1>10 DEF WireTypeOK
<1>12. /\ Len(m) \in Nat /\ Len(Header(Len(m))) = length_size_field
       /\ \A x \in 1..length_size_field : construct_message(m)[x] = Header(Len(m))[x]
       /\ Header(Len(m)) \in Seq(Bytes) /\ Length(Header(Len(m))) = Len(m)
  BY <1>11, FrameShape
<1>13. buffer = Header(Len(m))
  <2>1. ASSUME NEW x \in 1..Len(buffer) PROVE buffer[x] = Header(Len(m))[x]
    <3>1. buffer[x] = S[p[k] + x]
      BY <1>1, <1>5 DEF Flow
    <3>2. x \in 1..length_size_field /\ x \in 1..(length_size_field + Len(m))
      BY <1>2, <1>5, <1>12
    <3>3. S[p[k] + x] = construct_message(m)[x]
      BY <1>6, <1>9, <1>10, <3>2
    <3> QED
      BY <1>12, <3>1, <3>2, <3>3
  <2> QED
    BY <1>2, <1>5, <1>12, <2>1, SeqEqual
<1>14. need' = Len(m)
  BY <1>2, <1>12, <1>13
<1>15. PICK q : q = r + length_size_field
  OBVIOUS
<1>16. q \in Nat /\ q + 0 + Len(wire) = r + Len(buffer) + Len(wire) /\ q = p[k] + length_size_field
       /\ Len(buffer) = length_size_field /\ r \in Nat
  BY <1>2, <1>5, <1>7, <1>15
<1>17. WireTypeOK'
  <2>1. 0 \in 0..max_retries /\ << >> \in Seq(Bytes)
    BY FramingAssumption
  <2> QED
    BY <1>2, <1>3, <1>12, <1>14, <2>1 DEF WireTypeOK
<1>18. Flow(S, q)'
  <2>1. ASSUME NEW x \in 1..Len(wire) PROVE wire[x] = S[q + 0 + x]
    <3>1. q + 0 + x = r + Len(buffer) + x
      BY <1>15, <1>16
    <3> QED
      BY <1>1, <3>1 DEF Flow
  <2>2. link = "open" =>
          /\ q + 0 + Len(wire) + Len(unsent) = Len(S)
          /\ \A x \in 1..Len(unsent) : unsent[x] = S[q + 0 + Len(wire) + x]
    BY <1>1, <1>16 DEF Flow
  <2>3. Len(buffer') = 0
    BY <1>2
  <2> QED
    BY <1>2, <1>16, <2>1, <2>2, <2>3 DEF Flow
<1>19. Accepted(p, q)'
  BY <1>1, <1>2, <1>16 DEF Accepted
<1>20. Place(p, q)'
  BY <1>1, <1>2, <1>4, <1>9, <1>10, <1>14, <1>16 DEF Place
<1> QED
  BY <1>1, <1>2, <1>17, <1>18, <1>19, <1>20, FramesKept DEF WireInv, StreamInv

\* A payload that was read is the next message, and that message is complete.
LEMMA PayloadIsNext ==
  ASSUME MessagesFit, WireInv, PayloadRead
  PROVE  /\ Len(received) + 1 \in 1..complete
         /\ buffer = frames[Len(received) + 1] /\ buffer # << >>
         /\ WireInv'
<1>1. PICK S, p, r : Frames(S, p) /\ Flow(S, r) /\ Accepted(p, r) /\ Place(p, r)
  BY DEF WireInv, StreamInv
<1>2. /\ rpc = "payload" /\ Len(buffer) = need /\ need > 0 /\ received' = Append(received, buffer)
      /\ rpc' = "header" /\ need' = length_size_field /\ buffer' = << >> /\ retries' = 0
      /\ UNCHANGED <<unsent, wire, link, frames, complete>>
  BY DEF PayloadRead, Whole, ReadAll
<1>3. WireTypeOK
  BY DEF WireInv
<1>4. PICK k, N : k = Len(received) /\ N = Len(frames)
  OBVIOUS
<1>5. PICK m : m = frames[k + 1]
  OBVIOUS
<1>6. /\ k \in Nat /\ N \in Nat /\ r = p[k] + length_size_field /\ need = Len(m) /\ k < N
      /\ length_size_field \in Nat \ {0} /\ Len(wire) \in Nat
      /\ k <= complete /\ complete \in {N - 1, N}
      /\ buffer \in Seq(Bytes) /\ r \in Nat
  BY <1>1, <1>2, <1>3, <1>4, <1>5, FramingAssumption DEF Place, WireTypeOK, Flow
<1>7. /\ p \in [0..N -> Nat]
      /\ \A i \in 1..N : p[i] = p[i - 1] + (length_size_field + Len(frames[i]))
      /\ \A i \in 1..N : \A x \in 1..(length_size_field + Len(frames[i])) :
            S[p[i - 1] + x] = construct_message(frames[i])[x]
  BY <1>1, <1>4 DEF Frames
<1>8. /\ k \in 0..N /\ N \in 0..N /\ k + 1 \in 1..N /\ k + 1 \in 0..N /\ (k + 1) - 1 = k
      /\ p[k] \in Nat /\ p[N] \in Nat
  <2>1. k \in 0..N /\ N \in 0..N /\ k + 1 \in 1..N /\ k + 1 \in 0..N /\ (k + 1) - 1 = k
    BY <1>6
  <2> QED
    BY <1>7, <2>1
<1>9. m \in Messages
  BY <1>3, <1>4, <1>5, <1>8 DEF WireTypeOK
<1>10. /\ m \in Seq(Bytes) /\ Len(m) \in Nat
       /\ \A x \in 1..Len(m) : construct_message(m)[length_size_field + x] = m[x]
  BY <1>9, FrameShape
<1>11. buffer = m
  <2>1. ASSUME NEW x \in 1..Len(buffer) PROVE buffer[x] = m[x]
    <3>1. buffer[x] = S[r + x]
      BY <1>1 DEF Flow
    <3>2. /\ x \in 1..Len(m) /\ length_size_field + x \in 1..(length_size_field + Len(m))
          /\ r + x = p[k] + (length_size_field + x)
      <4>1. x \in 1..Len(m) /\ x \in Nat /\ p[k] \in Nat
        BY <1>2, <1>6, <1>8, <1>10
      <4> QED
        BY <1>6, <1>10, <4>1
    <3>3. S[p[k] + (length_size_field + x)] = construct_message(m)[length_size_field + x]
      BY <1>5, <1>7, <1>8, <3>2
    <3> QED
      BY <1>10, <3>1, <3>2, <3>3
  <2> QED
    BY <1>2, <1>6, <1>10, <2>1, SeqEqual
<1>12. r + Len(buffer) = p[k + 1]
  <2>1. p[k + 1] = p[k] + (length_size_field + Len(m))
    BY <1>5, <1>7, <1>8
  <2>2. Len(buffer) = Len(m)
    BY <1>2, <1>6
  <2>3. r + Len(m) = p[k] + (length_size_field + Len(m))
    <3>1. PICK x, y : x = p[k] /\ y = Len(m)
      OBVIOUS
    <3>2. x \in Nat /\ y \in Nat /\ length_size_field \in Nat
      BY <1>6, <1>8, <1>10, <3>1
    <3>3. r = x + length_size_field
      BY <1>6, <3>1
    <3>4. r + y = x + (length_size_field + y)
      BY <3>2, <3>3
    <3> QED
      BY <3>1, <3>4
  <2> QED
    BY <2>1, <2>2, <2>3
<1>13. p[k + 1] \in Nat
  BY <1>7, <1>8
<1>14. complete \in Nat /\ k + 1 <= complete
  <2>1. CASE complete = N
    BY <1>6, <2>1
  <2>2. CASE complete # N
    <3>1. r + Len(buffer) + Len(wire) < p[N]
      BY <1>1, <1>4, <2>2 DEF Accepted
    <3>2. p[k + 1] + Len(wire) < p[N]
      BY <1>12, <3>1
    <3>3. k + 1 # N
      BY <1>6, <1>8, <3>2
    <3> QED
      BY <1>6, <2>2, <3>3
  <2> QED
    BY <2>1, <2>2
<1>15. PICK q : q = p[k + 1]
  OBVIOUS
<1>16. q \in Nat /\ q + 0 = r + Len(buffer)
  BY <1>12, <1>13, <1>15
<1>17. received' \in Seq(Messages) /\ Len(received') = k + 1
  BY <1>2, <1>3, <1>4, <1>9, <1>11 DEF WireTypeOK
<1>18. WireTypeOK'
  <2>1. 0 \in 0..max_retries /\ << >> \in Seq(Bytes)
    BY FramingAssumption
  <2> QED
    BY <1>2, <1>3, <1>6, <1>17, <2>1 DEF WireTypeOK
<1>19. Len(buffer') = 0
  BY <1>2
<1>20. Flow(S, q)'
  BY <1>1, <1>2, <1>16, <1>19 DEF Flow
<1>21. Accepted(p, q)'
  BY <1>1, <1>2, <1>16, <1>19 DEF Accepted
<1>22. Place(p, q)'
  BY <1>2, <1>14, <1>15, <1>17 DEF Place
<1>23. WireInv'
  BY <1>1, <1>2, <1>18, <1>20, <1>21, <1>22, FramesKept DEF WireInv, StreamInv
<1>24. k + 1 \in 1..complete /\ buffer # << >>
  <2>1. Len(buffer) # 0
    BY <1>2, <1>10, <1>11
  <2> QED
    BY <1>6, <1>14, <2>1
<1> QED
  BY <1>4, <1>5, <1>11, <1>23, <1>24

-----------------------------------------------------------------------------
(* The promise of the channel.                                                *)

\* The step is one of the channel, or not seen there.
Kept == [channel!ChanNext]_(channel!chanVars)

\* What of the channel is seen: complete messages, received ones, and the end.
LEMMA NotSeen ==
  ASSUME UNCHANGED <<frames, complete, received>>, (link' = "reset") = (link = "reset"),
         (rpc' = "ended") = (rpc = "ended")
  PROVE  Kept
BY DEF Kept, channel!chanVars

\* The messages that are complete, one by one.
LEMMA SentMessages ==
  ASSUME WireTypeOK, complete \in 0..Len(frames)
  PROVE  /\ Len(SubSeq(frames, 1, complete)) = complete
         /\ \A i \in 1..complete : SubSeq(frames, 1, complete)[i] = frames[i]
BY CutAt DEF WireTypeOK

\* A message of which the last byte was accepted is sent.
LEMMA SendKept ==
  ASSUME WireInv, NEW n \in 1..Len(unsent), Send(n)
  PROVE  Kept
<1>1. WireTypeOK
  BY DEF WireInv
<1>2. /\ complete' = IF n = Len(unsent) THEN Len(frames) ELSE complete
      /\ UNCHANGED <<link, rpc, received, frames>> /\ link = "open"
  BY DEF Send
<1>3. CASE complete' = complete
  BY <1>2, <1>3, NotSeen
<1>4. CASE complete' # complete
  <2>1. PICK N : N = Len(frames)
    OBVIOUS
  <2>2. N \in Nat /\ complete = N - 1 /\ complete' = N /\ complete \in Nat
    <3>1. complete >= 0
      <4>1. Len(received) <= complete
        BY DEF WireInv, StreamInv, Place
      <4> QED
        BY <1>1, <4>1 DEF WireTypeOK
    <3> QED
      BY <1>1, <1>2, <1>4, <2>1, <3>1 DEF WireTypeOK
  <2>3. N \in 1..N /\ frames[N] \in Messages
    BY <1>1, <2>1, <2>2 DEF WireTypeOK
  <2>4. PICK s, t : s = SubSeq(frames, 1, N - 1) /\ t = SubSeq(frames, 1, N)
    OBVIOUS
  <2>5. N - 1 \in 0..Len(frames) /\ N \in 0..Len(frames) /\ frames \in Seq(Messages)
    BY <1>1, <2>1, <2>2 DEF WireTypeOK
  <2>6. s \in Seq(Messages) /\ Len(s) = N - 1
    BY <2>4, <2>5, CutAt
  <2>7. t \in Seq(Messages) /\ Len(t) = N
    BY <2>4, <2>5, CutAt
  <2>8. \A i \in 1..(N - 1) : s[i] = frames[i]
    BY <2>4, <2>5, CutAt
  <2>9. \A i \in 1..N : t[i] = frames[i]
    BY <2>4, <2>5, CutAt
  <2>10. t = Append(s, frames[N])
    <3>1. PICK u : u = Append(s, frames[N])
      OBVIOUS
    <3>2. u \in Seq(Messages) /\ Len(u) = N /\ u[N] = frames[N] /\ \A i \in 1..(N - 1) : u[i] = s[i]
      BY <2>2, <2>3, <2>6, <3>1
    <3>3. ASSUME NEW i \in 1..Len(t) PROVE t[i] = u[i]
      <4>1. i \in 1..N /\ (i \in 1..(N - 1) \/ i = N)
        BY <2>2, <2>7
      <4> QED
        BY <2>8, <2>9, <3>2, <4>1
    <3> QED
      BY <2>7, <3>1, <3>2, <3>3, SeqEqual
  <2>11. SubSeq(frames, 1, complete) = s /\ SubSeq(frames', 1, complete') = t
    BY <1>2, <2>2, <2>4
  <2>12. channel!ChanSend
    BY <1>2, <2>3, <2>10, <2>11 DEF channel!ChanSend
  <2> QED
    BY <2>12 DEF Kept, channel!ChanNext
<1> QED
  BY <1>3, <1>4

\* A reset breaks the channel.
LEMMA ResetKept ==
  ASSUME NEW n \in 0..Len(wire), ResetLink(n)
  PROVE  Kept
<1>1. channel!ChanBreak
  BY DEF ResetLink, channel!ChanBreak
<1> QED
  BY <1>1 DEF Kept, channel!ChanNext

\* secure_recv returns the next message.
LEMMA PayloadKept ==
  ASSUME MessagesFit, WireInv, PayloadRead
  PROVE  Kept
<1>1. WireTypeOK
  BY DEF WireInv
<1>2. PICK k : k = Len(received)
  OBVIOUS
<1>3. k \in Nat /\ k + 1 \in 1..complete /\ buffer = frames[k + 1] /\ buffer # << >>
  BY <1>1, <1>2, PayloadIsNext DEF WireTypeOK
<1>4. complete \in 0..Len(frames)
  BY <1>1, <1>3 DEF WireTypeOK
<1>5. PICK s : s = SubSeq(frames, 1, complete)
  OBVIOUS
<1>6. Len(s) = complete /\ s[k + 1] = frames[k + 1]
  BY <1>1, <1>3, <1>4, <1>5, SentMessages
<1>7. k < Len(s)
  BY <1>3, <1>4, <1>6
<1>8. /\ rpc = "payload" /\ rpc' = "header" /\ received' = Append(received, buffer)
      /\ UNCHANGED <<link, frames, complete>>
  BY DEF PayloadRead, Whole
<1>9. channel!Pending /\ channel!NextMessage = buffer
  BY <1>2, <1>3, <1>5, <1>6, <1>7 DEF channel!Pending, channel!NextMessage
<1>10. channel!ChanReceive
  BY <1>3, <1>8, <1>9 DEF channel!ChanReceive
<1> QED
  BY <1>10 DEF Kept, channel!ChanNext

\* Whatever of a frame its sender left behind, read_n gives up only when no
\* complete message remains.
LEMMA EndKept ==
  ASSUME MessagesFit, WireInv, End
  PROVE  Kept
<1>1. WireTypeOK
  BY DEF WireInv
<1>2. PICK S, p, r : Frames(S, p) /\ Flow(S, r) /\ Accepted(p, r) /\ Place(p, r)
  BY DEF WireInv, StreamInv
<1>3. PICK k, N : k = Len(received) /\ N = Len(frames)
  OBVIOUS
<1>4. /\ rpc \in {"header", "payload"} /\ rpc' = "ended"
      /\ UNCHANGED <<link, received, frames, complete>>
      /\ GivesUp \/ (rpc = "payload" /\ need = 0)
  BY <1>1 DEF End, WireTypeOK
<1>5. /\ k \in Nat /\ N \in Nat /\ k <= complete /\ complete \in {N - 1, N} /\ complete \in 0..N
      /\ length_size_field \in Nat \ {0} /\ Len(buffer) \in Nat /\ r \in Nat
      /\ Len(wire) \in Nat /\ need \in Nat
  BY <1>1, <1>2, <1>3, FramingAssumption DEF Place, WireTypeOK, Flow
<1>6. PICK s : s = SubSeq(frames, 1, complete)
  OBVIOUS
<1>7. Len(s) = complete /\ \A i \in 1..complete : s[i] = frames[i]
  BY <1>1, <1>3, <1>5, <1>6, SentMessages
<1>8. ASSUME k < complete, link # "reset" PROVE frames[k + 1] = << >>
  <2>1. /\ k + 1 \in 1..N /\ k + 1 \in 0..N /\ k \in 0..N /\ (k + 1) - 1 = k /\ k + 1 <= complete
    BY <1>5, <1>8
  <2>2. PICK m : m = frames[k + 1]
    OBVIOUS
  <2>3. m \in Messages
    BY <1>1, <1>3, <2>1, <2>2 DEF WireTypeOK
  <2>4. m \in Seq(Bytes) /\ Len(m) \in Nat
    BY <2>3, FrameShape
  <2>5. CASE rpc = "payload" /\ need = 0
    <3>1. Len(m) = 0
      BY <1>2, <1>3, <2>2, <2>5 DEF Place
    <3> QED
      BY <2>2, <2>4, <3>1
  <2>6. CASE GivesUp
    <3>1. Len(buffer) < need /\ Len(wire) = 0
      BY <2>6 DEF GivesUp, ReadShort
    <3>2. p[k] \in Nat /\ p[k + 1] \in Nat /\ p[complete] \in Nat
      BY <1>2, <1>3, <1>5, <2>1 DEF Frames
    <3>3. p[k + 1] = p[k] + (length_size_field + Len(m)) /\ p[k + 1] <= p[complete]
      BY <1>2, <1>3, <1>5, <2>1, <2>2 DEF Frames
    <3>4. r + need <= p[k + 1]
      <4>1. CASE rpc = "header"
        <5>1. r = p[k] /\ need = length_size_field
          BY <1>2, <1>3, <4>1 DEF Place
        <5> QED
          BY <1>5, <2>4, <3>2, <3>3, <5>1
      <4>2. CASE rpc = "payload"
        <5>1. r = p[k] + length_size_field /\ need = Len(m)
          BY <1>2, <1>3, <2>2, <4>2 DEF Place
        <5>2. p[k] \in Nat /\ length_size_field \in Nat /\ Len(m) \in Nat
          BY <1>5, <2>4, <3>2
        <5>3. r + need = p[k + 1]
          BY <3>3, <5>1, <5>2
        <5> QED
          BY <3>2, <5>3
      <4> QED
        BY <1>4, <4>1, <4>2
    <3>5. p[complete] <= r + Len(buffer) + Len(wire)
      BY <1>2, <1>8 DEF Accepted
    <3> QED
      BY <1>5, <3>1, <3>2, <3>3, <3>4, <3>5
  <2> QED
    BY <1>4, <2>5, <2>6
<1>9. (channel!Pending /\ link # "reset") => channel!NextMessage = << >>
  <2> SUFFICES ASSUME channel!Pending, link # "reset" PROVE channel!NextMessage = << >>
    OBVIOUS
  <2>1. k < complete
    BY <1>3, <1>6, <1>7 DEF channel!Pending
  <2>2. k + 1 \in 1..complete
    BY <1>5, <2>1
  <2> QED
    BY <1>3, <1>6, <1>7, <1>8, <2>1, <2>2 DEF channel!NextMessage
<1>10. channel!ChanEnd
  BY <1>4, <1>9 DEF channel!ChanEnd
<1> QED
  BY <1>10 DEF Kept, channel!ChanNext

LEMMA WireStep ==
  ASSUME MessagesFit, WireInv, [WireNext]_wireVars
  PROVE  WireInv' /\ Kept
<1>1. ASSUME NEW m \in Messages, SendMessage(m) PROVE WireInv' /\ Kept
  <2>1. UNCHANGED <<link, rpc, received, complete>> /\ frames' = Append(frames, m)
    BY <1>1 DEF SendMessage
  <2>2. SubSeq(frames', 1, complete) = SubSeq(frames, 1, complete)
    <3>1. frames \in Seq(Messages) /\ complete \in {Len(frames) - 1, Len(frames)}
      BY DEF WireInv, WireTypeOK
    <3>2. PICK g : g = frames'
      OBVIOUS
    <3>3. g = Append(frames, m)
      BY <2>1, <3>2
    <3>4. \A i \in 1..complete : g[i] = frames[i]
      BY <3>1, <3>3
    <3>5. SubSeq(g, 1, complete) = [i \in 1..complete |-> g[i]]
      BY <3>1, <3>3
    <3>6. SubSeq(frames, 1, complete) = [i \in 1..complete |-> frames[i]]
      BY <3>1
    <3> QED
      BY <3>2, <3>4, <3>5, <3>6
  <2>3. Kept
    BY <2>1, <2>2 DEF Kept, channel!chanVars
  <2> QED
    BY <1>1, <2>3, SendMessageStream
<1>2. ASSUME NEW n \in 1..Len(unsent), Send(n) PROVE WireInv' /\ Kept
  BY <1>2, SendStream, SendKept
<1>3. CASE CloseSender
  <2>1. Kept
    BY <1>3, NotSeen DEF CloseSender
  <2> QED
    BY <1>3, <2>1, CloseStream
<1>4. ASSUME NEW n \in 0..Len(wire), ResetLink(n) PROVE WireInv' /\ Kept
  BY <1>4, ResetStream, ResetKept
<1>5. ASSUME NEW n \in 1..Len(wire), Recv(n) PROVE WireInv' /\ Kept
  <2>1. Kept
    BY <1>5, NotSeen DEF Recv
  <2> QED
    BY <1>5, <2>1, RecvStream
<1>6. CASE RecvNothing \/ UNCHANGED wireVars
  <2>1. Kept
    BY <1>6, NotSeen DEF RecvNothing, wireVars
  <2> QED
    BY <1>6, <2>1, IdleStream
<1>7. CASE HeaderRead
  <2>1. Kept
    BY <1>7, NotSeen DEF HeaderRead
  <2> QED
    BY <1>7, <2>1, HeaderStream
<1>8. CASE PayloadRead
  BY <1>8, PayloadIsNext, PayloadKept
<1>9. CASE End
  BY <1>9, IdleStream, EndKept
<1> QED
  BY <1>1, <1>2, <1>3, <1>4, <1>5, <1>6, <1>7, <1>8, <1>9 DEF WireNext, Receiver

\* Framing implements the channel: however send and recv cut the stream, and
\* wherever the sender closes, dies or is reset, secure_recv (shared.cpp)
\* returns the messages of secure_send whole, in order and once, and reports the
\* end only when no complete message but an empty one is left or the connection
\* was reset.  For every byte size and header width that has room for the
\* messages.
THEOREM FramingImplementsChannel ==
  ASSUME MessagesFit PROVE WireSpec => ChannelRefined
<1>1. WireInit => channel!ChanInit
  BY DEF WireInit, channel!ChanInit
<1>2. WireInv /\ [WireNext]_wireVars => WireInv' /\ [channel!ChanNext]_(channel!chanVars)
  BY WireStep DEF Kept
<1> QED
  BY <1>1, <1>2, StreamBegins, PTL DEF WireSpec, ChannelRefined, channel!ChanSpec

-----------------------------------------------------------------------------
\* Counter: addition that wraps, the sums of the clients, and the one connection.

\* A quotient and a remainder are determined by what they make up.
LEMMA Division ==
  ASSUME NEW b \in Nat \ {0}, NEW q \in Int, NEW s \in Int,
         NEW t \in 0..(b - 1), NEW u \in 0..(b - 1), b * q + t = b * s + u
  PROVE  q = s /\ t = u
<1>1. CASE q < s
  <2>1. b * (q + 1) <= b * s /\ b * (q + 1) = b * q + b
    BY <1>1
  <2> QED
    BY <2>1
<1>2. CASE s < q
  <2>1. b * (s + 1) <= b * q /\ b * (s + 1) = b * s + b
    BY <1>2
  <2> QED
    BY <2>1
<1>3. CASE q = s
  BY <1>3
<1> QED
  BY <1>1, <1>2, <1>3

\* A number is its quotient times the divisor and its remainder.
LEMMA Parts ==
  ASSUME NEW b \in Nat \ {0}, NEW x \in Int
  PROVE  /\ x \div b \in Int /\ x % b \in 0..(b - 1)
         /\ x = b * (x \div b) + (x % b)
<1>1. x \div b \in Int /\ x % b \in 0..(b - 1) /\ x % b = x - b * (x \div b)
  OBVIOUS
<1>2. PICK q, r : q = x \div b /\ r = x % b
  OBVIOUS
<1>3. q \in Int /\ r = x - b * q /\ b * q \in Int
  BY <1>1, <1>2
<1>4. x = b * q + r
  BY <1>3
<1> QED
  BY <1>1, <1>2, <1>4, Zenon

\* What is a multiple of b less than another number has its remainder.
LEMMA SameRemainder ==
  ASSUME NEW b \in Nat \ {0}, NEW x \in Int, NEW k \in Int
  PROVE  (x + b * k) % b = x % b
<1>1. PICK y : y = x + b * k
  OBVIOUS
<1>2. y \in Int
  BY <1>1
<1>3. PICK q, r : q = x \div b /\ r = x % b
  OBVIOUS
<1>4. q \in Int /\ r \in 0..(b - 1) /\ x = b * q + r
  BY <1>3, Parts
<1>5. PICK s, t : s = y \div b /\ t = y % b
  OBVIOUS
<1>6. s \in Int /\ t \in 0..(b - 1) /\ y = b * s + t
  BY <1>2, <1>5, Parts
<1>7. b * (q + k) = b * q + b * k /\ q + k \in Int
  BY <1>4
<1>8. y = b * (q + k) + r
  <2>1. b * q \in Int /\ b * k \in Int
    BY <1>4
  <2> QED
    BY <1>1, <1>4, <1>7, <2>1
<1>9. r = t
  <2>1. PICK p : p = q + k
    OBVIOUS
  <2>2. p \in Int /\ b * p + r = b * s + t
    BY <1>6, <1>7, <1>8, <2>1
  <2> QED
    BY <1>4, <1>6, <2>2, Division
<1> QED
  BY <1>1, <1>3, <1>5, <1>9, Zenon

\* Arithmetic of int64_t: additions may wrap one by one or once at the end.
LEMMA WrapAdds ==
  ASSUME NEW x \in Int, NEW a \in Int
  PROVE  /\ Wrap(x) \in Int
         /\ Wrap(Wrap(x) + a) = Wrap(x + a)
         /\ Wrap(Wrap(x)) = Wrap(x)
<1>1. PICK b : b = 2 * Half
  OBVIOUS
<1>2. Half \in Nat \ {0} /\ b \in Nat \ {0}
  BY <1>1, CounterAssumption
<1>3. PICK y : y = x + Half
  OBVIOUS
<1>4. PICK q, r : q = y \div b /\ r = y % b
  OBVIOUS
<1>5. q \in Int /\ r \in 0..(b - 1) /\ y = b * q + r /\ y \in Int
  BY <1>2, <1>3, <1>4, Parts
<1>6. Wrap(x) = r - Half
  BY <1>1, <1>3, <1>4, Zenon DEF Wrap
<1>7. ASSUME NEW c \in Int PROVE Wrap(Wrap(x) + c) = Wrap(x + c)
  <2>1. PICK z : z = r + c
    OBVIOUS
  <2>2. z \in Int /\ b * q \in Int
    BY <1>2, <1>5, <2>1
  <2>3. (Wrap(x) + c) + Half = z
    BY <1>2, <1>5, <1>6, <2>1
  <2>4. (x + c) + Half = z + b * q
    BY <1>2, <1>3, <1>5, <2>1, <2>2
  <2>5. (z + b * q) % b = z % b
    BY <1>2, <1>5, <2>2, SameRemainder
  <2>6. ((Wrap(x) + c) + Half) % b = ((x + c) + Half) % b
    BY <2>3, <2>4, <2>5, Zenon
  <2> HIDE DEF Wrap
  <2>7. Wrap(Wrap(x) + c) = (((Wrap(x) + c) + Half) % b) - Half
    BY <1>1, Zenon DEF Wrap
  <2>8. Wrap(x + c) = (((x + c) + Half) % b) - Half
    BY <1>1, Zenon DEF Wrap
  <2> QED
    BY <2>6, <2>7, <2>8, Zenon
<1>8. Wrap(x) \in Int
  BY <1>2, <1>5, <1>6
<1>9. Wrap(Wrap(x)) = Wrap(x)
  <2>1. 0 \in Int /\ x + 0 = x /\ Wrap(x) + 0 = Wrap(x)
    BY <1>8
  <2>2. Wrap(Wrap(x) + 0) = Wrap(x + 0)
    BY <1>7, <2>1
  <2> QED
    BY <2>1, <2>2, Zenon
<1> QED
  BY <1>7, <1>8, <1>9

-----------------------------------------------------------------------------
(* The sums.                                                                  *)

\* The sum of a client's first i requests.
Partial(u, i) == ((i + 1) \div 2) * Workload[u].add - (i \div 2) * Workload[u].sub

\* What the recursion of Sum comes to, client by client.
LEMMA SumSteps ==
  ASSUME NEW s \in Seq(Users)
  PROVE  \E v : /\ Sum(s) = v[Len(s)]
                /\ v[0] = 0
                /\ \A i \in 1..Len(s) : v[i] = v[i - 1] + Total(s[i])
                /\ \A i \in 0..Len(s) : v[i] \in Int
<1>1. Len(s) \in Nat
  OBVIOUS
<1>2. PICK G : G = [i \in 1..Len(s) |-> [x \in Int |-> x + Total(s[i])]]
  OBVIOUS
<1>3. ASSUME NEW u \in Users
      PROVE  Total(u) \in Int /\ Total(u) = Partial(u, Workload[u].num_messages)
  <2>1. PICK n, a, b : n = Workload[u].num_messages /\ a = Workload[u].add /\ b = Workload[u].sub
    OBVIOUS
  <2>2. n \in Nat /\ a \in Int /\ b \in Int
    BY <2>1, CounterAssumption
  <2>3. (n + 1) \div 2 \in Int /\ n \div 2 \in Int
    BY <2>2
  <2>4. ((n + 1) \div 2) * a \in Int /\ (n \div 2) * b \in Int
    BY <2>2, <2>3
  <2>5. Total(u) = ((n + 1) \div 2) * a - (n \div 2) * b
    BY <2>1, Zenon DEF Total
  <2> QED
    BY <2>1, <2>4, <2>5 DEF Partial
<1>4. G \in [1..Len(s) -> [Int -> Int]]
  <2>1. ASSUME NEW i \in 1..Len(s), NEW x \in Int PROVE x + Total(s[i]) \in Int
    <3>1. s[i] \in Users
      BY <1>1
    <3> QED
      BY <1>3, <3>1
  <2> QED
    BY <1>2, <2>1
<1>5. PICK f : IsRecursion(f, Len(s), Int, 0, G)
  <2>1. 0 \in Int /\ IsStep(G, Len(s), Int)
    BY <1>4 DEF IsStep
  <2> QED
    BY <1>1, <2>1, RecursionExists
<1>6. f = [i \in 0..Len(s) |-> IF i = 0 THEN 0 ELSE f[i - 1] + Total(s[i])]
  <2>1. f = [n \in 0..Len(s) |-> f[n]]
    BY <1>5 DEF IsRecursion
  <2>2. ASSUME NEW n \in 0..Len(s)
        PROVE  f[n] = IF n = 0 THEN 0 ELSE f[n - 1] + Total(s[n])
    <3>1. n = 0 \/ (n \in 1..Len(s) /\ n - 1 \in 0..Len(s))
      BY <1>1
    <3> QED
      BY <1>2, <1>5, <3>1 DEF IsRecursion
  <2> QED
    BY <2>1, <2>2, Zenon
<1>7. PICK v : /\ v = [i \in 0..Len(s) |-> IF i = 0 THEN 0 ELSE v[i - 1] + Total(s[i])]
               /\ Sum(s) = v[Len(s)]
  BY <1>6 DEF Sum
<1>8. ASSUME NEW n \in 0..Len(s)
      PROVE  v[n] = IF n = 0 THEN 0 ELSE v[n - 1] + Total(s[n])
  BY <1>7, Zenon
<1>9. v[0] = 0 /\ \A i \in 1..Len(s) : v[i] = v[i - 1] + Total(s[i])
  <2>1. 0 \in 0..Len(s)
    BY <1>1
  <2>2. ASSUME NEW i \in 1..Len(s) PROVE i \in 0..Len(s) /\ i # 0
    BY <1>1
  <2> QED
    BY <1>8, <2>1, <2>2
<1>10. v \in [0..Len(s) -> Int]
  <2>1. v = [n \in 0..Len(s) |-> v[n]]
    BY <1>7, <1>8
  <2>2. ASSUME NEW n \in 1..Len(s), v[n - 1] \in Int PROVE v[n] \in Int
    <3>1. s[n] \in Users
      BY <1>1
    <3> QED
      BY <1>3, <1>9, <2>2, <3>1
  <2>3. v[0] \in Int
    BY <1>9
  <2> QED
    BY <1>1, <2>1, <2>2, <2>3, RecursionTyped
<1> QED
  BY <1>7, <1>9, <1>10

\* A client more is a term more.
LEMMA SumAppends ==
  ASSUME NEW s \in Seq(Users), NEW u \in Users
  PROVE  Sum(s) \in Int /\ Sum(Append(s, u)) = Sum(s) + Total(u) /\ Sum(<< >>) = 0
<1>1. PICK n : n = Len(s)
  OBVIOUS
<1>2. PICK t : t = Append(s, u)
  OBVIOUS
<1>3. /\ n \in Nat /\ t \in Seq(Users) /\ Len(t) = n + 1 /\ t[n + 1] = u
      /\ \A i \in 1..n : t[i] = s[i]
  BY <1>1, <1>2
<1>4. PICK v : /\ Sum(s) = v[n]
               /\ v[0] = 0
               /\ \A i \in 1..n : v[i] = v[i - 1] + Total(s[i])
               /\ \A i \in 0..n : v[i] \in Int
  BY <1>1, SumSteps
<1>5. PICK w : /\ Sum(t) = w[n + 1]
               /\ w[0] = 0
               /\ \A i \in 1..(n + 1) : w[i] = w[i - 1] + Total(t[i])
  <2>1. PICK w : /\ Sum(t) = w[Len(t)]
                 /\ w[0] = 0
                 /\ \A i \in 1..Len(t) : w[i] = w[i - 1] + Total(t[i])
    BY <1>3, SumSteps
  <2> QED
    BY <1>3, <2>1
<1> DEFINE S == {i \in 0..n : v[i] = w[i]}
<1>6. 0 \in S
  BY <1>3, <1>4, <1>5
<1>7. ASSUME NEW i \in 0..(n - 1), i \in S PROVE i + 1 \in S
  <2>1. i + 1 \in 1..n /\ i + 1 \in 1..(n + 1) /\ (i + 1) - 1 = i /\ i + 1 \in 0..n
    BY <1>3
  <2>2. v[i + 1] = v[i] + Total(s[i + 1])
    BY <1>4, <2>1
  <2>3. w[i + 1] = w[i] + Total(t[i + 1])
    BY <1>5, <2>1
  <2>4. t[i + 1] = s[i + 1]
    BY <1>3, <2>1
  <2> QED
    BY <1>7, <2>1, <2>2, <2>3, <2>4
<1>8. n \in S
  <2>1. n \in 0..n
    BY <1>3
  <2> HIDE DEF S
  <2> QED
    BY <1>3, <1>6, <1>7, <2>1, BoundedInduction
<1>9. Sum(t) = v[n] + Total(u)
  <2>1. n + 1 \in 1..(n + 1) /\ (n + 1) - 1 = n /\ n \in 0..n
    BY <1>3
  <2>2. w[n + 1] = w[n] + Total(u)
    BY <1>3, <1>5, <2>1
  <2> QED
    BY <1>5, <1>8, <2>2
<1>10. Sum(<< >>) = 0
  <2>1. PICK e : e = << >>
    OBVIOUS
  <2>2. e \in Seq(Users) /\ Len(e) = 0
    BY <2>1
  <2>3. PICK x : Sum(e) = x[Len(e)] /\ x[0] = 0
    BY <2>2, SumSteps
  <2> QED
    BY <2>1, <2>2, <2>3
<1>11. v[n] \in Int
  BY <1>3, <1>4
<1> QED
  BY <1>2, <1>4, <1>9, <1>10, <1>11

-----------------------------------------------------------------------------
(* The connections and the requests.                                          *)

CounterTypes ==
  /\ waiting \in Seq(Users) /\ served \in Seq(Users)
  /\ serving \in Users \cup {NoUser}
  /\ DOMAIN upc = Users /\ DOMAIN answer = Users
  /\ outbox \in [Users -> Seq([type : {"ADD", "SUB", "TERMINATION"}, argument : Int])]
  /\ requests_made \in [Users -> Nat]

\* A client waits, or is served, or was served, once, and not before it connected.
OneConnection ==
  /\ \A i, j \in DOMAIN waiting : i # j => waiting[i] # waiting[j]
  /\ \A u \in Range(waiting) : u # serving /\ u \notin Range(served)
  /\ serving \notin Range(served)
  /\ \A u \in Users : upc[u] \in {"start", "hung"} =>
        u \notin Range(waiting) /\ u # serving /\ u \notin Range(served)

\* How many requests of a client the server has read.
Read(u) == requests_made[u] - Len(outbox[u])

\* What is in a connection are the requests from the first one that was not read.
InSequence ==
  \A u \in Users :
    /\ Read(u) \in Nat
    /\ \A j \in DOMAIN outbox[u] : outbox[u][j] = Request(u, Read(u) + (j - 1))
    /\ u # serving /\ u \notin Range(served) => Read(u) = 0

\* The counter is what the clients served have asked for, and what was read of
\* the one that is being served.
CountsUp ==
  IF serving = NoUser
  THEN number = Wrap(Sum(served))
  ELSE /\ Read(serving) <= Workload[serving].num_messages
       /\ number = Wrap(Sum(served) + Partial(serving, Read(serving)))

CounterInv == CounterTypes /\ OneConnection /\ InSequence /\ CountsUp /\ AnswersAreSums

\* A request more of a client.
LEMMA PartialSteps ==
  ASSUME NEW u \in Users, NEW i \in Nat
  PROVE  /\ Partial(u, i) \in Int /\ Partial(u, 0) = 0
         /\ Partial(u, i + 1) =
              IF i % 2 = 0 THEN Partial(u, i) + Workload[u].add ELSE Partial(u, i) - Workload[u].sub
         /\ Partial(u, Workload[u].num_messages) = Total(u) /\ Total(u) \in Int
<1>1. PICK n, a, b : n = Workload[u].num_messages /\ a = Workload[u].add /\ b = Workload[u].sub
  OBVIOUS
<1>2. n \in Nat /\ a \in Int /\ b \in Int
  BY <1>1, CounterAssumption
<1>3. ASSUME NEW j \in Nat
      PROVE  Partial(u, j) \in Int /\ Partial(u, j) = ((j + 1) \div 2) * a - (j \div 2) * b
  <2>1. (j + 1) \div 2 \in Int /\ j \div 2 \in Int
    OBVIOUS
  <2>2. ((j + 1) \div 2) * a \in Int /\ (j \div 2) * b \in Int
    BY <1>2, <2>1
  <2>3. Partial(u, j) = ((j + 1) \div 2) * a - (j \div 2) * b
    BY <1>1, Zenon DEF Partial
  <2> QED
    BY <2>2, <2>3
<1>4. Partial(u, 0) = 0
  <2>1. (0 + 1) \div 2 = 0 /\ 0 \div 2 = 0 /\ 0 * a = 0 /\ 0 * b = 0
    BY <1>2
  <2>2. Partial(u, 0) = ((0 + 1) \div 2) * a - (0 \div 2) * b
    BY <1>3
  <2> QED
    BY <2>1, <2>2
<1>5. PICK h, l : h = (i + 1) \div 2 /\ l = i \div 2
  OBVIOUS
<1>6. /\ h \in Int /\ l \in Int
      /\ i % 2 = 0 => ((i + 1) + 1) \div 2 = h + 1 /\ h = l
      /\ i % 2 # 0 => ((i + 1) + 1) \div 2 = h /\ h = l + 1
  BY <1>5
<1>7. /\ (h + 1) * a = h * a + a /\ (l + 1) * b = l * b + b
      /\ h * a \in Int /\ l * b \in Int
  BY <1>2, <1>6
<1>8. Partial(u, i) = h * a - l * b
  BY <1>3, <1>5, Zenon
<1>9. PICK g : g = ((i + 1) + 1) \div 2
  OBVIOUS
<1>10. Partial(u, i + 1) = g * a - h * b
  <2>1. i + 1 \in Nat
    OBVIOUS
  <2>2. Partial(u, i + 1) = (((i + 1) + 1) \div 2) * a - ((i + 1) \div 2) * b
    BY <1>3, <2>1
  <2> QED
    BY <1>5, <1>9, <2>2, Zenon
<1>11. CASE i % 2 = 0
  <2>1. g = h + 1 /\ h = l
    BY <1>6, <1>9, <1>11
  <2>2. Partial(u, i + 1) = (h + 1) * a - l * b
    BY <1>10, <2>1
  <2>3. Partial(u, i + 1) = Partial(u, i) + a
    BY <1>2, <1>7, <1>8, <2>2
  <2> QED
    BY <1>1, <1>2, <1>3, <1>4, <1>11, <2>3 DEF Partial, Total
<1>12. CASE i % 2 # 0
  <2>1. g = h /\ h = l + 1
    BY <1>6, <1>9, <1>12
  <2>2. Partial(u, i + 1) = h * a - (l + 1) * b
    BY <1>10, <2>1
  <2>3. Partial(u, i + 1) = Partial(u, i) - b
    BY <1>2, <1>7, <1>8, <2>2
  <2> QED
    BY <1>1, <1>2, <1>3, <1>4, <1>12, <2>3 DEF Partial, Total
<1> QED
  BY <1>11, <1>12

\* What a client sends: ADD and SUB in turn, then TERMINATION.
LEMMA RequestShape ==
  ASSUME NEW u \in Users, NEW i \in Nat
  PROVE  LET m == Request(u, i)
         IN /\ m \in [type : {"ADD", "SUB", "TERMINATION"}, argument : Int]
            /\ m.type = "TERMINATION" <=> i = Workload[u].num_messages
            /\ i < Workload[u].num_messages =>
                 \A x : Signed(m.type, x, m.argument) =
                          IF i % 2 = 0 THEN x + Workload[u].add ELSE x - Workload[u].sub
<1>1. Workload[u].num_messages \in Nat /\ Workload[u].add \in Int /\ Workload[u].sub \in Int
  BY CounterAssumption
<1>2. CASE i = Workload[u].num_messages
  <2>1. Request(u, i) = [type |-> "TERMINATION", argument |-> 0]
    BY <1>2 DEF Request
  <2> QED
    BY <1>2, <2>1
<1>3. CASE i < Workload[u].num_messages /\ i % 2 = 0
  <2>1. Request(u, i) = [type |-> "ADD", argument |-> Workload[u].add]
    BY <1>1, <1>3 DEF Request
  <2> QED
    BY <1>1, <1>3, <2>1 DEF Signed
<1>4. CASE i # Workload[u].num_messages /\ ~ (i < Workload[u].num_messages /\ i % 2 = 0)
  <2>1. Request(u, i) = [type |-> "SUB", argument |-> Workload[u].sub]
    BY <1>1, <1>4 DEF Request
  <2> QED
    BY <1>1, <1>4, <2>1 DEF Signed
<1> QED
  BY <1>1, <1>2, <1>3, <1>4

\* A new connection is that of a client that was nowhere before.
LEMMA ConnectCounts ==
  ASSUME CounterInv, NEW u \in Users, Connect(u)
  PROVE  CounterInv'
<1>1. /\ upc[u] = "start" /\ waiting' = Append(waiting, u) /\ upc' = [upc EXCEPT ![u] = "send"]
      /\ UNCHANGED <<serving, number, outbox, requests_made, answer, served>>
  BY DEF Connect
<1>2. CounterTypes /\ OneConnection
  BY DEF CounterInv
<1>3. /\ u \notin Range(waiting) /\ u # serving /\ u \notin Range(served)
  BY <1>1, <1>2 DEF OneConnection
<1>4. PICK n : n = Len(waiting)
  OBVIOUS
<1>5. /\ n \in Nat /\ DOMAIN waiting = 1..n
      /\ waiting' \in Seq(Users) /\ DOMAIN waiting' = 1..(n + 1) /\ waiting'[n + 1] = u
      /\ \A i \in 1..n : waiting'[i] = waiting[i] /\ waiting[i] # u
  <2>1. waiting \in Seq(Users)
    BY <1>2 DEF CounterTypes
  <2>2. \A i \in DOMAIN waiting : waiting[i] # u
    BY <1>3 DEF Range
  <2>3. PICK w : w = Append(waiting, u)
    OBVIOUS
  <2>4. /\ n \in Nat /\ DOMAIN waiting = 1..n /\ w \in Seq(Users) /\ DOMAIN w = 1..(n + 1)
        /\ w[n + 1] = u /\ \A i \in 1..n : w[i] = waiting[i]
    BY <1>4, <2>1, <2>3
  <2> QED
    BY <1>1, <2>2, <2>3, <2>4
<1>6. CounterTypes'
  BY <1>1, <1>2, <1>5 DEF CounterTypes
<1>7. \A v \in Range(waiting') : v = u \/ v \in Range(waiting)
  BY <1>5 DEF Range
<1>8. OneConnection'
  <2>1. ASSUME NEW i \in DOMAIN waiting', NEW j \in DOMAIN waiting', i # j
        PROVE  waiting'[i] # waiting'[j]
    <3>1. (i \in 1..n \/ i = n + 1) /\ (j \in 1..n \/ j = n + 1)
      BY <1>5
    <3>2. \A x, y \in 1..n : x # y => waiting[x] # waiting[y]
      BY <1>2, <1>5 DEF OneConnection
    <3> QED
      BY <1>5, <2>1, <3>1, <3>2
  <2>2. \A v \in Range(waiting') : v # serving /\ v \notin Range(served)
    BY <1>2, <1>3, <1>7 DEF OneConnection
  <2>3. ASSUME NEW v \in Users, upc'[v] \in {"start", "hung"}
        PROVE  v \notin Range(waiting') /\ v # serving /\ v \notin Range(served)
    <3>1. v # u /\ upc[v] \in {"start", "hung"}
      BY <1>1, <1>2, <2>3 DEF CounterTypes
    <3> QED
      BY <1>2, <1>7, <3>1 DEF OneConnection
  <2> QED
    BY <1>1, <1>2, <2>1, <2>2, <2>3 DEF OneConnection
<1>9. InSequence' /\ CountsUp' /\ AnswersAreSums'
  BY <1>1 DEF CounterInv, InSequence, CountsUp, AnswersAreSums, Read
<1> QED
  BY <1>6, <1>8, <1>9 DEF CounterInv

\* Steps that only move a client on.
LEMMA MovesCount ==
  ASSUME CounterInv, UNCHANGED <<waiting, serving, number, outbox, requests_made, answer, served>>,
         DOMAIN upc' = Users,
         \A u \in Users : upc'[u] \in {"start", "hung"} => upc[u] \in {"start", "hung"}
  PROVE  CounterInv'
<1>1. CounterTypes'
  BY DEF CounterInv, CounterTypes
<1>2. OneConnection'
  BY DEF CounterInv, OneConnection
<1>3. InSequence' /\ CountsUp' /\ AnswersAreSums'
  BY DEF CounterInv, InSequence, CountsUp, AnswersAreSums, Read
<1> QED
  BY <1>1, <1>2, <1>3 DEF CounterInv

\* A request more in a connection.
LEMMA SendCounts ==
  ASSUME CounterInv, NEW u \in Users, SendRequest(u)
  PROVE  CounterInv'
<1>1. /\ upc[u] = "send"
      /\ outbox' = [outbox EXCEPT ![u] = Append(@, Request(u, requests_made[u]))]
      /\ requests_made' = [requests_made EXCEPT ![u] = @ + 1]
      /\ upc' = [upc EXCEPT
                   ![u] = IF requests_made[u] = Workload[u].num_messages THEN "recv" ELSE @]
      /\ UNCHANGED <<waiting, serving, number, answer, served>>
  BY DEF SendRequest
<1>2. CounterTypes
  BY DEF CounterInv
<1>3. PICK b, m, q : b = outbox[u] /\ m = requests_made[u] /\ q = Request(u, m)
  OBVIOUS
<1>4. m \in Nat /\ b \in Seq([type : {"ADD", "SUB", "TERMINATION"}, argument : Int])
  BY <1>2, <1>3 DEF CounterTypes
<1>5. q \in [type : {"ADD", "SUB", "TERMINATION"}, argument : Int]
  BY <1>3, <1>4, RequestShape
<1>6. PICK n, c : n = Len(b) /\ c = Append(b, q)
  OBVIOUS
<1>7. /\ n \in Nat /\ c \in Seq([type : {"ADD", "SUB", "TERMINATION"}, argument : Int])
      /\ Len(c) = n + 1 /\ DOMAIN c = 1..(n + 1) /\ c[n + 1] = q
      /\ DOMAIN b = 1..n /\ \A j \in 1..n : c[j] = b[j]
  BY <1>4, <1>5, <1>6
<1>8. /\ outbox'[u] = c /\ requests_made'[u] = m + 1
      /\ \A v \in Users : v # u => outbox'[v] = outbox[v] /\ requests_made'[v] = requests_made[v]
  BY <1>1, <1>2, <1>3, <1>6 DEF CounterTypes
<1>9. CounterTypes'
  <2>1. PICK R : R = [type : {"ADD", "SUB", "TERMINATION"}, argument : Int]
    OBVIOUS
  <2>2. outbox \in [Users -> Seq(R)] /\ c \in Seq(R) /\ outbox' = [outbox EXCEPT ![u] = c]
    BY <1>1, <1>2, <1>3, <1>6, <1>7, <2>1 DEF CounterTypes
  <2>3. outbox' \in [Users -> Seq(R)]
    BY <2>2
  <2>4. requests_made' \in [Users -> Nat]
    BY <1>1, <1>2 DEF CounterTypes
  <2>5. DOMAIN upc' = Users
    BY <1>1, <1>2 DEF CounterTypes
  <2> QED
    BY <1>1, <1>2, <2>1, <2>3, <2>4, <2>5 DEF CounterTypes
<1>10. OneConnection'
  <2>1. \A v \in Users : upc'[v] \in {"start", "hung"} => upc[v] \in {"start", "hung"}
    BY <1>1, <1>2 DEF CounterTypes
  <2> QED
    BY <1>1, <2>1 DEF CounterInv, OneConnection
<1>11. Read(u) = m - n /\ m - n \in Nat
  BY <1>3, <1>6 DEF CounterInv, InSequence, Read
<1>12. \A v \in Users : Read(v)' = Read(v)
  <2>1. Read(u)' = (m + 1) - (n + 1)
    BY <1>7, <1>8 DEF Read
  <2>2. (m + 1) - (n + 1) = m - n
    BY <1>4, <1>7
  <2>3. Read(u)' = Read(u)
    BY <1>11, <2>1, <2>2
  <2>4. \A v \in Users : v # u => Read(v)' = Read(v)
    BY <1>8 DEF Read
  <2> QED
    BY <2>3, <2>4
<1>13. InSequence'
  <2>1. ASSUME NEW j \in 1..(n + 1) PROVE c[j] = Request(u, (m - n) + (j - 1))
    <3>1. CASE j \in 1..n
      <4>1. b[j] = Request(u, Read(u) + (j - 1))
        BY <1>3, <1>7, <3>1 DEF CounterInv, InSequence
      <4> QED
        BY <1>7, <1>11, <3>1, <4>1
    <3>2. CASE j = n + 1
      <4>1. (m - n) + (j - 1) = m
        BY <1>4, <1>7, <3>2
      <4> QED
        BY <1>3, <1>7, <3>2, <4>1
    <3> QED
      BY <1>7, <3>1, <3>2
  <2>2. \A j \in DOMAIN outbox'[u] : outbox'[u][j] = Request(u, Read(u) + (j - 1))
    BY <1>7, <1>8, <1>11, <2>1
  <2> QED
    BY <1>1, <1>8, <1>12, <2>2 DEF CounterInv, InSequence
<1>14. CountsUp'
  <2>1. CASE serving = NoUser
    BY <1>1, <2>1 DEF CounterInv, CountsUp
  <2>2. CASE serving # NoUser
    <3>1. serving \in Users
      BY <1>2, <2>2 DEF CounterTypes
    <3>2. PICK s : s = serving
      OBVIOUS
    <3>3. Read(s)' = Read(s) /\ serving' = s
      BY <1>1, <1>12, <3>1, <3>2
    <3> QED
      BY <1>1, <2>2, <3>2, <3>3 DEF CounterInv, CountsUp
  <2> QED
    BY <2>1, <2>2
<1>15. AnswersAreSums'
  BY <1>1 DEF CounterInv, AnswersAreSums
<1> QED
  BY <1>9, <1>10, <1>13, <1>14, <1>15 DEF CounterInv

\* The connection that waited longest is served: none of its requests was read.
LEMMA AcceptCounts ==
  ASSUME CounterInv, Accept
  PROVE  CounterInv'
<1>1. /\ serving = NoUser /\ waiting # << >>
      /\ serving' = Head(waiting) /\ waiting' = Tail(waiting)
      /\ UNCHANGED <<number, upc, outbox, requests_made, answer, served>>
  BY DEF Accept
<1>2. CounterTypes /\ OneConnection
  BY DEF CounterInv
<1>3. PICK n, u, w : n = Len(waiting) /\ u = Head(waiting) /\ w = Tail(waiting)
  OBVIOUS
<1>4. waiting \in Seq(Users)
  BY <1>2 DEF CounterTypes
<1>5. /\ n \in Nat \ {0} /\ DOMAIN waiting = 1..n /\ u = waiting[1] /\ u \in Users
      /\ w \in Seq(Users) /\ DOMAIN w = 1..(n - 1) /\ \A i \in 1..(n - 1) : w[i] = waiting[i + 1]
  BY <1>1, <1>3, <1>4
<1>6. serving' = u /\ waiting' = w
  BY <1>1, <1>3
<1>7. u \in Range(waiting) /\ \A v \in Range(w) : v \in Range(waiting) /\ v # u
  <2>1. 1 \in 1..n
    BY <1>5
  <2>2. u \in Range(waiting)
    BY <1>5, <2>1 DEF Range
  <2>3. ASSUME NEW i \in 1..(n - 1) PROVE w[i] \in Range(waiting) /\ w[i] # u
    <3>1. i + 1 \in 1..n /\ i + 1 # 1
      BY <1>5
    <3> QED
      BY <1>2, <1>5, <2>1, <3>1 DEF OneConnection, Range
  <2> QED
    BY <1>5, <2>2, <2>3 DEF Range
<1>8. CounterTypes'
  BY <1>1, <1>2, <1>5, <1>6 DEF CounterTypes
<1>9. OneConnection'
  <2>1. ASSUME NEW i \in DOMAIN w, NEW j \in DOMAIN w, i # j PROVE w[i] # w[j]
    <3>1. i + 1 \in 1..n /\ j + 1 \in 1..n /\ i + 1 # j + 1
      BY <1>5, <2>1
    <3> QED
      BY <1>2, <1>5, <2>1, <3>1 DEF OneConnection
  <2>2. \A v \in Range(w) : v # u /\ v \notin Range(served)
    BY <1>2, <1>7 DEF OneConnection
  <2>3. u \notin Range(served)
    BY <1>2, <1>7 DEF OneConnection
  <2>4. \A v \in Users : upc[v] \in {"start", "hung"} =>
          v \notin Range(w) /\ v # u /\ v \notin Range(served)
    BY <1>2, <1>7 DEF OneConnection
  <2> QED
    BY <1>1, <1>6, <2>1, <2>2, <2>3, <2>4 DEF OneConnection
<1>10. Read(u) = 0
  BY <1>2, <1>5, <1>7 DEF CounterInv, InSequence, OneConnection
<1>11. InSequence'
  <2>1. \A v \in Users : v # u => v # serving
    BY <1>1, CounterAssumption
  <2>2. \A v \in Users : Read(v)' = Read(v)
    BY <1>1 DEF Read
  <2> QED
    BY <1>1, <1>6, <2>1, <2>2 DEF CounterInv, InSequence
<1>12. CountsUp'
  <2>1. u # NoUser
    BY <1>5, CounterAssumption
  <2>2. Read(u)' = 0
    BY <1>1, <1>10 DEF Read
  <2>3. Workload[u].num_messages \in Nat
    BY <1>5, CounterAssumption
  <2>4. Partial(u, 0) = 0
    BY <1>5, PartialSteps
  <2>5. Sum(served) + Partial(u, 0) = Sum(served)
    BY <1>2, <1>5, <2>4, SumAppends DEF CounterTypes
  <2>6. number = Wrap(Sum(served))
    BY <1>1 DEF CounterInv, CountsUp
  <2>7. number = Wrap(Sum(served) + Partial(u, 0))
    BY <2>5, <2>6, Zenon
  <2>8. Read(u)' <= Workload[u].num_messages
    BY <2>2, <2>3
  <2> QED
    BY <1>1, <1>6, <2>1, <2>2, <2>7, <2>8 DEF CountsUp
<1>13. AnswersAreSums'
  BY <1>1 DEF CounterInv, AnswersAreSums
<1> QED
  BY <1>8, <1>9, <1>11, <1>12, <1>13 DEF CounterInv

\* The server takes the next request of the client it serves out of its
\* connection; what that was is known from how many it has read.
LEMMA TakeRequest ==
  ASSUME CounterInv, serving # NoUser, outbox[serving] # << >>,
         outbox' = [outbox EXCEPT ![serving] = Tail(@)], UNCHANGED <<requests_made, upc>>
  PROVE  /\ serving \in Users
         /\ Read(serving) \in Nat /\ Read(serving) <= Workload[serving].num_messages
         /\ Head(outbox[serving]) = Request(serving, Read(serving))
         /\ outbox' \in [Users -> Seq([type : {"ADD", "SUB", "TERMINATION"}, argument : Int])]
         /\ \A v \in Users : Read(v)' = IF v = serving THEN Read(v) + 1 ELSE Read(v)
         /\ \A v \in Users : \A j \in DOMAIN outbox'[v] :
               outbox'[v][j] = Request(v, Read(v)' + (j - 1))
<1>1. PICK u : u = serving
  OBVIOUS
<1>2. CounterTypes /\ InSequence /\ u \in Users
  BY <1>1 DEF CounterInv, CounterTypes
<1>3. PICK R : R = [type : {"ADD", "SUB", "TERMINATION"}, argument : Int]
  OBVIOUS
<1>4. PICK b, c, n : b = outbox[u] /\ c = Tail(b) /\ n = Len(b)
  OBVIOUS
<1>5. b \in Seq(R) /\ outbox \in [Users -> Seq(R)] /\ b # << >>
  BY <1>1, <1>2, <1>3, <1>4 DEF CounterTypes
<1>6. /\ n \in Nat \ {0} /\ DOMAIN b = 1..n /\ Head(b) = b[1] /\ c \in Seq(R) /\ Len(c) = n - 1
      /\ DOMAIN c = 1..(n - 1) /\ \A j \in 1..(n - 1) : c[j] = b[j + 1]
  BY <1>4, <1>5
<1>7. outbox' = [outbox EXCEPT ![u] = c]
  BY <1>1, <1>4
<1>8. /\ outbox' \in [Users -> Seq(R)] /\ outbox'[u] = c
      /\ \A v \in Users : v # u => outbox'[v] = outbox[v]
  BY <1>2, <1>5, <1>6, <1>7
<1>9. PICK i, m : i = Read(u) /\ m = requests_made[u]
  OBVIOUS
<1>10. i \in Nat /\ m \in Nat /\ i = m - n /\ i <= Workload[u].num_messages
  BY <1>1, <1>2, <1>4, <1>9 DEF CounterInv, CountsUp, InSequence, CounterTypes, Read
<1>11. \A j \in 1..n : b[j] = Request(u, i + (j - 1))
  BY <1>2, <1>4, <1>6, <1>9 DEF InSequence
<1>12. Head(b) = Request(u, i)
  <2>1. 1 \in 1..n /\ i + (1 - 1) = i
    BY <1>6, <1>10
  <2> QED
    BY <1>6, <1>11, <2>1
<1>13. Read(u)' = i + 1
  <2>1. Read(u)' = m - (n - 1)
    BY <1>6, <1>8, <1>9 DEF Read
  <2> QED
    BY <1>6, <1>10, <2>1
<1>14. \A v \in Users : v # u => Read(v)' = Read(v)
  BY <1>8 DEF Read
<1>15. ASSUME NEW j \in 1..(n - 1) PROVE c[j] = Request(u, (i + 1) + (j - 1))
  <2>1. j + 1 \in 1..n /\ i + ((j + 1) - 1) = (i + 1) + (j - 1)
    BY <1>6, <1>10
  <2>2. c[j] = b[j + 1] /\ b[j + 1] = Request(u, i + ((j + 1) - 1))
    BY <1>6, <1>11, <2>1
  <2> QED
    BY <2>1, <2>2
<1>16. ASSUME NEW v \in Users, NEW j \in DOMAIN outbox'[v]
       PROVE  outbox'[v][j] = Request(v, Read(v)' + (j - 1))
  <2>1. CASE v = u
    BY <1>6, <1>8, <1>13, <1>15, <2>1
  <2>2. CASE v # u
    BY <1>2, <1>8, <1>14, <2>2 DEF InSequence
  <2> QED
    BY <2>1, <2>2
<1> QED
  BY <1>1, <1>2, <1>3, <1>4, <1>8, <1>9, <1>10, <1>12, <1>13, <1>14, <1>16

\* An ADD or a SUB is counted.
LEMMA UpdateCounts ==
  ASSUME CounterInv, ServeUpdate
  PROVE  CounterInv'
<1>1. PICK u, m : u = serving /\ m = Head(outbox[serving])
  OBVIOUS
<1>2. /\ serving # NoUser /\ outbox[serving] # << >>
      /\ m.type # "TERMINATION" /\ number' = Update(m.type, number, m.argument)
      /\ outbox' = [outbox EXCEPT ![serving] = Tail(@)]
      /\ UNCHANGED <<waiting, serving, upc, requests_made, answer, served>>
  BY <1>1 DEF ServeUpdate
<1>3. PICK i : i = Read(u)
  OBVIOUS
<1>4. /\ u \in Users /\ i \in Nat /\ i <= Workload[u].num_messages /\ m = Request(u, i)
      /\ outbox' \in [Users -> Seq([type : {"ADD", "SUB", "TERMINATION"}, argument : Int])]
  BY <1>1, <1>2, <1>3, TakeRequest
<1>5. \A v \in Users : Read(v)' = IF v = serving THEN Read(v) + 1 ELSE Read(v)
  BY <1>2, TakeRequest
<1>6. \A v \in Users : \A j \in DOMAIN outbox'[v] :
        outbox'[v][j] = Request(v, Read(v)' + (j - 1))
  BY <1>2, TakeRequest
<1>7. CounterTypes /\ OneConnection /\ InSequence
  BY DEF CounterInv
<1>8. CounterTypes' /\ OneConnection'
  BY <1>2, <1>4, <1>7 DEF CounterTypes, OneConnection
<1>9. InSequence'
  <2>1. ASSUME NEW v \in Users
        PROVE  Read(v)' \in Nat /\ (v # serving /\ v \notin Range(served) => Read(v)' = 0)
    BY <1>5, <1>7 DEF InSequence
  <2> QED
    BY <1>2, <1>6, <2>1 DEF InSequence
<1>10. i < Workload[u].num_messages
  <2>1. Workload[u].num_messages \in Nat
    BY <1>4, CounterAssumption
  <2>2. i # Workload[u].num_messages
    BY <1>2, <1>4, RequestShape
  <2> QED
    BY <1>4, <2>1, <2>2
<1>11. PICK x : x = Sum(served) + Partial(u, i)
  OBVIOUS
<1>12. Sum(served) \in Int /\ Partial(u, i) \in Int /\ x \in Int
  <2>1. served \in Seq(Users)
    BY <1>7 DEF CounterTypes
  <2>2. Sum(served) \in Int
    BY <1>4, <2>1, SumAppends
  <2>3. Partial(u, i) \in Int
    BY <1>4, PartialSteps
  <2> QED
    BY <1>11, <2>2, <2>3
<1>13. number = Wrap(x)
  BY <1>1, <1>2, <1>3, <1>11 DEF CounterInv, CountsUp
<1>14. PICK a, b : a = Workload[u].add /\ b = Workload[u].sub
  OBVIOUS
<1>15. a \in Int /\ b \in Int
  BY <1>4, <1>14, CounterAssumption
<1>16. Signed(m.type, number, m.argument) = IF i % 2 = 0 THEN number + a ELSE number - b
  <2>1. \A y : Signed(m.type, y, m.argument)
                = IF i % 2 = 0 THEN y + Workload[u].add ELSE y - Workload[u].sub
    <3>1. u \in Users /\ i \in Nat /\ m = Request(u, i)
      BY <1>4
    <3> QED
      BY <1>10, <3>1, RequestShape
  <2> QED
    BY <1>14, <2>1
<1>17. Partial(u, i + 1) = IF i % 2 = 0 THEN Partial(u, i) + a ELSE Partial(u, i) - b
  BY <1>4, <1>14, PartialSteps
<1>18. number' = Wrap(Sum(served) + Partial(u, i + 1))
  <2>1. CASE i % 2 = 0
    <3>1. number' = Wrap(Wrap(x) + a)
      BY <1>2, <1>13, <1>16, <2>1 DEF Update
    <3>2. Wrap(Wrap(x) + a) = Wrap(x + a)
      BY <1>12, <1>15, WrapAdds
    <3>3. x + a = Sum(served) + Partial(u, i + 1)
      BY <1>11, <1>12, <1>15, <1>17, <2>1
    <3> QED
      BY <3>1, <3>2, <3>3, Zenon
  <2>2. CASE i % 2 # 0
    <3>1. PICK d : d = 0 - b
      OBVIOUS
    <3>2. d \in Int /\ Wrap(x) \in Int
      BY <1>12, <1>15, <3>1, WrapAdds
    <3>3. number' = Wrap(number - b)
      BY <1>2, <1>16, <2>2 DEF Update
    <3>4. number - b = Wrap(x) + d
      BY <1>13, <1>15, <3>1, <3>2
    <3>5. Wrap(Wrap(x) + d) = Wrap(x + d)
      BY <1>12, <3>2, WrapAdds
    <3>6. x + d = Sum(served) + Partial(u, i + 1)
      BY <1>11, <1>12, <1>15, <1>17, <2>2, <3>1
    <3> QED
      BY <3>3, <3>4, <3>5, <3>6, Zenon
  <2> QED
    BY <2>1, <2>2
<1>19. CountsUp'
  <2>1. serving' = u /\ u # NoUser /\ served' = served /\ Read(u)' = i + 1
    BY <1>1, <1>2, <1>3, <1>4, <1>5
  <2>2. i + 1 <= Workload[u].num_messages
    BY <1>4, <1>10, CounterAssumption
  <2> QED
    BY <1>18, <2>1, <2>2 DEF CountsUp
<1>20. AnswersAreSums'
  BY <1>2 DEF CounterInv, AnswersAreSums
<1> QED
  BY <1>8, <1>9, <1>19, <1>20 DEF CounterInv

\* The end of a stream adds nothing, however often it is read.
LEMMA EndOfStreamCounts ==
  ASSUME CounterInv, ServeEndOfStream
  PROVE  CounterInv'
<1>1. /\ serving # NoUser /\ number' = Update("ADD", number, 0)
      /\ UNCHANGED <<waiting, serving, upc, outbox, requests_made, answer, served>>
  BY DEF ServeEndOfStream
<1>2. CounterTypes
  BY DEF CounterInv
<1>3. PICK x : x = Sum(served) + Partial(serving, Read(serving))
  OBVIOUS
<1>4. number = Wrap(x)
  BY <1>1, <1>3 DEF CounterInv, CountsUp
<1>5. x \in Int
  <2>1. served \in Seq(Users) /\ serving \in Users /\ Read(serving) \in Nat
    BY <1>1, <1>2 DEF CounterTypes, CounterInv, InSequence
  <2>2. Sum(served) \in Int
    BY <2>1, SumAppends
  <2>3. Partial(serving, Read(serving)) \in Int
    BY <2>1, PartialSteps
  <2> QED
    BY <1>3, <2>2, <2>3
<1>6. number' = number
  <2>1. number' = Wrap(number + 0)
    BY <1>1 DEF Update, Signed
  <2>2. Wrap(x) \in Int /\ Wrap(Wrap(x)) = Wrap(x)
    BY <1>5, WrapAdds
  <2>3. number + 0 = Wrap(x)
    BY <1>4, <2>2
  <2> QED
    BY <1>4, <2>1, <2>2, <2>3, Zenon
<1> QED
  BY <1>1, <1>2, <1>6, MovesCount DEF CounterTypes

\* The answer is the counter when all requests of the client have been read.
LEMMA TerminationCounts ==
  ASSUME CounterInv, ServeTermination
  PROVE  CounterInv'
<1>1. PICK u, m : u = serving /\ m = Head(outbox[serving])
  OBVIOUS
<1>2. /\ serving # NoUser /\ outbox[serving] # << >> /\ m.type = "TERMINATION"
      /\ answer' = [answer EXCEPT ![u] = <<number>>]
      /\ outbox' = [outbox EXCEPT ![serving] = Tail(@)]
      /\ served' = Append(served, u) /\ serving' = NoUser
      /\ UNCHANGED <<waiting, number, upc, requests_made>>
  BY <1>1 DEF ServeTermination
<1>3. PICK i : i = Read(u)
  OBVIOUS
<1>4. /\ u \in Users /\ i \in Nat /\ m = Request(u, i)
      /\ outbox' \in [Users -> Seq([type : {"ADD", "SUB", "TERMINATION"}, argument : Int])]
  BY <1>1, <1>2, <1>3, TakeRequest
<1>5. \A v \in Users : Read(v)' = IF v = serving THEN Read(v) + 1 ELSE Read(v)
  BY <1>2, TakeRequest
<1>6. \A v \in Users : \A j \in DOMAIN outbox'[v] :
        outbox'[v][j] = Request(v, Read(v)' + (j - 1))
  BY <1>2, TakeRequest
<1>7. CounterTypes /\ OneConnection /\ InSequence
  BY DEF CounterInv
<1>8. i = Workload[u].num_messages
  BY <1>2, <1>4, RequestShape
<1>9. PICK n, s : n = Len(served) /\ s = Append(served, u)
  OBVIOUS
<1>10. served \in Seq(Users)
  BY <1>7 DEF CounterTypes
<1>11. /\ n \in Nat /\ DOMAIN served = 1..n /\ s \in Seq(Users) /\ DOMAIN s = 1..(n + 1)
       /\ Len(s) = n + 1 /\ s[n + 1] = u /\ \A j \in 1..n : s[j] = served[j]
  BY <1>4, <1>9, <1>10
<1>12. served' = s
  BY <1>2, <1>9
<1>13. \A v : v \in Range(s) <=> v \in Range(served) \/ v = u
  <2>1. n + 1 \in 1..(n + 1) /\ \A j \in 1..(n + 1) : j \in 1..n \/ j = n + 1
    BY <1>11
  <2>2. \A j \in 1..n : j \in 1..(n + 1)
    BY <1>11
  <2> QED
    BY <1>11, <2>1, <2>2 DEF Range
<1>14. u \notin Range(served)
  BY <1>1, <1>7 DEF OneConnection
<1>15. CounterTypes'
  BY <1>2, <1>4, <1>7, <1>11, <1>12 DEF CounterTypes
<1>16. OneConnection'
  <2>1. NoUser \notin Range(s)
    BY <1>10, <1>4, <1>11, <1>13, CounterAssumption DEF Range
  <2>2. \A v \in Range(waiting) : v # NoUser /\ v \notin Range(s)
    <3>1. \A v \in Range(waiting) : v \in Users
      BY <1>7 DEF CounterTypes, Range
    <3> QED
      BY <1>1, <1>7, <1>13, <3>1, CounterAssumption DEF OneConnection
  <2>3. \A v \in Users : upc[v] \in {"start", "hung"} =>
          v \notin Range(waiting) /\ v # NoUser /\ v \notin Range(s)
    BY <1>1, <1>7, <1>13, CounterAssumption DEF OneConnection
  <2> QED
    BY <1>2, <1>7, <1>12, <2>1, <2>2, <2>3 DEF OneConnection
<1>17. InSequence'
  <2>1. ASSUME NEW v \in Users
        PROVE  Read(v)' \in Nat /\ (v # NoUser /\ v \notin Range(s) => Read(v)' = 0)
    BY <1>1, <1>5, <1>7, <1>13 DEF InSequence
  <2> QED
    BY <1>2, <1>6, <1>12, <2>1 DEF InSequence
<1>18. number = Wrap(Sum(s))
  <2>1. number = Wrap(Sum(served) + Partial(u, i))
    BY <1>1, <1>2, <1>3 DEF CounterInv, CountsUp
  <2>2. Partial(u, i) = Total(u)
    BY <1>4, <1>8, PartialSteps
  <2>3. Sum(s) = Sum(served) + Total(u)
    BY <1>4, <1>9, <1>10, SumAppends
  <2> QED
    BY <2>1, <2>2, <2>3, Zenon
<1>19. CountsUp'
  BY <1>2, <1>12, <1>18 DEF CountsUp
<1>20. AnswersAreSums'
  <2>1. ASSUME NEW j \in 1..(n + 1)
        PROVE  answer'[s[j]] = <<Wrap(Sum(SubSeq(s, 1, j)))>>
    <3>1. CASE j \in 1..n
      <4>1. SubSeq(s, 1, j) = SubSeq(served, 1, j)
        <5>1. SubSeq(s, 1, j) = [x \in 1..j |-> s[x]]
          BY <1>11, <3>1
        <5>2. SubSeq(served, 1, j) = [x \in 1..j |-> served[x]]
          BY <1>9, <1>10, <3>1
        <5>3. \A x \in 1..j : s[x] = served[x]
          BY <1>11, <3>1
        <5> QED
          BY <5>1, <5>2, <5>3
      <4>2. s[j] = served[j] /\ served[j] \in Users /\ served[j] # u
        BY <1>10, <1>11, <1>14, <3>1 DEF Range
      <4>3. answer'[served[j]] = answer[served[j]]
        BY <1>2, <1>7, <4>2 DEF CounterTypes
      <4>4. answer[served[j]] = <<Wrap(Sum(SubSeq(served, 1, j)))>>
        BY <1>11, <3>1 DEF CounterInv, AnswersAreSums
      <4> QED
        BY <4>1, <4>2, <4>3, <4>4, Zenon
    <3>2. CASE j = n + 1
      <4>1. SubSeq(s, 1, j) = s
        BY <1>11, <3>2
      <4>2. answer'[u] = <<number>>
        BY <1>2, <1>4, <1>7 DEF CounterTypes
      <4>3. s[j] = u
        BY <1>11, <3>2
      <4> QED
        BY <1>18, <4>1, <4>2, <4>3, Zenon
    <3> QED
      BY <1>11, <3>1, <3>2
  <2> QED
    BY <1>11, <1>12, <2>1 DEF AnswersAreSums
<1> QED
  BY <1>15, <1>16, <1>17, <1>19, <1>20 DEF CounterInv

LEMMA CounterBegins == CounterInit => CounterInv
<1> SUFFICES ASSUME CounterInit PROVE CounterInv
  OBVIOUS
<1>1. /\ waiting = << >> /\ serving = NoUser /\ number = 0 /\ served = << >>
      /\ upc = [u \in Users |-> "start"] /\ outbox = [u \in Users |-> << >>]
      /\ requests_made = [u \in Users |-> 0] /\ answer = [u \in Users |-> << >>]
  BY DEF CounterInit
<1>2. CounterTypes
  BY <1>1 DEF CounterTypes
<1>3. Range(<< >>) = {} /\ DOMAIN << >> = {}
  BY DEF Range
<1>4. OneConnection
  BY <1>1, <1>3, CounterAssumption DEF OneConnection
<1>5. InSequence
  <2>1. ASSUME NEW u \in Users
        PROVE  outbox[u] = << >> /\ DOMAIN outbox[u] = {} /\ Read(u) = 0
    BY <1>1 DEF Read
  <2> QED
    BY <2>1 DEF InSequence
<1>6. AnswersAreSums
  BY <1>1, <1>3 DEF AnswersAreSums
<1>7. CountsUp
  <2>1. Sum(<< >>) = 0
    <3>1. PICK e : e = << >>
      OBVIOUS
    <3>2. e \in Seq(Users) /\ Len(e) = 0
      BY <3>1
    <3>3. PICK x : Sum(e) = x[Len(e)] /\ x[0] = 0
      BY <3>2, SumSteps
    <3> QED
      BY <3>1, <3>2, <3>3
  <2>2. Wrap(0) = 0
    <3>1. Half \in Nat \ {0}
      BY CounterAssumption
    <3>2. (0 + Half) % (2 * Half) = Half
      BY <3>1
    <3> QED
      BY <3>1, <3>2 DEF Wrap
  <2> QED
    BY <1>1, <2>1, <2>2, Zenon DEF CountsUp
<1> QED
  BY <1>2, <1>4, <1>5, <1>6, <1>7 DEF CounterInv

LEMMA CounterStep == CounterInv /\ [CounterNext]_counterVars => CounterInv'
<1> SUFFICES ASSUME CounterInv, [CounterNext]_counterVars PROVE CounterInv'
  OBVIOUS
<1>1. CounterTypes
  BY DEF CounterInv
<1>2. CASE UNCHANGED counterVars \/ Listen
  <2>1. UNCHANGED <<waiting, serving, number, upc, outbox, requests_made, answer, served>>
    BY <1>2 DEF counterVars, Listen
  <2> QED
    BY <1>1, <2>1, MovesCount DEF CounterTypes
<1>3. CASE Serve
  BY <1>3, AcceptCounts, UpdateCounts, EndOfStreamCounts, TerminationCounts DEF Serve
<1>4. ASSUME NEW u \in Users, RecvCounter(u) \/ ConnectRefused(u) \/ KillClient(u)
      PROVE  CounterInv'
  <2>1. UNCHANGED <<waiting, serving, number, outbox, requests_made, answer, served>>
    BY <1>4 DEF RecvCounter, ConnectRefused, KillClient
  <2>2. \/ upc' = [upc EXCEPT ![u] = "done"] \/ upc' = [upc EXCEPT ![u] = "killed"]
        \/ upc[u] = "start" /\ upc' = [upc EXCEPT ![u] = "hung"]
    BY <1>4 DEF RecvCounter, ConnectRefused, KillClient
  <2>3. /\ DOMAIN upc' = Users
        /\ \A v \in Users : upc'[v] \in {"start", "hung"} => upc[v] \in {"start", "hung"}
    BY <1>1, <2>2 DEF CounterTypes
  <2> QED
    BY <2>1, <2>3, MovesCount
<1>5. ASSUME NEW u \in Users, User(u) PROVE CounterInv'
  BY <1>4, <1>5, ConnectCounts, SendCounts DEF User
<1> QED
  BY <1>2, <1>3, <1>4, <1>5 DEF CounterNext

\* The COUNTER that the server of task0 sends (server.cpp) is, modulo the width
\* of int64_t, the sum of the requests of the clients served so far, whatever
\* the clients send and whoever of them is refused or dies.
THEOREM AnswersAreSumsCorrect == CounterSpec => []AnswersAreSums
<1>1. CounterInv => AnswersAreSums
  BY DEF CounterInv
<1> QED
  BY <1>1, CounterBegins, CounterStep, PTL DEF CounterSpec

=============================================================================
