---------------------------- MODULE FramingProofs ----------------------------
(***************************************************************************)
(* That the S3TP server cuts the bytes of a connection into the messages   *)
(* the client has sent: FramingKept of S3TPServer, for every value of the  *)
(* constants.                                                              *)
(***************************************************************************)
EXTENDS S3TPProofs

-----------------------------------------------------------------------------
(* Bytes made of whole messages *)

Size(sent, k) == HeaderSize + sent[k].len

\* all is made of the messages of sent that follow the m-th; start[k] is where
\* the k-th begins.
Laid(all, sent, m, start) ==
  /\ start[m + 1] = 1 /\ start[Len(sent) + 1] = Len(all) + 1
  /\ \A k \in m + 1 .. Len(sent) :
       /\ start[k + 1] = start[k] + Size(sent, k)
       /\ \A l \in k + 1 .. Len(sent) + 1 : start[k] + Size(sent, k) <= start[l]
       /\ \A j \in 1 .. Size(sent, k) :
            all[start[k] + j - 1] = [message |-> k, offset |-> j]

Framed(all, sent, m) ==
  /\ m \in 0 .. Len(sent)
  /\ \E start \in [m + 1 .. Len(sent) + 1 -> 1 .. Len(all) + 1] :
       Laid(all, sent, m, start)

-----------------------------------------------------------------------------
(* The inductive invariant *)

\* What has been received and not been taken, or is on its way.
Stream == buf \o channel.upstream

\* The length that was read is that of the message after the m-th.
Expects(m) ==
  expected # 0 => m < Len(channel.sent) /\ expected = channel.sent[m + 1].len

\* A message that was taken has still to be erased, unless a new connection has
\* been made since.
Held ==
  LET m == Len(channel.taken) - 1
  IN /\ m >= 0 /\ Framed(Stream, channel.sent, m) /\ Expects(m)
     /\ expected # 0 /\ MessageComplete
Fresh ==
  /\ channel.upstream = <<>> /\ channel.sent = <<>> /\ channel.taken = <<>>
  /\ buf = <<>> /\ expected = 0

FrameInv ==
  /\ Connected =>
       IF "erase" \in Pending THEN Held \/ Fresh
       ELSE LET m == Len(channel.taken)
            IN Framed(Stream, channel.sent, m) /\ Expects(m)
  /\ FramingKept /\ Len(channel.taken) <= Len(channel.sent)
  /\ "body" \in Pending => expected # 0

FramingInv == TypeInv /\ FrameInv

-----------------------------------------------------------------------------
(* Sequences of bytes *)

LEMMA Slice ==
  ASSUME NEW all \in Seq(Byte), NEW m \in 1 .. Len(all) + 1,
         NEW n \in m - 1 .. Len(all)
  PROVE  /\ SubSeq(all, m, n) \in Seq(Byte) /\ Len(SubSeq(all, m, n)) = n - m + 1
         /\ \A i \in 1 .. n - m + 1 : SubSeq(all, m, n)[i] = all[m + i - 1]
<1>1. Len(all) \in Nat /\ m \in Int /\ n \in Int
  BY LenProperties
<1>2. \A i \in m .. n : all[i] \in Byte
  BY <1>1, ElementOfSeq
<1> HIDE DEF Byte
<1>3. /\ SubSeq(all, m, n) \in Seq(Byte)
      /\ Len(SubSeq(all, m, n)) = IF m <= n THEN n - m + 1 ELSE 0
      /\ \A i \in 1 .. n - m + 1 : SubSeq(all, m, n)[i] = all[m + i - 1]
  BY <1>1, <1>2, SubSeqProperties
<1>4. m <= n \/ n - m + 1 = 0
  BY <1>1
<1> QED
  BY <1>3, <1>4

LEMMA Concat ==
  ASSUME NEW s \in Seq(Byte), NEW t \in Seq(Byte)
  PROVE  /\ s \o t \in Seq(Byte) /\ Len(s \o t) = Len(s) + Len(t)
         /\ Len(s) \in Nat /\ Len(t) \in Nat
         /\ \A i \in 1 .. Len(s) : (s \o t)[i] = s[i]
         /\ \A i \in 1 .. Len(t) : (s \o t)[Len(s) + i] = t[i]
<1> DEFINE all == s \o t
           m == Len(s)
           n == Len(t)
<1>1. m \in Nat /\ n \in Nat
  BY LenProperties
<1>2. /\ all \in Seq(Byte) /\ Len(all) = m + n
      /\ \A i \in 1 .. m + n : all[i] = IF i <= m THEN s[i] ELSE t[i - m]
  BY ConcatProperties
<1> HIDE DEF all, m, n
<1>3. \A i \in 1 .. m : all[i] = s[i]
  BY <1>1, <1>2
<1>4. \A i \in 1 .. n : all[m + i] = t[i]
  <2> SUFFICES ASSUME NEW i \in 1 .. n PROVE all[m + i] = t[i]
    OBVIOUS
  <2>1. m + i \in 1 .. m + n /\ ~(m + i <= m) /\ (m + i) - m = i
    BY <1>1
  <2> QED
    BY <2>1, <1>2
<1> QED
  BY <1>1, <1>2, <1>3, <1>4 DEF all, m, n

LEMMA BytesAssociative ==
  ASSUME NEW s \in Seq(Byte), NEW t \in Seq(Byte), NEW u \in Seq(Byte)
  PROVE  (s \o t) \o u = s \o (t \o u)
BY ConcatAssociative

\* A chunk is moved from what is on its way to what has been received.
LEMMA Moved ==
  ASSUME NEW s \in Seq(Byte), NEW t \in Seq(Byte), NEW n \in 1 .. Len(t)
  PROVE  (s \o SubSeq(t, 1, n)) \o SubSeq(t, n + 1, Len(t)) = s \o t
<1> DEFINE a == SubSeq(t, 1, n)
           b == SubSeq(t, n + 1, Len(t))
<1>0. Len(t) \in Nat
  BY LenProperties
<1>1. a \in Seq(Byte) /\ b \in Seq(Byte)
  BY <1>0, Slice
<1>2. a \o b = SubSeq(t, 1, Len(t))
  BY <1>0, ConcatAdjacentSubSeq
<1>3. SubSeq(t, 1, Len(t)) = t
  BY SubSeqFull
<1> HIDE DEF a, b
<1>4. (s \o a) \o b = s \o (a \o b)
  BY <1>1, BytesAssociative
<1> QED
  BY <1>2, <1>3, <1>4 DEF a, b

\* The first bytes are taken away.
LEMMA Erased ==
  ASSUME NEW s \in Seq(Byte), NEW t \in Seq(Byte), NEW n \in 0 .. Len(s)
  PROVE  SubSeq(s, n + 1, Len(s)) \o t = SubSeq(s \o t, n + 1, Len(s \o t))
<1> DEFINE all == s \o t
           rest == SubSeq(s, n + 1, Len(s))
           left == rest \o t
           right == SubSeq(all, n + 1, Len(all))
<1>1. /\ all \in Seq(Byte) /\ Len(all) = Len(s) + Len(t)
      /\ Len(s) \in Nat /\ Len(t) \in Nat
      /\ \A i \in 1 .. Len(s) : all[i] = s[i]
      /\ \A i \in 1 .. Len(t) : all[Len(s) + i] = t[i]
  BY Concat
<1> HIDE DEF all
<1>2. /\ rest \in Seq(Byte) /\ Len(rest) = Len(s) - n
      /\ \A i \in 1 .. Len(s) - n : rest[i] = s[n + i]
  BY <1>1, Slice
<1>3. /\ right \in Seq(Byte) /\ Len(right) = Len(s) + Len(t) - n
      /\ \A i \in 1 .. Len(s) + Len(t) - n : right[i] = all[n + i]
  <2>1. n + 1 \in 1 .. Len(all) + 1 /\ Len(all) \in n + 1 - 1 .. Len(all)
        /\ Len(all) - (n + 1) + 1 = Len(s) + Len(t) - n
    BY <1>1
  <2> QED
    BY <2>1, <1>1, Slice
<1> HIDE DEF rest
<1>4. /\ left \in Seq(Byte) /\ Len(left) = Len(s) - n + Len(t)
      /\ \A i \in 1 .. Len(s) - n : left[i] = rest[i]
      /\ \A i \in 1 .. Len(t) : left[Len(s) - n + i] = t[i]
  <2>1. /\ left \in Seq(Byte) /\ Len(left) = Len(rest) + Len(t)
        /\ \A i \in 1 .. Len(rest) : left[i] = rest[i]
        /\ \A i \in 1 .. Len(t) : left[Len(rest) + i] = t[i]
    BY <1>2, Concat
  <2> HIDE DEF left
  <2> QED
    BY <2>1, <1>2
<1> HIDE DEF left, right
<1>5. ASSUME NEW i \in 1 .. Len(left) PROVE left[i] = right[i]
  <2>1. right[i] = all[n + i]
    BY <1>1, <1>3, <1>4
  <2>2. CASE i <= Len(s) - n
    BY <2>1, <2>2, <1>1, <1>2, <1>4
  <2>3. CASE ~(i <= Len(s) - n)
    <3> DEFINE k == i - (Len(s) - n)
    <3>1. k \in 1 .. Len(t) /\ i = Len(s) - n + k /\ n + i = Len(s) + k
      BY <2>3, <1>1, <1>4
    <3> HIDE DEF k
    <3> QED
      BY <3>1, <2>1, <1>1, <1>4
  <2> QED
    BY <2>2, <2>3
<1>6. Len(left) = Len(right)
  BY <1>1, <1>3, <1>4
<1>7. left = right
  BY <1>3, <1>4, <1>5, <1>6, SeqEqual
<1> QED
  BY <1>7 DEF left, right, rest, all

-----------------------------------------------------------------------------
(* Whole messages *)

LEMMA Sizes ==
  ASSUME NEW sent \in Seq(ClientMessage), NEW k \in 1 .. Len(sent)
  PROVE  /\ sent[k] \in ClientMessage /\ sent[k].len \in Nat
         /\ Size(sent, k) \in Nat \ {0, 1} /\ Size(sent, k) = 2 + sent[k].len
<1>1. sent[k] \in ClientMessage
  BY ElementOfSeq
<1>2. sent[k].len \in Nat
  BY <1>1 DEF ClientMessage
<1>3. Size(sent, k) = 2 + sent[k].len
  BY DEF Size, HeaderSize
<1> QED
  BY <1>1, <1>2, <1>3

\* When nothing is left, every message has been taken.
LEMMA FramedEmpty ==
  ASSUME NEW sent \in Seq(ClientMessage)
  PROVE  Framed(<<>>, sent, Len(sent))
<1> DEFINE n == Len(sent)
           start == [k \in n + 1 .. n + 1 |-> 1]
<1>1. n \in Nat
  BY LenProperties
<1> HIDE DEF n
<1>2. start \in [n + 1 .. n + 1 -> 1 .. 0 + 1] /\ start[n + 1] = 1
  BY <1>1
<1>3. \A k \in n + 1 .. n : FALSE
  BY <1>1
<1> HIDE DEF start
<1>4. Len(<<>>) = 0
  OBVIOUS
<1>5. Laid(<<>>, sent, n, start)
  BY <1>2, <1>3, <1>4 DEF Laid, n
<1> QED
  BY <1>1, <1>2, <1>4, <1>5 DEF Framed, n

\* The client sends a message.
LEMMA FramedMore ==
  ASSUME NEW all \in Seq(Byte), NEW sent \in Seq(ClientMessage), NEW m,
         Framed(all, sent, m), NEW msg \in ClientMessage
  PROVE  Framed(all \o Bytes(Len(sent) + 1, msg.len), Append(sent, msg), m)
<1> DEFINE n == Len(sent)
           a == Len(all)
           s == HeaderSize + msg.len
           bytes == Bytes(n + 1, msg.len)
           new == all \o bytes
           more == Append(sent, msg)
<1>1. n \in Nat /\ a \in Nat /\ msg.len \in Nat /\ s \in Nat /\ s >= 2
  BY LenProperties DEF ClientMessage, HeaderSize
<1>2. /\ bytes \in Seq(Byte) /\ Len(bytes) = s
      /\ \A i \in 1 .. s : bytes[i] = [message |-> n + 1, offset |-> i]
  <2>1. n + 1 \in Nat
    BY <1>1
  <2> QED
    BY <1>1, <2>1, BytesShape
<1>3. /\ more \in Seq(ClientMessage) /\ Len(more) = n + 1 /\ more[n + 1] = msg
      /\ \A k \in 1 .. n : more[k] = sent[k]
  BY AppendProperties
<1> HIDE DEF bytes, more
<1>4. /\ Len(new) = a + s
      /\ \A i \in 1 .. a : new[i] = all[i]
      /\ \A i \in 1 .. s : new[a + i] = bytes[i]
  BY <1>2, Concat
<1>5. /\ Size(more, n + 1) = s
      /\ \A k \in 1 .. n : Size(more, k) = Size(sent, k) /\ Size(sent, k) \in Nat
  BY <1>3, Sizes DEF Size
<1>6. PICK old \in [m + 1 .. n + 1 -> 1 .. a + 1] : Laid(all, sent, m, old)
  BY DEF Framed
<1>7. m \in 0 .. n
  BY DEF Framed
<1> HIDE DEF n, a, s, new
<1> DEFINE start == [k \in m + 1 .. n + 2 |-> IF k = n + 2 THEN a + s + 1 ELSE old[k]]
<1>8. /\ start[n + 2] = a + s + 1
      /\ \A k \in m + 1 .. n + 1 : start[k] = old[k] /\ old[k] \in 1 .. a + 1
  BY <1>1, <1>6, <1>7
<1>9. start \in [m + 1 .. n + 2 -> 1 .. a + s + 1]
  <2>1. \A k \in m + 1 .. n + 2 : start[k] \in 1 .. a + s + 1
    <3> SUFFICES ASSUME NEW k \in m + 1 .. n + 2 PROVE start[k] \in 1 .. a + s + 1
      OBVIOUS
    <3> HIDE DEF start
    <3>1. CASE k = n + 2
      BY <1>1, <1>8, <3>1
    <3>2. CASE k # n + 2
      <4>1. k \in m + 1 .. n + 1
        BY <1>1, <1>7, <3>2
      <4>2. start[k] \in 1 .. a + 1
        BY <1>8, <4>1
      <4> QED
        BY <1>1, <4>2
    <3> QED
      BY <3>1, <3>2
  <2> QED
    BY <2>1
<1> HIDE DEF start
<1>10. /\ old[m + 1] = 1 /\ old[n + 1] = a + 1
       /\ \A k \in m + 1 .. n :
            /\ old[k + 1] = old[k] + Size(sent, k)
            /\ \A l \in k + 1 .. n + 1 : old[k] + Size(sent, k) <= old[l]
            /\ \A j \in 1 .. Size(sent, k) :
                 all[old[k] + j - 1] = [message |-> k, offset |-> j]
  BY <1>6 DEF Laid, n, a
<1>11. start[m + 1] = 1 /\ start[n + 2] = a + s + 1 /\ start[n + 1] = a + 1
  BY <1>1, <1>7, <1>8, <1>10
<1>12. ASSUME NEW k \in m + 1 .. n + 1
       PROVE  /\ start[k + 1] = start[k] + Size(more, k)
              /\ \A l \in k + 1 .. n + 2 : start[k] + Size(more, k) <= start[l]
              /\ \A j \in 1 .. Size(more, k) :
                   new[start[k] + j - 1] = [message |-> k, offset |-> j]
  <2>1. CASE k = n + 1
    <3>1. Size(more, k) = s /\ start[k] = a + 1 /\ start[k + 1] = a + s + 1
      BY <1>1, <1>5, <1>11, <2>1
    <3>2. \A l \in k + 1 .. n + 2 : l = n + 2
      BY <1>1, <2>1
    <3>3. ASSUME NEW j \in 1 .. s
          PROVE  new[start[k] + j - 1] = [message |-> k, offset |-> j]
      <4>1. start[k] + j - 1 = a + j
        BY <1>1, <3>1
      <4> QED
        BY <1>2, <1>4, <2>1, <4>1
    <3>4. start[k + 1] = start[k] + Size(more, k)
      BY <1>1, <3>1
    <3>5. ASSUME NEW l \in k + 1 .. n + 2 PROVE start[k] + Size(more, k) <= start[l]
      <4>1. start[l] = a + s + 1 /\ start[k] + Size(more, k) = a + 1 + s
        BY <1>11, <3>1, <3>2
      <4> QED
        BY <1>1, <4>1
    <3> QED
      BY <3>1, <3>3, <3>4, <3>5
  <2>2. CASE k # n + 1
    <3> DEFINE z == Size(sent, k)
    <3>1. k \in m + 1 .. n /\ k \in 1 .. n /\ k + 1 \in m + 1 .. n + 1
      BY <1>1, <1>7, <2>2
    <3>2. Size(more, k) = z /\ z \in Nat
      BY <1>5, <3>1
    <3>3. /\ start[k] = old[k] /\ old[k] \in 1 .. a + 1
          /\ start[k + 1] = old[k + 1]
      BY <1>8, <3>1, <1>1
    <3> HIDE DEF z
    <3>4. /\ old[k + 1] = old[k] + z
          /\ \A l \in k + 1 .. n + 1 : old[k] + z <= old[l]
          /\ \A j \in 1 .. z : all[old[k] + j - 1] = [message |-> k, offset |-> j]
      BY <1>10, <3>1 DEF z
    <3>5. old[k] + z <= a + 1
      BY <1>1, <1>10, <3>1, <3>4
    <3>6. ASSUME NEW l \in k + 1 .. n + 2 PROVE start[k] + z <= start[l]
      <4>1. CASE l = n + 2
        BY <4>1, <1>1, <1>11, <3>2, <3>3, <3>5
      <4>2. CASE l # n + 2
        <5>1. l \in k + 1 .. n + 1 /\ l \in m + 1 .. n + 1
          BY <1>1, <1>7, <3>1, <4>2
        <5> QED
          BY <5>1, <1>8, <3>3, <3>4
      <4> QED
        BY <4>1, <4>2
    <3>7. ASSUME NEW j \in 1 .. z
          PROVE  new[start[k] + j - 1] = [message |-> k, offset |-> j]
      <4>1. old[k] + j - 1 \in 1 .. a
        BY <1>1, <3>2, <3>3, <3>5
      <4> QED
        BY <1>4, <3>3, <3>4, <4>1 DEF a
    <3> QED
      BY <3>2, <3>3, <3>4, <3>6, <3>7
  <2> QED
    BY <2>1, <2>2
<1>13. Len(more) = n + 1 /\ Len(new) = a + s /\ n + 1 + 1 = n + 2
  BY <1>1, <1>3, <1>4 DEF n, a, s
<1>14. Laid(new, more, m, start)
  BY <1>11, <1>12, <1>13 DEF Laid
<1>15. m \in 0 .. Len(more)
  BY <1>1, <1>7, <1>13
<1>16. Framed(new, more, m)
  BY <1>9, <1>13, <1>14, <1>15 DEF Framed
<1> QED
  BY <1>16 DEF new, more, bytes, n

\* The bytes begin with the next message.
LEMMA FramedFirst ==
  ASSUME NEW all \in Seq(Byte), NEW sent \in Seq(ClientMessage), NEW m,
         Framed(all, sent, m), all # <<>>
  PROVE  /\ m \in Nat /\ m + 1 \in 1 .. Len(sent)
         /\ Size(sent, m + 1) <= Len(all)
         /\ \A j \in 1 .. Size(sent, m + 1) :
              all[j] = [message |-> m + 1, offset |-> j]
<1> DEFINE n == Len(sent)
           a == Len(all)
           s == Size(sent, m + 1)
<1>1. n \in Nat /\ a \in Nat \ {0} /\ m \in 0 .. n
  BY LenProperties, EmptySeq DEF Framed
<1>2. PICK start \in [m + 1 .. n + 1 -> 1 .. a + 1] : Laid(all, sent, m, start)
  BY DEF Framed
<1> HIDE DEF n, a
<1>3. start[m + 1] = 1 /\ start[n + 1] = a + 1
  BY <1>2 DEF Laid, n, a
<1>4. m # n
  BY <1>1, <1>3
<1>5. m + 1 \in 1 .. n /\ m + 1 \in m + 1 .. n /\ n + 1 \in m + 1 + 1 .. n + 1
  BY <1>1, <1>4
<1>6. s \in Nat
  BY <1>5, Sizes DEF n
<1> HIDE DEF s
<1>7. /\ start[m + 1] + s <= start[n + 1]
      /\ \A j \in 1 .. s : all[start[m + 1] + j - 1] = [message |-> m + 1, offset |-> j]
  BY <1>2, <1>5 DEF Laid, n, s
<1>8. s <= a
  BY <1>1, <1>3, <1>6, <1>7
<1>9. \A j \in 1 .. s : all[j] = [message |-> m + 1, offset |-> j]
  <2> SUFFICES ASSUME NEW j \in 1 .. s PROVE all[j] = [message |-> m + 1, offset |-> j]
    OBVIOUS
  <2>1. start[m + 1] + j - 1 = j
    BY <1>3, <1>6
  <2> QED
    BY <1>7, <2>1
<1> QED
  BY <1>1, <1>5, <1>8, <1>9 DEF n, a, s

LEMMA Shift ==
  ASSUME NEW p \in Int, NEW q \in Int, NEW s \in Int, NEW z \in Int, NEW a \in Int,
         p = q - s, 1 <= p, q + z <= a + 1, NEW j \in 1 .. z
  PROVE  p + j - 1 \in 1 .. a - s /\ s + (p + j - 1) = q + j - 1
OBVIOUS

\* The next message is erased.
LEMMA FramedRest ==
  ASSUME NEW all \in Seq(Byte), NEW sent \in Seq(ClientMessage), NEW m,
         Framed(all, sent, m), all # <<>>
  PROVE  Framed(SubSeq(all, Size(sent, m + 1) + 1, Len(all)), sent, m + 1)
<1> DEFINE n == Len(sent)
           a == Len(all)
           s == Size(sent, m + 1)
           rest == SubSeq(all, s + 1, a)
<1>1. /\ n \in Nat /\ a \in Nat /\ m \in Nat /\ m + 1 \in 1 .. n /\ s <= a
  BY FramedFirst, LenProperties
<1>2. s \in Nat
  BY <1>1, Sizes
<1>3. PICK old \in [m + 1 .. n + 1 -> 1 .. a + 1] : Laid(all, sent, m, old)
  BY DEF Framed
<1> HIDE DEF n, a, s
<1>4. Len(rest) = a - s /\ \A i \in 1 .. a - s : rest[i] = all[s + i]
  <2>1. /\ s + 1 \in 1 .. a + 1 /\ a \in s + 1 - 1 .. a /\ a - (s + 1) + 1 = a - s
        /\ \A i \in 1 .. a - s : s + 1 + i - 1 = s + i
    BY <1>1, <1>2
  <2> HIDE DEF rest
  <2>2. /\ Len(rest) = a - (s + 1) + 1
        /\ \A i \in 1 .. a - (s + 1) + 1 : rest[i] = all[s + 1 + i - 1]
    BY <2>1, Slice DEF rest, a
  <2> QED
    BY <2>1, <2>2
<1> HIDE DEF rest
<1>5. /\ old[m + 1] = 1 /\ old[n + 1] = a + 1
      /\ \A k \in m + 1 .. n :
           /\ old[k + 1] = old[k] + Size(sent, k)
           /\ \A l \in k + 1 .. n + 1 : old[k] + Size(sent, k) <= old[l]
           /\ \A j \in 1 .. Size(sent, k) :
                all[old[k] + j - 1] = [message |-> k, offset |-> j]
  BY <1>3 DEF Laid, n, a
<1>6. m + 1 \in m + 1 .. n
  BY <1>1
<1>7. /\ old[m + 2] = 1 + s
      /\ \A l \in m + 2 .. n + 1 : 1 + s <= old[l] /\ old[l] \in 1 .. a + 1
  <2>1. m + 1 + 1 = m + 2 /\ \A l \in m + 2 .. n + 1 : l \in m + 1 .. n + 1
    BY <1>1
  <2>2. /\ old[m + 2] = old[m + 1] + s
        /\ \A l \in m + 2 .. n + 1 : old[m + 1] + s <= old[l]
    BY <1>5, <1>6, <2>1 DEF s
  <2> QED
    BY <1>3, <1>5, <2>1, <2>2
<1> DEFINE start == [k \in m + 2 .. n + 1 |-> old[k] - s]
<1>8. \A k \in m + 2 .. n + 1 : start[k] = old[k] - s /\ start[k] \in 1 .. a - s + 1
  BY <1>1, <1>2, <1>7
<1>9. start \in [m + 2 .. n + 1 -> 1 .. a - s + 1]
  BY <1>8
<1> HIDE DEF start
<1>10. m + 2 \in m + 2 .. n + 1 /\ n + 1 \in m + 2 .. n + 1
  BY <1>1
<1>11. start[m + 2] = 1 /\ start[n + 1] = a - s + 1
  BY <1>1, <1>2, <1>5, <1>7, <1>8, <1>10
<1>12. ASSUME NEW k \in m + 2 .. n
       PROVE  /\ start[k + 1] = start[k] + Size(sent, k)
              /\ \A l \in k + 1 .. n + 1 : start[k] + Size(sent, k) <= start[l]
              /\ \A j \in 1 .. Size(sent, k) :
                   rest[start[k] + j - 1] = [message |-> k, offset |-> j]
  <2> DEFINE z == Size(sent, k)
  <2>1. k \in 1 .. n /\ k \in m + 1 .. n /\ k \in m + 2 .. n + 1
        /\ k + 1 \in m + 2 .. n + 1 /\ n + 1 \in k + 1 .. n + 1
    BY <1>1
  <2>2. z \in Nat
    BY <2>1, Sizes DEF n
  <2> HIDE DEF z
  <2>3. /\ old[k + 1] = old[k] + z
        /\ \A l \in k + 1 .. n + 1 : old[k] + z <= old[l]
        /\ \A j \in 1 .. z : all[old[k] + j - 1] = [message |-> k, offset |-> j]
    BY <1>5, <2>1 DEF z
  <2>4. /\ start[k] = old[k] - s /\ start[k] \in 1 .. a - s + 1
        /\ start[k + 1] = old[k + 1] - s /\ old[k] \in 1 .. a + 1
    BY <1>7, <1>8, <2>1
  <2>5. start[k + 1] = start[k] + z
    <3>1. old[k] \in Int /\ s \in Int /\ z \in Int
      BY <1>1, <1>2, <2>2, <2>4
    <3>2. /\ old[k + 1] = old[k] + z
          /\ start[k] = old[k] - s /\ start[k + 1] = old[k + 1] - s
      BY <2>3, <2>4
    <3> QED
      BY <3>1, <3>2
  <2>6. ASSUME NEW l \in k + 1 .. n + 1 PROVE start[k] + z <= start[l]
    <3>1. l \in m + 2 .. n + 1
      BY <1>1, <2>1
    <3>2. start[l] = old[l] - s /\ old[l] \in 1 .. a + 1
      BY <3>1, <1>7, <1>8
    <3>3. old[k] + z <= old[l]
      BY <2>3
    <3>4. /\ old[k] \in Int /\ old[l] \in Int /\ s \in Int /\ z \in Int
      BY <1>1, <1>2, <2>2, <2>4, <3>2
    <3> QED
      BY <2>4, <3>2, <3>3, <3>4
  <2>7. ASSUME NEW j \in 1 .. z
        PROVE  rest[start[k] + j - 1] = [message |-> k, offset |-> j]
    <3>1. old[k] + z <= a + 1
      BY <1>5, <2>1, <2>3
    <3>2. start[k] + j - 1 \in 1 .. a - s /\ s + (start[k] + j - 1) = old[k] + j - 1
      <4>1. /\ old[k] \in Int /\ s \in Int /\ z \in Int /\ a \in Int
            /\ start[k] \in Int /\ 1 <= start[k]
        BY <1>1, <1>2, <2>2, <2>4
      <4>2. start[k] = old[k] - s
        BY <2>4
      <4>3. \A p, q \in Int : p = q - s /\ 1 <= p /\ q + z <= a + 1
                 => p + j - 1 \in 1 .. a - s /\ s + (p + j - 1) = q + j - 1
        BY <4>1, Shift
      <4> QED
        BY <3>1, <4>1, <4>2, <4>3
    <3> QED
      BY <1>4, <2>3, <3>2
  <2> QED
    BY <2>5, <2>6, <2>7 DEF z
<1>13. m + 1 + 1 = m + 2 /\ m + 1 \in 0 .. n
  BY <1>1
<1>14. Laid(rest, sent, m + 1, start)
  BY <1>4, <1>11, <1>12, <1>13 DEF Laid, n
<1>15. Framed(rest, sent, m + 1)
  BY <1>4, <1>9, <1>13, <1>14 DEF Framed, n
<1> QED
  BY <1>15 DEF rest, a, s

\* What is taken for the payload of the next message is its payload.
LEMMA FramedPayload ==
  ASSUME NEW part \in Seq(Byte), NEW rest \in Seq(Byte),
         NEW sent \in Seq(ClientMessage), NEW m, Framed(part \o rest, sent, m),
         part # <<>>, HeaderSize + sent[m + 1].len <= Len(part)
  PROVE  SubSeq(part, HeaderSize + 1, HeaderSize + sent[m + 1].len)
           = Payload(m + 1, sent[m + 1].len)
<1> DEFINE all == part \o rest
           len == sent[m + 1].len
           bytes == Bytes(m + 1, len)
           left == SubSeq(part, 2 + 1, 2 + len)
           right == SubSeq(bytes, 2 + 1, 2 + len)
<1>1. /\ all \in Seq(Byte) /\ Len(all) = Len(part) + Len(rest)
      /\ Len(part) \in Nat \ {0} /\ Len(rest) \in Nat
      /\ \A i \in 1 .. Len(part) : all[i] = part[i]
  BY Concat, EmptySeq
<1> HIDE DEF all
<1>2. all # <<>>
  BY <1>1, EmptySeq
<1>3. /\ m \in Nat /\ m + 1 \in 1 .. Len(sent)
      /\ \A j \in 1 .. Size(sent, m + 1) : all[j] = [message |-> m + 1, offset |-> j]
  <2>1. Framed(all, sent, m)
    BY DEF all
  <2> QED
    BY <1>1, <1>2, <2>1, FramedFirst
<1>4. len \in Nat /\ Size(sent, m + 1) = 2 + len
  BY <1>3, Sizes
<1>5. 2 + len <= Len(part)
  BY DEF HeaderSize
<1>6. /\ bytes \in Seq(Byte) /\ Len(bytes) = 2 + len
      /\ \A i \in 1 .. 2 + len : bytes[i] = [message |-> m + 1, offset |-> i]
  <2>1. m + 1 \in Nat
    BY <1>3
  <2> QED
    BY <1>4, <2>1, BytesShape DEF HeaderSize
<1> HIDE DEF bytes, len
<1>7. /\ left \in Seq(Byte) /\ Len(left) = len
      /\ \A i \in 1 .. len : left[i] = part[2 + i]
  <2>1. 2 + 1 \in 1 .. Len(part) + 1 /\ 2 + len \in 2 + 1 - 1 .. Len(part)
        /\ (2 + len) - (2 + 1) + 1 = len
        /\ \A i \in 1 .. len : (2 + 1) + i - 1 = 2 + i
    BY <1>1, <1>4, <1>5
  <2>2. /\ left \in Seq(Byte) /\ Len(left) = (2 + len) - (2 + 1) + 1
        /\ \A i \in 1 .. (2 + len) - (2 + 1) + 1 : left[i] = part[(2 + 1) + i - 1]
    BY <2>1, Slice
  <2> HIDE DEF left
  <2> QED
    BY <2>1, <2>2
<1>8. /\ right \in Seq(Byte) /\ Len(right) = len
      /\ \A i \in 1 .. len : right[i] = bytes[2 + i]
  <2>1. 2 + 1 \in 1 .. Len(bytes) + 1 /\ 2 + len \in 2 + 1 - 1 .. Len(bytes)
        /\ (2 + len) - (2 + 1) + 1 = len
        /\ \A i \in 1 .. len : (2 + 1) + i - 1 = 2 + i
    BY <1>4, <1>6
  <2>2. /\ right \in Seq(Byte) /\ Len(right) = (2 + len) - (2 + 1) + 1
        /\ \A i \in 1 .. (2 + len) - (2 + 1) + 1 : right[i] = bytes[(2 + 1) + i - 1]
    BY <2>1, <1>6, Slice
  <2> HIDE DEF right
  <2> QED
    BY <2>1, <2>2
<1> HIDE DEF left, right
<1>9. \A i \in 1 .. len : left[i] = right[i]
  <2> SUFFICES ASSUME NEW i \in 1 .. len PROVE left[i] = right[i]
    OBVIOUS
  <2>1. 2 + i \in 1 .. 2 + len /\ 2 + i \in 1 .. Len(part)
    BY <1>1, <1>4, <1>5
  <2>2. part[2 + i] = bytes[2 + i]
    BY <2>1, <1>1, <1>3, <1>4, <1>6
  <2> QED
    BY <2>2, <1>7, <1>8
<1>10. left = right
  BY <1>7, <1>8, <1>9, SeqEqual
<1> QED
  BY <1>10 DEF left, right, bytes, len, Payload, HeaderSize

-----------------------------------------------------------------------------
(* Steps that do not matter to the messages *)

LEMMA StreamType ==
  ASSUME TypeInv
  PROVE  /\ buf \in Seq(Byte) /\ channel.upstream \in Seq(Byte) /\ Stream \in Seq(Byte)
         /\ channel.sent \in Seq(ClientMessage) /\ channel.taken \in Seq(Use)
         /\ expected \in Nat /\ Len(channel.taken) \in Nat /\ Len(channel.sent) \in Nat
         /\ channel \in ChannelType /\ IsStack(calls)
<1>1. /\ channel \in ChannelType /\ buf \in Seq(Byte) /\ expected \in Nat
      /\ channel.upstream \in Seq(Byte) /\ channel.sent \in Seq(ClientMessage)
      /\ channel.taken \in Seq(Use)
  BY DEF TypeInv, TypeOK, ChannelType
<1>2. Stream \in Seq(Byte)
  BY <1>1, Concat DEF Stream
<1> QED
  BY <1>1, <1>2, TypeInvStack, LenProperties

\* What was received and sent is as it was, or the connection is lost.
FrameKept ==
  /\ "body" \in Pending' => expected' # 0
  /\ Connected' =>
       /\ Connected /\ Stream' = Stream /\ expected' = expected
       /\ channel'.sent = channel.sent /\ channel'.taken = channel.taken
       /\ "erase" \in Pending' <=> "erase" \in Pending
       /\ "erase" \in Pending' => buf' = buf /\ channel'.upstream = channel.upstream

\* Without a connection nothing is claimed of the bytes.
LEMMA NothingTaken ==
  ASSUME TypeInv', ~Connected', "body" \in Pending' => expected' # 0
  PROVE  FramingInv'
<1>1. channel' = NoChannel
  BY DEF TypeInv, Linked
<1>2. channel'.taken = <<>> /\ channel'.sent = <<>>
  BY <1>1, ChannelTypes
<1>3. Len(channel'.taken) <= Len(channel'.sent) /\ DOMAIN channel'.taken = {}
  BY <1>2
<1> QED
  BY <1>3 DEF FramingInv, FrameInv, FramingKept

LEMMA FrameSame ==
  ASSUME FramingInv, TypeInv', FrameKept
  PROVE  FramingInv'
<1>1. CASE ~Connected'
  BY <1>1, NothingTaken DEF FrameKept
<1>2. CASE Connected'
  <2>1. /\ Connected /\ Stream' = Stream /\ expected' = expected
        /\ channel'.sent = channel.sent /\ channel'.taken = channel.taken
        /\ "erase" \in Pending' <=> "erase" \in Pending
        /\ "erase" \in Pending' => buf' = buf /\ channel'.upstream = channel.upstream
        /\ "body" \in Pending' => expected' # 0
    BY <1>2 DEF FrameKept
  <2>2. FramingKept' /\ Len(channel'.taken) <= Len(channel'.sent)
    BY <2>1 DEF FramingInv, FrameInv, FramingKept
  <2>3. CASE "erase" \in Pending'
    <3>1. Held \/ Fresh
      BY <2>1, <2>3 DEF FramingInv, FrameInv
    <3>2. Held' \/ Fresh'
      BY <2>1, <2>3, <3>1 DEF Held, Fresh, Expects, MessageComplete
    <3> QED
      BY <2>1, <2>2, <2>3, <3>2 DEF FramingInv, FrameInv
  <2>4. CASE "erase" \notin Pending'
    <3>1. Framed(Stream, channel.sent, Len(channel.taken)) /\ Expects(Len(channel.taken))
      BY <2>1, <2>4 DEF FramingInv, FrameInv
    <3>2. /\ Framed(Stream', channel'.sent, Len(channel'.taken))
          /\ expected' # 0 =>
               /\ Len(channel'.taken) < Len(channel'.sent)
               /\ expected' = channel'.sent[Len(channel'.taken) + 1].len
      BY <2>1, <3>1 DEF Expects
    <3> QED
      BY <2>1, <2>2, <2>4, <3>2 DEF FramingInv, FrameInv, Expects
  <2> QED
    BY <2>3, <2>4
<1> QED
  BY <1>1, <1>2

LEMMA FrameTurn ==
  ASSUME FramingInv, TypeInv', NEW name, NEW new, Turns(name, new),
         name # "erase", "erase" \notin new, "body" \in new => expected # 0,
         Connected' => Connected, UNCHANGED <<buf, expected>>,
         Connected' => /\ channel'.sent = channel.sent
                       /\ channel'.taken = channel.taken
                       /\ channel'.upstream = channel.upstream
  PROVE  FramingInv'
<1>1. /\ Pending = {name} \cup Names(Tail(calls))
      /\ Pending' = new \cup Names(Tail(calls))
  BY DEF Turns, Pending
<1>2. "erase" \in Pending' <=> "erase" \in Pending
  BY <1>1
<1>3. "body" \in Pending' => expected' # 0
  BY <1>1 DEF FramingInv, FrameInv
<1>4. FrameKept
  BY <1>2, <1>3 DEF FrameKept, Stream
<1> QED
  BY <1>4, FrameSame

\* Handlers that leave what was received and sent as it is.
LEMMA FrameHandlers ==
  ASSUME FramingInv, TypeInv',
         \/ KillFirst \/ BindFails \/ close \/ send \/ SendSucceeds
         \/ SendFindsFull \/ SendFails \/ Return \/ HeaderKnown \/ SpawnSucceeds
         \/ SpawnFails \/ AssignFailed \/ start_output \/ ForgetProcess
         \/ SendRemaining \/ Disconnect
  PROVE  FramingInv'
<1>0. TypeInv /\ IsStack(calls) /\ channel \in ChannelType
  BY StreamType DEF FramingInv
<1>1. CASE KillFirst \/ BindFails
  <2>1. Turns("reconnect", {}) /\ ~Connected /\ ~Connected'
    BY <1>0, <1>1, HandlerTurns DEF KillFirst, BindFails, Reconnecting, Connected
  <2>2. "body" \notin Pending'
    BY <1>0, <2>1 DEF Turns, Pending, TypeInv, Linked
  <2> QED
    BY <2>1, <2>2, NothingTaken
<1>2. CASE close
  <2>1. /\ Turns("close", {"reconnect"}) /\ channel' = NoChannel
        /\ UNCHANGED <<buf, expected>>
    BY <1>0, <1>2, HandlerTurns DEF close, LoseChannel, buffers
  <2>2. ~Connected'
    BY <2>1, ChannelTypes DEF Connected
  <2> QED
    BY <2>1, <2>2, FrameTurn
<1>3. CASE SendSucceeds
  <2>1. /\ Turns("send_buf", {}) /\ UNCHANGED <<buf, expected>> /\ Connected
    BY <1>0, <1>3, HandlerTurns DEF SendSucceeds, Sending
  <2>2. \E all, state : channel' = [channel EXCEPT !.received = all, !.state = state]
    BY <1>3 DEF SendSucceeds
  <2>3. /\ channel'.sent = channel.sent /\ channel'.taken = channel.taken
        /\ channel'.upstream = channel.upstream
    BY <1>0, <2>2 DEF ChannelType
  <2> QED
    BY <2>1, <2>3, FrameTurn
<1>4. CASE SendFindsFull \/ Disconnect
  <2>1. /\ Turns("send_buf", {}) \/ Turns("disconnect", {})
        /\ UNCHANGED <<buf, expected>> /\ Connected
    BY <1>0, <1>4, HandlerTurns
    DEF SendFindsFull, Sending, BufferIsFull, Disconnect, buffers
  <2>2. \/ channel' = [channel EXCEPT !.full = TRUE]
        \/ channel' = [channel EXCEPT !.state = "closing"]
    BY <1>4 DEF SendFindsFull, BufferIsFull, Disconnect
  <2>3. /\ channel'.sent = channel.sent /\ channel'.taken = channel.taken
        /\ channel'.upstream = channel.upstream
    BY <1>0, <2>2 DEF ChannelType
  <2> QED
    BY <2>1, <2>3, FrameTurn
<1>5. CASE \/ send \/ SendFails \/ Return \/ HeaderKnown \/ SpawnSucceeds
           \/ SpawnFails \/ AssignFailed \/ start_output \/ ForgetProcess
           \/ SendRemaining
  <2>1. channel' = channel /\ UNCHANGED <<buf, expected>>
    BY <1>5
    DEF send, SendFails, Return, HeaderKnown, SpawnSucceeds, SpawnFails,
        AssignFailed, start_output, ForgetProcess, SendRemaining, SetProcess, buffers
  <2>2. \E name, new :
          /\ Turns(name, new) /\ name # "erase" /\ "erase" \notin new
          /\ "body" \in new => expected # 0
    <3>1. CASE send
      <4>1. Turns(Head(calls).msg.type, {"send_buf", "update_events"})
        BY <1>0, <3>1, HandlerTurns
      <4>2. Head(calls).msg.type # "erase"
        BY <1>0, <3>1, HeadNamed, MessageTypes DEF send
      <4> QED
        BY <4>1, <4>2
    <3>2. CASE Return
      <4>1. Turns(Name(Head(calls)), {})
        BY <1>0, <3>2, HandlerTurns
      <4>2. Name(Head(calls)) # "erase"
        BY <1>0, <3>2, HeadNamed, MessageTypes DEF Return
      <4> QED
        BY <4>1, <4>2
    <3>3. CASE HeaderKnown
      <4>1. Turns("header", {"body"}) /\ expected # 0
        BY <1>0, <3>3, HandlerTurns DEF HeaderKnown
      <4> QED
        BY <4>1
    <3>4. CASE \/ SendFails \/ SpawnSucceeds \/ SpawnFails \/ AssignFailed
               \/ start_output \/ ForgetProcess \/ SendRemaining
      <4>1. /\ SendFails => Turns("send_buf", {"close"})
            /\ SpawnSucceeds => Turns("spawn", {})
            /\ SpawnFails =>
                 Turns("spawn", {"ENDOFFILE", "forget", "disconnect", "assign"})
            /\ AssignFailed => Turns("assign", {})
            /\ start_output => Turns("start_output", {})
            /\ ForgetProcess => Turns("forget", {})
            /\ SendRemaining => Turns("disconnect", {"send_buf"})
        BY <1>0, HandlerTurns
      <4> QED
        BY <3>4, <4>1
    <3> QED
      BY <1>5, <3>1, <3>2, <3>3, <3>4
  <2>3. Connected' <=> Connected
    BY <2>1 DEF Connected
  <2> QED
    BY <2>1, <2>2, <2>3, FrameTurn
<1> QED
  BY <1>1, <1>2, <1>3, <1>4, <1>5

\* Callbacks that leave what was received and sent as it is, and the chunks in
\* which it arrives.
LEMMA FrameCallbacks ==
  ASSUME FramingInv, TypeInv',
         \/ onDisconnected \/ onBufferFull \/ onBufferEmpty \/ read_callback
         \/ HandleClosed \/ KillTimer \/ RetryTimer \/ ChildWrites
         \/ \E sigterm \in BOOLEAN : ChildExits(sigterm)
         \/ \E n \in 1 .. Len(channel.upstream) : onDataReceived(n)
  PROVE  FramingInv'
<1>0. /\ TypeInv /\ TypeOK /\ channel \in ChannelType
      /\ buf \in Seq(Byte) /\ channel.upstream \in Seq(Byte)
  BY StreamType DEF FramingInv, TypeInv
<1>1. calls = <<>> /\ Pending = {}
  BY IdleStack
  DEF onDisconnected, onBufferFull, BufferIsFull, onBufferEmpty, BufferIsEmpty,
      read_callback, HandleClosed, KillTimer, RetryTimer, ChildWrites, ChildExits,
      onDataReceived
<1>2. "erase" \notin Pending' /\ "body" \notin Pending'
  <2>1. CASE onDisconnected \/ KillTimer \/ RetryTimer \/ onBufferEmpty \/ read_callback
    BY <2>1, <1>0, LoopCalls DEF Pending
  <2>2. CASE HandleClosed \/ \E n \in 1 .. Len(channel.upstream) : onDataReceived(n)
    BY <2>2, <1>0, LoopCalls, Empty DEF Pending
  <2>3. CASE \/ onBufferFull \/ ChildWrites
             \/ \E sigterm \in BOOLEAN : ChildExits(sigterm)
    BY <2>3, <1>1, Empty DEF onBufferFull, ChildWrites, ChildExits, Pending
  <2> QED
    BY <2>1, <2>2, <2>3
<1>3. CASE onDisconnected
  <2>1. ~Connected'
    BY <1>3, ChannelTypes DEF onDisconnected, LoseChannel, Connected
  <2> QED
    BY <1>2, <2>1, NothingTaken
<1>4. CASE \/ onBufferFull \/ onBufferEmpty \/ read_callback
           \/ HandleClosed \/ KillTimer \/ RetryTimer \/ ChildWrites
           \/ \E sigterm \in BOOLEAN : ChildExits(sigterm)
  <2>1. /\ UNCHANGED buffers
        /\ \/ channel' = channel
           \/ Connected /\ \E full \in BOOLEAN : channel' = [channel EXCEPT !.full = full]
    BY <1>4
    DEF onBufferFull, BufferIsFull, onBufferEmpty, BufferIsEmpty, read_callback,
        HandleClosed, KillTimer, RetryTimer, ChildWrites, ChildExits
  <2>2. /\ channel'.sent = channel.sent /\ channel'.taken = channel.taken
        /\ channel'.upstream = channel.upstream /\ (Connected' => Connected)
    BY <1>0, <2>1 DEF ChannelType, Connected
  <2>3. FrameKept
    BY <1>1, <1>2, <2>1, <2>2 DEF FrameKept, Stream, buffers
  <2> QED
    BY <2>3, FrameSame
<1>5. ASSUME NEW n \in 1 .. Len(channel.upstream), onDataReceived(n)
      PROVE  FramingInv'
  <2> DEFINE chunk == SubSeq(channel.upstream, 1, n)
             rest == SubSeq(channel.upstream, n + 1, Len(channel.upstream))
  <2>1. /\ channel.state \in {"open", "closing"} /\ buf' = buf \o chunk
        /\ channel' = [channel EXCEPT !.upstream = rest] /\ expected' = expected
    BY <1>5 DEF onDataReceived
  <2>2. (buf \o chunk) \o rest = buf \o channel.upstream
    BY <1>0, Moved
  <2> HIDE DEF chunk, rest
  <2>3. /\ channel'.sent = channel.sent /\ channel'.taken = channel.taken
        /\ channel'.upstream = rest /\ Connected
    BY <1>0, <2>1 DEF ChannelType, Connected
  <2>4. Stream' = Stream
    BY <2>1, <2>2, <2>3 DEF Stream
  <2>5. FrameKept
    BY <1>1, <1>2, <2>1, <2>3, <2>4 DEF FrameKept
  <2> QED
    BY <2>5, FrameSame
<1> QED
  BY <1>3, <1>4, <1>5

-----------------------------------------------------------------------------
(* Steps that matter *)

\* A connection is made.
LEMMA FrameBind ==
  ASSUME FramingInv, TypeInv', BindSucceeds
  PROVE  FramingInv'
<1>0. TypeInv /\ IsStack(calls)
  BY StreamType DEF FramingInv
<1>1. /\ channel' = NewChannel /\ buf' = <<>> /\ expected' = 0 /\ ~Connected
  BY DEF BindSucceeds, Reset, Reconnecting
<1>2. /\ channel'.sent = <<>> /\ channel'.taken = <<>> /\ channel'.upstream = <<>>
  BY <1>1, ChannelTypes
<1>3. "body" \notin Pending'
  <2>1. Turns("reconnect", {})
    BY <1>0, HandlerTurns
  <2> QED
    BY <1>0, <1>1, <2>1 DEF Turns, Pending, TypeInv, Linked
<1>4. Stream' = <<>> /\ Len(<<>>) = 0 /\ <<>> \in Seq(ClientMessage)
  BY <1>1, <1>2 DEF Stream
<1>5. Framed(<<>>, <<>>, 0)
  BY <1>4, FramedEmpty
<1>6. Framed(Stream', channel'.sent, Len(channel'.taken))
  BY <1>2, <1>4, <1>5
<1>7. Fresh'
  BY <1>1, <1>2 DEF Fresh
<1>8. FramingKept' /\ Len(channel'.taken) <= Len(channel'.sent)
  <2>1. DOMAIN channel'.taken = {}
    BY <1>2
  <2> QED
    BY <1>2, <2>1 DEF FramingKept
<1> QED
  BY <1>1, <1>3, <1>6, <1>7, <1>8 DEF FramingInv, FrameInv, Expects

\* While nothing is being erased, what is left begins after the last message
\* that was taken.
LEMMA Left ==
  ASSUME FramingInv, Connected, "erase" \notin Pending
  PROVE  /\ Framed(Stream, channel.sent, Len(channel.taken))
         /\ Expects(Len(channel.taken))
         /\ FramingKept /\ Len(channel.taken) <= Len(channel.sent)
BY DEF FramingInv, FrameInv

\* The length is that of the next message.
LEMMA FrameHeader ==
  ASSUME FramingInv, TypeInv', ReceiveHeader
  PROVE  FramingInv'
<1> DEFINE m == Len(channel.taken)
<1>0. /\ TypeInv /\ buf \in Seq(Byte) /\ channel.upstream \in Seq(Byte)
      /\ Stream \in Seq(Byte) /\ channel.sent \in Seq(ClientMessage) /\ m \in Nat
  BY StreamType DEF FramingInv
<1>1. /\ Pending = {"header"} /\ Connected /\ 1 \in DOMAIN buf
      /\ Pending' = {IF expected' = 0 THEN "close" ELSE "body"}
      /\ expected' = LengthAt(buf[1])
  BY <1>0, HeaderRead
<1>2. channel' = channel /\ buf' = buf
  BY DEF ReceiveHeader
<1>3. /\ Framed(Stream, channel.sent, m) /\ FramingKept
      /\ m <= Len(channel.sent)
  BY <1>1, Left
<1>4. 1 \in 1 .. Len(buf)
  BY <1>0, <1>1, LenProperties
<1>5. Stream[1] = buf[1] /\ Len(Stream) = Len(buf) + Len(channel.upstream)
      /\ Len(buf) \in Nat /\ Len(channel.upstream) \in Nat
  BY <1>0, <1>4, Concat DEF Stream
<1>6. Stream # <<>>
  BY <1>0, <1>4, <1>5, EmptySeq
<1>7. /\ m + 1 \in 1 .. Len(channel.sent)
      /\ \A j \in 1 .. Size(channel.sent, m + 1) :
           Stream[j] = [message |-> m + 1, offset |-> j]
  BY <1>0, <1>3, <1>6, FramedFirst
<1>8. 1 \in 1 .. Size(channel.sent, m + 1)
  BY <1>0, <1>7, Sizes
<1>9. buf[1] = [message |-> m + 1, offset |-> 1]
  BY <1>5, <1>7, <1>8
<1>10. expected' = channel.sent[m + 1].len
  BY <1>1, <1>9 DEF LengthAt
<1>11. m < Len(channel.sent)
  BY <1>0, <1>7
<1> HIDE DEF m
<1>12. Framed(Stream', channel'.sent, Len(channel'.taken))
  BY <1>2, <1>3 DEF Stream, m
<1>13. expected' # 0 =>
         /\ Len(channel'.taken) < Len(channel'.sent)
         /\ expected' = channel'.sent[Len(channel'.taken) + 1].len
  BY <1>2, <1>10, <1>11 DEF m
<1>14. FramingKept' /\ Len(channel'.taken) <= Len(channel'.sent)
  BY <1>2, <1>3 DEF FramingKept, m
<1>15. "erase" \notin Pending' /\ ("body" \in Pending' => expected' # 0)
  BY <1>1
<1> QED
  BY <1>12, <1>13, <1>14, <1>15 DEF FramingInv, FrameInv, Expects

\* A message is taken.
LEMMA FrameTake ==
  ASSUME FramingInv, TypeInv', "body" \in Pending, MessageComplete, NEW use, Take(use),
         UNCHANGED <<buf, expected>>, "erase" \in Pending', "body" \notin Pending'
  PROVE  FramingInv'
<1> DEFINE m == Len(channel.taken)
           bytes == SubSeq(buf, HeaderSize + 1, HeaderSize + expected)
           taken == Append(channel.taken, [use |-> use, bytes |-> bytes])
<1>0. /\ TypeInv /\ buf \in Seq(Byte) /\ channel.upstream \in Seq(Byte)
      /\ channel.sent \in Seq(ClientMessage) /\ channel.taken \in Seq(Use)
      /\ m \in Nat /\ Len(channel.sent) \in Nat /\ channel \in ChannelType
      /\ expected \in Nat /\ Len(buf) \in Nat
  BY StreamType, LenProperties DEF FramingInv
<1>1. Connected /\ Pending = {"body"} /\ expected # 0
  BY DEF FramingInv, FrameInv, TypeInv, Linked
<1>2. /\ Framed(Stream, channel.sent, m) /\ Expects(m) /\ FramingKept
      /\ m <= Len(channel.sent)
  BY <1>1, Left
<1>3. m < Len(channel.sent) /\ expected = channel.sent[m + 1].len
  BY <1>1, <1>2 DEF Expects
<1>4. bytes = Payload(m + 1, channel.sent[m + 1].len)
  <2>1. HeaderSize + channel.sent[m + 1].len <= Len(buf)
    BY <1>0, <1>3 DEF MessageComplete, HeaderSize
  <2>2. buf # <<>>
    BY <1>0, <1>1, EmptySeq DEF MessageComplete, HeaderSize
  <2>3. Framed(buf \o channel.upstream, channel.sent, m)
    BY <1>2 DEF Stream
  <2> HIDE DEF m
  <2>4. SubSeq(buf, HeaderSize + 1, HeaderSize + channel.sent[m + 1].len)
          = Payload(m + 1, channel.sent[m + 1].len)
    BY <1>0, <2>1, <2>2, <2>3, FramedPayload
  <2> QED
    BY <1>3, <2>4
<1>5. channel' = [channel EXCEPT !.taken = taken]
  BY DEF Take
<1> HIDE DEF bytes
<1>6. /\ Len(taken) = m + 1 /\ DOMAIN taken = 1 .. m + 1
      /\ taken[m + 1] = [use |-> use, bytes |-> bytes]
      /\ \A k \in 1 .. m : taken[k] = channel.taken[k]
      /\ DOMAIN channel.taken = 1 .. m
  <2>1. taken \in Seq(Use \cup {[use |-> use, bytes |-> bytes]})
    BY <1>0
  <2> QED
    BY <1>0, AppendProperties, LenProperties, <2>1
<1> HIDE DEF taken, m
<1>7. /\ channel'.taken = taken /\ channel'.sent = channel.sent
      /\ channel'.upstream = channel.upstream
  BY <1>0, <1>5 DEF ChannelType
<1>8. Held'
  <2>1. Len(channel'.taken) - 1 = m
    BY <1>0, <1>6, <1>7
  <2>2. Framed(Stream', channel'.sent, m) /\ MessageComplete'
    BY <1>2, <1>7 DEF Stream, MessageComplete
  <2>3. expected' # 0 /\ m < Len(channel'.sent) /\ expected' = channel'.sent[m + 1].len
    BY <1>1, <1>3, <1>7
  <2> QED
    BY <1>0, <2>1, <2>2, <2>3 DEF Held, Expects
<1>9. FramingKept'
  <2> SUFFICES ASSUME NEW k \in 1 .. m + 1
               PROVE  taken[k].bytes = Payload(k, channel.sent[k].len)
    BY <1>6, <1>7 DEF FramingKept
  <2>1. CASE k = m + 1
    BY <2>1, <1>4, <1>6
  <2>2. CASE k # m + 1
    <3>1. k \in 1 .. m
      BY <1>0, <2>2
    <3> QED
      BY <3>1, <1>2, <1>6 DEF FramingKept
  <2> QED
    BY <2>1, <2>2
<1>10. Len(channel'.taken) <= Len(channel'.sent)
  BY <1>0, <1>3, <1>6, <1>7
<1> QED
  BY <1>8, <1>9, <1>10 DEF FramingInv, FrameInv

LEMMA FrameReceive ==
  ASSUME FramingInv, TypeInv', ReceiveInput \/ ReceiveCommand
  PROVE  FramingInv'
<1>0. IsStack(calls)
  BY StreamType DEF FramingInv
<1>1. MessageComplete /\ UNCHANGED <<buf, expected>> /\ \E use : Take(use)
  BY DEF ReceiveInput, ReceiveCommand, buffers
<1>2. \/ Turns("body", {"erase"})
      \/ Turns("body", {"spawn", "STARTED", "start_output", "erase"})
  BY <1>0, HandlerTurns
<1>3. "body" \in Pending /\ "erase" \in Pending' /\ "body" \notin Pending'
  BY <1>2, Depths DEF Turns, Above, Pending
<1> QED
  BY <1>1, <1>3, FrameTake

\* The message that was taken is erased.
LEMMA FrameErase ==
  ASSUME FramingInv, TypeInv', EraseMessage
  PROVE  FramingInv'
<1> DEFINE m == Len(channel.taken) - 1
           size == Size(channel.sent, m + 1)
<1>0. /\ TypeInv /\ buf \in Seq(Byte) /\ channel.upstream \in Seq(Byte)
      /\ Stream \in Seq(Byte) /\ channel.sent \in Seq(ClientMessage)
      /\ Len(channel.taken) \in Nat /\ IsStack(calls) /\ expected \in Nat
      /\ Len(buf) \in Nat
  BY StreamType, LenProperties DEF FramingInv
<1>1. /\ MessageComplete /\ channel' = channel /\ expected' = 0
      /\ buf' = SubSeq(buf, HeaderSize + expected + 1, Len(buf))
  BY DEF EraseMessage, Rest
<1>2. "erase" \in Pending /\ "erase" \notin Pending' /\ "body" \notin Pending'
  <2>1. Turns("erase", {})
    BY <1>0, HandlerTurns
  <2>2. "erase" \in Pending /\ "erase" \notin Pending'
    BY <2>1, Depths DEF Turns, Above, Pending
  <2>3. "body" \in Pending' => "body" \in Pending
    BY <2>1 DEF Turns, Pending
  <2> QED
    BY <1>0, <2>2, <2>3 DEF TypeInv, Linked
<1>3. CASE ~Connected
  BY <1>1, <1>2, <1>3, NothingTaken DEF Connected
<1>4. CASE Connected
  <2>1. ~Fresh
    BY <1>1 DEF Fresh, MessageComplete, HeaderSize
  <2>2. Held
    BY <1>2, <1>4, <2>1 DEF FramingInv, FrameInv
  <2>3. /\ m >= 0 /\ Framed(Stream, channel.sent, m)
        /\ m < Len(channel.sent) /\ expected = channel.sent[m + 1].len
    BY <2>2 DEF Held, Expects
  <2>4. HeaderSize + expected = size
    BY <2>3 DEF Size
  <2>5. size \in 0 .. Len(buf) /\ size # 0
    BY <1>0, <1>1, <2>4 DEF MessageComplete, HeaderSize
  <2>6. Len(Stream) = Len(buf) + Len(channel.upstream) /\ Len(channel.upstream) \in Nat
    BY <1>0, Concat DEF Stream
  <2>7. Stream # <<>>
    BY <1>0, <2>5, <2>6, EmptySeq
  <2>8. Framed(SubSeq(Stream, size + 1, Len(Stream)), channel.sent, m + 1)
    BY <1>0, <2>3, <2>7, FramedRest
  <2> HIDE DEF size
  <2>9. SubSeq(buf, size + 1, Len(buf)) \o channel.upstream
          = SubSeq(Stream, size + 1, Len(Stream))
    BY <1>0, <2>5, Erased DEF Stream
  <2>10. Stream' = SubSeq(Stream, size + 1, Len(Stream))
    BY <1>1, <2>4, <2>9 DEF Stream
  <2>11. m + 1 = Len(channel'.taken)
    BY <1>0, <1>1
  <2>12. Framed(Stream', channel'.sent, Len(channel'.taken))
    BY <1>1, <2>8, <2>10, <2>11
  <2>13. FramingKept' /\ Len(channel'.taken) <= Len(channel'.sent)
    BY <1>1 DEF FramingInv, FrameInv, FramingKept
  <2> QED
    BY <1>1, <1>2, <2>12, <2>13 DEF FramingInv, FrameInv, Expects
<1> QED
  BY <1>3, <1>4

\* The client sends a message.
LEMMA FrameSpeak ==
  ASSUME FramingInv, TypeInv', ClientSpeaks
  PROVE  FramingInv'
<1> DEFINE m == Len(channel.taken)
           n == Len(channel.sent)
<1>0. /\ TypeInv /\ buf \in Seq(Byte) /\ channel.upstream \in Seq(Byte)
      /\ Stream \in Seq(Byte) /\ channel.sent \in Seq(ClientMessage)
      /\ channel.taken \in Seq(Use) /\ m \in Nat /\ n \in Nat
      /\ channel \in ChannelType
  BY StreamType DEF FramingInv
<1>1. PICK msg \in ClientMessage : ClientSends(msg)
  <2>1. \A len \in CommandLengths : Command(len) \in ClientMessage
    BY ClientAssumption DEF Command, ClientMessage
  <2>2. \A msg \in ClientMessages : msg \in ClientMessage
    BY ClientAssumption DEF ClientMessage
  <2> QED
    BY <2>1, <2>2 DEF ClientSpeaks
<1> DEFINE bytes == Bytes(n + 1, msg.len)
           sent == Append(channel.sent, msg)
           up == channel.upstream \o bytes
<1>2. /\ channel' = [channel EXCEPT !.sent = sent, !.upstream = up]
      /\ UNCHANGED <<buf, expected, calls>> /\ Idle /\ channel.state = "open"
  BY <1>1 DEF ClientSends, buffers
<1>3. /\ Pending = {} /\ Pending' = {} /\ Connected
  BY <1>2, IdleStack DEF Pending, Connected
<1>4. /\ Framed(Stream, channel.sent, m) /\ Expects(m) /\ FramingKept /\ m <= n
  BY <1>3, Left
<1>5. bytes \in Seq(Byte)
  <2>1. n + 1 \in Nat /\ msg.len \in Nat
    BY <1>0 DEF ClientMessage
  <2> QED
    BY <2>1, BytesShape
<1>6. Framed(Stream \o bytes, sent, m)
  BY <1>0, <1>4, FramedMore
<1>7. /\ Len(sent) = n + 1 /\ \A k \in 1 .. n : sent[k] = channel.sent[k]
  BY <1>0, AppendProperties
<1> HIDE DEF bytes
<1>8. buf \o up = Stream \o bytes
  BY <1>0, <1>5, BytesAssociative DEF Stream
<1> HIDE DEF sent, up
<1>9. channel'.sent = sent /\ channel'.taken = channel.taken /\ channel'.upstream = up
  BY <1>0, <1>2 DEF ChannelType
<1>10. Framed(Stream', channel'.sent, Len(channel'.taken))
  BY <1>2, <1>6, <1>8, <1>9 DEF Stream
<1>11. expected' # 0 => m < Len(channel'.sent) /\ expected' = channel'.sent[m + 1].len
  <2> SUFFICES ASSUME expected # 0
               PROVE  m < Len(sent) /\ expected = sent[m + 1].len
    BY <1>2, <1>9
  <2>1. m < n /\ expected = channel.sent[m + 1].len
    BY <1>4 DEF Expects
  <2>2. m + 1 \in 1 .. n /\ m < n + 1
    BY <1>0, <2>1
  <2> QED
    BY <2>1, <2>2, <1>7
<1>12. FramingKept'
  <2>1. DOMAIN channel.taken = 1 .. m
    BY <1>0, LenProperties
  <2>2. \A k \in 1 .. m : k \in 1 .. n
    BY <1>0, <1>4
  <2> QED
    BY <1>4, <1>7, <1>9, <2>1, <2>2 DEF FramingKept
<1>13. Len(channel'.taken) <= Len(channel'.sent)
  BY <1>0, <1>4, <1>7, <1>9
<1> QED
  BY <1>3, <1>9, <1>10, <1>11, <1>12, <1>13 DEF FramingInv, FrameInv, Expects

-----------------------------------------------------------------------------
(* The theorems *)

LEMMA InitFramingInv == Init => FramingInv
<1> SUFFICES ASSUME Init PROVE FramingInv
  OBVIOUS
<1>1. TypeInv
  BY InitTypeInv
<1>2. channel = NoChannel /\ Pending = {"reconnect"}
  BY CallNames, Single DEF Init, ServerInit, Pending
<1>3. channel.taken = <<>> /\ channel.sent = <<>> /\ ~Connected
  BY <1>2, ChannelTypes DEF Connected
<1>4. Len(channel.taken) <= Len(channel.sent) /\ DOMAIN channel.taken = {}
  BY <1>3
<1> QED
  BY <1>1, <1>2, <1>3, <1>4 DEF FramingInv, FrameInv, FramingKept

LEMMA NextFramingInv == FramingInv /\ [Next]_vars => FramingInv'
<1> SUFFICES ASSUME FramingInv, [Next]_vars PROVE FramingInv'
  OBVIOUS
<1>0. TypeInv'
  BY NextTypeInv DEF FramingInv
<1>1. ASSUME UNCHANGED <<channel, buf, expected, calls>> PROVE FramingInv'
  BY <1>0, <1>1 DEF FramingInv, FrameInv, FramingKept, Held, Fresh, Expects, Stream,
     MessageComplete, Connected, Pending
<1>2. CASE Handler
  <2>1. CASE KillsItself \/ NullChannel \/ EraseBeyondEnd
    BY <1>1, <2>1 DEF KillsItself, NullChannel, EraseBeyondEnd, GoesDown, buffers
  <2>2. CASE ~(KillsItself \/ NullChannel \/ EraseBeyondEnd)
    BY <1>0, <1>2, <2>2, FrameHandlers, FrameBind, FrameHeader, FrameReceive, FrameErase
    DEF Handler
  <2> QED
    BY <2>1, <2>2
<1>3. CASE Loop
  <2>1. CASE FreedInUse
    BY <1>1, <2>1 DEF FreedInUse, GoesDown, buffers
  <2> QED
    BY <1>0, <1>3, <2>1, FrameCallbacks DEF Loop
<1>4. CASE Environment
  BY <1>0, <1>4, FrameCallbacks, FrameSpeak DEF Environment
<1>5. CASE Restart
  <2>1. channel' = NoChannel /\ Pending' = {"reconnect"}
    BY <1>5, LoopCalls DEF Restart, FramingInv, TypeInv, Pending
  <2>2. ~Connected'
    BY <2>1, ChannelTypes DEF Connected
  <2> QED
    BY <1>0, <2>1, <2>2, NothingTaken
<1>6. CASE UNCHANGED vars
  BY <1>1, <1>6 DEF vars, buffers
<1> QED
  BY <1>2, <1>3, <1>4, <1>5, <1>6 DEF Next

\* What has been received and not been taken, with what is on its way, is
\* always made of whole messages, and the length that was read is that of the
\* first of them: no chunk, lost connection or failed command lets the buffer
\* lose its place (s3tp.cpp:171-234).
THEOREM FramingInvariance == Spec => []FramingInv
BY InitFramingInv, NextFramingInv, PTL DEF Spec

\* Whatever the chunks, the server takes for the k-th payload the payload of
\* the k-th message that the client of this connection has sent
\* (s3tp.cpp:171-234).
THEOREM FramingAlwaysKept == Spec => []FramingKept
<1>1. FramingInv => FramingKept
  BY DEF FramingInv, FrameInv
<1> QED
  BY <1>1, FramingInvariance, PTL

=============================================================================
