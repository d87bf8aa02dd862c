------------------------ MODULE PreimageChannelProofs ------------------------
(***************************************************************************)
(* Proofs about PreimageChannel, for every set of hints and keys, every    *)
(* size of a payload, and pipes of any capacity that holds a length prefix *)
(* and a key: what hint() and get() promise, and that the two processes    *)
(* and their four pipes implement OracleService.                           *)
(***************************************************************************)
EXTENDS PreimageChannel, SequenceTheorems, TLAPS

(* n bytes of the message about x, after the first a.                      *)
Seg(x, a, n) == [i \in 1 .. n |-> <<x, a + i>>]
Bytes(x) == {x} \X Nat
Total(x) == HeaderSize + Size[x]

HsStopped == [pc |-> "stopped", got |-> << >>]
AckByte   == Seg("ack", 0, 1)

HsAtRest == hs \in {HsReady, HsStopped}
PsAtRest == ps \in {PsReady, PsStopped}
HintQuiet == HsAtRest /\ pipe["hint"] = << >> /\ pipe["ack"] = << >>
GetQuiet  == PsAtRest /\ pipe["key"] = << >> /\ pipe["value"] = << >>

(* A hint of which the client has written c bytes has not been given to    *)
(* the handler.  Its prefix is in the pipe as a whole or not at all.       *)
Unrouted(h, c) ==
    /\ sent = Append(routed, h)
    /\ pipe["ack"] = << >>
    /\ \/ hs = HsReady /\ pipe["hint"] = Seg(h, 0, c) /\ (c = 0 \/ c >= HeaderSize)
       \/ \E b \in HeaderSize .. (Total(h) - 1) :
             /\ b <= c
             /\ hs = [pc |-> "payload", got |-> Seg(h, 0, b)]
             /\ pipe["hint"] = Seg(h, b, c - b)
       \/ /\ c = Total(h)
          /\ hs = [pc |-> "route", got |-> Seg(h, 0, c)]
          /\ pipe["hint"] = << >>
       \/ \E b \in 0 .. c : hs = HsStopped /\ pipe["hint"] = Seg(h, b, c - b)

(* It has; the byte that says so is sent once.                             *)
Routed(h, c) ==
    /\ sent = routed
    /\ c = Total(h)
    /\ pipe["hint"] = << >>
    /\ \/ hs \in {[pc |-> "ack", got |-> << >>], [pc |-> "ack_error", got |-> << >>]}
             /\ pipe["ack"] = << >>
       \/ hs \in {HsReady, HsStopped} /\ pipe["ack"] = AckByte
       \/ hs = HsStopped /\ pipe["ack"] = << >>

HintCall(h, c) ==
    /\ client = [pc |-> IF c < Total(h) THEN "hint_write" ELSE "hint_ack", arg |-> h,
                 todo |-> Seg(h, c, Total(h) - c), got |-> << >>]
    /\ returned = Len(sent) - 1
    /\ GetQuiet
    /\ Unrouted(h, c) \/ Routed(h, c)

(* c bytes of a key are written, b of them read.                           *)
KeyCall(k, b, c) ==
    /\ client = [pc |-> IF c < KeySize THEN "get_write" ELSE "get_length", arg |-> k,
                 todo |-> Seg(k, c, KeySize - c), got |-> << >>]
    /\ pipe["key"] = Seg(k, b, c - b) /\ pipe["value"] = << >>
    /\ \/ b < KeySize /\ ps = [pc |-> "key", got |-> Seg(k, 0, b), todo |-> << >>]
       \/ ps = PsStopped

(* The key is read; e bytes of the answer are written, d of them read.     *)
ValueCall(k, d, e) ==
    /\ d < Total(k)
    /\ client = [pc |-> IF d < HeaderSize THEN "get_length" ELSE "get_payload", arg |-> k,
                 todo |-> << >>, got |-> Seg(k, 0, d)]
    /\ pipe["key"] = << >> /\ pipe["value"] = Seg(k, d, e - d)
    /\ \/ e = 0 /\ ps = [pc |-> "getter", got |-> Seg(k, 0, KeySize), todo |-> << >>]
       \/ e < HeaderSize /\ ps = [pc |-> "reply", got |-> Seg(k, 0, KeySize),
                                  todo |-> Seg(k, e, HeaderSize - e)]
       \/ e >= HeaderSize /\ e < Total(k)
             /\ ps = [pc |-> "reply_value", got |-> Seg(k, 0, KeySize),
                      todo |-> Seg(k, e, Total(k) - e)]
       \/ e \in {0, Total(k)} /\ ps = PsReady
       \/ ps = PsStopped

GetCall(k) ==
    /\ sent = routed /\ returned = Len(sent)
    /\ HintQuiet
    /\ \/ \E c \in 0 .. KeySize : \E b \in 0 .. c : KeyCall(k, b, c)
       \/ \E e \in 0 .. Total(k) : \E d \in 0 .. e : ValueCall(k, d, e)

NoCall ==
    /\ client = Idle
    /\ sent = routed /\ returned = Len(sent)
    /\ HintQuiet /\ GetQuiet

(* The client has gone; with a server still there it was between calls.    *)
Over ==
    /\ client.pc \in {"failed", "closed"}
    /\ returned <= Len(routed)
    /\ sent = routed \/ \E h \in Hints : sent = Append(routed, h)
    /\ serverUp => client.pc = "closed" /\ HintQuiet /\ GetQuiet

CallInv ==
    \/ NoCall
    \/ \E h \in Hints : \E c \in 0 .. Total(h) : HintCall(h, c)
    \/ \E k \in Keys : GetCall(k)
    \/ Over

TypeInv ==
    /\ DOMAIN client = {"pc", "arg", "todo", "got"}
    /\ serverUp \in BOOLEAN
    /\ ~ serverUp => hs = HsStopped /\ ps = PsStopped
    /\ routed \in Seq(Hints)
    /\ returned \in Nat
    /\ DOMAIN pipe = {"hint", "ack", "key", "value"}
    /\ \A p \in DOMAIN pipe : Len(pipe[p]) \in 0 .. Capacity
    /\ torn = FALSE
    /\ answer = [key |-> "none", value |-> << >>]
          \/ \E k \in Keys : answer = [key |-> k, value |-> Payload(k)]

IInv == TypeInv /\ CallInv

-----------------------------------------------------------------------------
(* Runs of bytes.                                                          *)

LEMMA Constants ==
    /\ HeaderSize \in Nat \ {0} /\ KeySize \in Nat \ {0} /\ Capacity \in Nat
    /\ Capacity >= HeaderSize /\ Capacity >= KeySize
    /\ \A x \in Hints \cup Keys : Size[x] \in Nat /\ Total(x) \in Nat /\ Total(x) >= HeaderSize
                                  /\ Total(x) = HeaderSize + Size[x]
BY ChannelAssumption DEF Total

LEMMA SegType ==
    ASSUME NEW x, NEW a \in Nat, NEW n \in Nat
    PROVE  /\ Seg(x, a, n) \in Seq(Bytes(x))
           /\ Len(Seg(x, a, n)) = n
           /\ DOMAIN Seg(x, a, n) = 1 .. n
           /\ \A i \in 1 .. n : Seg(x, a, n)[i] = <<x, a + i>>
           /\ n = 0 => Seg(x, a, n) = << >>
           /\ Seg(x, a, n) = << >> => n = 0
<1>1. Seg(x, a, n) \in [1 .. n -> Bytes(x)]
  BY DEF Seg, Bytes
<1>2. Seg(x, a, n) \in Seq(Bytes(x)) /\ Len(Seg(x, a, n)) = n
  BY <1>1
<1>3. n = 0 => Seg(x, a, n) = << >>
  BY <1>2
<1> QED BY <1>2, <1>3 DEF Seg

LEMMA SegNone == \A x, a : Seg(x, a, 0) = << >>
<1> TAKE x, a
<1>1. 1 .. 0 = {}
  OBVIOUS
<1>2. Seg(x, a, 0) = [i \in {} |-> <<x, a + i>>]
  BY <1>1 DEF Seg
<1>3. << >> = [i \in {} |-> <<x, a + i>>]
  OBVIOUS
<1> QED BY <1>2, <1>3

LEMMA SegSubject ==
    ASSUME NEW x, NEW a \in Nat, NEW n \in Nat \ {0}
    PROVE  Subject(Seg(x, a, n)) = x
BY DEF Seg, Subject

LEMMA SegCat ==
    ASSUME NEW x, NEW a \in Nat, NEW m \in Nat, NEW n \in Nat
    PROVE  Seg(x, a, m) \o Seg(x, a + m, n) = Seg(x, a, m + n)
<1> DEFINE s == Seg(x, a, m)
           t == Seg(x, a + m, n)
           u == Seg(x, a, m + n)
<1>a. a + m \in Nat /\ m + n \in Nat
  OBVIOUS
<1>b. s \in Seq(Bytes(x)) /\ Len(s) = m
  BY SegType
<1>c. t \in Seq(Bytes(x)) /\ Len(t) = n
  BY <1>a, SegType
<1>d. u \in Seq(Bytes(x)) /\ Len(u) = m + n
  BY <1>a, SegType
<1>1. s \in Seq(Bytes(x)) /\ t \in Seq(Bytes(x)) /\ u \in Seq(Bytes(x))
       /\ Len(s) = m /\ Len(t) = n /\ Len(u) = m + n
  BY <1>b, <1>c, <1>d
<1>2. s \o t \in Seq(Bytes(x)) /\ Len(s \o t) = m + n
  <2> HIDE DEF s, t, u
  <2> QED BY <1>1, ConcatProperties
<1>3. \A i \in 1 .. (m + n) : (s \o t)[i] = IF i <= m THEN s[i] ELSE t[i - m]
  <2> HIDE DEF s, t, u
  <2> QED BY <1>1, ConcatProperties
<1>4. \A i \in 1 .. (m + n) : (IF i <= m THEN s[i] ELSE t[i - m]) = u[i]
  BY DEF Seg
<1> HIDE DEF s, t, u
<1>5. s \o t = u
  BY <1>1, <1>2, <1>3, <1>4, SeqEqual
<1> QED BY <1>5 DEF s, t, u

LEMMA SegExtend ==
    ASSUME NEW x, NEW m \in Nat, NEW n \in Nat, m <= n
    PROVE  Seg(x, 0, m) \o Seg(x, m, n - m) = Seg(x, 0, n)
<1> DEFINE d == n - m
<1>1. d \in Nat /\ m + d = n /\ 0 + m = m
  OBVIOUS
<1> HIDE DEF d
<1>2. d \in Nat /\ 0 \in Nat
  BY <1>1
<1>3. Seg(x, 0, m) \o Seg(x, 0 + m, d) = Seg(x, 0, m + d)
  BY <1>2, SegCat, Zenon
<1>4. Seg(x, 0, m) \o Seg(x, m, d) = Seg(x, 0, n)
  BY <1>1, <1>3
<1> QED BY <1>4 DEF d

LEMMA SegSub ==
    ASSUME NEW x, NEW a \in Nat, NEW n \in Nat, NEW m \in 0 .. n
    PROVE  /\ SubSeq(Seg(x, a, n), 1, m) = Seg(x, a, m)
           /\ SubSeq(Seg(x, a, n), m + 1, n) = Seg(x, a + m, n - m)
<1>1. Seg(x, a, n) \in Seq(Bytes(x)) /\ Len(Seg(x, a, n)) = n
       /\ \A i \in 1 .. n : Seg(x, a, n)[i] = <<x, a + i>>
  BY SegType
<1>2. SubSeq(Seg(x, a, n), 1, m) = [i \in 1 .. m |-> Seg(x, a, n)[i]]
  BY <1>1
<1>3. SubSeq(Seg(x, a, n), m + 1, n) = [i \in 1 .. (n - m) |-> Seg(x, a, n)[i + m]]
  BY <1>1
<1>4. [i \in 1 .. m |-> Seg(x, a, n)[i]] = Seg(x, a, m)
  BY <1>1 DEF Seg
<1>5. [i \in 1 .. (n - m) |-> Seg(x, a, n)[i + m]] = Seg(x, a + m, n - m)
  BY <1>1 DEF Seg
<1> QED BY <1>2, <1>3, <1>4, <1>5

LEMMA MinOfTwo ==
    ASSUME NEW a \in Nat, NEW b \in Nat
    PROVE  Min({a, b}) = IF a <= b THEN a ELSE b
BY DEF Min

(* A write of the bytes from c to t when those from b to c are in the pipe *)
(* leaves those from b to n, for some n after c.                           *)
PushedTo(p, x, b, c, t, n) ==
    /\ n \in Nat /\ c < n /\ n <= t
    /\ pipe'[p] = Seg(x, b, n - b) /\ Len(pipe'[p]) \in 0 .. Capacity
    /\ Rest(p, Seg(x, c, t - c)) = Seg(x, n, t - n)
    /\ Seg(x, n, t - n) = << >> <=> ~ (n < t)
    /\ DOMAIN pipe' = DOMAIN pipe
    /\ \A q \in DOMAIN pipe : q # p => pipe'[q] = pipe[q]
    /\ b = c => n = t \/ n - b = Capacity

LEMMA PushSeg ==
    ASSUME TypeInv, NEW p \in DOMAIN pipe, NEW x, NEW b \in Nat, NEW c \in Nat, NEW t \in Nat,
           b <= c, c < t, pipe[p] = Seg(x, b, c - b), Room(p) > 0,
           Push(p, Seg(x, c, t - c))
    PROVE  \E n \in (c + 1) .. t : PushedTo(p, x, b, c, t, n)
<1> DEFINE todo == Seg(x, c, t - c)
           m == Pushed(p, todo)
<1>a. t - c \in Nat /\ c - b \in Nat
  OBVIOUS
<1>b. Len(todo) = t - c
  BY <1>a, SegType
<1>c. Len(Seg(x, b, c - b)) = c - b
  BY <1>a, SegType
<1>1. Len(todo) = t - c /\ Len(pipe[p]) = c - b
  BY <1>b, <1>c
<1>d. Len(pipe[p]) \in 0 .. Capacity
  BY DEF TypeInv
<1>2. Room(p) = Capacity - (c - b) /\ Room(p) \in Nat /\ t - c \in Nat
  BY <1>1, <1>d, Constants DEF Room
<1>3. m = IF t - c <= Room(p) THEN t - c ELSE Room(p)
  BY <1>1, <1>2, MinOfTwo DEF Pushed
<1>4. m \in 1 .. (t - c)
  BY <1>2, <1>3
<1>5. SubSeq(todo, 1, m) = Seg(x, c, m) /\ SubSeq(todo, m + 1, t - c) = Seg(x, c + m, (t - c) - m)
  <2>1. m \in 0 .. (t - c)
    BY <1>a, <1>4
  <2> HIDE DEF m
  <2> QED BY <1>a, <2>1, SegSub
<1>6. Seg(x, b, c - b) \o Seg(x, b + (c - b), m) = Seg(x, b, (c - b) + m)
  <2>1. c - b \in Nat /\ m \in Nat
    BY <1>4
  <2> HIDE DEF m
  <2> QED BY <2>1, SegCat
<1>7. b + (c - b) = c /\ (c - b) + m = (c + m) - b /\ (t - c) - m = t - (c + m)
  BY <1>4
<1>8. pipe' = [pipe EXCEPT ![p] = pipe[p] \o SubSeq(todo, 1, m)]
  BY DEF Push
<1>9. pipe'[p] = Seg(x, b, (c + m) - b) /\ DOMAIN pipe' = DOMAIN pipe
      /\ \A q \in DOMAIN pipe \ {p} : pipe'[q] = pipe[q]
  BY <1>5, <1>6, <1>7, <1>8
<1>10. Rest(p, todo) = Seg(x, c + m, t - (c + m))
  BY <1>1, <1>5, <1>7 DEF Rest
<1>11. c + m \in (c + 1) .. t /\ (c + m) - b <= Capacity /\ (b = c => c + m = t \/ (c + m) - b = Capacity)
  BY <1>2, <1>3, <1>4, Constants
<1> HIDE DEF m, todo
<1>12. Rest(p, Seg(x, c, t - c)) = Seg(x, c + m, t - (c + m))
  BY <1>10 DEF todo
<1> DEFINE n == c + m
<1> HIDE DEF n
<1>13. n \in Nat /\ c < n /\ n <= t /\ n - b <= Capacity /\ n - b \in Nat /\ t - n \in Nat
        /\ n \in (c + 1) .. t
  BY <1>11 DEF n
<1>14. Len(Seg(x, b, n - b)) = n - b
  BY <1>13, SegType
<1>15. Seg(x, n, t - n) = << >> <=> t - n = 0
  BY <1>13, SegType
<1>16. pipe'[p] = Seg(x, b, n - b) /\ Len(pipe'[p]) \in 0 .. Capacity
  BY <1>9, <1>13, <1>14, Constants DEF n
<1>17. Seg(x, n, t - n) = << >> <=> ~ (n < t)
  BY <1>13, <1>15
<1>18. PushedTo(p, x, b, c, t, n)
  BY <1>9, <1>11, <1>12, <1>13, <1>16, <1>17 DEF n, PushedTo
<1> QED BY <1>13, <1>18

(* A read of at most m of the bytes from b to c.                           *)
TakenTo(p, x, b, c, m, n) ==
    /\ n \in Nat /\ b < n /\ n <= c
    /\ n <= b + m /\ (n = b + m \/ n = c)
    /\ Taken(p, m) = Seg(x, b, n - b)
    /\ Len(Seg(x, 0, n)) = n
    /\ b = 0 => Taken(p, m) = Seg(x, 0, n)
    /\ Seg(x, 0, b) \o Taken(p, m) = Seg(x, 0, n)
    /\ pipe'[p] = Seg(x, n, c - n) /\ Len(pipe'[p]) \in 0 .. Capacity
    /\ n = c => pipe'[p] = << >>
    /\ DOMAIN pipe' = DOMAIN pipe
    /\ \A q \in DOMAIN pipe : q # p => pipe'[q] = pipe[q]

LEMMA TakeSeg ==
    ASSUME TypeInv, NEW p \in DOMAIN pipe, NEW x, NEW b \in Nat, NEW c \in Nat,
           NEW m \in Nat \ {0}, b < c, pipe[p] = Seg(x, b, c - b), Take(p, m)
    PROVE  \E n \in (b + 1) .. c : TakenTo(p, x, b, c, m, n)
<1> DEFINE k == Min({m, c - b})
<1>a. c - b \in Nat
  OBVIOUS
<1>b. Len(Seg(x, b, c - b)) = c - b
  BY <1>a, SegType
<1>1. Len(pipe[p]) = c - b /\ c - b \in Nat
  BY <1>a, <1>b
<1>2. k = IF m <= c - b THEN m ELSE c - b
  BY <1>1, MinOfTwo
<1>3. k \in 1 .. (c - b)
  BY <1>1, <1>2
<1>4. Taken(p, m) = SubSeq(Seg(x, b, c - b), 1, k)
  BY <1>1 DEF Taken
<1>5. pipe' = [pipe EXCEPT ![p] = SubSeq(Seg(x, b, c - b), k + 1, c - b)]
  BY <1>1 DEF Take
<1> HIDE DEF k
<1>6. SubSeq(Seg(x, b, c - b), 1, k) = Seg(x, b, k)
       /\ SubSeq(Seg(x, b, c - b), k + 1, c - b) = Seg(x, b + k, (c - b) - k)
  <2>1. k \in 0 .. (c - b)
    BY <1>1, <1>3
  <2> QED BY <1>1, <2>1, SegSub
<1>7. k = (b + k) - b /\ (c - b) - k = c - (b + k) /\ b + k \in (b + 1) .. c
       /\ b + k <= b + m /\ (b + k = b + m \/ b + k = c)
  BY <1>2, <1>3
<1>8. pipe'[p] = Seg(x, b + k, c - (b + k)) /\ DOMAIN pipe' = DOMAIN pipe
       /\ \A q \in DOMAIN pipe \ {p} : pipe'[q] = pipe[q]
  BY <1>5, <1>6, <1>7
<1>9. Taken(p, m) = Seg(x, b, (b + k) - b)
  BY <1>4, <1>6, <1>7
<1> DEFINE n == b + k
<1> HIDE DEF n
<1>10. n \in Nat /\ b < n /\ n <= c /\ n - b \in Nat /\ c - n \in Nat /\ n \in (b + 1) .. c
  BY <1>7 DEF n
<1>11. Len(Seg(x, n, c - n)) = c - n /\ Len(Seg(x, 0, n)) = n
  BY <1>10, SegType
<1>12. pipe'[p] = Seg(x, n, c - n)
  BY <1>8 DEF n
<1>13. Len(pipe'[p]) \in 0 .. Capacity
  <2>1. c - b <= Capacity
    BY <1>1 DEF TypeInv
  <2> QED BY <1>10, <1>11, <1>12, <2>1, Constants
<1>14. Seg(x, 0, b) \o Seg(x, b, n - b) = Seg(x, 0, n)
  BY <1>10, SegExtend
<1>15. b = 0 => n - b = n
  BY <1>10
<1>16. Taken(p, m) = Seg(x, b, n - b)
  BY <1>9 DEF n
<1>17. n = c => c - n = 0
  BY <1>10
<1>18. n = c => pipe'[p] = << >>
  BY <1>12, <1>17, SegNone
<1>19. TakenTo(p, x, b, c, m, n)
  BY <1>7, <1>8, <1>10, <1>11, <1>12, <1>13, <1>14, <1>15, <1>16, <1>18 DEF n, TakenTo
<1> QED BY <1>10, <1>19

LEMMA SegAll ==
    ASSUME NEW x
    PROVE  /\ \A n \in Nat : Message(x, n) = Seg(x, 0, n)
           /\ Payload(x) = Seg(x, HeaderSize, Size[x])
BY DEF Message, Payload, Seg

LEMMA AckIs == AckByte = << <<"ack", 1>> >>
<1>1. AckByte = [i \in 1 .. 1 |-> <<"ack", 1>>]
  BY DEF AckByte, Seg
<1>2. << <<"ack", 1>> >> = [i \in 1 .. 1 |-> <<"ack", 1>>]
  OBVIOUS
<1> QED BY <1>1, <1>2

(* At the end of the stream a read takes nothing.                          *)
LEMMA TakeNone ==
    ASSUME TypeInv, NEW p \in DOMAIN pipe, NEW m \in Nat, pipe[p] = << >>, Take(p, m)
    PROVE  /\ Taken(p, m) = << >>
           /\ DOMAIN pipe' = DOMAIN pipe
           /\ \A q \in DOMAIN pipe : pipe'[q] = pipe[q]
<1>1. Min({m, 0}) = 0
  BY MinOfTwo
<1>2. SubSeq(<< >>, 1, 0) = << >>
  OBVIOUS
<1>3. Len(pipe[p]) = 0
  OBVIOUS
<1>4. SubSeq(pipe[p], 0 + 1, 0) = << >>
  BY <1>2
<1>5. pipe' = [pipe EXCEPT ![p] = << >>]
  BY <1>1, <1>3, <1>4 DEF Take
<1>6. Taken(p, m) = << >>
  BY <1>1, <1>2, <1>3 DEF Taken
<1> QED BY <1>5, <1>6

(* Which call is in progress, by the state of the client.                  *)
LEMMA WhichCall ==
    ASSUME IInv
    PROVE  /\ client.pc \in {"idle", "hint_write", "hint_ack", "get_write", "get_length",
                             "get_payload", "failed", "closed"}
           /\ client.pc = "idle" => NoCall
           /\ client.pc \in {"hint_write", "hint_ack"} =>
                  \E h \in Hints : \E c \in 0 .. Total(h) : HintCall(h, c)
           /\ client.pc \in {"get_write", "get_length", "get_payload"} =>
                  \E k \in Keys : GetCall(k)
           /\ client.pc \in {"failed", "closed"} => Over
<1>1. CASE NoCall
  BY <1>1 DEF NoCall, Idle
<1>2. ASSUME NEW h \in Hints, NEW c \in 0 .. Total(h), HintCall(h, c)
      PROVE  client.pc \in {"hint_write", "hint_ack"}
  BY <1>2 DEF HintCall
<1>3. ASSUME NEW k \in Keys, GetCall(k)
      PROVE  client.pc \in {"get_write", "get_length", "get_payload"}
  BY <1>3 DEF GetCall, KeyCall, ValueCall
<1>4. CASE Over
  BY <1>4 DEF Over
<1> QED BY <1>1, <1>2, <1>3, <1>4 DEF IInv, CallInv

(* A call that fails, which happens only without a server.                 *)
LEMMA FailStep ==
    ASSUME IInv, Fail, ~ serverUp, client.pc # "idle",
           UNCHANGED <<hs, ps, serverUp, sent, routed, torn>>
    PROVE  IInv'
<1>1. TypeInv'
  BY DEF IInv, TypeInv, Fail
<1>2. client'.pc = "failed"
  BY DEF IInv, TypeInv, Fail
<1>3. returned <= Len(routed) /\ (sent = routed \/ \E h \in Hints : sent = Append(routed, h))
  <2>0. routed \in Seq(Hints) /\ Len(routed) \in Nat
    BY DEF IInv, TypeInv
  <2>1. ASSUME NEW h \in Hints, NEW c \in 0 .. Total(h), HintCall(h, c)
        PROVE  /\ returned <= Len(routed)
               /\ sent = routed \/ \E g \in Hints : sent = Append(routed, g)
    <3>1. CASE Unrouted(h, c)
      <4>1. sent = Append(routed, h)
        BY <3>1 DEF Unrouted
      <4>2. Len(sent) = Len(routed) + 1
        BY <2>0, <4>1
      <4> QED BY <2>0, <2>1, <4>1, <4>2 DEF HintCall
    <3>2. CASE Routed(h, c)
      BY <2>0, <2>1, <3>2 DEF HintCall, Routed
    <3> QED BY <2>1, <3>1, <3>2 DEF HintCall
  <2>2. ASSUME NEW k \in Keys, GetCall(k)
        PROVE  returned <= Len(routed) /\ sent = routed
    BY <2>0, <2>2 DEF GetCall
  <2> QED BY <2>1, <2>2 DEF IInv, CallInv, NoCall, Idle, Over
<1>4. Over'
  BY <1>2, <1>3 DEF Over, Fail
<1> QED BY <1>1, <1>4 DEF IInv, CallInv

LEMMA HintStep ==
    ASSUME IInv, NEW h \in Hints, Hint(h)
    PROVE  IInv'
<1>1. NoCall /\ TypeInv
  BY WhichCall DEF Hint, IInv
<1>2. TypeInv'
  BY <1>1 DEF Hint, TypeInv
<1>3. Total(h) \in Nat /\ 0 < Total(h) /\ 0 \in 0 .. Total(h) /\ Total(h) - 0 = Total(h)
  BY Constants
<1>4. Message(h, HeaderSize + Size[h]) = Seg(h, 0, Total(h))
  BY <1>3, SegAll DEF Total
<1>5. client' = [pc |-> "hint_write", arg |-> h, todo |-> Seg(h, 0, Total(h) - 0), got |-> << >>]
  BY <1>3, <1>4 DEF Hint
<1>6. sent' = Append(routed, h) /\ routed' = routed /\ returned' = Len(sent') - 1
  BY <1>1 DEF Hint, NoCall, TypeInv
<1>7. Unrouted(h, 0)'
  <2>1. 0 \in 0 .. 0 /\ 0 - 0 = 0
    OBVIOUS
  <2>2. pipe'["ack"] = << >> /\ pipe'["hint"] = Seg(h, 0, 0) /\ hs' \in {HsReady, HsStopped}
    BY <1>1, SegNone DEF Hint, NoCall, HintQuiet, HsAtRest
  <2> QED BY <1>6, <2>1, <2>2 DEF Unrouted
<1>8. GetQuiet'
  BY <1>1 DEF Hint, NoCall, GetQuiet, PsAtRest
<1>9. HintCall(h, 0)'
  BY <1>3, <1>5, <1>6, <1>7, <1>8 DEF HintCall
<1> QED BY <1>2, <1>3, <1>9 DEF IInv, CallInv

LEMMA HintWriteStep ==
    ASSUME IInv, HintWrite
    PROVE  IInv'
<1>1. CASE ~ ServerOpen /\ Fail
  BY <1>1, FailStep DEF HintWrite, ServerOpen
<1>2. CASE ~ (~ ServerOpen /\ Fail)
  <2>1. PICK h \in Hints : \E c \in 0 .. Total(h) : HintCall(h, c)
    BY WhichCall DEF HintWrite
  <2>2. PICK c \in 0 .. Total(h) : HintCall(h, c)
    BY <2>1
  <2>3. Total(h) \in Nat /\ c < Total(h) /\ c \in Nat /\ Total(h) >= HeaderSize /\ HeaderSize \in Nat
    BY <2>2, Constants DEF HintCall, HintWrite
  <2>4. Unrouted(h, c)
    BY <2>2, <2>3 DEF HintCall, Routed
  <2>5. PICK b \in 0 .. c :
            /\ pipe["hint"] = Seg(h, b, c - b)
            /\ \/ hs = HsReady /\ b = 0 /\ (c = 0 \/ c >= HeaderSize)
               \/ b \in HeaderSize .. (Total(h) - 1) /\ hs = [pc |-> "payload", got |-> Seg(h, 0, b)]
               \/ hs = HsStopped
    <3>1. CASE hs = HsReady /\ pipe["hint"] = Seg(h, 0, c) /\ (c = 0 \/ c >= HeaderSize)
      <4>1. 0 \in 0 .. c /\ c - 0 = c
        BY <2>3
      <4> QED BY <3>1, <4>1
    <3>2. CASE \E b \in HeaderSize .. (Total(h) - 1) :
                  /\ b <= c
                  /\ hs = [pc |-> "payload", got |-> Seg(h, 0, b)]
                  /\ pipe["hint"] = Seg(h, b, c - b)
      BY <2>3, <3>2
    <3>3. CASE \E b \in 0 .. c : hs = HsStopped /\ pipe["hint"] = Seg(h, b, c - b)
      BY <3>3
    <3> QED BY <2>3, <2>4, <3>1, <3>2, <3>3 DEF Unrouted
  <2>6. client.todo = Seg(h, c, Total(h) - c)
    BY <2>2 DEF HintCall
  <2>7. TypeInv /\ "hint" \in DOMAIN pipe /\ Room("hint") > 0 /\ b \in Nat /\ b <= c
          /\ pipe["hint"] = Seg(h, b, c - b) /\ Push("hint", Seg(h, c, Total(h) - c))
    BY <1>2, <2>3, <2>5, <2>6 DEF IInv, TypeInv, HintWrite
  <2>8. PICK n \in (c + 1) .. Total(h) : PushedTo("hint", h, b, c, Total(h), n)
    BY <2>3, <2>7, PushSeg
  <2>9. n \in 0 .. Total(h) /\ n \in Nat /\ c < n /\ n <= Total(h) /\ b <= n
    BY <2>3, <2>7, <2>8 DEF PushedTo
  <2>11. TypeInv'
    <3>1. \A q \in DOMAIN pipe' : Len(pipe'[q]) \in 0 .. Capacity
      BY <2>7, <2>8 DEF TypeInv, PushedTo
    <3>2. DOMAIN client' = {"pc", "arg", "todo", "got"}
      BY <1>2, <2>7 DEF HintWrite, TypeInv
    <3> QED BY <1>2, <2>7, <2>8, <3>1, <3>2 DEF HintWrite, TypeInv, PushedTo
  <2>13. client' = [pc |-> IF n < Total(h) THEN "hint_write" ELSE "hint_ack", arg |-> h,
                    todo |-> Seg(h, n, Total(h) - n), got |-> << >>]
    <3>1. client = [pc |-> "hint_write", arg |-> h, todo |-> Seg(h, c, Total(h) - c),
                    got |-> << >>]
      BY <2>2, <2>3 DEF HintCall
    <3>2. client' = [client EXCEPT !.todo = Seg(h, n, Total(h) - n),
                        !.pc = IF Seg(h, n, Total(h) - n) = << >> THEN "hint_ack" ELSE @]
      BY <1>2, <2>6, <2>8 DEF HintWrite, PushedTo
    <3> QED BY <2>8, <3>1, <3>2 DEF PushedTo
  <2>14. Unrouted(h, n)'
    <3>1. sent' = Append(routed', h) /\ pipe'["ack"] = << >> /\ hs' = hs
      BY <2>4, <2>7, <2>8 DEF Unrouted, HintWrite, TypeInv, PushedTo
    <3>2. CASE hs = HsReady /\ b = 0 /\ (c = 0 \/ c >= HeaderSize)
      <4>1. n >= HeaderSize /\ n - 0 = n
        BY <2>3, <2>8, <2>9, <3>2, Constants DEF PushedTo
      <4> QED BY <2>8, <3>1, <3>2, <4>1 DEF Unrouted, PushedTo
    <3>3. CASE b \in HeaderSize .. (Total(h) - 1) /\ hs = [pc |-> "payload", got |-> Seg(h, 0, b)]
      BY <2>5, <2>8, <2>9, <3>1, <3>3 DEF Unrouted, PushedTo
    <3>4. CASE hs = HsStopped
      <4>1. b \in 0 .. n
        BY <2>5, <2>9
      <4> QED BY <2>8, <3>1, <3>4, <4>1 DEF Unrouted, PushedTo
    <3> QED BY <2>5, <3>2, <3>3, <3>4
  <2>15. returned' = Len(sent') - 1 /\ GetQuiet'
    BY <1>2, <2>2, <2>7, <2>8 DEF HintCall, GetQuiet, PsAtRest, HintWrite, TypeInv, PushedTo
  <2>16. HintCall(h, n)'
    BY <2>13, <2>14, <2>15 DEF HintCall
  <2> QED BY <2>9, <2>11, <2>16 DEF IInv, CallInv
<1> QED BY <1>1, <1>2

(* Which of its bytes a pipe may lose or gain does not concern the types.  *)
LEMMA TypeStep ==
    ASSUME TypeInv, UNCHANGED <<serverUp, routed, torn>>, serverUp \/ UNCHANGED <<hs, ps>>,
           DOMAIN client' = {"pc", "arg", "todo", "got"}, returned' \in Nat,
           DOMAIN pipe' = DOMAIN pipe,
           NEW p \in DOMAIN pipe, \A q \in DOMAIN pipe : q # p => pipe'[q] = pipe[q],
           Len(pipe'[p]) \in 0 .. Capacity,
           answer' = answer \/ \E k \in Keys : answer' = [key |-> k, value |-> Payload(k)]
    PROVE  TypeInv'
<1>1. \A q \in DOMAIN pipe' : Len(pipe'[q]) \in 0 .. Capacity
  BY DEF TypeInv
<1> QED BY <1>1 DEF TypeInv

LEMMA HintAckStep ==
    ASSUME IInv, HintAck
    PROVE  IInv'
<1>1. CASE ~ ServerOpen /\ Fail
  BY <1>1, FailStep DEF HintAck, ServerOpen
<1>2. CASE ~ (~ ServerOpen /\ Fail)
  <2>1. PICK h \in Hints : \E c \in 0 .. Total(h) : HintCall(h, c)
    BY WhichCall DEF HintAck
  <2>2. PICK c \in 0 .. Total(h) : HintCall(h, c)
    BY <2>1
  <2>3. pipe["ack"] # << >> /\ Take("ack", 1) /\ TypeInv /\ "ack" \in DOMAIN pipe
          /\ client' = Idle /\ returned' = returned + 1
          /\ UNCHANGED <<hs, ps, serverUp, sent, routed, torn, answer>>
    BY <1>2 DEF HintAck, IInv, TypeInv
  <2>4. Routed(h, c) /\ HsAtRest /\ pipe["ack"] = Seg("ack", 0, 1 - 0)
    <3>1. Routed(h, c)
      BY <2>2, <2>3 DEF HintCall, Unrouted
    <3>2. HsAtRest /\ pipe["ack"] = AckByte
      BY <2>3, <3>1 DEF Routed, HsAtRest
    <3>3. 1 - 0 = 1
      OBVIOUS
    <3> QED BY <3>1, <3>2, <3>3 DEF AckByte
  <2>5. 0 \in Nat /\ 1 \in Nat /\ 1 \in Nat \ {0} /\ 0 < 1
    OBVIOUS
  <2>6. PICK n \in (0 + 1) .. 1 : TakenTo("ack", "ack", 0, 1, 1, n)
    BY <2>3, <2>4, <2>5, TakeSeg
  <2>7. n = 1
    OBVIOUS
  <2>8. pipe'["ack"] = << >> /\ DOMAIN pipe' = DOMAIN pipe /\ Len(pipe'["ack"]) \in 0 .. Capacity
          /\ \A q \in DOMAIN pipe : q # "ack" => pipe'[q] = pipe[q]
    BY <2>6, <2>7 DEF TakenTo
  <2>9. TypeInv'
    <3>1. DOMAIN client' = {"pc", "arg", "todo", "got"} /\ returned' \in Nat
      BY <2>3 DEF Idle, TypeInv
    <3> QED BY <2>3, <2>8, <3>1, TypeStep
  <2>10. sent = routed /\ returned = Len(sent) - 1 /\ Len(sent) \in Nat
    BY <2>2, <2>3, <2>4 DEF HintCall, Routed, TypeInv
  <2>11. HintQuiet'
    BY <2>3, <2>4, <2>8 DEF HintQuiet, Routed, HsAtRest, TypeInv
  <2>12. GetQuiet'
    BY <2>2, <2>3, <2>8 DEF GetQuiet, HintCall, PsAtRest, TypeInv
  <2>13. NoCall'
    BY <2>3, <2>10, <2>11, <2>12 DEF NoCall
  <2> QED BY <2>9, <2>13 DEF IInv, CallInv
<1> QED BY <1>1, <1>2

LEMMA GetStep ==
    ASSUME IInv, NEW k \in Keys, Get(k)
    PROVE  IInv'
<1>1. NoCall /\ TypeInv
  BY WhichCall DEF Get, IInv
<1>2. TypeInv'
  BY <1>1 DEF Get, TypeInv
<1>3. KeySize \in Nat /\ 0 < KeySize /\ 0 \in 0 .. KeySize /\ 0 \in 0 .. 0 /\ KeySize - 0 = KeySize
        /\ 0 - 0 = 0
  BY Constants
<1>4. Message(k, KeySize) = Seg(k, 0, KeySize)
  BY <1>3, SegAll
<1>5. client' = [pc |-> "get_write", arg |-> k, todo |-> Seg(k, 0, KeySize - 0), got |-> << >>]
  BY <1>3, <1>4 DEF Get
<1>6. pipe'["key"] = Seg(k, 0, 0) /\ pipe'["value"] = << >>
  BY <1>1, SegNone DEF Get, NoCall, GetQuiet
<1>7. ps' = [pc |-> "key", got |-> Seg(k, 0, 0), todo |-> << >>] \/ ps' = PsStopped
  BY <1>1, SegNone DEF Get, NoCall, GetQuiet, PsAtRest, PsReady
<1>8. KeyCall(k, 0, 0)'
  BY <1>3, <1>5, <1>6, <1>7 DEF KeyCall
<1>9. HintQuiet' /\ sent' = routed' /\ returned' = Len(sent')
  BY <1>1 DEF Get, NoCall, HintQuiet, HsAtRest
<1>10. GetCall(k)'
  BY <1>3, <1>8, <1>9 DEF GetCall
<1> QED BY <1>2, <1>10 DEF IInv, CallInv

LEMMA CloseStep ==
    ASSUME IInv, Close
    PROVE  IInv'
<1>1. TypeInv'
  BY DEF IInv, TypeInv, Close
<1>2. client'.pc = "closed"
  BY DEF IInv, TypeInv, Close
<1>3. CASE NoCall
  BY <1>1, <1>2, <1>3 DEF NoCall, Over, HintQuiet, GetQuiet, HsAtRest, PsAtRest, Close, IInv,
                          CallInv, TypeInv
<1>4. CASE Over
  BY <1>1, <1>2, <1>4 DEF Over, HintQuiet, GetQuiet, HsAtRest, PsAtRest, Close, IInv, CallInv
<1> QED BY <1>3, <1>4, WhichCall DEF Close

LEMMA GetWriteStep ==
    ASSUME IInv, GetWrite
    PROVE  IInv'
<1>1. CASE ~ ServerOpen /\ Fail
  BY <1>1, FailStep DEF GetWrite, ServerOpen
<1>2. CASE ~ (~ ServerOpen /\ Fail)
  <2>1. PICK k \in Keys : GetCall(k)
    BY WhichCall DEF GetWrite
  <2>2. PICK c \in 0 .. KeySize : \E b \in 0 .. c : KeyCall(k, b, c)
    BY <2>1 DEF GetCall, ValueCall, GetWrite
  <2>3. PICK b \in 0 .. c : KeyCall(k, b, c)
    BY <2>2
  <2>4. KeySize \in Nat /\ c < KeySize /\ c \in Nat /\ b \in Nat /\ b <= c
    BY <2>3, Constants DEF KeyCall, GetWrite
  <2>5. client = [pc |-> "get_write", arg |-> k, todo |-> Seg(k, c, KeySize - c), got |-> << >>]
    BY <2>3, <2>4 DEF KeyCall
  <2>6. client.todo = Seg(k, c, KeySize - c)
    BY <2>5
  <2>7. TypeInv /\ "key" \in DOMAIN pipe /\ Room("key") > 0 /\ pipe["key"] = Seg(k, b, c - b)
          /\ Push("key", Seg(k, c, KeySize - c))
    BY <1>2, <2>3, <2>6 DEF IInv, TypeInv, GetWrite, KeyCall
  <2>8. PICK n \in (c + 1) .. KeySize : PushedTo("key", k, b, c, KeySize, n)
    BY <2>4, <2>7, PushSeg
  <2>9. n \in 0 .. KeySize /\ b \in 0 .. n
    BY <2>4, <2>8 DEF PushedTo
  <2>10. client' = [client EXCEPT !.todo = Seg(k, n, KeySize - n),
                        !.pc = IF Seg(k, n, KeySize - n) = << >> THEN "get_length" ELSE @]
    BY <1>2, <2>6, <2>8 DEF GetWrite, PushedTo
  <2>11. client' = [pc |-> IF n < KeySize THEN "get_write" ELSE "get_length", arg |-> k,
                    todo |-> Seg(k, n, KeySize - n), got |-> << >>]
    BY <2>5, <2>8, <2>10 DEF PushedTo
  <2>12. UNCHANGED <<hs, ps, serverUp, sent, returned, routed, answer, torn>>
    BY <1>2 DEF GetWrite
  <2>13. TypeInv'
    <3>1. DOMAIN client' = {"pc", "arg", "todo", "got"} /\ returned' \in Nat
      BY <2>7, <2>11, <2>12 DEF TypeInv
    <3>2. DOMAIN pipe' = DOMAIN pipe /\ Len(pipe'["key"]) \in 0 .. Capacity
            /\ \A q \in DOMAIN pipe : q # "key" => pipe'[q] = pipe[q]
      BY <2>8 DEF PushedTo
    <3> QED BY <2>7, <2>12, <3>1, <3>2, TypeStep
  <2>14. KeyCall(k, b, n)'
    <3>1. pipe'["value"] = << >> /\ pipe'["key"] = Seg(k, b, n - b)
      BY <2>3, <2>7, <2>8 DEF KeyCall, PushedTo, TypeInv
    <3> QED BY <2>3, <2>11, <2>12, <3>1 DEF KeyCall
  <2>15. sent' = routed' /\ returned' = Len(sent') /\ HintQuiet'
    BY <2>1, <2>7, <2>8, <2>12 DEF GetCall, HintQuiet, HsAtRest, PushedTo, TypeInv
  <2>16. GetCall(k)'
    BY <2>9, <2>14, <2>15 DEF GetCall
  <2> QED BY <2>13, <2>16 DEF IInv, CallInv
<1> QED BY <1>1, <1>2

(* What the caller of get() sees of a read: nothing, or the answer.        *)
ReadEffect ==
    \/ UNCHANGED answer /\ client'.pc \in {"get_length", "get_payload"} /\ client'.arg = client.arg
    \/ /\ client' = Idle /\ client.arg \in Keys
       /\ answer' = [key |-> client.arg, value |-> Payload(client.arg)]

(* A read of the client takes bytes d to n of the answer out of the pipe.  *)
LEMMA ValueRead ==
    ASSUME IInv, NEW k \in Keys, GetCall(k), NEW e \in 0 .. Total(k), NEW d \in 0 .. e,
           ValueCall(k, d, e), NEW m \in Nat \ {0}, NEW n \in Nat,
           TakenTo("value", k, d, e, m, n),
           UNCHANGED <<hs, ps, serverUp, sent, returned, routed, torn>>,
           \/ /\ n < Total(k) /\ UNCHANGED answer
              /\ client' = [pc |-> IF n < HeaderSize THEN "get_length" ELSE "get_payload",
                            arg |-> k, todo |-> << >>, got |-> Seg(k, 0, n)]
           \/ /\ n = Total(k) /\ client' = Idle
              /\ answer' = [key |-> k, value |-> Payload(k)]
    PROVE  IInv' /\ ReadEffect
<1>1. TypeInv /\ Total(k) \in Nat /\ Total(k) >= HeaderSize /\ HeaderSize \in Nat \ {0}
        /\ e \in Nat /\ d \in Nat /\ e <= Total(k)
  BY Constants DEF IInv
<1>2. d < n /\ n <= e /\ pipe'["value"] = Seg(k, n, e - n) /\ (n = e => pipe'["value"] = << >>)
        /\ DOMAIN pipe' = DOMAIN pipe /\ Len(pipe'["value"]) \in 0 .. Capacity
        /\ \A q \in DOMAIN pipe : q # "value" => pipe'[q] = pipe[q]
  BY DEF TakenTo
<1>3. "value" \in DOMAIN pipe /\ pipe'["key"] = pipe["key"]
        /\ pipe'["hint"] = pipe["hint"] /\ pipe'["ack"] = pipe["ack"]
  BY <1>1, <1>2 DEF TypeInv
<1>4. TypeInv'
  <2>1. DOMAIN client' = {"pc", "arg", "todo", "got"} /\ returned' \in Nat
    BY <1>1 DEF Idle, TypeInv
  <2>2. answer' = answer \/ \E j \in Keys : answer' = [key |-> j, value |-> Payload(j)]
    OBVIOUS
  <2> QED BY <1>1, <1>2, <1>3, <2>1, <2>2, TypeStep
<1>5. sent' = routed' /\ returned' = Len(sent') /\ HintQuiet'
  BY <1>3 DEF GetCall, HintQuiet, HsAtRest
<1>6. client.arg = k
  BY DEF ValueCall
<1>7. ReadEffect
  BY <1>6 DEF ReadEffect
<1>8. CASE n < Total(k)
  <2>1. client' = [pc |-> IF n < HeaderSize THEN "get_length" ELSE "get_payload",
                   arg |-> k, todo |-> << >>, got |-> Seg(k, 0, n)]
    BY <1>1, <1>8
  <2>2. ValueCall(k, n, e)'
    BY <1>2, <1>3, <1>8, <2>1 DEF ValueCall
  <2>3. n \in 0 .. e
    BY <1>1, <1>2
  <2> QED BY <1>4, <1>5, <1>7, <2>2, <2>3 DEF GetCall, CallInv, IInv
<1>9. CASE n = Total(k)
  <2>1. e = Total(k) /\ n = e /\ e # 0 /\ ~ (e < HeaderSize)
    BY <1>1, <1>2, <1>9
  <2>2. PsAtRest
    BY <1>1, <2>1 DEF ValueCall, PsAtRest
  <2>3. GetQuiet'
    BY <1>2, <1>3, <2>1, <2>2 DEF GetQuiet, PsAtRest, ValueCall
  <2>4. client' = Idle
    BY <1>1, <1>9
  <2> QED BY <1>4, <1>5, <1>7, <2>3, <2>4 DEF NoCall, CallInv, IInv
<1> QED BY <1>8, <1>9

LEMMA GetLengthStep ==
    ASSUME IInv, GetLength
    PROVE  IInv' /\ ((~ ServerOpen /\ Fail) \/ ReadEffect)
<1>1. CASE ~ ServerOpen /\ Fail
  BY <1>1, FailStep DEF GetLength, ServerOpen
<1>2. CASE ~ (~ ServerOpen /\ Fail)
  <2>1. PICK k \in Keys : GetCall(k)
    BY WhichCall DEF GetLength
  <2>2. pipe["value"] # << >> /\ Take("value", HeaderSize - Len(client.got))
          /\ UNCHANGED <<hs, ps, serverUp, sent, returned, routed, torn>>
    BY <1>2 DEF GetLength
  <2>3. PICK e \in 0 .. Total(k) : \E d \in 0 .. e : ValueCall(k, d, e)
    BY <2>1, <2>2 DEF GetCall, KeyCall
  <2>4. PICK d \in 0 .. e : ValueCall(k, d, e)
    BY <2>3
  <2>5. HeaderSize \in Nat \ {0} /\ Total(k) = HeaderSize + Size[k] /\ Size[k] \in Nat
          /\ e \in Nat /\ d \in Nat /\ d <= e /\ e <= Total(k)
    BY Constants
  <2>6. d < HeaderSize /\ client = [pc |-> "get_length", arg |-> k, todo |-> << >>,
                                    got |-> Seg(k, 0, d)]
    BY <2>4, <2>5 DEF ValueCall, GetLength
  <2>7. client.got = Seg(k, 0, d) /\ Len(client.got) = d /\ client.arg = k
    BY <2>5, <2>6, SegType
  <2>8. pipe["value"] = Seg(k, d, e - d) /\ d < e
    <3>1. pipe["value"] = Seg(k, d, e - d)
      BY <2>4 DEF ValueCall
    <3>2. d = e => e - d = 0
      BY <2>5
    <3> QED BY <2>2, <2>5, <3>1, <3>2, SegNone
  <2> DEFINE m == HeaderSize - d
  <2>9. m \in Nat \ {0} /\ Take("value", m) /\ TypeInv /\ "value" \in DOMAIN pipe
    BY <2>2, <2>5, <2>6, <2>7 DEF IInv, TypeInv
  <2>10. d + m = HeaderSize
    BY <2>5
  <2>11. Taken("value", HeaderSize - Len(client.got)) = Taken("value", m)
    BY <2>7
  <2> HIDE DEF m
  <2>12. PICK n \in (d + 1) .. e : TakenTo("value", k, d, e, m, n)
    BY <2>5, <2>8, <2>9, TakeSeg
  <2>13. n \in Nat /\ n <= HeaderSize /\ d < n /\ n <= e
    BY <2>10, <2>12 DEF TakenTo
  <2> DEFINE got == client.got \o Taken("value", HeaderSize - Len(client.got))
  <2>14. got = Seg(k, 0, n) /\ Len(got) = n
    BY <2>7, <2>11, <2>12 DEF TakenTo
  <2>15. Subject(got) = k
    <3>1. n \in Nat \ {0}
      BY <2>5, <2>13
    <3>2. Subject(Seg(k, 0, n)) = k
      BY <3>1, SegSubject
    <3> QED BY <2>14, <3>2
  <2>16. \/ Len(got) < HeaderSize /\ client' = [client EXCEPT !.got = got] /\ UNCHANGED answer
         \/ Len(got) = HeaderSize /\ Size[Subject(got)] = 0 /\ GetReturn(<< >>)
         \/ /\ Len(got) = HeaderSize /\ Size[Subject(got)] > 0
            /\ client' = [client EXCEPT !.pc = "get_payload", !.got = got]
            /\ UNCHANGED answer
    BY <1>2 DEF GetLength
  <2> HIDE DEF got
  <2>17. CASE Len(got) < HeaderSize /\ client' = [client EXCEPT !.got = got] /\ UNCHANGED answer
    <3>1. n < Total(k) /\ n < HeaderSize
      BY <2>5, <2>14, <2>17
    <3>2. client' = [pc |-> "get_length", arg |-> k, todo |-> << >>, got |-> Seg(k, 0, n)]
      BY <2>6, <2>14, <2>17
    <3> QED BY <2>1, <2>2, <2>4, <2>9, <2>12, <2>13, <2>17, <3>1, <3>2, ValueRead
  <2>18. CASE Len(got) = HeaderSize /\ Size[Subject(got)] = 0 /\ GetReturn(<< >>)
    <3>1. n = Total(k)
      BY <2>5, <2>14, <2>15, <2>18
    <3>2. << >> = Payload(k)
      BY <2>15, <2>18, SegAll, SegNone
    <3>3. client' = Idle /\ answer' = [key |-> k, value |-> Payload(k)]
      BY <2>7, <2>18, <3>2 DEF GetReturn
    <3> QED BY <2>1, <2>2, <2>4, <2>9, <2>12, <2>13, <3>1, <3>3, ValueRead
  <2>19. CASE /\ Len(got) = HeaderSize /\ Size[Subject(got)] > 0
              /\ client' = [client EXCEPT !.pc = "get_payload", !.got = got]
              /\ UNCHANGED answer
    <3>1. n < Total(k) /\ ~ (n < HeaderSize)
      BY <2>5, <2>14, <2>15, <2>19
    <3>2. client' = [pc |-> "get_payload", arg |-> k, todo |-> << >>, got |-> Seg(k, 0, n)]
      BY <2>6, <2>14, <2>19
    <3> QED BY <2>1, <2>2, <2>4, <2>9, <2>12, <2>13, <2>19, <3>1, <3>2, ValueRead
  <2> QED BY <2>16, <2>17, <2>18, <2>19
<1> QED BY <1>1, <1>2

LEMMA GetPayloadStep ==
    ASSUME IInv, GetPayload
    PROVE  IInv' /\ ((~ ServerOpen /\ Fail) \/ ReadEffect)
<1>1. CASE ~ ServerOpen /\ Fail
  BY <1>1, FailStep DEF GetPayload, ServerOpen
<1>2. CASE ~ (~ ServerOpen /\ Fail)
  <2>1. PICK k \in Keys : GetCall(k)
    BY WhichCall DEF GetPayload
  <2>2. PICK e \in 0 .. Total(k) : \E d \in 0 .. e : ValueCall(k, d, e)
    BY <2>1 DEF GetCall, KeyCall, GetPayload
  <2>3. PICK d \in 0 .. e : ValueCall(k, d, e)
    BY <2>2
  <2>4. HeaderSize \in Nat \ {0} /\ Total(k) = HeaderSize + Size[k] /\ Size[k] \in Nat
          /\ e \in Nat /\ d \in Nat /\ d <= e /\ e <= Total(k) /\ d < Total(k)
    BY <2>3, Constants DEF ValueCall
  <2>5. d >= HeaderSize /\ client = [pc |-> "get_payload", arg |-> k, todo |-> << >>,
                                    got |-> Seg(k, 0, d)]
    BY <2>3, <2>4 DEF ValueCall, GetPayload
  <2>6. client.got = Seg(k, 0, d) /\ Len(client.got) = d /\ client.arg = k
          /\ Subject(client.got) = k
    <3>1. d \in Nat \ {0}
      BY <2>4, <2>5
    <3> QED BY <2>4, <2>5, <3>1, SegType, SegSubject
  <2> DEFINE left == HeaderSize + Size[Subject(client.got)] - Len(client.got)
             got  == client.got \o Taken("value", left)
             m    == Total(k) - d
  <2>7. left = m /\ m \in Nat \ {0} /\ d + m = Total(k)
    BY <2>4, <2>6
  <2>8. /\ pipe["value"] # << >>
        /\ IF Len(got) < Len(client.got) + left
           THEN client' = [client EXCEPT !.got = got] /\ UNCHANGED answer
           ELSE GetReturn(SubSeq(got, HeaderSize + 1, Len(got)))
        /\ Take("value", left)
        /\ UNCHANGED <<hs, ps, serverUp, sent, returned, routed, torn>>
    BY <1>2 DEF GetPayload
  <2>9. Take("value", m) /\ TypeInv /\ "value" \in DOMAIN pipe
    BY <2>7, <2>8 DEF IInv, TypeInv
  <2>10. pipe["value"] = Seg(k, d, e - d) /\ d < e
    <3>1. pipe["value"] = Seg(k, d, e - d)
      BY <2>3 DEF ValueCall
    <3>2. d = e => e - d = 0
      BY <2>4
    <3> QED BY <2>4, <2>8, <3>1, <3>2, SegNone
  <2>11. got = client.got \o Taken("value", m)
    BY <2>7
  <2>12. IF Len(got) < d + m
         THEN client' = [client EXCEPT !.got = got] /\ UNCHANGED answer
         ELSE GetReturn(SubSeq(got, HeaderSize + 1, Len(got)))
    BY <2>6, <2>7, <2>8
  <2> HIDE DEF m, got, left
  <2>13. PICK n \in (d + 1) .. e : TakenTo("value", k, d, e, m, n)
    BY <2>4, <2>7, <2>9, <2>10, TakeSeg
  <2>14. n \in Nat /\ d < n /\ n <= e /\ n <= Total(k)
    BY <2>4, <2>13 DEF TakenTo
  <2>15. got = Seg(k, 0, n) /\ Len(got) = n
    BY <2>6, <2>11, <2>13 DEF TakenTo
  <2>16. CASE n < Total(k)
    <3>1. client' = [client EXCEPT !.got = got] /\ UNCHANGED answer
      BY <2>7, <2>12, <2>15, <2>16
    <3>2. ~ (n < HeaderSize)
      BY <2>4, <2>5, <2>14
    <3>3. client' = [pc |-> "get_payload", arg |-> k, todo |-> << >>, got |-> Seg(k, 0, n)]
      BY <2>5, <2>15, <3>1
    <3> QED BY <2>1, <2>3, <2>7, <2>8, <2>13, <2>14, <2>16, <3>1, <3>2, <3>3, ValueRead
  <2>17. CASE n = Total(k)
    <3>1. GetReturn(SubSeq(got, HeaderSize + 1, Len(got)))
      BY <2>7, <2>12, <2>15, <2>17, <2>4
    <3>2. HeaderSize \in 0 .. n /\ n - HeaderSize = Size[k] /\ 0 + HeaderSize = HeaderSize
      BY <2>4, <2>17
    <3>3. SubSeq(Seg(k, 0, n), HeaderSize + 1, n) = Seg(k, 0 + HeaderSize, n - HeaderSize)
      BY <2>14, <3>2, SegSub
    <3>4. SubSeq(got, HeaderSize + 1, Len(got)) = Payload(k)
      BY <2>15, <3>2, <3>3, SegAll
    <3>5. client' = Idle /\ answer' = [key |-> k, value |-> Payload(k)]
      BY <2>6, <3>1, <3>4 DEF GetReturn
    <3> QED BY <2>1, <2>3, <2>7, <2>8, <2>13, <2>14, <2>17, <3>5, ValueRead
  <2> QED BY <2>4, <2>14, <2>16, <2>17
<1> QED BY <1>1, <1>2

-----------------------------------------------------------------------------
(* The loop around next_hint.                                              *)

(* A client that is there has nothing for a reader that is at the start of *)
(* a message, unless it makes the call the reader serves.                  *)
LEMMA HsReading ==
    ASSUME IInv, serverUp, HsRead("hint"), hs.pc \in {"length", "payload"}
    PROVE  \/ /\ ClientOpen /\ pipe["hint"] # << >>
              /\ \E h \in Hints : \E c \in 0 .. Total(h) : HintCall(h, c) /\ Unrouted(h, c)
           \/ Over /\ ~ ClientOpen /\ pipe["hint"] = << >> /\ hs = HsReady
<1>1. CASE NoCall
  BY <1>1 DEF NoCall, HintQuiet, HsRead, ClientOpen, Idle
<1>2. ASSUME NEW h \in Hints, NEW c \in 0 .. Total(h), HintCall(h, c)
      PROVE  ClientOpen /\ pipe["hint"] # << >> /\ Unrouted(h, c)
  <2>1. ClientOpen
    BY <1>2 DEF HintCall, ClientOpen
  <2>2. pipe["hint"] # << >>
    BY <2>1 DEF HsRead
  <2> QED BY <1>2, <2>1, <2>2 DEF HintCall, Routed
<1>3. ASSUME NEW k \in Keys, GetCall(k)
      PROVE  FALSE
  <2>1. ClientOpen
    BY <1>3 DEF GetCall, KeyCall, ValueCall, ClientOpen
  <2> QED BY <1>3, <2>1 DEF GetCall, HintQuiet, HsRead
<1>4. CASE Over
  <2>1. client.pc = "closed" /\ HintQuiet
    BY <1>4 DEF Over
  <2> QED BY <1>4, <2>1 DEF HintQuiet, HsAtRest, HsReady, HsStopped, ClientOpen
<1> QED BY <1>1, <1>2, <1>3, <1>4 DEF IInv, CallInv

LEMMA HsLengthStep ==
    ASSUME IInv, HsLength
    PROVE  IInv'
<1>1. serverUp /\ hs.pc = "length" /\ HsRead("hint") /\ Take("hint", HeaderSize)
        /\ UNCHANGED <<client, ps, serverUp, sent, returned, routed, answer>>
        /\ TypeInv /\ "hint" \in DOMAIN pipe
  BY DEF HsLength, IInv, TypeInv
<1> DEFINE got == Taken("hint", HeaderSize)
<1>2. /\ hs' = IF Len(got) < HeaderSize
               THEN HsStopped
               ELSE [pc |-> IF Size[Subject(got)] = 0 THEN "route" ELSE "payload", got |-> got]
      /\ torn' = (torn \/ Len(got) \in 1 .. (HeaderSize - 1))
  BY DEF HsLength, HsStopped
<1> HIDE DEF got
<1>3. HeaderSize \in Nat \ {0}
  BY Constants
<1>4. DOMAIN client' = {"pc", "arg", "todo", "got"} /\ returned' \in Nat
  BY <1>1 DEF TypeInv
<1>5. CASE Over /\ ~ ClientOpen /\ pipe["hint"] = << >> /\ hs = HsReady
  <2>1. got = << >> /\ DOMAIN pipe' = DOMAIN pipe /\ \A q \in DOMAIN pipe : pipe'[q] = pipe[q]
    BY <1>1, <1>3, <1>5, TakeNone DEF got
  <2>2. Len(got) = 0
    BY <2>1
  <2>3. hs' = HsStopped /\ torn' = torn
    <3>1. Len(got) < HeaderSize /\ ~ (Len(got) \in 1 .. (HeaderSize - 1))
      BY <1>3, <2>2
    <3>2. torn' = torn
      BY <1>1, <1>2, <3>1 DEF TypeInv
    <3> QED BY <1>2, <3>1, <3>2
  <2>4. Len(pipe'["hint"]) \in 0 .. Capacity
    BY <1>1, <2>1 DEF TypeInv
  <2>5. TypeInv'
    BY <1>1, <1>4, <2>1, <2>3, <2>4, TypeStep
  <2>6. Over'
    BY <1>1, <1>5, <2>1, <2>3 DEF Over, HintQuiet, GetQuiet, HsAtRest, PsAtRest, TypeInv
  <2> QED BY <2>5, <2>6 DEF IInv, CallInv
<1>6. ASSUME NEW h \in Hints, NEW c \in 0 .. Total(h), HintCall(h, c), Unrouted(h, c),
             pipe["hint"] # << >>
      PROVE  IInv'
  <2>1. pipe["hint"] = Seg(h, 0, c) /\ (c = 0 \/ c >= HeaderSize)
    BY <1>1, <1>6 DEF Unrouted, HsStopped
  <2>2. c \in Nat /\ c >= HeaderSize /\ 0 < c /\ c - 0 = c /\ 0 \in Nat
          /\ Total(h) = HeaderSize + Size[h] /\ Size[h] \in Nat /\ c <= Total(h)
    BY <1>3, <1>6, <2>1, SegNone, Constants
  <2>3. PICK n \in (0 + 1) .. c : TakenTo("hint", h, 0, c, HeaderSize, n)
    BY <1>1, <1>3, <2>1, <2>2, TakeSeg
  <2>4. n = HeaderSize /\ n \in Nat
    BY <1>3, <2>2, <2>3 DEF TakenTo
  <2>5. got = Seg(h, 0, n) /\ Len(got) = n /\ Subject(got) = h
    <3>1. got = Seg(h, 0, n) /\ Len(Seg(h, 0, n)) = n
      BY <2>3 DEF TakenTo, got
    <3>2. Subject(Seg(h, 0, n)) = h
      BY <1>3, <2>4, SegSubject
    <3> QED BY <3>1, <3>2
  <2>6. /\ torn' = torn
        /\ hs' = [pc |-> IF Size[h] = 0 THEN "route" ELSE "payload", got |-> Seg(h, 0, n)]
    <3>1. ~ (Len(got) < HeaderSize) /\ ~ (Len(got) \in 1 .. (HeaderSize - 1))
      BY <1>3, <2>4, <2>5
    <3>2. torn' = torn
      BY <1>1, <1>2, <3>1 DEF TypeInv
    <3>3. hs' = [pc |-> IF Size[h] = 0 THEN "route" ELSE "payload", got |-> Seg(h, 0, n)]
      BY <1>2, <2>5, <3>1
    <3> QED BY <3>2, <3>3
  <2>7. pipe'["hint"] = Seg(h, n, c - n) /\ (n = c => pipe'["hint"] = << >>)
          /\ DOMAIN pipe' = DOMAIN pipe /\ Len(pipe'["hint"]) \in 0 .. Capacity
          /\ \A q \in DOMAIN pipe : q # "hint" => pipe'[q] = pipe[q]
    BY <2>3 DEF TakenTo
  <2>8. TypeInv'
    BY <1>1, <1>4, <2>6, <2>7, TypeStep
  <2>9. sent' = Append(routed', h) /\ pipe'["ack"] = << >>
    BY <1>1, <1>6, <2>7 DEF Unrouted, TypeInv
  <2>10. Unrouted(h, c)'
    <3>1. CASE Size[h] = 0
      <4>1. c = Total(h) /\ n = c
        BY <2>2, <2>4, <3>1
      <4> QED BY <2>6, <2>7, <2>9, <3>1, <4>1 DEF Unrouted
    <3>2. CASE Size[h] # 0
      <4>1. n \in HeaderSize .. (Total(h) - 1) /\ n <= c
        BY <1>3, <2>2, <2>4, <3>2
      <4> QED BY <2>6, <2>7, <2>9, <3>2, <4>1 DEF Unrouted
    <3> QED BY <3>1, <3>2
  <2>11. HintCall(h, c)'
    BY <1>1, <1>6, <2>7, <2>10 DEF HintCall, GetQuiet, PsAtRest, TypeInv
  <2> QED BY <2>8, <2>11 DEF IInv, CallInv
<1> QED BY <1>1, <1>5, <1>6, HsReading

LEMMA HsPayloadStep ==
    ASSUME IInv, HsPayload
    PROVE  IInv'
<1>1. serverUp /\ hs.pc = "payload" /\ HsRead("hint") /\ TypeInv /\ "hint" \in DOMAIN pipe
        /\ UNCHANGED <<client, ps, serverUp, sent, returned, routed, answer, torn>>
  BY DEF HsPayload, IInv, TypeInv
<1>2. PICK h \in Hints : \E c \in 0 .. Total(h) : HintCall(h, c) /\ Unrouted(h, c)
  BY <1>1, HsReading DEF HsReady
<1>3. PICK c \in 0 .. Total(h) : HintCall(h, c) /\ Unrouted(h, c)
  BY <1>2
<1>4. pipe["hint"] # << >>
  BY <1>1, HsReading DEF HsReady
<1>5. PICK b \in HeaderSize .. (Total(h) - 1) :
             /\ b <= c
             /\ hs = [pc |-> "payload", got |-> Seg(h, 0, b)]
             /\ pipe["hint"] = Seg(h, b, c - b)
  BY <1>1, <1>3 DEF Unrouted, HsReady, HsStopped
<1>6. c \in Nat /\ c <= Total(h) /\ b \in Nat \ {0} /\ b < Total(h) /\ Total(h) \in Nat
        /\ Total(h) = HeaderSize + Size[h] /\ Size[h] \in Nat /\ HeaderSize \in Nat
  BY <1>5, Constants
<1>7. b < c
  <2>1. b = c => c - b = 0
    BY <1>6
  <2> QED BY <1>4, <1>5, <1>6, <2>1, SegNone
<1>8. Subject(hs.got) = h /\ Len(hs.got) = b /\ hs.got = Seg(h, 0, b)
  <2>1. Subject(Seg(h, 0, b)) = h /\ Len(Seg(h, 0, b)) = b
    BY <1>6, SegSubject, SegType
  <2> QED BY <1>5, <2>1
<1> DEFINE left == HeaderSize + Size[Subject(hs.got)] - Len(hs.got)
           got  == hs.got \o Taken("hint", left)
           m    == Total(h) - b
<1>9. left = m /\ m \in Nat \ {0} /\ b + m = Total(h)
  BY <1>6, <1>8
<1>10. /\ Take("hint", left)
       /\ hs' = [pc |-> IF Len(got) = Len(hs.got) + left THEN "route" ELSE "payload", got |-> got]
  BY <1>4 DEF HsPayload
<1>11. Take("hint", m)
  BY <1>9, <1>10
<1>12. got = Seg(h, 0, b) \o Taken("hint", m)
  BY <1>8, <1>9
<1>13. hs' = [pc |-> IF Len(got) = Total(h) THEN "route" ELSE "payload", got |-> got]
  BY <1>8, <1>9, <1>10
<1> HIDE DEF m, got, left
<1>14. PICK n \in (b + 1) .. c : TakenTo("hint", h, b, c, m, n)
  BY <1>1, <1>5, <1>6, <1>7, <1>9, <1>11, TakeSeg
<1>15. n \in Nat /\ b < n /\ n <= c /\ n <= Total(h) /\ got = Seg(h, 0, n) /\ Len(got) = n
  <2>1. n \in Nat /\ b < n /\ n <= c /\ Len(Seg(h, 0, n)) = n
          /\ Seg(h, 0, b) \o Taken("hint", m) = Seg(h, 0, n)
    BY <1>14 DEF TakenTo
  <2>2. n <= Total(h)
    BY <1>6, <2>1
  <2> QED BY <1>12, <2>1, <2>2
<1>16. hs' = [pc |-> IF n = Total(h) THEN "route" ELSE "payload", got |-> Seg(h, 0, n)]
  BY <1>13, <1>15
<1>17. pipe'["hint"] = Seg(h, n, c - n) /\ (n = c => pipe'["hint"] = << >>)
         /\ DOMAIN pipe' = DOMAIN pipe /\ Len(pipe'["hint"]) \in 0 .. Capacity
         /\ \A q \in DOMAIN pipe : q # "hint" => pipe'[q] = pipe[q]
  BY <1>14 DEF TakenTo
<1>18. TypeInv'
  <2>1. DOMAIN client' = {"pc", "arg", "todo", "got"} /\ returned' \in Nat
    BY <1>1 DEF TypeInv
  <2> QED BY <1>1, <1>17, <2>1, TypeStep
<1>19. sent' = Append(routed', h) /\ pipe'["ack"] = << >>
  BY <1>1, <1>3, <1>17 DEF Unrouted, TypeInv
<1>20. Unrouted(h, c)'
  <2>1. CASE n = Total(h)
    <3>1. c = Total(h) /\ n = c
      BY <1>6, <1>15, <2>1
    <3> QED BY <1>16, <1>17, <1>19, <2>1, <3>1 DEF Unrouted
  <2>2. CASE n # Total(h)
    <3>1. n \in HeaderSize .. (Total(h) - 1)
      BY <1>5, <1>6, <1>15, <2>2
    <3> QED BY <1>15, <1>16, <1>17, <1>19, <2>2, <3>1 DEF Unrouted
  <2> QED BY <2>1, <2>2
<1>21. HintCall(h, c)'
  BY <1>1, <1>3, <1>17, <1>20 DEF HintCall, GetQuiet, PsAtRest, TypeInv
<1> QED BY <1>18, <1>21 DEF IInv, CallInv

LEMMA HsRouteStep ==
    ASSUME IInv, HsRoute
    PROVE  IInv'
<1>1. serverUp /\ hs.pc = "route" /\ TypeInv
        /\ UNCHANGED <<client, ps, pipe, serverUp, sent, returned, answer, torn>>
        /\ routed' = Append(routed, Subject(hs.got))
        /\ \E pc \in {"ack", "ack_error"} : hs' = [pc |-> pc, got |-> << >>]
  BY DEF HsRoute, IInv
<1>2. PICK h \in Hints : \E c \in 0 .. Total(h) : HintCall(h, c)
  <2>1. ~ HsAtRest
    BY <1>1 DEF HsAtRest, HsReady, HsStopped
  <2> QED BY <1>1, <2>1 DEF IInv, CallInv, NoCall, GetCall, HintQuiet, Over
<1>3. PICK c \in 0 .. Total(h) : HintCall(h, c)
  BY <1>2
<1>4. /\ c = Total(h) /\ hs = [pc |-> "route", got |-> Seg(h, 0, c)] /\ pipe["hint"] = << >>
      /\ sent = Append(routed, h) /\ pipe["ack"] = << >>
  BY <1>1, <1>3 DEF HintCall, Unrouted, Routed, HsReady, HsStopped
<1>5. Subject(hs.got) = h
  <2>1. c \in Nat \ {0}
    BY <1>4, Constants
  <2>2. Subject(Seg(h, 0, c)) = h
    BY <2>1, SegSubject
  <2> QED BY <1>4, <2>2
<1>6. routed' = sent /\ routed' \in Seq(Hints)
  BY <1>1, <1>4, <1>5 DEF TypeInv
<1>7. TypeInv'
  BY <1>1, <1>6 DEF TypeInv
<1>8. Routed(h, c)'
  BY <1>1, <1>4, <1>6 DEF Routed
<1>9. HintCall(h, c)'
  BY <1>1, <1>3, <1>8 DEF HintCall, GetQuiet, PsAtRest
<1> QED BY <1>7, <1>9 DEF IInv, CallInv

LEMMA HsAckStep ==
    ASSUME IInv, HsAck
    PROVE  IInv'
<1>1. serverUp /\ hs.pc \in {"ack", "ack_error"} /\ TypeInv /\ "ack" \in DOMAIN pipe
        /\ UNCHANGED <<client, ps, serverUp, sent, returned, routed, answer, torn>>
        /\ hs' \in {HsReady, HsStopped}
  BY DEF HsAck, IInv, TypeInv, HsStopped
<1>2. PICK h \in Hints : \E c \in 0 .. Total(h) : HintCall(h, c)
  <2>1. ~ HsAtRest
    BY <1>1 DEF HsAtRest, HsReady, HsStopped
  <2> QED BY <1>1, <2>1 DEF IInv, CallInv, NoCall, GetCall, HintQuiet, Over
<1>3. PICK c \in 0 .. Total(h) : HintCall(h, c)
  BY <1>2
<1>4. Routed(h, c) /\ pipe["ack"] = << >>
  BY <1>1, <1>3 DEF HintCall, Unrouted, Routed, HsReady, HsStopped
<1>5. ClientOpen
  BY <1>3 DEF HintCall, ClientOpen
<1>6. Room("ack") > 0 /\ Push("ack", Seg("ack", 0, 1 - 0))
  <2>1. 1 - 0 = 1
    OBVIOUS
  <2> QED BY <1>5, <2>1, AckIs DEF HsAck, AckByte
<1>7. 0 \in Nat /\ 1 \in Nat /\ 0 <= 0 /\ 0 < 1 /\ pipe["ack"] = Seg("ack", 0, 0 - 0)
  <2>1. 0 - 0 = 0
    OBVIOUS
  <2> QED BY <1>4, <2>1, SegNone
<1>8. PICK n \in (0 + 1) .. 1 : PushedTo("ack", "ack", 0, 0, 1, n)
  BY <1>1, <1>6, <1>7, PushSeg
<1>9. n = 1 /\ n - 0 = 1
  OBVIOUS
<1>10. pipe'["ack"] = AckByte /\ DOMAIN pipe' = DOMAIN pipe /\ Len(pipe'["ack"]) \in 0 .. Capacity
         /\ \A q \in DOMAIN pipe : q # "ack" => pipe'[q] = pipe[q]
  BY <1>8, <1>9 DEF PushedTo, AckByte
<1>11. TypeInv'
  <2>1. DOMAIN client' = {"pc", "arg", "todo", "got"} /\ returned' \in Nat
    BY <1>1 DEF TypeInv
  <2> QED BY <1>1, <1>10, <2>1, TypeStep
<1>12. Routed(h, c)'
  BY <1>1, <1>4, <1>10 DEF Routed, TypeInv
<1>13. HintCall(h, c)'
  BY <1>1, <1>3, <1>10, <1>12 DEF HintCall, GetQuiet, PsAtRest, TypeInv
<1> QED BY <1>11, <1>13 DEF IInv, CallInv

-----------------------------------------------------------------------------
(* The loop around new_preimage_request.                                   *)

LEMMA PsKeyStep ==
    ASSUME IInv, PsKey
    PROVE  IInv'
<1>1. serverUp /\ ps.pc = "key" /\ HsRead("key") /\ TypeInv /\ "key" \in DOMAIN pipe
        /\ Take("key", KeySize - Len(ps.got))
        /\ UNCHANGED <<client, hs, serverUp, sent, returned, routed, answer, torn>>
        /\ KeySize \in Nat \ {0}
  BY Constants DEF PsKey, IInv, TypeInv
<1>2. DOMAIN client' = {"pc", "arg", "todo", "got"} /\ returned' \in Nat
  BY <1>1 DEF TypeInv
<1>3. ASSUME Over
      PROVE  IInv'
  <2>1. client.pc = "closed" /\ HintQuiet /\ GetQuiet
    BY <1>1, <1>3 DEF Over
  <2>2. pipe["key"] = << >> /\ ps.got = << >>
    BY <1>1, <2>1 DEF GetQuiet, PsAtRest, PsReady, PsStopped
  <2>3. KeySize - Len(ps.got) \in Nat
    BY <1>1, <2>2
  <2>4. DOMAIN pipe' = DOMAIN pipe /\ \A q \in DOMAIN pipe : pipe'[q] = pipe[q]
    BY <1>1, <2>2, <2>3, TakeNone
  <2>5. ps' = PsStopped
    BY <2>2 DEF PsKey
  <2>6. Len(pipe'["key"]) \in 0 .. Capacity
    BY <1>1, <2>4 DEF TypeInv
  <2>7. TypeInv'
    BY <1>1, <1>2, <2>4, <2>6, TypeStep
  <2>8. Over'
    BY <1>1, <1>3, <2>4, <2>5 DEF Over, HintQuiet, GetQuiet, HsAtRest, PsAtRest, TypeInv
  <2> QED BY <2>7, <2>8 DEF IInv, CallInv
<1>4. ASSUME NEW k \in Keys, GetCall(k), NEW c \in 0 .. KeySize, NEW b \in 0 .. c, KeyCall(k, b, c)
      PROVE  IInv'
  <2>1. c \in Nat /\ b \in Nat /\ b <= c /\ c <= KeySize
    BY <1>1, <1>4
  <2>2. pipe["key"] # << >>
    BY <1>1, <1>4 DEF KeyCall, HsRead, ClientOpen
  <2>3. b < KeySize /\ ps = [pc |-> "key", got |-> Seg(k, 0, b), todo |-> << >>]
          /\ pipe["key"] = Seg(k, b, c - b)
    BY <1>1, <1>4 DEF KeyCall, PsStopped
  <2>4. b < c
    <3>1. b = c => c - b = 0
      BY <2>1
    <3> QED BY <2>1, <2>2, <2>3, <3>1, SegNone
  <2>5. ps.got = Seg(k, 0, b) /\ Len(ps.got) = b
    <3>1. Len(Seg(k, 0, b)) = b
      BY <2>1, SegType
    <3> QED BY <2>3, <3>1
  <2> DEFINE m == KeySize - b
             got == ps.got \o Taken("key", KeySize - Len(ps.got))
  <2>6. m \in Nat \ {0} /\ Take("key", m) /\ b + m = KeySize
    BY <1>1, <2>1, <2>3, <2>5
  <2>7. ps' = [pc |-> IF Len(got) = KeySize THEN "getter" ELSE "key", got |-> got, todo |-> << >>]
    BY <2>2 DEF PsKey
  <2>8. got = Seg(k, 0, b) \o Taken("key", m)
    BY <2>5
  <2> HIDE DEF m, got
  <2>9. PICK n \in (b + 1) .. c : TakenTo("key", k, b, c, m, n)
    BY <1>1, <2>1, <2>3, <2>4, <2>6, TakeSeg
  <2>10. n \in Nat /\ b < n /\ n <= c /\ Len(Seg(k, 0, n)) = n
           /\ Seg(k, 0, b) \o Taken("key", m) = Seg(k, 0, n)
    BY <2>9 DEF TakenTo
  <2>11. got = Seg(k, 0, n) /\ Len(got) = n
    BY <2>8, <2>10
  <2>12. ps' = [pc |-> IF n = KeySize THEN "getter" ELSE "key", got |-> Seg(k, 0, n), todo |-> << >>]
    BY <2>7, <2>11
  <2>13. pipe'["key"] = Seg(k, n, c - n) /\ (n = c => pipe'["key"] = << >>)
           /\ DOMAIN pipe' = DOMAIN pipe /\ Len(pipe'["key"]) \in 0 .. Capacity
           /\ \A q \in DOMAIN pipe : q # "key" => pipe'[q] = pipe[q]
    BY <2>9 DEF TakenTo
  <2>14. TypeInv'
    BY <1>1, <1>2, <2>13, TypeStep
  <2>15. sent' = routed' /\ returned' = Len(sent') /\ HintQuiet'
    BY <1>1, <1>4, <2>13 DEF GetCall, HintQuiet, HsAtRest, TypeInv
  <2>16. pipe'["value"] = << >>
    BY <1>1, <1>4, <2>13 DEF KeyCall, TypeInv
  <2>17. CASE n = KeySize
    <3>1. c = KeySize /\ n = c /\ KeySize - c = 0 /\ ~ (c < KeySize) /\ 0 - 0 = 0
      BY <1>1, <2>1, <2>10, <2>17
    <3>2. client = [pc |-> "get_length", arg |-> k, todo |-> << >>, got |-> Seg(k, 0, 0)]
      BY <1>4, <3>1, SegNone DEF KeyCall
    <3>3. 0 < Total(k) /\ 0 < HeaderSize /\ 0 \in 0 .. Total(k) /\ 0 \in 0 .. 0
      BY Constants
    <3>4. pipe'["value"] = Seg(k, 0, 0 - 0)
      BY <2>16, <3>1, SegNone
    <3>5. ValueCall(k, 0, 0)'
      BY <1>1, <2>12, <2>13, <2>17, <3>1, <3>2, <3>3, <3>4 DEF ValueCall
    <3> QED BY <2>14, <2>15, <3>3, <3>5 DEF IInv, CallInv, GetCall
  <2>18. CASE n # KeySize
    <3>1. n < KeySize /\ n \in 0 .. c
      BY <1>1, <2>1, <2>10, <2>18
    <3>2. KeyCall(k, n, c)'
      BY <1>1, <1>4, <2>12, <2>13, <2>16, <2>18, <3>1 DEF KeyCall
    <3> QED BY <2>14, <2>15, <3>1, <3>2 DEF IInv, CallInv, GetCall
  <2> QED BY <2>17, <2>18
<1>5. CASE NoCall
  BY <1>1, <1>5 DEF NoCall, GetQuiet, HsRead, ClientOpen, Idle
<1>6. ASSUME NEW h \in Hints, NEW c \in 0 .. Total(h), HintCall(h, c)
      PROVE  FALSE
  BY <1>1, <1>6 DEF HintCall, GetQuiet, HsRead, ClientOpen
<1>7. ASSUME NEW k \in Keys, NEW e \in 0 .. Total(k), NEW d \in 0 .. e, ValueCall(k, d, e)
      PROVE  FALSE
  BY <1>1, <1>7 DEF ValueCall, HsRead, ClientOpen
<1> QED BY <1>3, <1>4, <1>5, <1>6, <1>7 DEF IInv, CallInv, GetCall

LEMMA PsServing ==
    ASSUME IInv, serverUp, ps.pc \in {"getter", "reply", "reply_value"}
    PROVE  \E k \in Keys : \E e \in 0 .. Total(k) : \E d \in 0 .. e :
               GetCall(k) /\ ValueCall(k, d, e)
<1>1. ~ PsAtRest
  BY DEF PsAtRest, PsReady, PsStopped
<1>2. PICK k \in Keys : GetCall(k)
  BY <1>1 DEF IInv, CallInv, NoCall, HintCall, GetQuiet, Over
<1>3. \A c \in 0 .. KeySize : \A b \in 0 .. c : ~ KeyCall(k, b, c)
  BY DEF KeyCall, PsStopped
<1> QED BY <1>2, <1>3 DEF GetCall

LEMMA PsGetterStep ==
    ASSUME IInv, PsGetter
    PROVE  IInv'
<1>1. serverUp /\ ps.pc = "getter" /\ TypeInv
        /\ UNCHANGED <<client, hs, pipe, serverUp, sent, returned, routed, answer, torn>>
  BY DEF PsGetter, IInv
<1>2. PICK k \in Keys : \E e \in 0 .. Total(k) : \E d \in 0 .. e : GetCall(k) /\ ValueCall(k, d, e)
  BY <1>1, PsServing
<1>3. PICK e \in 0 .. Total(k) : \E d \in 0 .. e : GetCall(k) /\ ValueCall(k, d, e)
  BY <1>2
<1>4. PICK d \in 0 .. e : GetCall(k) /\ ValueCall(k, d, e)
  BY <1>3
<1>5. e = 0 /\ ps = [pc |-> "getter", got |-> Seg(k, 0, KeySize), todo |-> << >>]
  BY <1>1, <1>4 DEF ValueCall, PsReady, PsStopped
<1>6. HeaderSize \in Nat /\ 0 < HeaderSize /\ HeaderSize - 0 = HeaderSize /\ KeySize \in Nat \ {0}
  BY Constants
<1>7. Subject(ps.got) = k
  <2>1. Subject(Seg(k, 0, KeySize)) = k
    BY <1>6, SegSubject
  <2> QED BY <1>5, <2>1
<1>8. \/ ps' = [pc |-> "reply", got |-> Seg(k, 0, KeySize), todo |-> Seg(k, 0, HeaderSize)]
      \/ ps' = PsReady \/ ps' = PsStopped
  BY <1>5, <1>6, <1>7, SegAll DEF PsGetter
<1>9. ValueCall(k, d, e)'
  BY <1>1, <1>4, <1>5, <1>6, <1>8 DEF ValueCall
<1>10. TypeInv'
  BY <1>1 DEF TypeInv
<1>11. sent' = routed' /\ returned' = Len(sent') /\ HintQuiet'
  BY <1>1, <1>4 DEF GetCall, HintQuiet, HsAtRest
<1> QED BY <1>9, <1>10, <1>11 DEF IInv, CallInv, GetCall

LEMMA PsReplyStep ==
    ASSUME IInv, PsReply
    PROVE  IInv'
<1>1. serverUp /\ ps.pc \in {"reply", "reply_value"} /\ TypeInv /\ "value" \in DOMAIN pipe
        /\ UNCHANGED <<client, hs, serverUp, sent, returned, routed, answer, torn>>
  BY DEF PsReply, IInv, TypeInv
<1>2. PICK k \in Keys : \E e \in 0 .. Total(k) : \E d \in 0 .. e : GetCall(k) /\ ValueCall(k, d, e)
  BY <1>1, PsServing
<1>3. PICK e \in 0 .. Total(k) : \E d \in 0 .. e : GetCall(k) /\ ValueCall(k, d, e)
  BY <1>2
<1>4. PICK d \in 0 .. e : GetCall(k) /\ ValueCall(k, d, e)
  BY <1>3
<1>5. HeaderSize \in Nat \ {0} /\ Total(k) = HeaderSize + Size[k] /\ Size[k] \in Nat
        /\ Total(k) \in Nat /\ e \in Nat /\ d \in Nat /\ d <= e /\ e <= Total(k)
        /\ KeySize \in Nat \ {0}
  BY Constants
<1> DEFINE t == IF ps.pc = "reply" THEN HeaderSize ELSE Total(k)
<1>6. t \in Nat /\ e < t /\ t <= Total(k)
        /\ ps = [pc |-> ps.pc, got |-> Seg(k, 0, KeySize), todo |-> Seg(k, e, t - e)]
        /\ (ps.pc = "reply_value" => e >= HeaderSize)
  BY <1>1, <1>4, <1>5 DEF ValueCall, PsReady, PsStopped
<1>7. ps.pc = "reply" => t = HeaderSize
  OBVIOUS
<1>8. ps.pc = "reply_value" => t = Total(k)
  OBVIOUS
<1> HIDE DEF t
<1>9. ClientOpen
  BY <1>4 DEF ValueCall, ClientOpen
<1>10. ps.todo = Seg(k, e, t - e) /\ Subject(ps.got) = k
  <2>1. Subject(Seg(k, 0, KeySize)) = k
    BY <1>5, SegSubject
  <2> QED BY <1>6, <2>1
<1>11. Room("value") > 0 /\ Push("value", Seg(k, e, t - e)) /\ pipe["value"] = Seg(k, d, e - d)
  BY <1>4, <1>9, <1>10 DEF PsReply, ValueCall
<1>12. PICK n \in (e + 1) .. t : PushedTo("value", k, d, e, t, n)
  BY <1>1, <1>5, <1>6, <1>11, PushSeg
<1>13. n \in Nat /\ e < n /\ n <= t /\ pipe'["value"] = Seg(k, d, n - d)
         /\ Rest("value", ps.todo) = Seg(k, n, t - n)
         /\ (Seg(k, n, t - n) = << >> <=> ~ (n < t))
         /\ DOMAIN pipe' = DOMAIN pipe /\ Len(pipe'["value"]) \in 0 .. Capacity
         /\ \A q \in DOMAIN pipe : q # "value" => pipe'[q] = pipe[q]
  BY <1>10, <1>12 DEF PushedTo
<1>14. ps' = IF n < t
             THEN [ps EXCEPT !.todo = Seg(k, n, t - n)]
             ELSE IF ps.pc = "reply" /\ Size[k] > 0
             THEN [ps EXCEPT !.pc = "reply_value", !.todo = Payload(k)]
             ELSE PsReady
  BY <1>9, <1>10, <1>13 DEF PsReply
<1>15. n \in 0 .. Total(k) /\ d \in 0 .. n /\ n <= Total(k)
  BY <1>5, <1>6, <1>13
<1>16. TypeInv'
  <2>1. DOMAIN client' = {"pc", "arg", "todo", "got"} /\ returned' \in Nat
    BY <1>1 DEF TypeInv
  <2> QED BY <1>1, <1>13, <2>1, TypeStep
<1>17. sent' = routed' /\ returned' = Len(sent') /\ HintQuiet'
  BY <1>1, <1>4, <1>13 DEF GetCall, HintQuiet, HsAtRest, TypeInv
<1>18. pipe'["key"] = << >> /\ client' = client /\ d < Total(k)
         /\ client = [pc |-> IF d < HeaderSize THEN "get_length" ELSE "get_payload", arg |-> k,
                      todo |-> << >>, got |-> Seg(k, 0, d)]
  BY <1>1, <1>4, <1>13 DEF ValueCall, TypeInv
<1>19. \/ n < HeaderSize /\ ps' = [pc |-> "reply", got |-> Seg(k, 0, KeySize),
                                   todo |-> Seg(k, n, HeaderSize - n)]
       \/ n >= HeaderSize /\ n < Total(k)
             /\ ps' = [pc |-> "reply_value", got |-> Seg(k, 0, KeySize),
                       todo |-> Seg(k, n, Total(k) - n)]
       \/ n = Total(k) /\ ps' = PsReady
  <2>1. CASE ps.pc = "reply" /\ n < t
    <3>1. ps' = [pc |-> "reply", got |-> Seg(k, 0, KeySize), todo |-> Seg(k, n, t - n)]
      BY <1>6, <1>14, <2>1
    <3> QED BY <1>7, <2>1, <3>1
  <2>2. CASE ps.pc = "reply" /\ ~ (n < t) /\ Size[k] > 0
    <3>1. n = HeaderSize /\ Total(k) - n = Size[k] /\ n >= HeaderSize /\ n < Total(k)
      BY <1>5, <1>6, <1>7, <1>13, <2>2
    <3>2. Payload(k) = Seg(k, n, Total(k) - n)
      BY <3>1, SegAll
    <3>3. ps' = [ps EXCEPT !.pc = "reply_value", !.todo = Payload(k)]
      BY <1>14, <2>2
    <3>4. ps = [pc |-> "reply", got |-> Seg(k, 0, KeySize), todo |-> Seg(k, e, t - e)]
      BY <1>6, <2>2
    <3>5. ps' = [pc |-> "reply_value", got |-> Seg(k, 0, KeySize), todo |-> Payload(k)]
      BY <3>3, <3>4
    <3> QED BY <3>1, <3>2, <3>5
  <2>3. CASE ps.pc = "reply" /\ ~ (n < t) /\ ~ (Size[k] > 0)
    <3>1. n = Total(k)
      BY <1>5, <1>6, <1>7, <1>13, <2>3
    <3> QED BY <1>14, <2>3, <3>1
  <2>4. CASE ps.pc = "reply_value" /\ n < t
    <3>1. ps' = [pc |-> "reply_value", got |-> Seg(k, 0, KeySize), todo |-> Seg(k, n, t - n)]
      BY <1>6, <1>14, <2>4
    <3>2. n >= HeaderSize /\ n < Total(k)
      BY <1>5, <1>6, <1>8, <1>13, <2>4
    <3> QED BY <1>8, <2>4, <3>1, <3>2
  <2>5. CASE ps.pc = "reply_value" /\ ~ (n < t)
    <3>1. n = Total(k)
      BY <1>5, <1>6, <1>8, <1>13, <2>5
    <3> QED BY <1>14, <2>5, <3>1
  <2> QED BY <1>1, <2>1, <2>2, <2>3, <2>4, <2>5
<1>20. ValueCall(k, d, n)'
  BY <1>13, <1>18, <1>19 DEF ValueCall
<1> QED BY <1>15, <1>16, <1>17, <1>20 DEF IInv, CallInv, GetCall

LEMMA ServerExitStep ==
    ASSUME IInv, ServerExit
    PROVE  IInv'
<1>1. ~ serverUp' /\ hs' = HsStopped /\ ps' = PsStopped /\ serverUp' = FALSE /\ TypeInv
        /\ UNCHANGED <<client, pipe, sent, returned, routed, answer, torn>>
  BY DEF ServerExit, HsStopped, IInv
<1>2. TypeInv'
  BY <1>1 DEF TypeInv
<1>3. HsAtRest' /\ PsAtRest'
  BY <1>1 DEF HsAtRest, PsAtRest
<1>4. CASE NoCall
  BY <1>1, <1>2, <1>3, <1>4 DEF NoCall, HintQuiet, GetQuiet, IInv, CallInv
<1>5. ASSUME NEW h \in Hints, NEW c \in 0 .. Total(h), HintCall(h, c)
      PROVE  IInv'
  <2>1. CASE Unrouted(h, c)
    <3>1. \E b \in 0 .. c : pipe["hint"] = Seg(h, b, c - b)
      <4>1. 0 \in 0 .. c /\ c \in 0 .. c /\ c - 0 = c /\ c - c = 0 /\ c \in Nat /\ HeaderSize \in Nat
        BY <1>5, Constants
      <4>2. ASSUME NEW b \in HeaderSize .. (Total(h) - 1), b <= c
            PROVE  b \in 0 .. c
        BY <1>5, <4>1, <4>2, Constants
      <4> QED BY <2>1, <4>1, <4>2, SegNone DEF Unrouted
    <3>2. Unrouted(h, c)'
      BY <1>1, <2>1, <3>1 DEF Unrouted
    <3> QED BY <1>1, <1>2, <1>3, <1>5, <3>2 DEF HintCall, GetQuiet, IInv, CallInv
  <2>2. CASE Routed(h, c)
    <3>1. Routed(h, c)'
      BY <1>1, <2>2 DEF Routed
    <3> QED BY <1>1, <1>2, <1>3, <1>5, <3>1 DEF HintCall, GetQuiet, IInv, CallInv
  <2> QED BY <1>5, <2>1, <2>2 DEF HintCall
<1>6. ASSUME NEW k \in Keys, GetCall(k)
      PROVE  IInv'
  <2>1. sent' = routed' /\ returned' = Len(sent') /\ HintQuiet'
    BY <1>1, <1>3, <1>6 DEF GetCall, HintQuiet
  <2>2. \A c \in 0 .. KeySize : \A b \in 0 .. c : KeyCall(k, b, c) => KeyCall(k, b, c)'
    BY <1>1 DEF KeyCall
  <2>3. \A e \in 0 .. Total(k) : \A d \in 0 .. e : ValueCall(k, d, e) => ValueCall(k, d, e)'
    BY <1>1 DEF ValueCall
  <2> QED BY <1>2, <1>6, <2>1, <2>2, <2>3 DEF GetCall, IInv, CallInv
<1>7. CASE Over
  BY <1>1, <1>2, <1>7 DEF Over, IInv, CallInv
<1> QED BY <1>4, <1>5, <1>6, <1>7 DEF IInv, CallInv

LEMMA StutterStep ==
    ASSUME IInv, UNCHANGED vars
    PROVE  IInv'
BY DEF vars, IInv, TypeInv, CallInv, NoCall, HintCall, GetCall, Over, Unrouted, Routed, KeyCall,
       ValueCall, HintQuiet, GetQuiet, HsAtRest, PsAtRest

-----------------------------------------------------------------------------
LEMMA InitInv == Init => IInv
<1> SUFFICES ASSUME Init PROVE IInv
  OBVIOUS
<1>1. TypeInv
  BY Constants DEF Init, TypeInv, Idle
<1>2. NoCall
  BY DEF Init, NoCall, HintQuiet, GetQuiet, HsAtRest, PsAtRest
<1> QED BY <1>1, <1>2 DEF IInv, CallInv

LEMMA NextInv == IInv /\ [Next]_vars => IInv'
BY HintStep, HintWriteStep, HintAckStep, GetStep, GetWriteStep, GetLengthStep, GetPayloadStep,
   CloseStep, HsLengthStep, HsPayloadStep, HsRouteStep, HsAckStep, PsKeyStep, PsGetterStep,
   PsReplyStep, ServerExitStep, StutterStep
   DEF Next, ClientStep, HintServerStep, OracleServerStep

LEMMA Invariance == Spec => []IInv
BY InitInv, NextInv, PTL DEF Spec

(* Every OracleClient::get that returns has the whole preimage of the key  *)
(* it asked for, whatever the sizes and wherever the pipes cut the reads   *)
(* and writes of the two processes.                                        *)
THEOREM AnswersCorrect == Spec => []AnswerMatchesKey
<1>1. IInv => AnswerMatchesKey
  BY DEF IInv, TypeInv, AnswerMatchesKey
<1> QED BY <1>1, Invariance, PTL

(* The hint handler is called with the hints in the order they were sent,  *)
(* and before HintWriter::hint returns.                                    *)
THEOREM HintsCorrect == Spec => []HintHandledFirst
<1>1. IInv => HintHandledFirst
  <2> SUFFICES ASSUME IInv PROVE HintHandledFirst
    OBVIOUS
  <2>1. routed \in Seq(Hints) /\ Len(routed) \in Nat /\ returned \in Nat
    BY DEF IInv, TypeInv
  <2>2. SubSeq(routed, 1, Len(routed)) = routed
    BY <2>1, SubSeqFull
  <2>3. ASSUME NEW h \in Hints, sent = Append(routed, h)
        PROVE  Len(sent) = Len(routed) + 1 /\ routed = SubSeq(sent, 1, Len(routed))
    <3>1. sent \in Seq(Hints) /\ Len(sent) = Len(routed) + 1
            /\ \A i \in 1 .. Len(routed) : sent[i] = routed[i]
      BY <2>1, <2>3
    <3>2. SubSeq(sent, 1, Len(routed)) = [i \in 1 .. Len(routed) |-> sent[i]]
      BY <2>1, <3>1
    <3>3. routed = [i \in 1 .. Len(routed) |-> routed[i]]
      BY <2>1
    <3> QED BY <3>1, <3>2, <3>3
  <2>4. CASE NoCall
    BY <2>1, <2>2, <2>4 DEF NoCall, HintHandledFirst
  <2>5. ASSUME NEW h \in Hints, NEW c \in 0 .. Total(h), HintCall(h, c)
        PROVE  HintHandledFirst
    <3>1. client.pc # "idle" /\ returned = Len(sent) - 1
      BY <2>5 DEF HintCall
    <3>2. CASE sent = Append(routed, h)
      BY <2>1, <2>3, <3>1, <3>2 DEF HintHandledFirst
    <3>3. CASE sent = routed
      <4>1. Len(sent) = Len(routed) /\ routed = SubSeq(sent, 1, Len(routed))
        BY <2>2, <3>3
      <4> QED BY <2>1, <3>1, <4>1 DEF HintHandledFirst
    <3> QED BY <2>5, <3>2, <3>3 DEF HintCall, Unrouted, Routed
  <2>6. ASSUME NEW k \in Keys, GetCall(k)
        PROVE  HintHandledFirst
    <3>1. client.pc # "idle"
      BY <2>6 DEF GetCall, KeyCall, ValueCall
    <3> QED BY <2>1, <2>2, <2>6, <3>1 DEF GetCall, HintHandledFirst
  <2>7. CASE Over
    <3>1. client.pc # "idle" /\ returned <= Len(routed)
      BY <2>7 DEF Over
    <3>2. CASE sent = routed
      <4>1. Len(sent) = Len(routed) /\ routed = SubSeq(sent, 1, Len(routed))
        BY <2>2, <3>2
      <4> QED BY <2>1, <3>1, <4>1 DEF HintHandledFirst
    <3>3. CASE \E h \in Hints : sent = Append(routed, h)
      <4>1. Len(sent) = Len(routed) + 1 /\ routed = SubSeq(sent, 1, Len(routed))
        BY <2>3, <3>3
      <4> QED BY <2>1, <3>1, <4>1 DEF HintHandledFirst
    <3> QED BY <2>7, <3>2, <3>3 DEF Over
  <2> QED BY <2>4, <2>5, <2>6, <2>7 DEF IInv, CallInv
<1> QED BY <1>1, Invariance, PTL

(* next_hint, which reads the length prefix with a single read, never gets *)
(* a part of one.                                                          *)
THEOREM PrefixesWhole == Spec => []NoTornPrefix
<1>1. IInv => NoTornPrefix
  BY DEF IInv, TypeInv, NoTornPrefix
<1> QED BY <1>1, Invariance, PTL

(* When a call has returned, its bytes are out of all four pipes.          *)
THEOREM PipesQuiet == Spec => []QuietBetweenCalls
<1>1. IInv => QuietBetweenCalls
  <2> SUFFICES ASSUME IInv, client.pc = "idle" PROVE \A p \in DOMAIN pipe : pipe[p] = << >>
    BY DEF QuietBetweenCalls
  <2>1. NoCall
    BY WhichCall
  <2> QED BY <2>1 DEF NoCall, HintQuiet, GetQuiet, IInv, TypeInv
<1> QED BY <1>1, Invariance, PTL

-----------------------------------------------------------------------------
(* The refinement.                                                         *)

(* The abstract call a state of the client stands for.                     *)
LEMMA Ops ==
    /\ client.pc \in {"hint_write", "hint_ack"} => CallOp = "hint"
    /\ client.pc \in {"get_write", "get_length", "get_payload"} => CallOp = "get"
    /\ client.pc = "idle" => CallOp = "none"
    /\ client.pc \in {"failed", "closed"} => CallOp = client.pc
BY DEF CallOp

LEMMA OpsAfter ==
    /\ client'.pc \in {"hint_write", "hint_ack"} => CallOp' = "hint"
    /\ client'.pc \in {"get_write", "get_length", "get_payload"} => CallOp' = "get"
    /\ client'.pc = "idle" => CallOp' = "none"
    /\ client'.pc \in {"failed", "closed"} => CallOp' = client'.pc
BY DEF CallOp

LEMMA RefinesInit == Init => Service!ServiceInit
<1> SUFFICES ASSUME Init PROVE Service!ServiceInit
  OBVIOUS
<1>1. client.pc = "idle" /\ client.arg = "none"
  BY DEF Init, Idle
<1>2. CallOp = "none"
  BY <1>1, Ops
<1> QED BY <1>1, <1>2 DEF Init, Service!ServiceInit, Service!NoneCalled

(* Steps of which the caller sees nothing.                                 *)
LEMMA RefinesStutter ==
    ASSUME UNCHANGED <<client, serverUp, answer, routed, sent>>
    PROVE  UNCHANGED Service!serviceVars
BY DEF Service!serviceVars, CallOp

(* Steps of the client inside a call.                                      *)
LEMMA RefinesInside ==
    ASSUME UNCHANGED <<serverUp, answer, routed, sent>>, client'.arg = client.arg, CallOp' = CallOp
    PROVE  UNCHANGED Service!serviceVars
BY DEF Service!serviceVars

(* A call that fails.                                                      *)
LEMMA RefinesFail ==
    ASSUME IInv, Fail, ~ serverUp,
           client.pc \in {"hint_write", "hint_ack", "get_write", "get_length", "get_payload"},
           UNCHANGED <<hs, ps, serverUp, sent, routed, torn>>
    PROVE  Service!ServiceNext
<1>1. client'.pc = "failed" /\ client'.arg = client.arg /\ UNCHANGED answer
  BY DEF IInv, TypeInv, Fail
<1>2. CallOp' = "failed"
  BY <1>1, OpsAfter
<1>3. CallOp \in {"hint", "get"}
  BY Ops
<1>4. [op |-> CallOp, arg |-> client.arg]' = [[op |-> CallOp, arg |-> client.arg] EXCEPT !.op = "failed"]
  BY <1>1, <1>2
<1> QED BY <1>1, <1>2, <1>3, <1>4 DEF Service!ServiceNext, Service!FailCall

LEMMA RefinesHint ==
    ASSUME IInv, NEW h \in Hints, Hint(h)
    PROVE  Service!ServiceNext
<1>1. NoCall /\ TypeInv
  BY WhichCall DEF Hint, IInv
<1>2. client.pc = "idle" /\ client.arg = "none" /\ client'.pc = "hint_write" /\ client'.arg = h
  BY <1>1 DEF NoCall, Idle, Hint
<1>3. CallOp = "none" /\ CallOp' = "hint"
  BY <1>2, Ops, OpsAfter
<1>4. Len(routed') # Len(sent')
  BY <1>1 DEF NoCall, TypeInv, Hint
<1>5. Service!CallHint(h)
  BY <1>2, <1>3, <1>4 DEF Service!CallHint, Service!NoneCalled, Hint
<1> QED BY <1>5 DEF Service!ServiceNext

LEMMA RefinesGet ==
    ASSUME IInv, NEW k \in Keys, Get(k)
    PROVE  Service!ServiceNext
<1>1. NoCall
  BY WhichCall DEF Get
<1>2. client.pc = "idle" /\ client.arg = "none" /\ client'.pc = "get_write" /\ client'.arg = k
  BY <1>1 DEF NoCall, Idle, Get
<1>3. CallOp = "none" /\ CallOp' = "get"
  BY <1>2, Ops, OpsAfter
<1>4. Service!CallGet(k)
  BY <1>2, <1>3 DEF Service!CallGet, Service!NoneCalled, Get
<1>5. k \in DOMAIN [j \in Keys |-> Payload(j)]
  OBVIOUS
<1> QED BY <1>4, <1>5 DEF Service!ServiceNext

LEMMA RefinesWrite ==
    ASSUME IInv, HintWrite \/ GetWrite
    PROVE  Service!ServiceNext \/ UNCHANGED Service!serviceVars
<1>1. CASE ~ ServerOpen /\ Fail
  <2>1. ~ serverUp /\ client.pc \in {"hint_write", "get_write"}
         /\ UNCHANGED <<hs, ps, serverUp, sent, routed, torn>>
    BY <1>1 DEF HintWrite, GetWrite, ServerOpen
  <2> QED BY <1>1, <2>1, RefinesFail
<1>2. CASE HintWrite /\ ~ (~ ServerOpen /\ Fail)
  <2>1. client.pc = "hint_write" /\ client'.pc \in {"hint_write", "hint_ack"}
         /\ client'.arg = client.arg
    BY <1>2 DEF HintWrite, IInv, TypeInv
  <2>2. CallOp' = CallOp
    BY <2>1, Ops, OpsAfter
  <2>3. UNCHANGED <<serverUp, answer, routed, sent>>
    BY <1>2 DEF HintWrite
  <2> QED BY <2>1, <2>2, <2>3, RefinesInside
<1>3. CASE GetWrite /\ ~ (~ ServerOpen /\ Fail)
  <2>1. client.pc = "get_write" /\ client'.pc \in {"get_write", "get_length"}
         /\ client'.arg = client.arg
    BY <1>3 DEF GetWrite, IInv, TypeInv
  <2>2. CallOp' = CallOp
    BY <2>1, Ops, OpsAfter
  <2>3. UNCHANGED <<serverUp, answer, routed, sent>>
    BY <1>3 DEF GetWrite
  <2> QED BY <2>1, <2>2, <2>3, RefinesInside
<1> QED BY <1>1, <1>2, <1>3

LEMMA RefinesHintAck ==
    ASSUME IInv, HintAck
    PROVE  Service!ServiceNext
<1>1. CASE ~ ServerOpen /\ Fail
  <2>1. ~ serverUp /\ client.pc = "hint_ack"
         /\ UNCHANGED <<hs, ps, serverUp, sent, routed, torn>>
    BY <1>1 DEF HintAck, ServerOpen
  <2> QED BY <1>1, <2>1, RefinesFail
<1>2. CASE ~ (~ ServerOpen /\ Fail)
  <2>1. pipe["ack"] # << >> /\ client.pc = "hint_ack" /\ client' = Idle
          /\ UNCHANGED <<serverUp, sent, routed, answer>>
    BY <1>2 DEF HintAck
  <2>2. PICK h \in Hints : \E c \in 0 .. Total(h) : HintCall(h, c)
    BY <2>1, WhichCall
  <2>3. Len(routed) = Len(sent)
    BY <2>1, <2>2 DEF HintCall, Unrouted, Routed
  <2>4. client'.pc = "idle" /\ client'.arg = "none"
    BY <2>1 DEF Idle
  <2>5. CallOp = "hint" /\ CallOp' = "none"
    BY <2>1, <2>4, Ops, OpsAfter
  <2>6. Service!ReturnHint
    BY <2>1, <2>3, <2>4, <2>5 DEF Service!ReturnHint, Service!NoneCalled
  <2> QED BY <2>6 DEF Service!ServiceNext
<1> QED BY <1>1, <1>2

LEMMA RefinesRead ==
    ASSUME IInv, GetLength \/ GetPayload
    PROVE  Service!ServiceNext \/ UNCHANGED Service!serviceVars
<1>1. client.pc \in {"get_length", "get_payload"}
        /\ UNCHANGED <<hs, ps, serverUp, sent, routed, torn>>
  BY DEF GetLength, GetPayload
<1>2. CallOp = "get"
  BY <1>1, Ops
<1>3. CASE ~ ServerOpen /\ Fail
  BY <1>1, <1>3, RefinesFail DEF ServerOpen
<1>4. CASE UNCHANGED answer /\ client'.pc \in {"get_length", "get_payload"} /\ client'.arg = client.arg
  <2>1. CallOp' = CallOp
    BY <1>2, <1>4, OpsAfter
  <2> QED BY <1>1, <1>4, <2>1, RefinesInside
<1>5. CASE /\ client' = Idle /\ client.arg \in Keys
           /\ answer' = [key |-> client.arg, value |-> Payload(client.arg)]
  <2>1. client'.pc = "idle" /\ client'.arg = "none"
    BY <1>5 DEF Idle
  <2>2. CallOp' = "none"
    BY <2>1, OpsAfter
  <2>3. [j \in Keys |-> Payload(j)][client.arg] = Payload(client.arg)
    BY <1>5
  <2>4. Service!ReturnGet
    BY <1>1, <1>2, <1>5, <2>1, <2>2, <2>3 DEF Service!ReturnGet, Service!NoneCalled
  <2> QED BY <2>4 DEF Service!ServiceNext
<1> QED BY <1>3, <1>4, <1>5, GetLengthStep, GetPayloadStep DEF ReadEffect

LEMMA RefinesClose ==
    ASSUME IInv, Close
    PROVE  Service!ServiceNext
<1>1. client'.pc = "closed" /\ client'.arg = client.arg /\ client.pc \in {"idle", "failed"}
        /\ UNCHANGED <<serverUp, sent, routed, answer>>
  BY DEF IInv, TypeInv, Close
<1>2. CallOp \in {"none", "failed"} /\ CallOp' = "closed"
  BY <1>1, Ops, OpsAfter
<1>3. [op |-> CallOp', arg |-> client'.arg] =
          [[op |-> CallOp, arg |-> client.arg] EXCEPT !.op = "closed"]
  BY <1>1, <1>2
<1>4. Service!ServiceClose
  BY <1>1, <1>2, <1>3 DEF Service!ServiceClose
<1> QED BY <1>4 DEF Service!ServiceNext

LEMMA RefinesRoute ==
    ASSUME IInv, HsRoute
    PROVE  Service!ServiceNext
<1>1. serverUp /\ hs.pc = "route" /\ TypeInv /\ UNCHANGED <<client, serverUp, sent, answer>>
        /\ routed' = Append(routed, Subject(hs.got))
  BY DEF HsRoute, IInv
<1>2. PICK h \in Hints : \E c \in 0 .. Total(h) : HintCall(h, c)
  <2>1. ~ HsAtRest
    BY <1>1 DEF HsAtRest, HsReady, HsStopped
  <2> QED BY <1>1, <2>1 DEF IInv, CallInv, NoCall, GetCall, HintQuiet, Over
<1>3. PICK c \in 0 .. Total(h) : HintCall(h, c)
  BY <1>2
<1>4. c = Total(h) /\ hs = [pc |-> "route", got |-> Seg(h, 0, c)] /\ sent = Append(routed, h)
  BY <1>1, <1>3 DEF HintCall, Unrouted, Routed, HsReady, HsStopped
<1>5. Subject(hs.got) = h
  <2>1. c \in Nat \ {0}
    BY <1>4, Constants
  <2>2. Subject(Seg(h, 0, c)) = h
    BY <2>1, SegSubject
  <2> QED BY <1>4, <2>2
<1>6. client.pc \in {"hint_write", "hint_ack"} /\ client.arg = h
  BY <1>3 DEF HintCall
<1>7. CallOp = "hint" /\ CallOp' = "hint"
  BY <1>1, <1>6, Ops, OpsAfter
<1>8. Len(routed) # Len(sent) /\ routed' = sent /\ Len(routed') = Len(sent')
  BY <1>1, <1>4, <1>5 DEF TypeInv
<1>9. Service!Handle
  BY <1>1, <1>4, <1>6, <1>7, <1>8 DEF Service!Handle
<1> QED BY <1>9 DEF Service!ServiceNext

LEMMA RefinesExit ==
    ASSUME ServerExit
    PROVE  Service!ServiceNext
<1>1. CallOp' = CallOp
  BY DEF ServerExit, CallOp
<1>2. Service!ServiceExit
  BY <1>1 DEF Service!ServiceExit, ServerExit
<1> QED BY <1>2 DEF Service!ServiceNext

(* The two processes and their pipes implement OracleService: to its       *)
(* caller the channel is a service that answers one call after the other,  *)
(* handles a hint once and inside its call, returns the preimage of the    *)
(* key, and fails a call only when the server is gone.                     *)
THEOREM Implements == Spec => ImplementsService
<1>1. IInv /\ [Next]_vars => [Service!ServiceNext]_Service!serviceVars
  <2> SUFFICES ASSUME IInv, [Next]_vars
               PROVE  Service!ServiceNext \/ UNCHANGED Service!serviceVars
    OBVIOUS
  <2>1. CASE HsLength \/ HsPayload \/ HsAck \/ PsKey \/ PsGetter \/ PsReply \/ UNCHANGED vars
    <3>1. UNCHANGED <<client, serverUp, answer, routed, sent>>
      BY <2>1 DEF HsLength, HsPayload, HsAck, PsKey, PsGetter, PsReply, vars
    <3> QED BY <3>1, RefinesStutter
  <2> QED BY <2>1, RefinesHint, RefinesGet, RefinesWrite, RefinesHintAck, RefinesRead,
             RefinesClose, RefinesRoute, RefinesExit
             DEF Next, ClientStep, HintServerStep, OracleServerStep
<1> QED BY <1>1, RefinesInit, Invariance, PTL DEF Spec, ImplementsService, Service!ServiceSpec
=============================================================================
