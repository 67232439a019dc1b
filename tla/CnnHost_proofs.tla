--------------------------- MODULE CnnHost_proofs ---------------------------
(***************************************************************************)
(* Proofs about CnnHost, for every number of byte values, set of sessions, *)
(* image size, number of planes and faults: types, and what a session that *)
(* began with the board waiting and met no fault delivers.                 *)
(***************************************************************************)
EXTENDS CnnHost, SequenceTheorems, DivisionLemmas, TLAPS

Items == {"image", "error", "template"}
HostSteps ==
  {"idle", "header", "x_0", "u", "y_ideal", "calculate", "started", "finished",
   "image", "error", "template", "read image", "read error", "read template"}

Headers ==
  [width : 0..Word-1, height : 0..Word-1, Ts : 0..Word-1, iter_cnt : 0..Word-1,
   template_no : 0..Word-1, learn_loop : 0..Word-1, learn_rate : 0..Word-1]

Templates == [1..TemplateLen -> SignedRange(Word)]

\* A command is never longer than its first bytes say.
InBound == fpc = "read" /\ in # <<>> => Len(in) <= Needed

\* TypeOK, with the types of what it leaves out.
LineTypes ==
  /\ toFpga \in Seq(Byte) /\ out \in Seq(Byte) /\ hostIn \in Seq(Byte) /\ in \in Seq(Byte)
  /\ rx \in Byte \cup {None}
HostTypes ==
  /\ hpc \in HostSteps /\ config \in Sessions /\ got \in Seq(Byte)
  /\ received = [item \in Items |-> received[item]]
  /\ outcome \in {"none", "complete", "failed"}
BoardTypes ==
  /\ fpc \in {"read", "header", "calc", "wild"}
  /\ head \in Headers /\ Area(head) <= PlaneMax
  /\ planes \in [0..PlaneCount-1 -> [1..Area(head) -> 0..Word-1]]
  /\ errors \in ErrorRows \cup {<<>>}
  /\ templates \in [TemplateNos -> Templates]
HistoryTypes == faults \in 0..MaxFaults /\ clean \in BOOLEAN

TypesInv == LineTypes /\ HostTypes /\ BoardTypes /\ HistoryTypes /\ InBound
-----------------------------------------------------------------------------
(***************************************************************************)
(* The bytes under way: to the board, with those the firmware has taken of *)
(* a command; and to Matlab, with those in its input buffer.               *)
(***************************************************************************)
Register(b) == IF b = None THEN <<>> ELSE <<b>>
Rest == Register(rx) \o toFpga
Line == in \o Rest
Back == hostIn \o out

\* The commands of session s after its header, in order, and those from d on of the first n.
ImageCommand(s, type) == <<1, type_ind[type]>> \o WordBytes(s.images[type])
CommandNo(s, i) ==
  IF i = 0 THEN ImageCommand(s, "x_0")
  ELSE IF i = 1 THEN ImageCommand(s, "u")
  ELSE IF i = 2 THEN ImageCommand(s, "y_ideal")
  ELSE <<2, s.alg>>
Part(s, i, d, n) == IF d <= i /\ i < n THEN CommandNo(s, i) ELSE <<>>
Commands(s, d, n) ==
  Part(s, 0, d, n) \o (Part(s, 1, d, n) \o (Part(s, 2, d, n) \o Part(s, 3, d, n)))

\* How many of them the script has sent when it comes to a step.
Sent(step) ==
  IF step = "x_0" THEN 0 ELSE IF step = "u" THEN 1 ELSE IF step = "y_ideal" THEN 2
  ELSE IF step = "calculate" THEN 3 ELSE 4
Sending == {"x_0", "u", "y_ideal", "calculate", "started"}

\* The request for an item.
RequestFor(s, item) ==
  IF item = "image" THEN <<3, 1>>
  ELSE IF item = "error" THEN << 4 >> ELSE << 5 >> \o WordBytes(<<s.template_no>>)

\* Header h is that of session s; the first d images of session s are in planes p.
HeaderIs(h, s) ==
  /\ h.width = s.width /\ h.height = s.height
  /\ h.iter_cnt = (s.iter - 1) % Word
  /\ h.template_no = s.template_no /\ h.learn_loop = s.learn_loop
  /\ RoundsDown(s.Ts) => h.Ts = s.Ts
  /\ RoundsDown(s.learn_rate) => h.learn_rate = s.learn_rate

ImagesAre(p, s, d) ==
  /\ d >= 1 => p[1] = ToWords(s.images.x_0)
  /\ d >= 2 => p[0] = ToWords(s.images.u)
  /\ d >= 3 => p[2] = ToWords(s.images.y_ideal)

\* The bytes that answer a request.
AnswerTo(item) ==
  IF item = "image" THEN WordBytes(planes[1])
  ELSE IF item = "error" THEN LongBytes(errors)
  ELSE WordBytes(templates[config.template_no])

ImageReceived ==
  /\ ToWords(received.image) = planes[1]
  /\ \A k \in DOMAIN received.image : received.image[k] \in SignedRange(Word)
ErrorReceived == received.error = errors
TemplateReceived == received.template = templates[config.template_no]

\* What the script has when it asks for an item.
ReceivedBefore(item) ==
  (item # "image" => ImageReceived) /\ (item = "template" => ErrorReceived)

(***************************************************************************)
(* The phases of a session without faults.                                 *)
(***************************************************************************)
HeaderSent ==
  /\ hpc = "header" /\ fpc = "read" /\ Line = HeaderBytes(config) /\ Back = <<>>

HeaderTaken == hpc = "header" /\ fpc = "header" /\ Rest = <<>> /\ Back = <<>> /\ HeaderIs(head, config)

HeaderDone ==
  hpc = "header" /\ fpc = "read" /\ Line = <<>> /\ Back = << 1 >> /\ HeaderIs(head, config)

ImagesSent(d) ==
  /\ hpc \in Sending /\ fpc = "read" /\ Back = <<>> /\ HeaderIs(head, config)
  /\ d <= Sent(hpc) /\ d < 4
  /\ Line = Commands(config, d, Sent(hpc)) /\ ImagesAre(planes, config, d)

Calculating ==
  /\ fpc = "calc" /\ in = <<2, config.alg>> /\ Rest = <<>> /\ HeaderIs(head, config)
  /\ ImagesAre(planes, config, 3)
  /\ (hpc = "started" /\ Back = << 2 >>) \/ (hpc = "finished" /\ Back = <<>>)

Calculated ==
  /\ fpc = "read" /\ Line = <<>> /\ HeaderIs(head, config)
  /\ (hpc = "started" /\ Back = <<2, 2>>) \/ (hpc = "finished" /\ Back = << 2 >>)

Asking(item) ==
  /\ hpc = item /\ fpc = "read" /\ Line = <<>> /\ Back = <<>> /\ HeaderIs(head, config)
  /\ ReceivedBefore(item)

Asked(item) ==
  /\ hpc = Reading[item] /\ fpc = "read" /\ HeaderIs(head, config) /\ ReceivedBefore(item)
  /\ Line = RequestFor(config, item) /\ Back = <<>> /\ got = <<>>

Answered(item) ==
  /\ hpc = Reading[item] /\ fpc = "read" /\ HeaderIs(head, config) /\ ReceivedBefore(item)
  /\ Line = <<>> /\ got \o Back = AnswerTo(item) /\ Len(got) < Answer[item]
  /\ item = "error" => errors \in ErrorRows

Ended ==
  /\ hpc = "idle" /\ fpc = "read" /\ Line = <<>> /\ Back = <<>> /\ outcome = "complete"
  /\ ImageReceived /\ ErrorReceived /\ TemplateReceived

Phases ==
  \/ HeaderSent \/ HeaderTaken \/ HeaderDone
  \/ \E d \in 0..3 : ImagesSent(d)
  \/ Calculating \/ Calculated
  \/ \E item \in Items : Asking(item) \/ Asked(item) \/ Answered(item)

SessionInv == clean => Ended \/ (Phases /\ outcome = "none")
-----------------------------------------------------------------------------
(* What the proofs use of the constants. *)
LEMMA Constants ==
  /\ Base \in Nat \ {0} /\ Base >= 6
  /\ Word \in Nat \ {0} /\ Word = Base * Base /\ Word >= 36
  /\ Long \in Nat \ {0} /\ Long = Word * Word
  /\ PlaneCount \in Nat /\ PlaneCount >= 3 /\ PlaneMax \in Nat /\ MaxFaults \in Nat
<1>1. Base \in Nat \ {0} /\ Base >= 6
  BY HostAssumption
<1>2. Base * Base \in Nat /\ Base * Base >= 6 * 6
  <2>1. 6 * 6 <= Base * 6 /\ 6 * Base <= Base * Base
    BY <1>1, ProductMonotone
  <2> QED  BY <1>1, <2>1
<1>3. Word * Word \in Nat /\ Word * Word >= 36 * 36
  <2>1. 36 * 36 <= Word * 36 /\ 36 * Word <= Word * Word
    BY <1>2, ProductMonotone DEF Word
  <2> QED  BY <1>2, <2>1 DEF Word
<1> QED  BY <1>1, <1>2, <1>3, HostAssumption DEF Word, Long

\* What HostAssumption says of one session.
LEMMA SessionFacts ==
  ASSUME NEW s \in Sessions
  PROVE  /\ s.width \in 0..Word-1 /\ s.height \in 0..Word-1
         /\ s.iter \in 0..Word-1 /\ s.learn_loop \in 0..Word-1
         /\ s.Ts \in 0..Word \div 2 - 1 /\ s.learn_rate \in 0..Word \div 2 - 1
         /\ s.template_no \in TemplateNos /\ s.alg \in 1..5
         /\ s.template_no \in 0..Word-1
         /\ Area(s) \in Nat /\ Area(s) <= PlaneMax /\ Area(s) >= 2
         /\ \A i \in {"x_0", "u", "y_ideal"} : s.images[i] \in [1..Area(s) -> Int]
         /\ 4 * ErrorLen <= 2 * Area(s) /\ 2 * TemplateLen <= 2 * Area(s)
<1>1. /\ {s.width, s.height, s.iter, s.learn_loop} \subseteq 0..Word-1
      /\ {s.Ts, s.learn_rate} \subseteq 0..Word \div 2 - 1
      /\ s.template_no \in TemplateNos /\ s.alg \in 1..5
      /\ Area(s) <= PlaneMax
      /\ \A i \in {"x_0", "u", "y_ideal"} : s.images[i] \in [1..Area(s) -> Int]
      /\ 4 * ErrorLen <= 2 * Area(s) /\ 2 * TemplateLen <= 2 * Area(s)
  BY HostAssumption
<1>2. s.width \in Nat /\ s.height \in Nat
  BY <1>1, Constants
<1>3. Area(s) \in Nat
  BY <1>2 DEF Area
<1>4. Area(s) >= 2
  BY <1>1, <1>3, HostAssumption
<1>5. s.template_no \in 0..Word-1
  BY <1>1, HostAssumption
<1> QED  BY <1>1, <1>3, <1>4, <1>5

(***************************************************************************)
(* Words as two bytes.                                                     *)
(***************************************************************************)
LEMMA ModRange ==
  ASSUME NEW v \in Int, NEW m \in Nat \ {0}
  PROVE  v % m \in 0..m-1
  OBVIOUS

\* A number within the range is its own remainder.
LEMMA SmallMod ==
  ASSUME NEW m \in Nat \ {0}, NEW v \in 0..m-1
  PROVE  v % m = v
<1>1. v = m * 0 + v /\ v = m * (v \div m) + (v % m) /\ v % m \in 0..m-1 /\ v \div m \in Int
  BY DivMod
<1> QED  BY <1>1, RemainderUnique

\* Two digits of v make up v modulo their range.
LEMMA TwoDigits ==
  ASSUME NEW B \in Nat \ {0}, NEW v \in Int
  PROVE  /\ (v \div B) % B \in 0..B-1 /\ v % B \in 0..B-1 /\ v \div B \in Int
         /\ ((v \div B) % B) * B + (v % B) = v % (B * B)
         /\ B * B \in Nat \ {0}
<1> DEFINE W == B * B
           q == v \div B
           r == v % B
           Q == q \div B
           R == q % B
<1>0. W \in Nat \ {0}
  <2>1. 1 * B <= B * B
    BY ProductMonotone
  <2> QED  BY <2>1
<1>1. r \in 0..B-1 /\ q \in Int /\ v = B * q + r
  BY DivMod
<1>2. R \in 0..B-1 /\ Q \in Int /\ q = B * Q + R
  BY <1>1, DivMod
<1> HIDE DEF q, r, Q, R
<1>4. B * (B * Q + R) = (B * B) * Q + B * R
  BY <1>1, <1>2
<1>5. v = (R * B + r) + W * Q
  <2>1. B * R = R * B /\ R * B \in Int /\ (B * B) * Q = W * Q
    BY <1>2
  <2>2. v = ((B * B) * Q + B * R) + r
    BY <1>1, <1>2, <1>4
  <2>3. v = (W * Q + R * B) + r /\ W * Q \in Int
    BY <1>0, <1>2, <2>1, <2>2
  <2>4. \A a, b, c \in Int : (a + b) + c = (b + c) + a
    OBVIOUS
  <2>5. r \in Int
    BY <1>1
  <2> QED  BY <2>1, <2>3, <2>4, <2>5
<1>6. R * B + r \in 0..W-1
  <2>1. R * B <= (B - 1) * B /\ 0 * B <= R * B
    BY <1>2, ProductMonotone
  <2>2. (B - 1) * B = B * B - B /\ R * B \in Int /\ B * B \in Int
    BY <1>2
  <2> QED  BY <1>1, <2>1, <2>2
<1>7. v % W = (R * B + r) % W
  <2> DEFINE b == R * B + r
  <2>1. b \in Int /\ v = b + W * Q
    BY <1>0, <1>5, <1>6
  <2> HIDE DEF b, W
  <2>2. v % W = b % W
    BY <1>0, <1>2, <2>1, ModUnique
  <2> QED  BY <2>2 DEF b
<1> HIDE DEF W
<1>8. v % W = R * B + r
  BY <1>0, <1>6, <1>7, SmallMod
<1> QED  BY <1>0, <1>1, <1>2, <1>8 DEF q, r, Q, R, W

\* The two bytes of v make up v modulo Word.
LEMMA TwoBytes ==
  ASSUME NEW v \in Int
  PROVE  /\ HighByte(v) \in Byte /\ v % Base \in Byte
         /\ HighByte(v) * Base + (v % Base) = v % Word
<1>1. Base \in Nat \ {0} /\ Word = Base * Base
  BY Constants
<1> QED  BY <1>1, TwoDigits DEF HighByte, Byte

\* Rounding the quotient changes nothing if the low byte rounds down.
LEMMA RoundedByte ==
  ASSUME NEW v \in Int
  PROVE  /\ HighByteInt16(v) \in Byte
         /\ RoundsDown(v) => HighByteInt16(v) = HighByte(v)
<1> DEFINE q == v \div Base
           r == v % Base
           w == 2 * v + Base
           m == 2 * Base
<1>0. Base \in Nat \ {0} /\ Base % 2 = 0 /\ m \in Nat \ {0} /\ w \in Int
  BY Constants, HostAssumption
<1>1. r \in 0..Base-1 /\ q \in Int /\ v = Base * q + r
  BY <1>0, DivMod
<1>2. w \div m \in Int /\ w % m \in 0..m-1 /\ w = m * (w \div m) + (w % m)
  BY <1>0, DivMod
<1>3. HighByteInt16(v) = (w \div m) % Base
  BY DEF HighByteInt16
<1>4. HighByteInt16(v) \in Byte
  BY <1>0, <1>2, <1>3, ModRange DEF Byte
<1>5. ASSUME RoundsDown(v) PROVE w \div m = q
  <2>1. r < Base \div 2
    BY <1>5 DEF RoundsDown
  <2>2. 2 * r + Base \in 0..m-1
    BY <2>1, <1>0, <1>1
  <2>3. w = m * q + (2 * r + Base)
    <3>1. 2 * (Base * q) = (2 * Base) * q /\ Base * q \in Int
      BY <1>0, <1>1
    <3> QED  BY <1>0, <1>1, <3>1
  <2> DEFINE p == w \div m
             t == w % m
             c == 2 * r + Base
  <2>4. p \in Int /\ t \in 0..m-1 /\ c \in 0..m-1 /\ m * p + t = m * q + c
    BY <1>2, <2>2, <2>3
  <2> HIDE DEF p, t, c, m, w, q, r
  <2>5. t = c
    BY <1>0, <1>1, <2>4, RemainderUnique
  <2>6. m * p = m * q
    <3>1. m * p \in Int /\ m * q \in Int /\ t \in Int /\ c \in Int
      BY <1>0, <1>1, <2>4
    <3>2. \A a, b, e \in Int : a + e = b + e => a = b
      OBVIOUS
    <3> QED  BY <2>4, <2>5, <3>1, <3>2
  <2>7. m * (p - q) = 0
    BY <1>0, <1>1, <2>4, <2>6
  <2>8. p - q = 0
    BY <1>0, <1>1, <2>4, <2>7, SmallMultiple
  <2>9. p = q
    BY <1>1, <2>4, <2>8
  <2> QED  BY <2>9 DEF p
<1> QED  BY <1>3, <1>4, <1>5 DEF HighByte

\* The bytes of words, and what they decode to.
LEMMA WordBytesFacts ==
  ASSUME NEW n \in Nat, NEW ws \in [1..n -> Int]
  PROVE  /\ Len(ws) = n
         /\ WordBytes(ws) \in Seq(Byte) /\ Len(WordBytes(ws)) = 2 * n
         /\ \A k \in 1..n : /\ WordBytes(ws)[2 * k - 1] = HighByte(ws[k])
                            /\ WordBytes(ws)[2 * k] = ws[k] % Base
                            /\ Unsigned(WordBytes(ws), 2 * k - 1) = ws[k] % Word
<1>1. ws \in Seq(Int) /\ Len(ws) = n
  OBVIOUS
<1> DEFINE f == [k \in 1..2*n |-> IF k % 2 = 1 THEN HighByte(ws[(k + 1) \div 2])
                                               ELSE ws[k \div 2] % Base]
<1>2. WordBytes(ws) = f
  BY <1>1 DEF WordBytes
<1>3. ASSUME NEW k \in 1..2*n PROVE f[k] \in Byte
  <2>1. CASE k % 2 = 1
    <3>1. (k + 1) \div 2 \in 1..n
      BY <2>1
    <3>2. ws[(k + 1) \div 2] \in Int
      BY <3>1
    <3> QED  BY <2>1, <3>2, TwoBytes
  <2>2. CASE k % 2 # 1
    <3>1. k \div 2 \in 1..n
      BY <2>2
    <3>2. ws[k \div 2] \in Int
      BY <3>1
    <3> QED  BY <2>2, <3>2, TwoBytes
  <2> QED  BY <2>1, <2>2
<1>4. f \in [1..2*n -> Byte] /\ 2 * n \in Nat
  BY <1>3
<1>5. f \in Seq(Byte) /\ Len(f) = 2 * n
  <2> HIDE DEF f
  <2> QED  BY <1>4
<1>6. ASSUME NEW k \in 1..n
      PROVE  f[2 * k - 1] = HighByte(ws[k]) /\ f[2 * k] = ws[k] % Base
  <2>1. /\ 2 * k - 1 \in 1..2*n /\ (2 * k - 1) % 2 = 1 /\ ((2 * k - 1) + 1) \div 2 = k
        /\ 2 * k \in 1..2*n /\ (2 * k) % 2 # 1 /\ (2 * k) \div 2 = k
    OBVIOUS
  <2> QED  BY <2>1
<1>7. ASSUME NEW k \in 1..n
      PROVE  Unsigned(WordBytes(ws), 2 * k - 1) = ws[k] % Word
  <2>1. (2 * k - 1) + 1 = 2 * k /\ ws[k] \in Int
    OBVIOUS
  <2> HIDE DEF f
  <2>2. Unsigned(f, 2 * k - 1) = f[2 * k - 1] * Base + f[2 * k]
    BY <2>1 DEF Unsigned
  <2>3. Unsigned(f, 2 * k - 1) = HighByte(ws[k]) * Base + (ws[k] % Base)
    BY <1>6, <2>2
  <2>4. HighByte(ws[k]) * Base + (ws[k] % Base) = ws[k] % Word
    BY <2>1, TwoBytes
  <2> QED  BY <1>2, <2>3, <2>4
<1> QED  BY <1>1, <1>2, <1>5, <1>6, <1>7
-----------------------------------------------------------------------------
(***************************************************************************)
(* Sequences.                                                              *)
(***************************************************************************)
LEMMA SplitUnique ==
  ASSUME NEW S, NEW a \in Seq(S), NEW b \in Seq(S), NEW c \in Seq(S), NEW d \in Seq(S),
         a \o b = c \o d, Len(a) = Len(c)
  PROVE  a = c /\ b = d
<1>1. ASSUME NEW i \in 1..Len(a) PROVE a[i] = c[i]
  <2>1. /\ i \in 1..Len(a) + Len(b) /\ i \in 1..Len(c) + Len(d) /\ i <= Len(a) /\ i <= Len(c)
    OBVIOUS
  <2>2. (a \o b)[i] = a[i] /\ (c \o d)[i] = c[i]
    BY <2>1, ConcatProperties
  <2> QED  BY <2>2
<1>2. a = c
  BY <1>1, SeqEqual
<1> QED  BY <1>2, ConcatSimplifications

\* Head and tail of a sequence, alone and in front of another.
LEMMA HeadTail ==
  ASSUME NEW S, NEW s \in Seq(S), NEW t \in Seq(S), s # <<>>
  PROVE  /\ Head(s) \in S /\ Tail(s) \in Seq(S) /\ Len(Tail(s)) = Len(s) - 1
         /\ <<Head(s)>> \o Tail(s) = s
         /\ s \o t # <<>> /\ Head(s \o t) = Head(s) /\ Tail(s \o t) = Tail(s) \o t
         /\ Head(s) = s[1] /\ (s \o t)[1] = s[1]
<1>1. /\ Head(s) \in S /\ Tail(s) \in Seq(S) /\ Len(Tail(s)) = Len(s) - 1
      /\ \A i \in 1..Len(Tail(s)) : Tail(s)[i] = s[i+1]
  BY HeadTailProperties
<1>2. Len(s) \in Nat \ {0} /\ Len(t) \in Nat
  BY EmptySeq, LenProperties
<1>3. Head(s) = s[1]
  OBVIOUS
<1>4. <<Head(s)>> \in Seq(S) /\ Len(<<Head(s)>>) = 1 /\ <<Head(s)>>[1] = s[1]
  BY <1>1, <1>3
<1> DEFINE h == <<Head(s)>>
           r == Tail(s)
<1>5. /\ h \o r \in Seq(S) /\ Len(h \o r) = 1 + Len(r)
      /\ \A i \in 1..1 + Len(r) : (h \o r)[i] = IF i <= 1 THEN h[i] ELSE r[i - 1]
  <2> HIDE DEF h, r
  <2>1. h \in Seq(S) /\ r \in Seq(S) /\ Len(h) = 1
    BY <1>1, <1>4 DEF h, r
  <2>2. /\ h \o r \in Seq(S) /\ Len(h \o r) = Len(h) + Len(r)
        /\ \A i \in 1..Len(h) + Len(r) : (h \o r)[i] = IF i <= Len(h) THEN h[i] ELSE r[i - Len(h)]
    BY <2>1, ConcatProperties
  <2> QED  BY <2>1, <2>2
<1>6. h \o r = s
  <2>1. Len(h \o r) = Len(s)
    BY <1>1, <1>2, <1>5
  <2>2. ASSUME NEW i \in 1..Len(h \o r) PROVE (h \o r)[i] = s[i]
    <3>0. i \in 1..1 + Len(r) /\ i \in 1..Len(s)
      BY <1>5, <2>1
    <3>1. CASE i = 1
      BY <1>4, <1>5, <3>0, <3>1
    <3>2. CASE i # 1
      <4>1. i - 1 \in 1..Len(r) /\ (i - 1) + 1 = i
        BY <1>1, <1>2, <3>0, <3>2
      <4> QED  BY <1>1, <1>5, <3>0, <3>2, <4>1
    <3> QED  BY <3>1, <3>2
  <2> HIDE DEF h, r
  <2> QED  BY <1>5, <2>1, <2>2, SeqEqual
<1>7. s \o t = h \o (r \o t) /\ r \o t \in Seq(S)
  <2> HIDE DEF h, r
  <2>1. h \in Seq(S) /\ r \in Seq(S)
    BY <1>1, <1>4 DEF h, r
  <2>2. (h \o r) \o t = h \o (r \o t)
    BY <2>1, ConcatAssociative
  <2>3. r \o t \in Seq(S)
    BY <2>1, ConcatProperties
  <2> QED  BY <1>6, <2>2, <2>3
<1>8. /\ s \o t \in Seq(S) /\ Len(s \o t) = Len(s) + Len(t)
      /\ (s \o t)[1] = s[1]
  <2>1. 1 \in 1..Len(s) + Len(t) /\ 1 <= Len(s)
    BY <1>2
  <2> QED  BY <2>1, ConcatProperties
<1>9. s \o t # <<>>
  BY <1>2, <1>8, EmptySeq
<1>10. Head(s \o t) = Head(s)
  BY <1>3, <1>8, <1>9
<1>11. <<Head(s \o t)>> \o Tail(s \o t) = h \o Tail(s \o t)
  BY <1>10
<1>12. Tail(s \o t) = r \o t
  <2> DEFINE u == s \o t
  <2>1. u \in Seq(S) /\ u # <<>> /\ Head(u) = s[1] /\ Len(u) = Len(s) + Len(t)
    BY <1>3, <1>8, <1>9, <1>10
  <2>2. Tail(u) \in Seq(S) /\ Len(Tail(u)) = Len(u) - 1
        /\ \A i \in 1..Len(Tail(u)) : Tail(u)[i] = u[i+1]
    <3> HIDE DEF u
    <3> QED  BY <2>1, HeadTailProperties
  <2>3. Len(r \o t) = Len(r) + Len(t)
        /\ \A i \in 1..Len(r) + Len(t) : (r \o t)[i] = IF i <= Len(r) THEN r[i] ELSE t[i - Len(r)]
    BY <1>1, ConcatProperties
  <2>4. \A i \in 1..Len(s) + Len(t) : u[i] = IF i <= Len(s) THEN s[i] ELSE t[i - Len(s)]
    BY ConcatProperties
  <2>5. Len(Tail(u)) = Len(r \o t)
    BY <1>1, <1>2, <2>1, <2>2, <2>3
  <2>6. ASSUME NEW i \in 1..Len(Tail(u)) PROVE Tail(u)[i] = (r \o t)[i]
    <3>1. i + 1 \in 1..Len(s) + Len(t) /\ i \in 1..Len(r) + Len(t) /\ i \in Int
      BY <1>1, <1>2, <2>1, <2>2, <2>3, <2>5
    <3>2. Tail(u)[i] = IF i + 1 <= Len(s) THEN s[i + 1] ELSE t[(i + 1) - Len(s)]
      BY <2>2, <2>4, <3>1
    <3>3. (r \o t)[i] = IF i <= Len(r) THEN r[i] ELSE t[i - Len(r)]
      BY <2>3, <3>1
    <3>4. CASE i <= Len(r)
      <4>1. i \in 1..Len(r) /\ i + 1 <= Len(s)
        BY <1>1, <1>2, <3>1, <3>4
      <4> QED  BY <1>1, <3>2, <3>3, <4>1
    <3>5. CASE ~(i <= Len(r))
      <4>1. ~(i + 1 <= Len(s)) /\ (i + 1) - Len(s) = i - Len(r)
        BY <1>1, <1>2, <3>1, <3>5
      <4> QED  BY <3>2, <3>3, <3>5, <4>1
    <3> QED  BY <3>4, <3>5
  <2> HIDE DEF u, r
  <2>7. Tail(u) = r \o t
    BY <1>7, <2>2, <2>5, <2>6, SeqEqual
  <2> QED  BY <2>7 DEF u
<1> QED  BY <1>1, <1>3, <1>6, <1>8, <1>9, <1>10, <1>12

\* Appending is concatenating a single element.
LEMMA AppendConcat ==
  ASSUME NEW S, NEW s \in Seq(S), NEW t \in Seq(S), NEW e \in S
  PROVE  /\ Append(s, e) = s \o <<e>> /\ <<e>> \in Seq(S)
         /\ Append(s, e) \o t = s \o (<<e>> \o t)
         /\ s \o Append(t, e) = (s \o t) \o <<e>>
<1>1. Append(s, e) = s \o <<e>> /\ Append(t, e) = t \o <<e>>
  BY AppendIsConcat
<1>2. <<e>> \in Seq(S)
  OBVIOUS
<1>3. (s \o <<e>>) \o t = s \o (<<e>> \o t) /\ (s \o t) \o <<e>> = s \o (t \o <<e>>)
  BY <1>2, ConcatAssociative
<1> QED  BY <1>1, <1>2, <1>3

\* The empty sequence changes nothing.
LEMMA Empties ==
  ASSUME NEW s \in Seq(Byte)
  PROVE  s \o <<>> = s /\ <<>> \o s = s
  BY ConcatEmptySeq
-----------------------------------------------------------------------------
(***************************************************************************)
(* The commands of a session.                                              *)
(***************************************************************************)
LEMMA SmallBytes == 0 \in Byte /\ 1 \in Byte /\ 2 \in Byte /\ 3 \in Byte /\ 4 \in Byte /\ 5 \in Byte
  BY Constants DEF Byte

\* The bytes of an image command: number, plane, then the pixels as words.
LEMMA ImageCommandFacts ==
  ASSUME NEW s \in Sessions, NEW type \in {"x_0", "u", "y_ideal"}
  PROVE  /\ ImageCommand(s, type) \in Seq(Byte)
         /\ Len(ImageCommand(s, type)) = 2 + 2 * Area(s)
         /\ ImageCommand(s, type)[1] = 1 /\ ImageCommand(s, type)[2] = type_ind[type]
         /\ \A k \in 1..Area(s) :
              Unsigned(ImageCommand(s, type), 2 * k + 1) = s.images[type][k] % Word
<1> DEFINE a == <<1, type_ind[type]>>
           b == WordBytes(s.images[type])
           c == a \o b
<1>1. Area(s) \in Nat /\ s.images[type] \in [1..Area(s) -> Int]
  BY SessionFacts
<1>2. type_ind[type] \in Byte
  BY SmallBytes DEF type_ind
<1>3. a \in Seq(Byte) /\ Len(a) = 2 /\ a[1] = 1 /\ a[2] = type_ind[type]
  BY <1>2, SmallBytes
<1>4. /\ b \in Seq(Byte) /\ Len(b) = 2 * Area(s)
      /\ \A k \in 1..Area(s) : Unsigned(b, 2 * k - 1) = s.images[type][k] % Word
  BY <1>1, WordBytesFacts
<1> HIDE DEF a, b
<1>5. /\ c \in Seq(Byte) /\ Len(c) = Len(a) + Len(b)
      /\ \A i \in 1..Len(a) + Len(b) : c[i] = IF i <= Len(a) THEN a[i] ELSE b[i - Len(a)]
  BY <1>3, <1>4, ConcatProperties
<1>6. Len(c) = 2 + 2 * Area(s) /\ c[1] = 1 /\ c[2] = type_ind[type]
  BY <1>1, <1>3, <1>4, <1>5
<1>7. ASSUME NEW k \in 1..Area(s) PROVE Unsigned(c, 2 * k + 1) = Unsigned(b, 2 * k - 1)
  <2>1. /\ 2 * k + 1 \in 1..Len(a) + Len(b) /\ ~(2 * k + 1 <= Len(a))
        /\ (2 * k + 1) + 1 \in 1..Len(a) + Len(b) /\ ~((2 * k + 1) + 1 <= Len(a))
        /\ (2 * k + 1) - Len(a) = 2 * k - 1
        /\ ((2 * k + 1) + 1) - Len(a) = (2 * k - 1) + 1
    BY <1>1, <1>3, <1>4
  <2>2. c[2 * k + 1] = b[2 * k - 1] /\ c[(2 * k + 1) + 1] = b[(2 * k - 1) + 1]
    <3> HIDE DEF c
    <3> QED  BY <1>5, <2>1
  <2> QED  BY <2>2 DEF Unsigned
<1>8. ImageCommand(s, type) = c
  BY DEF ImageCommand, a, b
<1> QED  BY <1>4, <1>5, <1>6, <1>7, <1>8

\* The first byte and the length of each command after the header.
LEMMA CommandFacts ==
  ASSUME NEW s \in Sessions, NEW i \in 0..3
  PROVE  /\ CommandNo(s, i) \in Seq(Byte) /\ CommandNo(s, i) # <<>>
         /\ i < 3 => CommandNo(s, i)[1] = 1 /\ Len(CommandNo(s, i)) = 2 + 2 * Area(s)
         /\ i = 3 => CommandNo(s, i)[1] = 2 /\ Len(CommandNo(s, i)) = 2
<1>1. Area(s) \in Nat /\ s.alg \in 1..5
  BY SessionFacts
<1>2. CASE i < 3
  <2>1. PICK type \in {"x_0", "u", "y_ideal"} : CommandNo(s, i) = ImageCommand(s, type)
    BY <1>2 DEF CommandNo
  <2>2. /\ CommandNo(s, i) \in Seq(Byte) /\ CommandNo(s, i)[1] = 1
        /\ Len(CommandNo(s, i)) = 2 + 2 * Area(s)
    BY <2>1, ImageCommandFacts
  <2>3. CommandNo(s, i) # <<>>
    BY <1>1, <2>2
  <2> QED  BY <1>2, <2>2, <2>3
<1>3. CASE i = 3
  <2>1. CommandNo(s, i) = <<2, s.alg>>
    BY <1>3 DEF CommandNo
  <2>2. s.alg \in Byte
    BY <1>1, Constants DEF Byte
  <2>3. /\ <<2, s.alg>> \in Seq(Byte) /\ <<2, s.alg>> # <<>>
        /\ <<2, s.alg>>[1] = 2 /\ Len(<<2, s.alg>>) = 2
    BY <2>2, SmallBytes
  <2>4. ~(i < 3)
    BY <1>3
  <2> QED  BY <2>1, <2>3, <2>4
<1> QED  BY <1>2, <1>3

\* A part of the commands is made of bytes.
LEMMA PartTypes ==
  ASSUME NEW s \in Sessions, NEW i \in 0..3, NEW d \in 0..4, NEW n \in 0..4
  PROVE  Part(s, i, d, n) \in Seq(Byte)
  BY CommandFacts DEF Part

\* The commands under way are bytes.
LEMMA CommandsType ==
  ASSUME NEW s \in Sessions, NEW d \in 0..4, NEW n \in 0..4
  PROVE  Commands(s, d, n) \in Seq(Byte)
<1> DEFINE a == Part(s, 0, d, n)
           b == Part(s, 1, d, n)
           c == Part(s, 2, d, n)
           e == Part(s, 3, d, n)
<1>1. a \in Seq(Byte) /\ b \in Seq(Byte) /\ c \in Seq(Byte) /\ e \in Seq(Byte)
  <2>1. 0 \in 0..3 /\ 1 \in 0..3 /\ 2 \in 0..3 /\ 3 \in 0..3
    OBVIOUS
  <2> QED  BY <2>1, PartTypes
<1>2. Commands(s, d, n) = a \o (b \o (c \o e))
  BY DEF Commands
<1> HIDE DEF a, b, c, e
<1>3. c \o e \in Seq(Byte)
  BY <1>1, ConcatProperties
<1>4. b \o (c \o e) \in Seq(Byte)
  BY <1>1, <1>3, ConcatProperties
<1>5. a \o (b \o (c \o e)) \in Seq(Byte)
  BY <1>1, <1>4, ConcatProperties
<1> QED  BY <1>2, <1>5

\* The first of the commands, and one more at their end.
LEMMA CommandsFirst ==
  ASSUME NEW s \in Sessions, NEW d \in 0..3, NEW n \in 0..4, d < n
  PROVE  Commands(s, d, n) = CommandNo(s, d) \o Commands(s, d + 1, n)
<1> DEFINE P(i) == Part(s, i, d, n)
           Q(i) == Part(s, i, d + 1, n)
<1>1. \A i \in 0..3 : P(i) \in Seq(Byte) /\ Q(i) \in Seq(Byte)
  <2>1. d \in 0..4 /\ d + 1 \in 0..4
    OBVIOUS
  <2> QED  BY <2>1, PartTypes
<1>2. /\ \A i \in 0..3 : i < d => P(i) = <<>> /\ Q(i) = <<>>
      /\ P(d) = CommandNo(s, d) /\ Q(d) = <<>>
      /\ \A i \in 0..3 : i > d => P(i) = Q(i)
  BY DEF Part
<1>3. /\ Commands(s, d, n) = P(0) \o (P(1) \o (P(2) \o P(3)))
      /\ Commands(s, d + 1, n) = Q(0) \o (Q(1) \o (Q(2) \o Q(3)))
  BY DEF Commands
<1> HIDE DEF P, Q
<1>4. /\ Q(2) \o Q(3) \in Seq(Byte) /\ Q(3) \in Seq(Byte)
      /\ Q(1) \o (Q(2) \o Q(3)) \in Seq(Byte)
  <2>1. Q(2) \o Q(3) \in Seq(Byte)
    BY <1>1, ConcatProperties
  <2> QED  BY <1>1, <2>1, ConcatProperties
<1>5. P(d) \in Seq(Byte)
  BY <1>1
<1>6. CASE d = 0
  <2>1. P(1) = Q(1) /\ P(2) = Q(2) /\ P(3) = Q(3) /\ Q(0) = <<>> /\ P(0) = CommandNo(s, d)
    BY <1>2, <1>6
  <2> QED  BY <1>3, <1>4, <2>1, Empties
<1>7. CASE d = 1
  <2>1. /\ P(0) = <<>> /\ Q(0) = <<>> /\ Q(1) = <<>> /\ P(1) = CommandNo(s, d)
        /\ P(2) = Q(2) /\ P(3) = Q(3)
    BY <1>2, <1>7
  <2>2. P(1) \o (Q(2) \o Q(3)) \in Seq(Byte)
    BY <1>1, <1>4, ConcatProperties
  <2>3. Commands(s, d, n) = P(1) \o (Q(2) \o Q(3))
    BY <1>3, <2>1, <2>2, Empties
  <2>4. Commands(s, d + 1, n) = Q(2) \o Q(3)
    BY <1>3, <1>4, <2>1, Empties
  <2> QED  BY <2>1, <2>3, <2>4
<1>8. CASE d = 2
  <2>1. /\ P(0) = <<>> /\ Q(0) = <<>> /\ Q(1) = <<>> /\ P(1) = <<>> /\ Q(2) = <<>>
        /\ P(2) = CommandNo(s, d) /\ P(3) = Q(3)
    BY <1>2, <1>8
  <2>2. P(2) \o Q(3) \in Seq(Byte)
    BY <1>1, ConcatProperties
  <2>3. Commands(s, d, n) = P(2) \o Q(3)
    BY <1>3, <2>1, <2>2, Empties
  <2>4. Commands(s, d + 1, n) = Q(3)
    BY <1>3, <1>4, <2>1, Empties
  <2> QED  BY <2>1, <2>3, <2>4
<1>9. CASE d = 3
  <2>1. /\ P(0) = <<>> /\ Q(0) = <<>> /\ Q(1) = <<>> /\ P(1) = <<>> /\ Q(2) = <<>> /\ P(2) = <<>>
        /\ P(3) = CommandNo(s, d) /\ Q(3) = <<>>
    BY <1>2, <1>9
  <2>2. Commands(s, d, n) = P(3)
    BY <1>1, <1>3, <2>1, Empties
  <2>3. Commands(s, d + 1, n) = <<>>
    BY <1>3, <1>4, <2>1, Empties
  <2>4. P(3) \o <<>> = P(3)
    BY <1>1, Empties
  <2> QED  BY <2>1, <2>2, <2>3, <2>4
<1> QED  BY <1>6, <1>7, <1>8, <1>9

\* No command is left when all sent have been taken.
LEMMA CommandsNone ==
  ASSUME NEW s \in Sessions, NEW n \in 0..4
  PROVE  Commands(s, n, n) = <<>>
<1>1. \A i \in 0..3 : Part(s, i, n, n) = <<>>
  BY DEF Part
<1>2. <<>> \in Seq(Byte)
  OBVIOUS
<1>3. <<>> \o <<>> = <<>>
  BY <1>2, Empties
<1> QED  BY <1>1, <1>3 DEF Commands

\* Sending one more command puts it at the end.
LEMMA CommandsLast ==
  ASSUME NEW s \in Sessions, NEW n \in 0..3, NEW d \in 0..n
  PROVE  Commands(s, d, n) \o CommandNo(s, n) = Commands(s, d, n + 1)
<1>0. CommandNo(s, n) \in Seq(Byte)
  BY CommandFacts
<1>1. ASSUME NEW e \in 0..n, e < n,
             Commands(s, e + 1, n) \o CommandNo(s, n) = Commands(s, e + 1, n + 1)
      PROVE  Commands(s, e, n) \o CommandNo(s, n) = Commands(s, e, n + 1)
  <2>1. e \in 0..3 /\ n \in 0..4 /\ n + 1 \in 0..4 /\ e + 1 \in 0..4 /\ e < n + 1
    BY <1>1
  <2>2. /\ Commands(s, e, n) = CommandNo(s, e) \o Commands(s, e + 1, n)
        /\ Commands(s, e, n + 1) = CommandNo(s, e) \o Commands(s, e + 1, n + 1)
    BY <1>1, <2>1, CommandsFirst
  <2>3. CommandNo(s, e) \in Seq(Byte) /\ Commands(s, e + 1, n) \in Seq(Byte)
    BY <2>1, CommandFacts, CommandsType
  <2>4. (CommandNo(s, e) \o Commands(s, e + 1, n)) \o CommandNo(s, n)
          = CommandNo(s, e) \o (Commands(s, e + 1, n) \o CommandNo(s, n))
    BY <1>0, <2>3, ConcatAssociative
  <2> QED  BY <1>1, <2>2, <2>4
<1>2. Commands(s, n, n) \o CommandNo(s, n) = Commands(s, n, n + 1)
  <2>1. n \in 0..3 /\ n + 1 \in 0..4 /\ n < n + 1 /\ n \in 0..4
    OBVIOUS
  <2>2. Commands(s, n, n + 1) = CommandNo(s, n) \o Commands(s, n + 1, n + 1)
    BY <2>1, CommandsFirst
  <2>3. Commands(s, n, n) = <<>> /\ Commands(s, n + 1, n + 1) = <<>>
    BY <2>1, CommandsNone
  <2> QED  BY <1>0, <2>2, <2>3, Empties
<1> DEFINE A(e) == Commands(s, e, n) \o CommandNo(s, n) = Commands(s, e, n + 1)
<1>3. A(n) /\ \A e \in 0..n : e < n /\ A(e + 1) => A(e)
  BY <1>1, <1>2
<1> HIDE DEF A
<1>4. A(d)
  <2>1. CASE d = n
    BY <1>3, <2>1
  <2>2. CASE d = n - 1
    BY <1>3, <2>2
  <2>3. CASE d = n - 2
    <3>1. n - 1 \in 0..n /\ n - 1 < n /\ (n - 1) + 1 = n /\ d + 1 = n - 1 /\ d < n
      BY <2>3
    <3>2. A(n - 1)
      BY <1>3, <3>1
    <3> QED  BY <1>3, <3>1, <3>2
  <2>4. CASE d = n - 3
    <3>1. /\ n - 1 \in 0..n /\ n - 1 < n /\ (n - 1) + 1 = n
          /\ n - 2 \in 0..n /\ n - 2 < n /\ (n - 2) + 1 = n - 1 /\ d + 1 = n - 2 /\ d < n
      BY <2>4
    <3>2. A(n - 1)
      BY <1>3, <3>1
    <3>3. A(n - 2)
      BY <1>3, <3>1, <3>2
    <3> QED  BY <1>3, <3>1, <3>3
  <2> QED  BY <2>1, <2>2, <2>3, <2>4
<1> QED  BY <1>4 DEF A
-----------------------------------------------------------------------------
(***************************************************************************)
(* The header and the requests.                                            *)
(***************************************************************************)
LEMMA OneWord ==
  ASSUME NEW x \in Int
  PROVE  /\ WordBytes(<<x>>) \in Seq(Byte) /\ Len(WordBytes(<<x>>)) = 2
         /\ Unsigned(WordBytes(<<x>>), 1) = x % Word
<1>1. <<x>> \in [1..1 -> Int] /\ <<x>>[1] = x
  OBVIOUS
<1>2. /\ WordBytes(<<x>>) \in Seq(Byte) /\ Len(WordBytes(<<x>>)) = 2 * 1
      /\ \A k \in 1..1 : Unsigned(WordBytes(<<x>>), 2 * k - 1) = <<x>>[k] % Word
  BY <1>1, WordBytesFacts
<1>3. 2 * 1 - 1 = 1 /\ 1 \in 1..1 /\ 2 * 1 = 2
  OBVIOUS
<1> QED  BY <1>1, <1>2, <1>3

\* Two words are four bytes that decode to them.
LEMMA TwoWords ==
  ASSUME NEW x \in Int, NEW y \in Int
  PROVE  LET b == WordBytes(<<x, y>>)
         IN b \in Seq(Byte) /\ Len(b) = 4 /\ Unsigned(b, 1) = x % Word /\ Unsigned(b, 3) = y % Word
<1> DEFINE w == <<x, y>>
           b == WordBytes(w)
<1>1. w \in [1..2 -> Int] /\ w[1] = x /\ w[2] = y
  OBVIOUS
<1> HIDE DEF w
<1>2. /\ b \in Seq(Byte) /\ Len(b) = 2 * 2
      /\ \A k \in 1..2 : Unsigned(b, 2 * k - 1) = w[k] % Word
  BY <1>1, WordBytesFacts
<1> HIDE DEF b
<1>3. 2 * 1 - 1 = 1 /\ 2 * 2 - 1 = 3 /\ 1 \in 1..2 /\ 2 \in 1..2 /\ 2 * 2 = 4
  OBVIOUS
<1>4. Unsigned(b, 1) = x % Word /\ Unsigned(b, 3) = y % Word
  BY <1>1, <1>2, <1>3
<1> QED  BY <1>2, <1>3, <1>4 DEF b, w

\* Three words are six bytes that decode to them.
LEMMA ThreeWords ==
  ASSUME NEW x \in Int, NEW y \in Int, NEW z \in Int
  PROVE  LET b == WordBytes(<<x, y, z>>)
         IN /\ b \in Seq(Byte) /\ Len(b) = 6 /\ Unsigned(b, 1) = x % Word
            /\ Unsigned(b, 3) = y % Word /\ Unsigned(b, 5) = z % Word
<1> DEFINE w == <<x, y, z>>
           b == WordBytes(w)
<1>1. w \in [1..3 -> Int] /\ w[1] = x /\ w[2] = y /\ w[3] = z
  OBVIOUS
<1> HIDE DEF w
<1>2. /\ b \in Seq(Byte) /\ Len(b) = 2 * 3
      /\ \A k \in 1..3 : Unsigned(b, 2 * k - 1) = w[k] % Word
  BY <1>1, WordBytesFacts
<1> HIDE DEF b
<1>3. /\ 2 * 1 - 1 = 1 /\ 2 * 2 - 1 = 3 /\ 2 * 3 - 1 = 5
      /\ 1 \in 1..3 /\ 2 \in 1..3 /\ 3 \in 1..3 /\ 2 * 3 = 6
  OBVIOUS
<1>4. Unsigned(b, 1) = x % Word /\ Unsigned(b, 3) = y % Word /\ Unsigned(b, 5) = z % Word
  BY <1>1, <1>2, <1>3
<1> QED  BY <1>2, <1>3, <1>4 DEF b, w

\* An int16 field of the header decodes to its value if it rounds down.
LEMMA Int16Facts ==
  ASSUME NEW v \in 0..Word-1
  PROVE  /\ Int16Bytes(v) \in Seq(Byte) /\ Len(Int16Bytes(v)) = 2
         /\ RoundsDown(v) => Unsigned(Int16Bytes(v), 1) = v
<1>1. /\ v \in Int /\ Word \in Nat \ {0}
  BY Constants
<1>2. /\ HighByteInt16(v) \in Byte /\ v % Base \in Byte
      /\ RoundsDown(v) => HighByteInt16(v) = HighByte(v)
      /\ HighByte(v) * Base + (v % Base) = v % Word
  BY <1>1, TwoBytes, RoundedByte
<1>3. v % Word = v
  BY <1>1, SmallMod
<1> DEFINE h == HighByteInt16(v)
           l == v % Base
<1>4. Int16Bytes(v) = <<h, l>>
  BY DEF Int16Bytes
<1> HIDE DEF h, l
<1>5. <<h, l>> \in Seq(Byte) /\ Len(<<h, l>>) = 2 /\ Unsigned(<<h, l>>, 1) = h * Base + l
  <2>1. h \in Byte /\ l \in Byte
    BY <1>2 DEF h, l
  <2>2. 1 + 1 = 2 /\ <<h, l>>[1] = h /\ <<h, l>>[2] = l
    OBVIOUS
  <2> QED  BY <2>1, <2>2 DEF Unsigned
<1>6. ASSUME RoundsDown(v) PROVE h * Base + l = v
  BY <1>2, <1>3, <1>6 DEF h, l
<1> QED  BY <1>4, <1>5, <1>6

\* Words keep their values in a longer sequence.
LEMMA UnsignedLeft ==
  ASSUME NEW a \in Seq(Byte), NEW b \in Seq(Byte), NEW i \in 1..Len(a), i + 1 <= Len(a)
  PROVE  Unsigned(a \o b, i) = Unsigned(a, i)
<1>1. i \in 1..Len(a) + Len(b) /\ i + 1 \in 1..Len(a) + Len(b) /\ i <= Len(a)
  OBVIOUS
<1>2. (a \o b)[i] = a[i] /\ (a \o b)[i + 1] = a[i + 1]
  BY <1>1, ConcatProperties
<1> QED  BY <1>2 DEF Unsigned

\* Words keep their values behind another sequence.
LEMMA UnsignedRight ==
  ASSUME NEW a \in Seq(Byte), NEW b \in Seq(Byte), NEW i \in 1..Len(b), i + 1 <= Len(b)
  PROVE  Unsigned(a \o b, Len(a) + i) = Unsigned(b, i)
<1> DEFINE j == Len(a) + i
<1>1. /\ j \in 1..Len(a) + Len(b) /\ j + 1 \in 1..Len(a) + Len(b)
      /\ ~(j <= Len(a)) /\ ~(j + 1 <= Len(a)) /\ j - Len(a) = i /\ (j + 1) - Len(a) = i + 1
  OBVIOUS
<1> HIDE DEF j
<1>2. \A k \in 1..Len(a) + Len(b) : (a \o b)[k] = IF k <= Len(a) THEN a[k] ELSE b[k - Len(a)]
  BY ConcatProperties
<1>3. (a \o b)[j] = b[i] /\ (a \o b)[j + 1] = b[i + 1]
  BY <1>1, <1>2
<1>4. Unsigned(a \o b, j) = Unsigned(b, i)
  BY <1>3 DEF Unsigned
<1> QED  BY <1>4 DEF j

\* Two bytes make an unsigned word.
LEMMA UnsignedType ==
  ASSUME NEW b \in Seq(Byte), NEW i \in 1..Len(b), i + 1 <= Len(b)
  PROVE  Unsigned(b, i) \in 0..Word-1
<1>1. b[i] \in Byte /\ b[i + 1] \in Byte
  <2>1. i + 1 \in 1..Len(b)
    OBVIOUS
  <2> QED  BY <2>1, ElementOfSeq
<1>2. PICK x \in Byte, y \in Byte : Unsigned(b, i) = x * Base + y
  BY <1>1 DEF Unsigned
<1>3. x \in 0..Base-1 /\ y \in 0..Base-1 /\ Base \in Nat \ {0} /\ Word = Base * Base
  BY Constants DEF Byte
<1>4. x * Base <= (Base - 1) * Base /\ 0 * Base <= x * Base
  BY <1>3, ProductMonotone
<1>5. (Base - 1) * Base = Base * Base - Base /\ x * Base \in Int /\ Base * Base \in Int
  BY <1>3
<1> QED  BY <1>2, <1>3, <1>4, <1>5

\* What a concatenation begins with.
LEMMA ConcatFirst ==
  ASSUME NEW a \in Seq(Byte), NEW b \in Seq(Byte), Len(a) > 0
  PROVE  a \o b \in Seq(Byte) /\ Len(a \o b) = Len(a) + Len(b) /\ (a \o b)[1] = a[1]
<1>1. 1 \in 1..Len(a) + Len(b) /\ 1 <= Len(a)
  OBVIOUS
<1> QED  BY <1>1, ConcatProperties

\* The fifteen bytes of fpga_send_header, and the fields header_read finds in them.
LEMMA HeaderBytesFacts ==
  ASSUME NEW s \in Sessions
  PROVE  /\ HeaderBytes(s) \in Seq(Byte) /\ Len(HeaderBytes(s)) = 15 /\ HeaderBytes(s)[1] = 0
         /\ Unsigned(HeaderBytes(s), 2) = s.width /\ Unsigned(HeaderBytes(s), 4) = s.height
         /\ RoundsDown(s.Ts) => Unsigned(HeaderBytes(s), 6) = s.Ts
         /\ Unsigned(HeaderBytes(s), 8) = s.iter
         /\ Unsigned(HeaderBytes(s), 10) = s.template_no
         /\ Unsigned(HeaderBytes(s), 12) = s.learn_loop
         /\ RoundsDown(s.learn_rate) => Unsigned(HeaderBytes(s), 14) = s.learn_rate
<1>0. Word \in Nat \ {0} /\ Word \div 2 <= Word
  BY Constants
<1>1. /\ s.width \in 0..Word-1 /\ s.height \in 0..Word-1 /\ s.Ts \in 0..Word-1
      /\ s.iter \in 0..Word-1 /\ s.template_no \in 0..Word-1 /\ s.learn_loop \in 0..Word-1
      /\ s.learn_rate \in 0..Word-1
  BY <1>0, SessionFacts
<1>2. /\ s.width % Word = s.width /\ s.height % Word = s.height /\ s.iter % Word = s.iter
      /\ s.template_no % Word = s.template_no /\ s.learn_loop % Word = s.learn_loop
  BY <1>0, <1>1, SmallMod
<1>3. /\ s.width \in Int /\ s.height \in Int /\ s.iter \in Int /\ s.template_no \in Int
      /\ s.learn_loop \in Int
  BY <1>1
<1> DEFINE a == << 0 >>
           b == WordBytes(<<s.width, s.height>>)
           c == Int16Bytes(s.Ts)
           d == WordBytes(<<s.iter, s.template_no, s.learn_loop>>)
           e == Int16Bytes(s.learn_rate)
           ab == a \o b
           abc == ab \o c
           abcd == abc \o d
           H == abcd \o e
<1>4. a \in Seq(Byte) /\ Len(a) = 1 /\ a[1] = 0
  BY SmallBytes
<1>5. /\ b \in Seq(Byte) /\ Len(b) = 4
      /\ Unsigned(b, 1) = s.width /\ Unsigned(b, 3) = s.height
  BY <1>2, <1>3, TwoWords
<1>6. c \in Seq(Byte) /\ Len(c) = 2 /\ (RoundsDown(s.Ts) => Unsigned(c, 1) = s.Ts)
  BY <1>1, Int16Facts
<1>7. /\ d \in Seq(Byte) /\ Len(d) = 6 /\ Unsigned(d, 1) = s.iter
      /\ Unsigned(d, 3) = s.template_no /\ Unsigned(d, 5) = s.learn_loop
  BY <1>2, <1>3, ThreeWords
<1>8. e \in Seq(Byte) /\ Len(e) = 2 /\ (RoundsDown(s.learn_rate) => Unsigned(e, 1) = s.learn_rate)
  BY <1>1, Int16Facts
<1>9. HeaderBytes(s) = H
  BY DEF HeaderBytes
<1> HIDE DEF a, b, c, d, e
<1>10. ab \in Seq(Byte) /\ Len(ab) = 5 /\ ab[1] = 0
  <2>1. Len(a) > 0 /\ Len(a) + Len(b) = 5
    BY <1>4, <1>5
  <2> QED  BY <2>1, <1>4, <1>5, ConcatFirst
<1>11. Unsigned(ab, 2) = s.width /\ Unsigned(ab, 4) = s.height
  <2>1. /\ 1 \in 1..Len(b) /\ 1 + 1 <= Len(b) /\ 3 \in 1..Len(b) /\ 3 + 1 <= Len(b)
        /\ Len(a) + 1 = 2 /\ Len(a) + 3 = 4
    BY <1>4, <1>5
  <2>2. Unsigned(ab, Len(a) + 1) = Unsigned(b, 1) /\ Unsigned(ab, Len(a) + 3) = Unsigned(b, 3)
    BY <1>4, <1>5, <2>1, UnsignedRight
  <2> QED  BY <1>5, <2>1, <2>2
<1> HIDE DEF ab
<1>12. abc \in Seq(Byte) /\ Len(abc) = 7 /\ abc[1] = 0
  <2>1. Len(ab) > 0 /\ Len(ab) + Len(c) = 7
    BY <1>6, <1>10
  <2> QED  BY <2>1, <1>6, <1>10, ConcatFirst
<1>13. /\ Unsigned(abc, 2) = s.width /\ Unsigned(abc, 4) = s.height
       /\ Unsigned(abc, 6) = Unsigned(c, 1)
  <2>1. /\ 2 \in 1..Len(ab) /\ 2 + 1 <= Len(ab) /\ 4 \in 1..Len(ab) /\ 4 + 1 <= Len(ab)
        /\ 1 \in 1..Len(c) /\ 1 + 1 <= Len(c) /\ Len(ab) + 1 = 6
    BY <1>6, <1>10
  <2>2. /\ Unsigned(abc, 2) = Unsigned(ab, 2) /\ Unsigned(abc, 4) = Unsigned(ab, 4)
        /\ Unsigned(abc, Len(ab) + 1) = Unsigned(c, 1)
    BY <1>6, <1>10, <2>1, UnsignedLeft, UnsignedRight
  <2> QED  BY <1>11, <2>1, <2>2
<1> HIDE DEF abc
<1>14. abcd \in Seq(Byte) /\ Len(abcd) = 13 /\ abcd[1] = 0
  <2>1. Len(abc) > 0 /\ Len(abc) + Len(d) = 13
    BY <1>7, <1>12
  <2> QED  BY <2>1, <1>7, <1>12, ConcatFirst
<1>15. /\ Unsigned(abcd, 2) = s.width /\ Unsigned(abcd, 4) = s.height
       /\ Unsigned(abcd, 6) = Unsigned(c, 1) /\ Unsigned(abcd, 8) = s.iter
       /\ Unsigned(abcd, 10) = s.template_no /\ Unsigned(abcd, 12) = s.learn_loop
  <2>1. /\ 2 \in 1..Len(abc) /\ 2 + 1 <= Len(abc) /\ 4 \in 1..Len(abc) /\ 4 + 1 <= Len(abc)
        /\ 6 \in 1..Len(abc) /\ 6 + 1 <= Len(abc)
        /\ 1 \in 1..Len(d) /\ 1 + 1 <= Len(d) /\ 3 \in 1..Len(d) /\ 3 + 1 <= Len(d)
        /\ 5 \in 1..Len(d) /\ 5 + 1 <= Len(d)
        /\ Len(abc) + 1 = 8 /\ Len(abc) + 3 = 10 /\ Len(abc) + 5 = 12
    BY <1>7, <1>12
  <2>2. /\ Unsigned(abcd, 2) = Unsigned(abc, 2) /\ Unsigned(abcd, 4) = Unsigned(abc, 4)
        /\ Unsigned(abcd, 6) = Unsigned(abc, 6)
    BY <1>7, <1>12, <2>1, UnsignedLeft
  <2>3. /\ Unsigned(abcd, Len(abc) + 1) = Unsigned(d, 1)
        /\ Unsigned(abcd, Len(abc) + 3) = Unsigned(d, 3)
        /\ Unsigned(abcd, Len(abc) + 5) = Unsigned(d, 5)
    BY <1>7, <1>12, <2>1, UnsignedRight
  <2> QED  BY <1>7, <1>13, <2>1, <2>2, <2>3
<1> HIDE DEF abcd
<1>16. H \in Seq(Byte) /\ Len(H) = 15 /\ H[1] = 0
  <2>1. Len(abcd) > 0 /\ Len(abcd) + Len(e) = 15
    BY <1>8, <1>14
  <2> QED  BY <2>1, <1>8, <1>14, ConcatFirst
<1>17. /\ Unsigned(H, 2) = s.width /\ Unsigned(H, 4) = s.height
       /\ Unsigned(H, 6) = Unsigned(c, 1) /\ Unsigned(H, 8) = s.iter
       /\ Unsigned(H, 10) = s.template_no /\ Unsigned(H, 12) = s.learn_loop
       /\ Unsigned(H, 14) = Unsigned(e, 1)
  <2>1. /\ 2 \in 1..Len(abcd) /\ 2 + 1 <= Len(abcd) /\ 4 \in 1..Len(abcd) /\ 4 + 1 <= Len(abcd)
        /\ 6 \in 1..Len(abcd) /\ 6 + 1 <= Len(abcd) /\ 8 \in 1..Len(abcd) /\ 8 + 1 <= Len(abcd)
        /\ 10 \in 1..Len(abcd) /\ 10 + 1 <= Len(abcd)
        /\ 12 \in 1..Len(abcd) /\ 12 + 1 <= Len(abcd)
        /\ 1 \in 1..Len(e) /\ 1 + 1 <= Len(e) /\ Len(abcd) + 1 = 14
    BY <1>8, <1>14
  <2>2. /\ Unsigned(H, 2) = Unsigned(abcd, 2) /\ Unsigned(H, 4) = Unsigned(abcd, 4)
        /\ Unsigned(H, 6) = Unsigned(abcd, 6) /\ Unsigned(H, 8) = Unsigned(abcd, 8)
        /\ Unsigned(H, 10) = Unsigned(abcd, 10) /\ Unsigned(H, 12) = Unsigned(abcd, 12)
    BY <1>8, <1>14, <2>1, UnsignedLeft
  <2>3. Unsigned(H, Len(abcd) + 1) = Unsigned(e, 1)
    BY <1>8, <1>14, <2>1, UnsignedRight
  <2> QED  BY <1>15, <2>1, <2>2, <2>3
<1> HIDE DEF H
<1> QED  BY <1>6, <1>8, <1>9, <1>16, <1>17

\* The bytes of the three requests.
LEMMA RequestFacts ==
  ASSUME NEW s \in Sessions, NEW item \in Items
  PROVE  /\ RequestFor(s, item) \in Seq(Byte) /\ RequestFor(s, item) # <<>>
         /\ item = "image" => /\ Len(RequestFor(s, item)) = 2
                              /\ RequestFor(s, item)[1] = 3 /\ RequestFor(s, item)[2] = 1
         /\ item = "error" => Len(RequestFor(s, item)) = 1 /\ RequestFor(s, item)[1] = 4
         /\ item = "template" => /\ Len(RequestFor(s, item)) = 3 /\ RequestFor(s, item)[1] = 5
                                 /\ Unsigned(RequestFor(s, item), 2) = s.template_no
<1> DEFINE r == RequestFor(s, item)
<1>1. CASE item = "image"
  <2>1. r = <<3, 1>>
    BY <1>1 DEF RequestFor
  <2>2. <<3, 1>> \in Seq(Byte) /\ Len(<<3, 1>>) = 2 /\ <<3, 1>>[1] = 3 /\ <<3, 1>>[2] = 1
    BY SmallBytes
  <2> HIDE DEF r
  <2>3. r \in Seq(Byte) /\ r # <<>> /\ Len(r) = 2 /\ r[1] = 3 /\ r[2] = 1
    BY <2>1, <2>2
  <2> QED  BY <1>1, <2>3 DEF r
<1>2. CASE item = "error"
  <2>1. r = << 4 >>
    BY <1>2 DEF RequestFor
  <2>2. << 4 >> \in Seq(Byte) /\ Len(<< 4 >>) = 1 /\ << 4 >>[1] = 4
    BY SmallBytes
  <2> HIDE DEF r
  <2>3. r \in Seq(Byte) /\ r # <<>> /\ Len(r) = 1 /\ r[1] = 4
    BY <2>1, <2>2
  <2> QED  BY <1>2, <2>3 DEF r
<1>3. CASE item = "template"
  <2> DEFINE a == << 5 >>
             b == WordBytes(<<s.template_no>>)
  <2>1. r = a \o b
    BY <1>3 DEF RequestFor
  <2>2. a \in Seq(Byte) /\ Len(a) = 1 /\ a[1] = 5
    BY SmallBytes
  <2>3. s.template_no \in 0..Word-1 /\ Word \in Nat \ {0}
    BY SessionFacts, Constants
  <2>4. s.template_no % Word = s.template_no
    BY <2>3, SmallMod
  <2>5. b \in Seq(Byte) /\ Len(b) = 2 /\ Unsigned(b, 1) = s.template_no
    BY <2>3, <2>4, OneWord
  <2> HIDE DEF a, b, r
  <2>6. 1 \in 1..Len(a) + Len(b) /\ 1 <= Len(a)
    BY <2>2, <2>5
  <2>7. r \in Seq(Byte) /\ Len(r) = 3 /\ r[1] = 5
    BY <2>1, <2>2, <2>5, <2>6, ConcatProperties
  <2>8. 1 \in 1..Len(b) /\ 1 + 1 <= Len(b) /\ Len(a) + 1 = 2
    BY <2>2, <2>5
  <2>9. Unsigned(r, 2) = s.template_no
    BY <2>1, <2>2, <2>5, <2>8, UnsignedRight
  <2>10. r # <<>>
    BY <2>7
  <2> QED  BY <1>3, <2>7, <2>9, <2>10 DEF r
<1> QED  BY <1>1, <1>2, <1>3 DEF Items
-----------------------------------------------------------------------------
(***************************************************************************)
(* What Matlab puts together of the bytes that answer it.                  *)
(***************************************************************************)
LEMMA EvenRanges ==
  \A R \in {Word, Long} : R \in Nat \ {0} /\ R \div 2 \in Nat /\ R = 2 * (R \div 2)
<1>1. Base \in Nat \ {0} /\ Base % 2 = 0 /\ Word = Base * Base /\ Long = Word * Word
  BY Constants, HostAssumption
<1>2. PICK h \in Nat : Base = 2 * h
  <2>1. Base \div 2 \in Nat /\ Base = 2 * (Base \div 2)
    BY <1>1
  <2> QED  BY <2>1
<1>3. Word \in Nat \ {0} /\ Long \in Nat \ {0}
  BY Constants
<1>4. Word = 2 * (h * Base) /\ h * Base \in Nat
  BY <1>1, <1>2
<1>5. Long = 2 * ((h * Base) * Word) /\ (h * Base) * Word \in Nat
  BY <1>1, <1>3, <1>4
<1>6. \A x, y \in Nat : x = 2 * y => x \div 2 = y
  OBVIOUS
<1> QED  BY <1>3, <1>4, <1>5, <1>6

\* typecast between unsigned and signed words is one to one.
LEMMA SignedCast ==
  ASSUME NEW R \in {Word, Long}
  PROVE  /\ \A v \in 0..R-1 : Signed(v, R) \in SignedRange(R) /\ Signed(v, R) % R = v
         /\ \A w \in SignedRange(R) : w % R \in 0..R-1 /\ Signed(w % R, R) = w
<1>1. PICK h \in Nat : R = 2 * h /\ R \div 2 = h
  BY EvenRanges
<1>2. R \in Nat \ {0}
  BY EvenRanges
<1>3. SignedRange(R) = (-h)..(h - 1)
  BY <1>1 DEF SignedRange
<1>4. \A v \in 0..R-1 : v % R = v
  BY <1>2, SmallMod
<1>5. ASSUME NEW v \in Int PROVE (v - R) % R = v % R
  <2> DEFINE b == v - R
             o == 1
  <2>1. v = b + R * o /\ b \in Int /\ o \in Int
    BY <1>2
  <2> HIDE DEF b, o
  <2>2. v % R = b % R
    BY <1>2, <2>1, ModUnique
  <2> QED  BY <2>2 DEF b
<1>6. ASSUME NEW v \in 0..R-1 PROVE Signed(v, R) \in SignedRange(R) /\ Signed(v, R) % R = v
  <2>1. Signed(v, R) = IF v >= h THEN v - R ELSE v
    BY <1>1 DEF Signed
  <2>2. v \in Int
    BY <1>2
  <2>3. CASE v >= h
    <3>1. v - R \in (-h)..(h - 1)
      BY <1>1, <2>2, <2>3
    <3>2. (v - R) % R = v
      BY <1>4, <1>5, <2>2
    <3> QED  BY <1>3, <2>1, <2>3, <3>1, <3>2
  <2>4. CASE ~(v >= h)
    BY <1>1, <1>3, <1>4, <2>1, <2>2, <2>4
  <2> QED  BY <2>3, <2>4
<1>7. ASSUME NEW w \in SignedRange(R) PROVE w % R \in 0..R-1 /\ Signed(w % R, R) = w
  <2>0. w \in Int /\ -h <= w /\ w <= h - 1
    BY <1>3
  <2>1. \A v \in 0..R-1 : Signed(v, R) = IF v >= h THEN v - R ELSE v
    BY <1>1 DEF Signed
  <2>2. CASE w >= 0
    <3>1. w \in 0..R-1
      BY <1>1, <2>0, <2>2
    <3>2. w % R = w
      BY <1>4, <3>1
    <3> QED  BY <2>0, <2>1, <3>1, <3>2
  <2>3. CASE w < 0
    <3>1. w + R \in 0..R-1 /\ w + R >= h /\ (w + R) - R = w /\ w + R \in Int
      BY <1>1, <2>0, <2>3
    <3>2. w % R = w + R
      <4>1. ((w + R) - R) % R = (w + R) % R
        BY <1>5, <3>1
      <4>2. (w + R) % R = w + R
        BY <1>4, <3>1
      <4> QED  BY <3>1, <4>1, <4>2
    <3>3. Signed(w + R, R) = (w + R) - R
      BY <2>1, <3>1
    <3> QED  BY <3>1, <3>2, <3>3
  <2> QED  BY <2>0, <2>2, <2>3
<1> QED  BY <1>6, <1>7

\* The words of a plane: what is received is signed and stands for the same words.
LEMMA DecodeWords ==
  ASSUME NEW n \in Nat, NEW ws \in [1..n -> Int]
  PROVE  SignedWords(WordBytes(ws)) = [k \in 1..n |-> Signed(ws[k] % Word, Word)]
<1> DEFINE b == WordBytes(ws)
<1>1. Len(b) = 2 * n /\ \A k \in 1..n : Unsigned(b, 2 * k - 1) = ws[k] % Word
  BY WordBytesFacts
<1> HIDE DEF b
<1>2. Len(b) \div 2 = n
  BY <1>1
<1>3. SignedWords(b) = [k \in 1..n |-> Signed(Unsigned(b, 2 * k - 1), Word)]
  BY <1>2 DEF SignedWords
<1>4. SignedWords(b) = [k \in 1..n |-> Signed(ws[k] % Word, Word)]
  BY <1>1, <1>3
<1> QED  BY <1>4 DEF b

\* A plane arrives as signed pixels that stand for the same words.
LEMMA PlaneReceived ==
  ASSUME NEW n \in Nat, NEW ws \in [1..n -> 0..Word-1]
  PROVE  LET r == SignedWords(WordBytes(ws))
         IN /\ ToWords(r) = ws
            /\ \A k \in DOMAIN r : r[k] \in SignedRange(Word)
<1>1. Word \in Nat \ {0} /\ Word \in {Word, Long}
  BY Constants
<1>2. ws \in [1..n -> Int] /\ \A k \in 1..n : ws[k] \in 0..Word-1 /\ ws[k] % Word = ws[k]
  BY <1>1, SmallMod
<1> DEFINE r == [k \in 1..n |-> Signed(ws[k], Word)]
<1>3. SignedWords(WordBytes(ws)) = r
  <2>1. SignedWords(WordBytes(ws)) = [k \in 1..n |-> Signed(ws[k] % Word, Word)]
    BY <1>2, DecodeWords
  <2> QED  BY <1>2, <2>1
<1>4. \A k \in 1..n : r[k] = Signed(ws[k], Word)
  OBVIOUS
<1>5. DOMAIN r = 1..n
  OBVIOUS
<1>6. \A k \in 1..n : r[k] \in SignedRange(Word) /\ r[k] % Word = ws[k]
  <2> HIDE DEF r
  <2> QED  BY <1>1, <1>2, <1>4, SignedCast
<1>7. Len(r) = n
  OBVIOUS
<1> HIDE DEF r
<1>8. ToWords(r) = [k \in 1..n |-> r[k] % Word]
  BY <1>7 DEF ToWords
<1>9. ToWords(r) = ws
  BY <1>6, <1>8
<1> QED  BY <1>3, <1>5, <1>6, <1>9

\* A template arrives as it was sent.
LEMMA TemplateDecoded ==
  ASSUME NEW n \in Nat, NEW ws \in [1..n -> SignedRange(Word)]
  PROVE  SignedWords(WordBytes(ws)) = ws
<1>1. Word \in {Word, Long}
  OBVIOUS
<1>2. \A k \in 1..n : Signed(ws[k] % Word, Word) = ws[k]
  BY <1>1, SignedCast
<1>3. SignedRange(Word) \subseteq Int
  BY Constants DEF SignedRange
<1>4. ws \in [1..n -> Int]
  BY <1>3
<1>5. SignedWords(WordBytes(ws)) = [k \in 1..n |-> Signed(ws[k] % Word, Word)]
  BY <1>4, DecodeWords
<1> QED  BY <1>2, <1>5

\* The error values are four bytes each and arrive as they were sent.
LEMMA ErrorsDecoded ==
  ASSUME NEW n \in Nat, NEW es \in [1..n -> SignedRange(Long)]
  PROVE  /\ LongBytes(es) \in Seq(Byte) /\ Len(LongBytes(es)) = 4 * n
         /\ SignedLongs(LongBytes(es)) = es
<1>0. Word \in Nat \ {0} /\ Long \in Nat \ {0} /\ Long = Word * Word /\ Long \in {Word, Long}
  BY Constants
<1>1. SignedRange(Long) \subseteq Int
  BY <1>0 DEF SignedRange
<1>2. es \in [1..n -> Int] /\ Len(es) = n
  BY <1>1
<1> DEFINE w == [k \in 1..2*n |-> IF k % 2 = 1 THEN es[(k + 1) \div 2] \div Word
                                               ELSE es[k \div 2] % Word]
           b == WordBytes(w)
<1>3. LongBytes(es) = b
  BY <1>2 DEF LongBytes
<1>4. ASSUME NEW k \in 1..2*n PROVE w[k] \in Int
  <2>1. CASE k % 2 = 1
    <3>1. (k + 1) \div 2 \in 1..n
      BY <2>1
    <3>2. es[(k + 1) \div 2] \div Word \in Int
      BY <1>0, <1>2, <3>1
    <3> QED  BY <2>1, <3>2
  <2>2. CASE k % 2 # 1
    <3>1. k \div 2 \in 1..n
      BY <2>2
    <3>2. es[k \div 2] % Word \in Int
      BY <1>0, <1>2, <3>1
    <3> QED  BY <2>2, <3>2
  <2> QED  BY <2>1, <2>2
<1>5. w \in [1..2*n -> Int] /\ 2 * n \in Nat
  BY <1>4
<1>6. ASSUME NEW k \in 1..n
      PROVE  w[2 * k - 1] = es[k] \div Word /\ w[2 * k] = es[k] % Word
  <2>1. /\ 2 * k - 1 \in 1..2*n /\ (2 * k - 1) % 2 = 1 /\ ((2 * k - 1) + 1) \div 2 = k
        /\ 2 * k \in 1..2*n /\ (2 * k) % 2 # 1 /\ (2 * k) \div 2 = k
    OBVIOUS
  <2> QED  BY <2>1
<1> HIDE DEF w
<1>7. /\ b \in Seq(Byte) /\ Len(b) = 2 * (2 * n)
      /\ \A j \in 1..2*n : Unsigned(b, 2 * j - 1) = w[j] % Word
  BY <1>5, WordBytesFacts
<1> HIDE DEF b
<1>8. Len(b) = 4 * n /\ Len(b) \div 4 = n
  BY <1>7
<1>9. ASSUME NEW k \in 1..n
      PROVE  Signed(Unsigned(b, 4 * k - 3) * Word + Unsigned(b, 4 * k - 1), Long) = es[k]
  <2>1. /\ 2 * k - 1 \in 1..2*n /\ 2 * k \in 1..2*n
        /\ 2 * (2 * k - 1) - 1 = 4 * k - 3 /\ 2 * (2 * k) - 1 = 4 * k - 1
    OBVIOUS
  <2>2. /\ Unsigned(b, 4 * k - 3) = w[2 * k - 1] % Word
        /\ Unsigned(b, 4 * k - 1) = w[2 * k] % Word
    BY <1>7, <2>1
  <2> DEFINE e == es[k]
  <2>3. e \in Int /\ e \in SignedRange(Long)
    BY <1>2
  <2>4. Unsigned(b, 4 * k - 3) = (e \div Word) % Word /\ Unsigned(b, 4 * k - 1) = (e % Word) % Word
    BY <1>6, <2>2
  <2> HIDE DEF e
  <2>5. e % Word \in 0..Word-1 /\ ((e \div Word) % Word) * Word + (e % Word) = e % Long
    BY <1>0, <2>3, TwoDigits
  <2>6. (e % Word) % Word = e % Word
    BY <1>0, <2>5, SmallMod
  <2>7. Unsigned(b, 4 * k - 3) * Word + Unsigned(b, 4 * k - 1) = e % Long
    BY <2>4, <2>5, <2>6
  <2>8. Signed(e % Long, Long) = e
    BY <1>0, <2>3, SignedCast
  <2> QED  BY <2>7, <2>8 DEF e
<1>10. SignedLongs(b) = [k \in 1..n |-> Signed(Unsigned(b, 4 * k - 3) * Word
                                                 + Unsigned(b, 4 * k - 1), Long)]
  BY <1>8 DEF SignedLongs
<1>11. SignedLongs(b) = es
  BY <1>9, <1>10
<1> QED  BY <1>3, <1>7, <1>8, <1>11
-----------------------------------------------------------------------------
(***************************************************************************)
(* Types.                                                                  *)
(***************************************************************************)
LEMMA HeaderFields ==
  ASSUME NEW h \in Headers
  PROVE  /\ h.width \in 0..Word-1 /\ h.height \in 0..Word-1 /\ h.width \in Nat /\ h.height \in Nat
         /\ Area(h) \in Nat
<1>1. h.width \in 0..Word-1 /\ h.height \in 0..Word-1
  BY DEF Headers
<1>2. h.width \in Nat /\ h.height \in Nat
  BY <1>1, Constants
<1>3. Area(h) \in Nat
  BY <1>2 DEF Area
<1> QED  BY <1>1, <1>2, <1>3

\* How many bytes a command takes, by its first byte.
LEMMA NeededFacts ==
  ASSUME LineTypes, head \in Headers
  PROVE  /\ in[1] = 0 => Needed = 15
         /\ in[1] = 1 => Needed = IF Len(in) < 2 THEN 2 ELSE 2 + 2 * Area(head)
         /\ in[1] = 2 => Needed = 2
         /\ in[1] = 3 => Needed = 2
         /\ in[1] = 5 => Needed = 3
         /\ in[1] \notin {0, 1, 2, 3, 5} => Needed = 1
         /\ Needed \in Nat /\ Needed >= 1
<1> DEFINE x == in[1]
           l == IF Len(in) < 2 THEN 2 ELSE 2 + 2 * Area(head)
<1>1. l \in Nat /\ l >= 1
  BY HeaderFields DEF LineTypes
<1>2. Needed = CASE x = 0 -> 15 [] x = 1 -> l [] x \in {2, 3} -> 2 [] x = 5 -> 3 [] OTHER -> 1
  BY DEF Needed
<1> HIDE DEF x, l
<1>3. x = 0 => Needed = 15
  BY <1>2
<1>4. x = 1 => Needed = l
  BY <1>2
<1>5. x \in {2, 3} => Needed = 2
  BY <1>2
<1>6. x = 5 => Needed = 3
  BY <1>2
<1>7. x \notin {0, 1, 2, 3, 5} => Needed = 1
  BY <1>2
<1>8. Needed \in Nat /\ Needed >= 1
  BY <1>1, <1>3, <1>4, <1>5, <1>6, <1>7
<1> QED  BY <1>3, <1>4, <1>5, <1>6, <1>7, <1>8 DEF x, l

\* The types hold after power-up.
LEMMA TypesInit == Init => TypesInv
<1> SUFFICES ASSUME Init PROVE TypesInv
  OBVIOUS
<1>1. LineTypes
  BY DEF Init, LineTypes
<1>2. HostTypes
  BY DEF Init, HostTypes, HostSteps, NothingReceived, Items
<1>3. BoardTypes
  <2>1. InitHeader \in Headers /\ Area(InitHeader) <= PlaneMax
    BY HostAssumption DEF Headers
  <2>2. Allocated(InitHeader) \in [0..PlaneCount-1 -> [1..Area(InitHeader) -> 0..Word-1]]
    BY Constants DEF Allocated
  <2>3. InitTemplates \in [TemplateNos -> Templates]
    BY HostAssumption DEF Templates
  <2> QED  BY <2>1, <2>2, <2>3 DEF Init, BoardTypes
<1>4. HistoryTypes
  <2>1. 0 \in 0..MaxFaults
    BY Constants
  <2>2. faults = 0 /\ clean = FALSE
    BY DEF Init
  <2> QED  BY <2>1, <2>2 DEF HistoryTypes
<1>5. InBound
  BY DEF Init, InBound
<1> QED  BY <1>1, <1>2, <1>3, <1>4, <1>5 DEF TypesInv

\* A step that leaves the script alone keeps its types.
LEMMA HostTypesKept == HostTypes /\ UNCHANGED host => HostTypes'
  BY DEF HostTypes, host

\* A step that leaves the firmware memory alone keeps its types.
LEMMA BoardTypesKept == BoardTypes /\ UNCHANGED <<fpc, memory>> => BoardTypes'
  BY DEF BoardTypes, memory, Area

\* A step without a fault keeps the types of the history.
LEMMA HistoryTypesKept == HistoryTypes /\ UNCHANGED <<faults, clean>> => HistoryTypes'
  BY DEF HistoryTypes

\* A command that does not grow stays within its length.
LEMMA InBoundKept == InBound /\ UNCHANGED <<fpc, in, head>> => InBound'
  BY DEF InBound, Needed, Area

\* Head and tail of bytes are bytes.
LEMMA BytesOfSequence ==
  ASSUME NEW s \in Seq(Byte), s # <<>>
  PROVE  Head(s) \in Byte /\ Tail(s) \in Seq(Byte)
  BY HeadTailProperties

\* Allocated planes have the size of the header and hold words.
LEMMA Allocation ==
  ASSUME NEW h \in Headers
  PROVE  Allocated(h) \in [0..PlaneCount-1 -> [1..Area(h) -> 0..Word-1]]
  BY Constants DEF Allocated

(***************************************************************************)
(* The length of a complete command.                                       *)
(***************************************************************************)
LEMMA CompleteFacts ==
  ASSUME LineTypes, head \in Headers, Complete
  PROVE  /\ in[1] = 0 => Len(in) = 15
         /\ in[1] = 1 => Len(in) = 2 + 2 * Area(head)
         /\ in[1] \in {2, 3} => Len(in) = 2
         /\ in[1] = 5 => Len(in) = 3
<1>1. Len(in) = Needed /\ Len(in) \in Nat /\ in \in Seq(Byte)
  BY DEF Complete, LineTypes
<1> QED  BY <1>1, NeededFacts

\* UartRead keeps the types.
LEMMA TypesUartRead == TypesInv /\ UartRead => TypesInv'
<1> SUFFICES ASSUME TypesInv, UartRead PROVE TypesInv'
  OBVIOUS
<1> USE DEF TypesInv
<1>1. rx \in Byte /\ in \in Seq(Byte) /\ in' = Append(in, rx) /\ fpc = "read" /\ ~Complete
  BY DEF UartRead, LineTypes, Busy
<1>2. LineTypes'
  BY <1>1 DEF UartRead, LineTypes
<1>3. HostTypes' /\ BoardTypes' /\ HistoryTypes'
  BY HostTypesKept, BoardTypesKept, HistoryTypesKept DEF UartRead
<1>4. head' = head /\ head \in Headers /\ head' \in Headers
  BY DEF UartRead, memory, BoardTypes
<1>5. /\ in' \in Seq(Byte) /\ Len(in') = Len(in) + 1 /\ Len(in) \in Nat
      /\ in # <<>> => in'[1] = in[1] /\ Len(in) >= 1
  BY <1>1
<1>6. CASE in = <<>>
  <2>1. Len(in') = 1
    BY <1>5, <1>6
  <2>2. Needed' \in Nat /\ Needed' >= 1
    <3>1. (LineTypes /\ head \in Headers => Needed \in Nat /\ Needed >= 1)'
      BY NeededFacts, PTL
    <3> QED  BY <1>2, <1>4, <3>1
  <2> QED  BY <1>2, <1>3, <2>1, <2>2 DEF InBound
<1>7. CASE in # <<>>
  <2>1. Len(in) < Needed /\ Needed \in Nat
    <3>1. Len(in) <= Needed /\ Len(in) # Needed
      BY <1>1, <1>7 DEF InBound, Complete
    <3> QED  BY <1>4, <1>5, <3>1, NeededFacts
  <2>2. Needed' = Needed \/ Needed' >= Len(in')
    BY <1>4, <1>5, <1>7, <2>1, HeaderFields DEF Needed, Area
  <2>3. Needed' \in Nat
    <3>1. (LineTypes /\ head \in Headers => Needed \in Nat)'
      BY NeededFacts, PTL
    <3> QED  BY <1>2, <1>4, <3>1
  <2>4. Len(in') <= Needed'
    BY <1>5, <2>1, <2>2, <2>3
  <2> QED  BY <1>2, <1>3, <2>4 DEF InBound
<1> QED  BY <1>6, <1>7

\* HeaderRead keeps the types.
LEMMA TypesHeaderRead == TypesInv /\ HeaderRead => TypesInv'
<1> SUFFICES ASSUME TypesInv, HeaderRead PROVE TypesInv'
  OBVIOUS
<1> USE DEF TypesInv
<1>1. LineTypes' /\ HostTypes' /\ HistoryTypes'
  BY HostTypesKept, HistoryTypesKept DEF HeaderRead, LineTypes
<1>2. head \in Headers /\ Complete /\ in[1] = 0 /\ in \in Seq(Byte)
  BY DEF HeaderRead, Command, BoardTypes, LineTypes
<1>3. Len(in) = 15
  BY <1>2, CompleteFacts
<1>4. Header \in Headers
  <2>1. \A i \in 1..14 : Unsigned(in, i) \in 0..Word-1
    <3>1. \A i \in 1..14 : i \in 1..Len(in) /\ i + 1 <= Len(in)
      BY <1>3
    <3> QED  BY <1>2, <3>1, UnsignedType
  <2> DEFINE c == (Unsigned(in, 8) - 1) % Word
  <2>2. c \in 0..Word-1
    <3>1. Unsigned(in, 8) - 1 \in Int /\ Word \in Nat \ {0}
      BY <2>1, Constants
    <3> QED  BY <3>1, ModRange
  <2>3. Header = Fields(c)
    BY DEF Header
  <2> HIDE DEF c
  <2>4. Fields(c) \in Headers
    BY <2>1, <2>2 DEF Fields, Headers
  <2> QED  BY <2>3, <2>4
<1>5. errors' = errors /\ templates' = templates
  BY DEF HeaderRead
<1>6. CASE Area(Header) > PlaneMax
  <2>1. fpc' = "wild" /\ head' = head /\ planes' = planes
    BY <1>6 DEF HeaderRead, Allocate
  <2> QED  BY <1>1, <1>5, <2>1 DEF BoardTypes, InBound, Area
<1>7. CASE ~(Area(Header) > PlaneMax)
  <2>1. fpc' = "header" /\ head' = Header /\ planes' = Allocated(Header)
    BY <1>7 DEF HeaderRead, Allocate
  <2>2. Area(Header) <= PlaneMax
    BY <1>4, <1>7, HeaderFields, Constants
  <2>3. BoardTypes'
    BY <1>4, <1>5, <2>1, <2>2, Allocation DEF BoardTypes
  <2> QED  BY <1>1, <2>1, <2>3 DEF InBound
<1> QED  BY <1>6, <1>7

\* HeaderAck keeps the types.
LEMMA TypesHeaderAck == TypesInv /\ HeaderAck => TypesInv'
<1> SUFFICES ASSUME TypesInv, HeaderAck PROVE TypesInv'
  OBVIOUS
<1> USE DEF TypesInv
<1>1. HostTypes' /\ HistoryTypes'
  BY HostTypesKept, HistoryTypesKept DEF HeaderAck
<1>2. LineTypes'
  BY SmallBytes DEF HeaderAck, LineTypes, Return
<1>3. BoardTypes'
  BY DEF HeaderAck, BoardTypes, memory, Area
<1>4. InBound'
  BY DEF HeaderAck, Return, InBound
<1> QED  BY <1>1, <1>2, <1>3, <1>4

\* ImageRead keeps the types.
LEMMA TypesImageRead == TypesInv /\ ImageRead => TypesInv'
<1> SUFFICES ASSUME TypesInv, ImageRead PROVE TypesInv'
  OBVIOUS
<1> USE DEF TypesInv
<1>1. HostTypes' /\ HistoryTypes'
  BY HostTypesKept, HistoryTypesKept DEF ImageRead
<1>2. LineTypes' /\ InBound'
  BY DEF ImageRead, LineTypes, Return, InBound
<1>3. head \in Headers /\ Complete /\ in[1] = 1 /\ in \in Seq(Byte) /\ fpc = "read" /\ head' = head
      /\ errors' = errors /\ templates' = templates
  BY DEF ImageRead, Command, BoardTypes, LineTypes, Busy
<1>4. Len(in) = 2 + 2 * Area(head) /\ Area(head) \in Nat
  BY <1>3, CompleteFacts, HeaderFields
<1>5. \A k \in 1..Area(head) : Unsigned(in, 2 * k + 1) \in 0..Word-1
  <2>1. \A k \in 1..Area(head) : 2 * k + 1 \in 1..Len(in) /\ (2 * k + 1) + 1 <= Len(in)
    BY <1>4
  <2> QED  BY <1>3, <2>1, UnsignedType
<1>6. in[2] \in Nat
  <2>1. 2 \in 1..Len(in)
    BY <1>4
  <2>2. in[2] \in Byte
    BY <1>3, <2>1, ElementOfSeq
  <2> QED  BY <2>2, Constants DEF Byte
<1>7. planes' \in [0..PlaneCount-1 -> [1..Area(head) -> 0..Word-1]]
  <2>1. CASE in[2] < PlaneCount
    <3> DEFINE p == [k \in 1..Area(head) |-> Unsigned(in, 2 * k + 1)]
    <3>1. p \in [1..Area(head) -> 0..Word-1]
      BY <1>5
    <3>2. planes' = [planes EXCEPT ![in[2]] = p]
      BY <2>1 DEF ImageRead
    <3> HIDE DEF p
    <3> QED  BY <1>6, <2>1, <3>1, <3>2, Constants DEF BoardTypes
  <2>2. CASE ~(in[2] < PlaneCount)
    BY <2>2 DEF ImageRead, BoardTypes
  <2> QED  BY <2>1, <2>2
<1>8. fpc' \in {"read", "wild"}
  BY <1>3 DEF ImageRead
<1>9. BoardTypes'
  BY <1>3, <1>7, <1>8 DEF BoardTypes, Area
<1> QED  BY <1>1, <1>2, <1>9

\* AlgorithmRun keeps the types.
LEMMA TypesAlgorithmRun == TypesInv /\ AlgorithmRun => TypesInv'
<1> SUFFICES ASSUME TypesInv, AlgorithmRun PROVE TypesInv'
  OBVIOUS
<1> USE DEF TypesInv
<1>1. HostTypes' /\ HistoryTypes'
  BY HostTypesKept, HistoryTypesKept DEF AlgorithmRun
<1>2. LineTypes'
  <2>1. out \in Seq(Byte) /\ <<>> \in Seq(Byte) /\ Append(out, 2) \in Seq(Byte)
    BY SmallBytes DEF LineTypes
  <2>2. out' \in {out, Append(out, 2)} /\ in' \in {in, <<>>}
    BY DEF AlgorithmRun, Return
  <2> QED  BY <2>1, <2>2 DEF AlgorithmRun, LineTypes
<1>3. fpc' \in {fpc, "calc"} /\ UNCHANGED memory
  BY DEF AlgorithmRun
<1>4. BoardTypes'
  BY <1>3 DEF BoardTypes, memory, Area
<1>5. InBound'
  BY DEF AlgorithmRun, Return, InBound
<1> QED  BY <1>1, <1>2, <1>4, <1>5

\* AlgorithmEnd keeps the types.
LEMMA TypesAlgorithmEnd == TypesInv /\ AlgorithmEnd => TypesInv'
<1> SUFFICES ASSUME TypesInv, AlgorithmEnd PROVE TypesInv'
  OBVIOUS
<1> USE DEF TypesInv
<1>1. HostTypes' /\ HistoryTypes'
  BY HostTypesKept, HistoryTypesKept DEF AlgorithmEnd
<1>2. LineTypes'
  BY SmallBytes DEF AlgorithmEnd, LineTypes, Return
<1>3. fpc' = "read" /\ head' = head /\ errors' = errors /\ head \in Headers
  BY DEF AlgorithmEnd, BoardTypes
<1>4. Area(head) \in Nat /\ Area(head) <= PlaneMax /\ Word \in Nat \ {0} /\ PlaneMax \in Nat
  BY <1>3, HeaderFields, Constants DEF BoardTypes
<1>5. planes' \in [0..PlaneCount-1 -> [1..Area(head) -> 0..Word-1]]
  <2>1. PICK row \in ResultRows :
          planes' = [planes EXCEPT ![1] = ToWords(SubSeq(row, 1, Area(head)))]
    BY DEF AlgorithmEnd
  <2>2. row \in Seq(Int) /\ Len(row) >= PlaneMax
    BY HostAssumption
  <2> DEFINE u == SubSeq(row, 1, Area(head))
             p == ToWords(u)
  <2>3. u \in [1..Area(head) -> Int]
    <3>1. /\ 1 \in 1..Len(row) + 1 /\ Area(head) \in 0..Len(row)
          /\ \A i \in 1..Area(head) : i \in 1..Len(row)
      BY <1>4, <2>2
    <3>2. u = [i \in 1..Area(head) |-> row[i]]
      BY <1>4
    <3>3. \A i \in 1..Area(head) : row[i] \in Int
      BY <2>2, <3>1, ElementOfSeq
    <3> HIDE DEF u
    <3> QED  BY <3>2, <3>3
  <2>4. Len(u) = Area(head)
    BY <1>4, <2>3
  <2> HIDE DEF u
  <2>5. p \in [1..Area(head) -> 0..Word-1]
    <3>1. \A k \in 1..Area(head) : u[k] % Word \in 0..Word-1
      BY <1>4, <2>3, ModRange
    <3> QED  BY <2>4, <3>1 DEF ToWords
  <2> HIDE DEF p
  <2>6. planes' = [planes EXCEPT ![1] = p]
    BY <2>1 DEF p, u
  <2> QED  BY <2>5, <2>6, Constants DEF BoardTypes
<1>6. templates' \in [TemplateNos -> Templates]
  <2>1. PICK t \in [TemplateNos -> TemplateRows] :
          templates' = [n \in TemplateNos |-> IF n \in Learned(in[2]) THEN t[n] ELSE templates[n]]
    BY DEF AlgorithmEnd
  <2>2. TemplateRows \subseteq Templates
    BY HostAssumption DEF Templates
  <2>3. templates \in [TemplateNos -> Templates]
    BY DEF BoardTypes
  <2> DEFINE L == Learned(in[2])
  <2> HIDE DEF L
  <2>4. templates' = [n \in TemplateNos |-> IF n \in L THEN t[n] ELSE templates[n]]
    BY <2>1 DEF L
  <2> QED  BY <2>2, <2>3, <2>4
<1>7. BoardTypes'
  BY <1>3, <1>5, <1>6 DEF BoardTypes, Area
<1>8. InBound'
  BY DEF AlgorithmEnd, Return, InBound
<1> QED  BY <1>1, <1>2, <1>7, <1>8

\* ImageSend keeps the types.
LEMMA TypesImageSend == TypesInv /\ ImageSend => TypesInv'
<1> SUFFICES ASSUME TypesInv, ImageSend PROVE TypesInv'
  OBVIOUS
<1> USE DEF TypesInv
<1>1. HostTypes' /\ HistoryTypes'
  BY HostTypesKept, HistoryTypesKept DEF ImageSend
<1>2. head \in Headers /\ Complete /\ in[1] = 3 /\ in \in Seq(Byte) /\ out \in Seq(Byte)
  BY DEF ImageSend, Command, BoardTypes, LineTypes
<1>3. Len(in) = 2 /\ Area(head) \in Nat
  BY <1>2, CompleteFacts, HeaderFields
<1>4. in[2] \in Nat
  <2>1. 2 \in 1..Len(in)
    BY <1>3
  <2>2. in[2] \in Byte
    BY <1>2, <2>1, ElementOfSeq
  <2> QED  BY <2>2, Constants DEF Byte
<1>5. out' \in Seq(Byte)
  <2>1. CASE in[2] < PlaneCount
    <3> DEFINE p == planes[in[2]]
    <3>1. p \in [1..Area(head) -> 0..Word-1]
      BY <1>4, <2>1, Constants DEF BoardTypes
    <3> HIDE DEF p
    <3>2. p \in [1..Area(head) -> Int]
      BY <3>1, Constants
    <3>3. WordBytes(p) \in Seq(Byte)
      BY <1>3, <3>2, WordBytesFacts
    <3>4. out' = out \o WordBytes(p)
      BY <2>1 DEF ImageSend, p
    <3> QED  BY <1>2, <3>3, <3>4, ConcatProperties
  <2>2. CASE ~(in[2] < PlaneCount)
    BY <1>2, <2>2 DEF ImageSend
  <2> QED  BY <2>1, <2>2
<1>6. LineTypes'
  BY <1>5 DEF ImageSend, LineTypes, Return
<1>7. fpc' \in {fpc, "wild"} /\ UNCHANGED memory
  BY DEF ImageSend
<1>8. BoardTypes'
  BY <1>7 DEF BoardTypes, memory, Area
<1>9. InBound'
  BY DEF ImageSend, Return, InBound
<1> QED  BY <1>1, <1>6, <1>8, <1>9

\* Any error values the firmware may send.
LEMMA ErrorsType ==
  ASSUME NEW e \in ErrorRows
  PROVE  /\ e \in [1..ErrorLen -> SignedRange(Long)] /\ ErrorLen \in Nat
         /\ LongBytes(e) \in Seq(Byte) /\ Len(LongBytes(e)) = 4 * ErrorLen
         /\ SignedLongs(LongBytes(e)) = e
<1>1. e \in [1..ErrorLen -> SignedRange(Long)] /\ ErrorLen \in Nat
  BY HostAssumption
<1> QED  BY <1>1, ErrorsDecoded

\* Any template the firmware may send.
LEMMA TemplatesType ==
  ASSUME NEW t \in Templates
  PROVE  /\ TemplateLen \in Nat /\ t \in [1..TemplateLen -> SignedRange(Word)]
         /\ WordBytes(t) \in Seq(Byte) /\ Len(WordBytes(t)) = 2 * TemplateLen
         /\ SignedWords(WordBytes(t)) = t
<1>1. t \in [1..TemplateLen -> SignedRange(Word)] /\ TemplateLen \in Nat
  BY HostAssumption DEF Templates
<1>2. SignedRange(Word) \subseteq Int
  BY Constants DEF SignedRange
<1>3. t \in [1..TemplateLen -> Int]
  BY <1>1, <1>2
<1> QED  BY <1>1, <1>3, WordBytesFacts, TemplateDecoded

\* ErrorSend keeps the types.
LEMMA TypesErrorSend == TypesInv /\ ErrorSend => TypesInv'
<1> SUFFICES ASSUME TypesInv, ErrorSend PROVE TypesInv'
  OBVIOUS
<1> USE DEF TypesInv
<1>1. HostTypes' /\ HistoryTypes'
  BY HostTypesKept, HistoryTypesKept DEF ErrorSend
<1>2. errors' \in ErrorRows /\ out' = out \o LongBytes(errors') /\ out \in Seq(Byte)
  BY DEF ErrorSend, LineTypes
<1>3. LongBytes(errors') \in Seq(Byte)
  BY <1>2, ErrorsType
<1>4. out' \in Seq(Byte)
  BY <1>2, <1>3, ConcatProperties
<1>5. LineTypes'
  BY <1>4 DEF ErrorSend, LineTypes, Return
<1>6. BoardTypes'
  BY <1>2 DEF ErrorSend, BoardTypes, Area
<1>7. InBound'
  BY DEF ErrorSend, Return, InBound
<1> QED  BY <1>1, <1>5, <1>6, <1>7

\* TemplateSend keeps the types.
LEMMA TypesTemplateSend == TypesInv /\ TemplateSend => TypesInv'
<1> SUFFICES ASSUME TypesInv, TemplateSend PROVE TypesInv'
  OBVIOUS
<1> USE DEF TypesInv
<1>1. HostTypes' /\ HistoryTypes' /\ BoardTypes'
  BY HostTypesKept, HistoryTypesKept, BoardTypesKept DEF TemplateSend
<1>2. PICK row \in IF Unsigned(in, 2) \in TemplateNos THEN {templates[Unsigned(in, 2)]}
                                                      ELSE TemplateRows :
        out' = out \o WordBytes(row)
  BY DEF TemplateSend
<1>3. row \in Templates
  <2>1. TemplateRows \subseteq Templates
    BY HostAssumption DEF Templates
  <2>2. templates \in [TemplateNos -> Templates]
    BY DEF BoardTypes
  <2> QED  BY <2>1, <2>2
<1>4. out \in Seq(Byte) /\ WordBytes(row) \in Seq(Byte)
  BY <1>3, TemplatesType DEF LineTypes
<1>5. out' \in Seq(Byte)
  BY <1>2, <1>4, ConcatProperties
<1>6. LineTypes'
  BY <1>5 DEF TemplateSend, LineTypes, Return
<1>7. InBound'
  BY DEF TemplateSend, Return, InBound
<1> QED  BY <1>1, <1>6, <1>7

\* IgnoreCommand keeps the types.
LEMMA TypesIgnoreCommand == TypesInv /\ IgnoreCommand => TypesInv'
<1> SUFFICES ASSUME TypesInv, IgnoreCommand PROVE TypesInv'
  OBVIOUS
<1> USE DEF TypesInv
<1>1. HostTypes' /\ HistoryTypes' /\ BoardTypes'
  BY HostTypesKept, HistoryTypesKept, BoardTypesKept DEF IgnoreCommand
<1>2. LineTypes' /\ InBound'
  BY DEF IgnoreCommand, LineTypes, Return, InBound
<1> QED  BY <1>1, <1>2
\* The tables of the script.
LEMMA Tables ==
  /\ DOMAIN Ack = {"header", "started", "finished"}
  /\ Ack["header"] = 1 /\ Ack["started"] = 2 /\ Ack["finished"] = 2
  /\ AfterAck["header"] = "x_0" /\ AfterAck["started"] = "finished"
  /\ AfterAck["finished"] = "image"
  /\ DOMAIN type_ind = {"x_0", "u", "y_ideal"}
  /\ type_ind["u"] = 0 /\ type_ind["x_0"] = 1 /\ type_ind["y_ideal"] = 2
  /\ AfterImage["x_0"] = "u" /\ AfterImage["u"] = "y_ideal" /\ AfterImage["y_ideal"] = "calculate"
  /\ DOMAIN Reading = Items
  /\ Reading["image"] = "read image" /\ Reading["error"] = "read error"
  /\ Reading["template"] = "read template"
  /\ AfterRead["image"] = "error" /\ AfterRead["error"] = "template"
  /\ AfterRead["template"] = "idle"
<1>1. /\ DOMAIN Ack = {"header", "started", "finished"}
      /\ Ack["header"] = 1 /\ Ack["started"] = 2 /\ Ack["finished"] = 2
  BY DEF Ack
<1>2. /\ AfterAck["header"] = "x_0" /\ AfterAck["started"] = "finished"
      /\ AfterAck["finished"] = "image"
  BY DEF AfterAck
<1>3. /\ DOMAIN type_ind = {"x_0", "u", "y_ideal"}
      /\ type_ind["u"] = 0 /\ type_ind["x_0"] = 1 /\ type_ind["y_ideal"] = 2
  BY DEF type_ind
<1>4. AfterImage["x_0"] = "u" /\ AfterImage["u"] = "y_ideal" /\ AfterImage["y_ideal"] = "calculate"
  BY DEF AfterImage
<1>5. /\ DOMAIN Reading = Items
      /\ Reading["image"] = "read image" /\ Reading["error"] = "read error"
      /\ Reading["template"] = "read template"
  BY DEF Reading, Items
<1>6. /\ AfterRead["image"] = "error" /\ AfterRead["error"] = "template"
      /\ AfterRead["template"] = "idle"
  BY DEF AfterRead
<1> QED  BY <1>1, <1>2, <1>3, <1>4, <1>5, <1>6

\* The request the script sends for an item.
LEMMA RequestIs ==
  ASSUME NEW item \in Items
  PROVE  Request[item] = RequestFor(config, item)
<1>1. /\ Request["image"] = <<3, type_ind["x_0"]>> /\ Request["error"] = << 4 >>
      /\ Request["template"] = << 5 >> \o WordBytes(<<config.template_no>>)
  BY DEF Request
<1>2. CASE item = "image"
  BY <1>1, <1>2, Tables DEF RequestFor
<1>3. CASE item = "error"
  BY <1>1, <1>3 DEF RequestFor
<1>4. CASE item = "template"
  <2>1. item # "image" /\ item # "error"
    BY <1>4
  <2> QED  BY <1>1, <1>4, <2>1, Zenon DEF RequestFor
<1> QED  BY <1>2, <1>3, <1>4 DEF Items

\* ToBoard keeps the types.
LEMMA TypesToBoard == TypesInv /\ ToBoard => TypesInv'
<1> SUFFICES ASSUME TypesInv, ToBoard PROVE TypesInv'
  OBVIOUS
<1> USE DEF TypesInv
<1>1. HostTypes' /\ HistoryTypes' /\ BoardTypes'
  BY HostTypesKept, HistoryTypesKept, BoardTypesKept DEF ToBoard
<1>2. LineTypes'
  <2>1. toFpga \in Seq(Byte) /\ toFpga # <<>>
    BY DEF ToBoard, LineTypes
  <2>2. Head(toFpga) \in Byte /\ Tail(toFpga) \in Seq(Byte)
    BY <2>1, BytesOfSequence
  <2> QED  BY <2>2 DEF ToBoard, LineTypes
<1>3. InBound'
  BY InBoundKept DEF ToBoard, memory
<1> QED  BY <1>1, <1>2, <1>3

\* ToHost keeps the types.
LEMMA TypesToHost == TypesInv /\ ToHost => TypesInv'
<1> SUFFICES ASSUME TypesInv, ToHost PROVE TypesInv'
  OBVIOUS
<1> USE DEF TypesInv
<1>1. HostTypes' /\ HistoryTypes' /\ BoardTypes'
  BY HostTypesKept, HistoryTypesKept, BoardTypesKept DEF ToHost
<1>2. LineTypes'
  <2>1. out \in Seq(Byte) /\ out # <<>> /\ hostIn \in Seq(Byte)
    BY DEF ToHost, LineTypes
  <2>2. Head(out) \in Byte /\ Tail(out) \in Seq(Byte)
    BY <2>1, BytesOfSequence
  <2>3. Append(hostIn, Head(out)) \in Seq(Byte)
    BY <2>1, <2>2
  <2>4. hostIn' \in {hostIn, Append(hostIn, Head(out))}
    BY DEF ToHost
  <2> QED  BY <2>1, <2>2, <2>3, <2>4 DEF ToHost, LineTypes
<1>3. InBound'
  BY InBoundKept DEF ToHost, memory
<1> QED  BY <1>1, <1>2, <1>3

\* The host leaves the board alone.
LEMMA BoardKept == TypesInv /\ KeepBoard => BoardTypes' /\ InBound' /\ rx' = rx /\ out' = out /\ in' = in
  BY BoardTypesKept, InBoundKept DEF TypesInv, KeepBoard, memory

\* SendHeader keeps the types.
LEMMA TypesSendHeader == TypesInv /\ SendHeader => TypesInv'
<1> SUFFICES ASSUME TypesInv, SendHeader PROVE TypesInv'
  OBVIOUS
<1> USE DEF TypesInv
<1>1. BoardTypes' /\ InBound' /\ rx' = rx /\ out' = out /\ in' = in
  BY BoardKept DEF SendHeader
<1>2. PICK s \in Sessions : config' = s /\ toFpga' = HeaderBytes(s)
  BY DEF SendHeader
<1>3. HeaderBytes(s) \in Seq(Byte)
  BY HeaderBytesFacts
<1>4. LineTypes'
  BY <1>1, <1>2, <1>3 DEF SendHeader, LineTypes
<1>5. HostTypes'
  <2>1. hpc' = "header" /\ config' \in Sessions /\ got' = <<>> /\ outcome' = "none"
    BY <1>2 DEF SendHeader
  <2>2. received' = [item \in Items |-> received'[item]]
    BY DEF SendHeader, NothingReceived, Items
  <2>3. <<>> \in Seq(Byte)
    OBVIOUS
  <2>4. hpc' \in HostSteps
    BY <2>1 DEF HostSteps
  <2>5. got' \in Seq(Byte) /\ outcome' \in {"none", "complete", "failed"}
    BY <2>1, <2>3
  <2> QED  BY <2>1, <2>2, <2>4, <2>5 DEF HostTypes
<1>6. HistoryTypes'
  <2>1. clean' \in BOOLEAN
    BY DEF SendHeader, Quiet
  <2>2. faults' \in 0..MaxFaults
    <3>1. faults' \in {faults, faults + 1} /\ faults' <= MaxFaults
      BY DEF SendHeader
    <3>2. faults \in 0..MaxFaults
      BY DEF HistoryTypes
    <3> QED  BY <3>1, <3>2, Constants
  <2> QED  BY <2>1, <2>2 DEF HistoryTypes
<1> QED  BY <1>1, <1>4, <1>5, <1>6

\* ReadAck keeps the types.
LEMMA TypesReadAck == TypesInv /\ ReadAck => TypesInv'
<1> SUFFICES ASSUME TypesInv, ReadAck PROVE TypesInv'
  OBVIOUS
<1> USE DEF TypesInv
<1>1. BoardTypes' /\ InBound' /\ rx' = rx /\ out' = out /\ in' = in
  BY BoardKept DEF ReadAck
<1>2. HistoryTypes'
  BY HistoryTypesKept DEF ReadAck
<1>3. PICK step \in {"header", "started", "finished"} :
        hostIn # <<>> /\ hpc' \in {step, AfterAck[step]}
  BY DEF ReadAck, Ack
<1>4. hpc' \in HostSteps
  BY <1>3, Tables DEF HostSteps
<1>5. HostTypes'
  BY <1>4 DEF ReadAck, HostTypes
<1>6. Tail(hostIn) \in Seq(Byte)
  BY <1>3, BytesOfSequence DEF LineTypes
<1>7. LineTypes'
  BY <1>1, <1>6 DEF ReadAck, LineTypes
<1> QED  BY <1>1, <1>2, <1>5, <1>7

\* SendImage keeps the types.
LEMMA TypesSendImage == TypesInv /\ SendImage => TypesInv'
<1> SUFFICES ASSUME TypesInv, SendImage PROVE TypesInv'
  OBVIOUS
<1> USE DEF TypesInv
<1>1. BoardTypes' /\ InBound' /\ rx' = rx /\ out' = out /\ in' = in
  BY BoardKept DEF SendImage
<1>2. HistoryTypes'
  BY HistoryTypesKept DEF SendImage
<1>3. PICK type \in {"x_0", "u", "y_ideal"} :
        hpc' = AfterImage[type] /\ toFpga' = ImageCommand(config, type)
  BY DEF SendImage, type_ind, ImageCommand
<1>4. HostTypes'
  <2>1. hpc' \in HostSteps
    BY <1>3, Tables DEF HostSteps
  <2> QED  BY <2>1 DEF SendImage, HostTypes
<1>5. toFpga' \in Seq(Byte)
  BY <1>3, ImageCommandFacts DEF HostTypes
<1>6. LineTypes'
  BY <1>1, <1>5 DEF SendImage, LineTypes
<1> QED  BY <1>1, <1>2, <1>4, <1>6

\* Calculate keeps the types.
LEMMA TypesCalculate == TypesInv /\ Calculate => TypesInv'
<1> SUFFICES ASSUME TypesInv, Calculate PROVE TypesInv'
  OBVIOUS
<1> USE DEF TypesInv
<1>1. BoardTypes' /\ InBound' /\ rx' = rx /\ out' = out /\ in' = in
  BY BoardKept DEF Calculate
<1>2. HistoryTypes'
  BY HistoryTypesKept DEF Calculate
<1>3. HostTypes'
  BY DEF Calculate, HostTypes, HostSteps
<1>4. config.alg \in Byte
  <2>1. config.alg \in 1..5
    BY SessionFacts DEF HostTypes
  <2> QED  BY <2>1, Constants DEF Byte
<1>5. toFpga' \in Seq(Byte)
  BY <1>4, SmallBytes DEF Calculate
<1>6. LineTypes'
  BY <1>1, <1>5 DEF Calculate, LineTypes
<1> QED  BY <1>1, <1>2, <1>3, <1>6

\* SendRequest keeps the types.
LEMMA TypesSendRequest == TypesInv /\ SendRequest => TypesInv'
<1> SUFFICES ASSUME TypesInv, SendRequest PROVE TypesInv'
  OBVIOUS
<1> USE DEF TypesInv
<1>1. BoardTypes' /\ InBound' /\ rx' = rx /\ out' = out /\ in' = in
  BY BoardKept DEF SendRequest
<1>2. HistoryTypes'
  BY HistoryTypesKept DEF SendRequest
<1>3. PICK item \in Items : hpc' = Reading[item] /\ toFpga' = Request[item]
  BY DEF SendRequest, Reading, Items
<1>4. toFpga' \in Seq(Byte)
  BY <1>3, RequestIs, RequestFacts DEF HostTypes
<1>5. hpc' \in HostSteps
  BY <1>3, Tables DEF HostSteps, Items
<1>6. HostTypes'
  BY <1>5 DEF SendRequest, HostTypes
<1>7. LineTypes'
  BY <1>1, <1>4 DEF SendRequest, LineTypes
<1> QED  BY <1>1, <1>2, <1>6, <1>7

\* ReadData keeps the types.
LEMMA TypesReadData == TypesInv /\ ReadData => TypesInv'
<1> SUFFICES ASSUME TypesInv, ReadData PROVE TypesInv'
  OBVIOUS
<1> USE DEF TypesInv
<1>1. BoardTypes' /\ InBound' /\ rx' = rx /\ out' = out /\ in' = in
  BY BoardKept DEF ReadData
<1>2. HistoryTypes'
  BY HistoryTypesKept DEF ReadData
<1> DEFINE bs == Append(got, Head(hostIn))
<1>3. PICK item \in Items :
        /\ hostIn # <<>>
        /\ IF Len(bs) < Answer[item]
           THEN got' = bs /\ UNCHANGED <<hpc, received, outcome>>
           ELSE /\ got' = <<>> /\ hpc' = AfterRead[item]
                /\ received' = [received EXCEPT ![item] = Value(item, bs)]
                /\ outcome' = IF item = "template" /\ outcome = "none"
                              THEN "complete" ELSE outcome
  BY DEF ReadData, Reading, Items
<1>4. Head(hostIn) \in Byte /\ Tail(hostIn) \in Seq(Byte)
  BY <1>3, BytesOfSequence DEF LineTypes
<1>5. bs \in Seq(Byte) /\ <<>> \in Seq(Byte)
  BY <1>4 DEF HostTypes
<1> HIDE DEF bs
<1>6. LineTypes'
  BY <1>1, <1>4 DEF ReadData, LineTypes
<1>7. HostTypes'
  <2>1. CASE Len(bs) < Answer[item]
    BY <1>3, <1>5, <2>1 DEF ReadData, HostTypes
  <2>2. CASE ~(Len(bs) < Answer[item])
    <3>1. hpc' \in HostSteps
      BY <1>3, <2>2, Tables, ZenonT(30) DEF Items, HostSteps
    <3>2. received' = [i \in Items |-> received'[i]]
      <4> DEFINE v == Value(item, bs)
      <4>1. received' = [received EXCEPT ![item] = v] /\ received = [i \in Items |-> received[i]]
        BY <1>3, <2>2 DEF HostTypes
      <4> HIDE DEF v
      <4> QED  BY <4>1
    <3>3. outcome' \in {"none", "complete", "failed"}
      BY <1>3, <2>2 DEF HostTypes
    <3>4. got' \in Seq(Byte) /\ config' \in Sessions
      BY <1>3, <1>5, <2>2 DEF ReadData, HostTypes
    <3> QED  BY <3>1, <3>2, <3>3, <3>4 DEF HostTypes
  <2> QED  BY <2>1, <2>2
<1> QED  BY <1>1, <1>2, <1>6, <1>7

\* Where a script that gives up goes on.
LEMMA GiveUpStep == GiveUp => hpc' \in HostSteps /\ outcome' = "failed" /\ got' = <<>>
<1> SUFFICES ASSUME GiveUp PROVE hpc' \in HostSteps /\ outcome' = "failed" /\ got' = <<>>
  OBVIOUS
<1>1. (\E step \in {"header", "started", "finished"} : hpc' = AfterAck[step]) \/ hpc' = "idle"
  BY DEF GiveUp, Ack
<1>2. hpc' \in HostSteps
  BY <1>1, Tables DEF HostSteps
<1> QED  BY <1>2 DEF GiveUp

\* Timeout keeps the types.
LEMMA TypesTimeout == TypesInv /\ Timeout => TypesInv'
<1> SUFFICES ASSUME TypesInv, Timeout PROVE TypesInv'
  OBVIOUS
<1> USE DEF TypesInv
<1>1. BoardTypes' /\ InBound' /\ rx' = rx /\ out' = out /\ in' = in
  BY BoardKept DEF Timeout
<1>2. HistoryTypes'
  BY HistoryTypesKept DEF Timeout
<1>3. HostTypes'
  BY GiveUpStep DEF Timeout, HostTypes
<1>4. LineTypes'
  BY <1>1 DEF Timeout, LineTypes
<1> QED  BY <1>1, <1>2, <1>3, <1>4

\* A fault keeps the number of faults within its bound.
LEMMA FaultHistory == TypesInv /\ Fault => HistoryTypes'
<1> SUFFICES ASSUME TypesInv, Fault PROVE HistoryTypes'
  OBVIOUS
<1>1. faults \in 0..MaxFaults /\ faults < MaxFaults /\ faults' = faults + 1
  BY DEF TypesInv, HistoryTypes, Fault
<1>2. faults' \in 0..MaxFaults
  BY <1>1, Constants
<1>3. clean' = FALSE
  BY DEF Fault
<1> QED  BY <1>2, <1>3 DEF HistoryTypes

\* BusyTimeout keeps the types.
LEMMA TypesBusyTimeout == TypesInv /\ BusyTimeout => TypesInv'
<1> SUFFICES ASSUME TypesInv, BusyTimeout PROVE TypesInv'
  OBVIOUS
<1> USE DEF TypesInv
<1>1. BoardTypes' /\ InBound' /\ HistoryTypes'
  BY BoardTypesKept, InBoundKept, FaultHistory DEF BusyTimeout, memory
<1>2. HostTypes'
  BY GiveUpStep DEF BusyTimeout, HostTypes
<1>3. LineTypes'
  BY DEF BusyTimeout, LineTypes
<1> QED  BY <1>1, <1>2, <1>3

\* Overrun keeps the types.
LEMMA TypesOverrun == TypesInv /\ Overrun => TypesInv'
<1> SUFFICES ASSUME TypesInv, Overrun PROVE TypesInv'
  OBVIOUS
<1> USE DEF TypesInv
<1>1. BoardTypes' /\ InBound' /\ HistoryTypes' /\ HostTypes'
  BY BoardTypesKept, InBoundKept, FaultHistory, HostTypesKept DEF Overrun, memory
<1>2. Head(toFpga) \in Byte /\ Tail(toFpga) \in Seq(Byte)
  BY BytesOfSequence DEF Overrun, LineTypes
<1>3. LineTypes'
  BY <1>2 DEF Overrun, LineTypes
<1> QED  BY <1>1, <1>3

\* LoseToBoard keeps the types.
LEMMA TypesLoseToBoard == TypesInv /\ LoseToBoard => TypesInv'
<1> SUFFICES ASSUME TypesInv, LoseToBoard PROVE TypesInv'
  OBVIOUS
<1> USE DEF TypesInv
<1>1. BoardTypes' /\ InBound' /\ HistoryTypes' /\ HostTypes'
  BY BoardTypesKept, InBoundKept, FaultHistory, HostTypesKept DEF LoseToBoard, memory
<1>2. Tail(toFpga) \in Seq(Byte)
  BY BytesOfSequence DEF LoseToBoard, LineTypes
<1>3. LineTypes'
  BY <1>2 DEF LoseToBoard, LineTypes
<1> QED  BY <1>1, <1>3

\* LoseToHost keeps the types.
LEMMA TypesLoseToHost == TypesInv /\ LoseToHost => TypesInv'
<1> SUFFICES ASSUME TypesInv, LoseToHost PROVE TypesInv'
  OBVIOUS
<1> USE DEF TypesInv
<1>1. BoardTypes' /\ InBound' /\ HistoryTypes' /\ HostTypes'
  BY BoardTypesKept, InBoundKept, FaultHistory, HostTypesKept DEF LoseToHost, memory
<1>2. Tail(out) \in Seq(Byte)
  BY BytesOfSequence DEF LoseToHost, LineTypes
<1>3. LineTypes'
  BY <1>2 DEF LoseToHost, LineTypes
<1> QED  BY <1>1, <1>3

\* BoardReset keeps the types.
LEMMA TypesBoardReset == TypesInv /\ BoardReset => TypesInv'
<1> SUFFICES ASSUME TypesInv, BoardReset PROVE TypesInv'
  OBVIOUS
<1> USE DEF TypesInv
<1>1. HistoryTypes'
  <2>1. CASE hpc = "idle"
    <3>1. clean' = FALSE /\ faults' = faults
      BY <2>1 DEF BoardReset
    <3> QED  BY <3>1 DEF HistoryTypes
  <2>2. CASE hpc # "idle"
    BY <2>2, FaultHistory DEF BoardReset
  <2> QED  BY <2>1, <2>2
<1>2. HostTypes'
  BY HostTypesKept DEF BoardReset
<1>3. BoardTypes'
  <2>1. InitHeader \in Headers /\ Area(InitHeader) <= PlaneMax
    BY HostAssumption DEF Headers
  <2> QED  BY <2>1, Allocation DEF BoardReset, BoardTypes
<1>4. LineTypes' /\ InBound'
  BY DEF BoardReset, LineTypes, InBound
<1> QED  BY <1>1, <1>2, <1>3, <1>4

\* Every step keeps the types.
LEMMA TypesStep == TypesInv /\ [Next]_vars => TypesInv'
<1> SUFFICES ASSUME TypesInv, [Next]_vars PROVE TypesInv'
  OBVIOUS
<1>1. CASE Host
  BY <1>1, TypesSendHeader, TypesReadAck, TypesSendImage, TypesCalculate, TypesSendRequest,
     TypesReadData, TypesTimeout DEF Host
<1>2. CASE Firmware
  BY <1>2, TypesUartRead, TypesHeaderRead, TypesHeaderAck, TypesImageRead, TypesAlgorithmRun,
     TypesAlgorithmEnd, TypesImageSend, TypesErrorSend, TypesTemplateSend, TypesIgnoreCommand
  DEF Firmware
<1>3. CASE ToBoard \/ ToHost
  BY <1>3, TypesToBoard, TypesToHost
<1>4. CASE BusyTimeout \/ Overrun \/ LoseToBoard \/ LoseToHost \/ BoardReset
  BY <1>4, TypesBusyTimeout, TypesOverrun, TypesLoseToBoard, TypesLoseToHost, TypesBoardReset
<1>5. CASE UNCHANGED vars
  <2>1. HostTypes' /\ HistoryTypes' /\ BoardTypes' /\ InBound'
    BY <1>5, HostTypesKept, HistoryTypesKept, BoardTypesKept, InBoundKept
    DEF TypesInv, vars, host, memory
  <2>2. LineTypes'
    BY <1>5 DEF TypesInv, LineTypes, vars
  <2> QED  BY <2>1, <2>2 DEF TypesInv
<1> QED  BY <1>1, <1>2, <1>3, <1>4, <1>5 DEF Next

\* The inductive types imply the checked ones.
LEMMA TypesImplyTypeOK == TypesInv => TypeOK
<1> SUFFICES ASSUME TypesInv PROVE TypeOK
  OBVIOUS
<1>1. \A f \in DOMAIN head : head[f] \in 0..Word-1
  BY DEF TypesInv, BoardTypes, Headers
<1> QED  BY <1>1 DEF TypesInv, LineTypes, HostTypes, BoardTypes, HistoryTypes, TypeOK

(***************************************************************************)
(* Whatever is lost, late or reset, and for every byte that reaches it:    *)
(* the firmware's buffers hold bytes, its header and planes words of 16    *)
(* bits and planes of the size its header says, and the script's history   *)
(* stays within its bounds.  A command is never longer than it may be.     *)
(***************************************************************************)
THEOREM TypesHold == Spec => []TypeOK
<1>1. Init => TypesInv
  BY TypesInit
<1>2. TypesInv /\ [Next]_vars => TypesInv'
  BY TypesStep
<1>3. TypesInv => TypeOK
  BY TypesImplyTypeOK
<1> QED  BY <1>1, <1>2, <1>3, PTL DEF Spec
-----------------------------------------------------------------------------
(***************************************************************************)
(* A session without faults.                                               *)
(***************************************************************************)
LEMMA LineFacts ==
  ASSUME LineTypes
  PROVE  /\ Rest \in Seq(Byte) /\ Line \in Seq(Byte) /\ Back \in Seq(Byte)
         /\ Len(Line) = Len(in) + Len(Rest) /\ Len(Back) = Len(hostIn) + Len(out)
         /\ Line = in \o Rest /\ Back = hostIn \o out
         /\ Line = <<>> => in = <<>> /\ Rest = <<>>
         /\ Rest = <<>> <=> rx = None /\ toFpga = <<>>
         /\ Back = <<>> => hostIn = <<>> /\ out = <<>>
         /\ rx = None => Rest = toFpga
         /\ in = <<>> => Line = Rest
         /\ Rest = <<>> => Line = in
         /\ hostIn = <<>> => Back = out
         /\ out = <<>> => Back = hostIn
<1>1. /\ toFpga \in Seq(Byte) /\ out \in Seq(Byte) /\ hostIn \in Seq(Byte) /\ in \in Seq(Byte)
      /\ rx \in Byte \cup {None}
  BY DEF LineTypes
<1>2. /\ Rest \in Seq(Byte) /\ (rx = None => Rest = toFpga)
      /\ (rx # None => Rest # <<>>)
  <2>1. CASE rx = None
    <3>1. Register(rx) = <<>>
      BY <2>1 DEF Register
    <3>2. Rest = toFpga
      BY <1>1, <3>1, Empties DEF Rest
    <3> QED  BY <1>1, <2>1, <3>2
  <2>2. CASE rx # None
    <3>1. Register(rx) = <<rx>> /\ rx \in Byte
      BY <1>1, <2>2 DEF Register
    <3>2. Register(rx) \in Seq(Byte) /\ Register(rx) # <<>>
      BY <3>1
    <3>3. Rest \in Seq(Byte) /\ Rest # <<>>
      BY <1>1, <3>2, ConcatProperties, HeadTail DEF Rest
    <3> QED  BY <2>2, <3>3
  <2> QED  BY <2>1, <2>2
<1>3. Line \in Seq(Byte) /\ Len(Line) = Len(in) + Len(Rest) /\ Line = in \o Rest
  BY <1>1, <1>2, ConcatProperties DEF Line
<1>4. Back \in Seq(Byte) /\ Len(Back) = Len(hostIn) + Len(out) /\ Back = hostIn \o out
  BY <1>1, ConcatProperties DEF Back
<1>5. /\ in = <<>> => Line = Rest
      /\ Rest = <<>> => Line = in
      /\ hostIn = <<>> => Back = out
      /\ out = <<>> => Back = hostIn
  BY <1>1, <1>2, <1>3, <1>4, Empties
<1>6. \A s, t \in Seq(Byte) : Len(s) + Len(t) = 0 => s = <<>> /\ t = <<>>
  BY EmptySeq, LenProperties
<1>7. Line = <<>> => in = <<>> /\ Rest = <<>>
  BY <1>1, <1>2, <1>3, <1>6, EmptySeq
<1>8. Back = <<>> => hostIn = <<>> /\ out = <<>>
  BY <1>1, <1>4, <1>6, EmptySeq
<1> QED  BY <1>2, <1>3, <1>4, <1>5, <1>7, <1>8

\* Only bytes move.
LEMMA SessionKept ==
  ASSUME SessionInv, Line' = Line, Back' = Back, fpc # "read" => in' = in /\ Rest' = Rest,
         UNCHANGED <<hpc, config, got, received, outcome, fpc, head, planes, errors, templates, clean>>
  PROVE  SessionInv'
<1> SUFFICES ASSUME clean PROVE Ended' \/ (Phases' /\ outcome' = "none")
  BY DEF SessionInv
<1>1. CASE Ended
  BY <1>1 DEF Ended, ImageReceived, ErrorReceived, TemplateReceived
<1>2. CASE HeaderSent /\ outcome = "none"
  BY <1>2 DEF HeaderSent, Phases
<1>3. CASE HeaderTaken /\ outcome = "none"
  BY <1>3 DEF HeaderTaken, Phases
<1>4. CASE HeaderDone /\ outcome = "none"
  BY <1>4 DEF HeaderDone, Phases
<1>5. CASE (\E d \in 0..3 : ImagesSent(d)) /\ outcome = "none"
  BY <1>5 DEF ImagesSent, Phases
<1>6. CASE (Calculating \/ Calculated) /\ outcome = "none"
  BY <1>6 DEF Calculating, Calculated, Phases
<1>7. CASE (\E item \in Items : Asking(item)) /\ outcome = "none"
  BY <1>7 DEF Asking, ReceivedBefore, ImageReceived, ErrorReceived, Phases
<1>8. CASE (\E item \in Items : Asked(item)) /\ outcome = "none"
  BY <1>8 DEF Asked, ReceivedBefore, ImageReceived, ErrorReceived, Phases
<1>9. CASE (\E item \in Items : Answered(item)) /\ outcome = "none"
  BY <1>9 DEF Answered, AnswerTo, ReceivedBefore, ImageReceived, ErrorReceived, Phases, Answer, Area
<1> QED  BY <1>1, <1>2, <1>3, <1>4, <1>5, <1>6, <1>7, <1>8, <1>9 DEF SessionInv, Phases

\* Header and session agree on the size of an image.
LEMMA SameArea == TypesInv /\ HeaderIs(head, config) => Area(head) = Area(config)
  BY DEF HeaderIs, Area

\* The answers: their lengths, and what Matlab makes of them.
LEMMA AnswerFacts ==
  ASSUME TypesInv, NEW item \in Items, HeaderIs(head, config),
         item = "error" => errors \in ErrorRows
  PROVE  /\ AnswerTo(item) \in Seq(Byte) /\ Len(AnswerTo(item)) = Answer[item]
         /\ Answer[item] \in Nat \ {0} /\ Answer[item] <= InputBufferSize
         /\ item = "image" =>
              LET r == SignedWords(AnswerTo(item))
              IN ToWords(r) = planes[1] /\ \A k \in DOMAIN r : r[k] \in SignedRange(Word)
         /\ item = "error" => SignedLongs(AnswerTo(item)) = errors
         /\ item = "template" => SignedWords(AnswerTo(item)) = templates[config.template_no]
<1>1. config \in Sessions /\ head \in Headers
  BY DEF TypesInv, HostTypes, BoardTypes
<1>2. /\ Area(config) \in Nat /\ Area(config) >= 2 /\ Area(head) = Area(config)
      /\ 4 * ErrorLen <= 2 * Area(config) /\ 2 * TemplateLen <= 2 * Area(config)
      /\ config.template_no \in TemplateNos
  BY <1>1, SessionFacts, SameArea
<1>3. ErrorLen \in Nat \ {0} /\ TemplateLen \in Nat \ {0} /\ InputBufferSize = 2 * Area(config)
  BY HostAssumption DEF InputBufferSize
<1>4. /\ Answer["image"] = 2 * Area(config) /\ Answer["error"] = 4 * ErrorLen
      /\ Answer["template"] = 2 * TemplateLen
  BY DEF Answer
<1>5. CASE item = "image"
  <2> DEFINE p == planes[1]
  <2>1. p \in [1..Area(config) -> 0..Word-1]
    BY <1>2, Constants DEF TypesInv, BoardTypes
  <2>2. AnswerTo(item) = WordBytes(p)
    BY <1>5 DEF AnswerTo
  <2> HIDE DEF p
  <2>3. p \in [1..Area(config) -> Int]
    BY <2>1, Constants
  <2>4. WordBytes(p) \in Seq(Byte) /\ Len(WordBytes(p)) = 2 * Area(config)
    BY <1>2, <2>3, WordBytesFacts
  <2> DEFINE r == SignedWords(WordBytes(p))
  <2>5. ToWords(r) = p /\ \A k \in DOMAIN r : r[k] \in SignedRange(Word)
    BY <1>2, <2>1, PlaneReceived
  <2> HIDE DEF r
  <2>6. Answer[item] \in Nat \ {0} /\ Answer[item] <= InputBufferSize /\ Answer[item] = 2 * Area(config)
    BY <1>2, <1>3, <1>4, <1>5
  <2> QED  BY <1>5, <2>2, <2>4, <2>5, <2>6 DEF p, r
<1>6. CASE item = "error"
  <2>1. errors \in ErrorRows
    BY <1>6
  <2>2. AnswerTo(item) = LongBytes(errors)
    BY <1>6 DEF AnswerTo
  <2>3. /\ LongBytes(errors) \in Seq(Byte) /\ Len(LongBytes(errors)) = 4 * ErrorLen
        /\ SignedLongs(LongBytes(errors)) = errors
    BY <2>1, ErrorsType
  <2>4. Answer[item] \in Nat \ {0} /\ Answer[item] <= InputBufferSize /\ Answer[item] = 4 * ErrorLen
    BY <1>2, <1>3, <1>4, <1>6
  <2> QED  BY <1>6, <2>2, <2>3, <2>4
<1>7. CASE item = "template"
  <2> DEFINE t == templates[config.template_no]
  <2>1. t \in Templates
    BY <1>2 DEF TypesInv, BoardTypes
  <2>2. AnswerTo(item) = WordBytes(t)
    BY <1>7 DEF AnswerTo
  <2> HIDE DEF t
  <2>3. /\ WordBytes(t) \in Seq(Byte) /\ Len(WordBytes(t)) = 2 * TemplateLen
        /\ SignedWords(WordBytes(t)) = t
    BY <2>1, TemplatesType
  <2>4. /\ Answer[item] \in Nat \ {0} /\ Answer[item] <= InputBufferSize
        /\ Answer[item] = 2 * TemplateLen
    BY <1>2, <1>3, <1>4, <1>7
  <2> QED  BY <1>7, <2>2, <2>3, <2>4 DEF t
<1> QED  BY <1>5, <1>6, <1>7 DEF Items

\* In every phase the answer fits Matlab's buffer, and a busy board has nothing to read.
LEMMA BuffersEnough == TypesInv /\ SessionInv => BuffersSuffice
<1> SUFFICES ASSUME TypesInv, SessionInv, clean
             PROVE  /\ Busy => toFpga = <<>> /\ rx = None
                    /\ Len(hostIn) + Len(out) <= InputBufferSize
  BY DEF BuffersSuffice
<1>1. LineTypes /\ config \in Sessions /\ Len(hostIn) \in Nat /\ Len(out) \in Nat
  BY DEF TypesInv, HostTypes, LineTypes
<1>2. Area(config) \in Nat /\ Area(config) >= 2 /\ InputBufferSize = 2 * Area(config)
  BY <1>1, SessionFacts DEF InputBufferSize
<1>3. /\ Rest = <<>> => toFpga = <<>> /\ rx = None
      /\ Line = <<>> => Rest = <<>>
      /\ Back = <<>> => out = <<>> /\ hostIn = <<>>
      /\ Len(Back) = Len(hostIn) + Len(out)
  BY <1>1, LineFacts
<1>4. Len(<<>>) = 0 /\ Len(<< 1 >>) = 1 /\ Len(<< 2 >>) = 1 /\ Len(<<2, 2>>) = 2
  OBVIOUS
<1>5. ASSUME Back = <<>> PROVE Len(hostIn) + Len(out) <= InputBufferSize /\ ~(Len(out) > 1)
  BY <1>2, <1>3, <1>4, <1>5
<1>6. ASSUME Back \in {<< 1 >>, << 2 >>, <<2, 2>>} PROVE Len(hostIn) + Len(out) <= InputBufferSize
  <2>1. Len(Back) = 1 \/ Len(Back) = 2
    BY <1>6
  <2> QED  BY <1>2, <1>3, <2>1
<1>7. CASE Ended
  BY <1>3, <1>5, <1>7 DEF Ended
<1>8. CASE HeaderSent
  BY <1>5, <1>8 DEF HeaderSent, Busy
<1>9. CASE HeaderTaken
  BY <1>3, <1>5, <1>9 DEF HeaderTaken
<1>10. CASE HeaderDone
  BY <1>3, <1>6, <1>10 DEF HeaderDone
<1>11. CASE \E d \in 0..3 : ImagesSent(d)
  BY <1>5, <1>11 DEF ImagesSent, Busy
<1>12. CASE Calculating
  BY <1>3, <1>5, <1>6, <1>12 DEF Calculating
<1>13. CASE Calculated
  BY <1>3, <1>6, <1>13 DEF Calculated
<1>14. CASE \E item \in Items : Asking(item)
  BY <1>3, <1>5, <1>14 DEF Asking
<1>15. CASE \E item \in Items : Asked(item)
  BY <1>5, <1>15 DEF Asked, Busy
<1>16. CASE \E item \in Items : Answered(item)
  <2>1. PICK item \in Items : Answered(item)
    BY <1>16
  <2>2. Line = <<>> /\ got \o Back = AnswerTo(item)
    BY <2>1 DEF Answered
  <2>3. Len(AnswerTo(item)) <= InputBufferSize
    BY <2>1, AnswerFacts DEF Answered
  <2>4. Len(got \o Back) = Len(got) + Len(Back) /\ Len(got) \in Nat /\ Len(Back) \in Nat
    BY <1>1, LineFacts, ConcatProperties DEF TypesInv, HostTypes
  <2> QED  BY <1>2, <1>3, <2>2, <2>3, <2>4
<1> QED  BY <1>7, <1>8, <1>9, <1>10, <1>11, <1>12, <1>13, <1>14, <1>15, <1>16 DEF SessionInv, Phases

(***************************************************************************)
(* A command that has begun: it is the first of those under way, and takes *)
(* as many bytes as the host has sent for it.                              *)
(***************************************************************************)
LEMMA CommandBegun ==
  ASSUME TypesInv, in # <<>>, NEW c \in Seq(Byte), NEW t \in Seq(Byte),
         c # <<>>, Line = c \o t,
         \/ (c[1] = 0 /\ Len(c) = 15) \/ (c[1] = 1 /\ Len(c) = 2 + 2 * Area(head))
         \/ (c[1] \in {2, 3} /\ Len(c) = 2) \/ (c[1] = 4 /\ Len(c) = 1) \/ (c[1] = 5 /\ Len(c) = 3)
  PROVE  /\ in[1] = c[1]
         /\ Complete => in = c /\ Rest = t
         /\ Rest = <<>> /\ fpc = "read" => Complete
<1>1. /\ LineTypes /\ head \in Headers /\ in \in Seq(Byte) /\ Rest \in Seq(Byte)
      /\ Line = in \o Rest /\ Len(Line) = Len(in) + Len(Rest) /\ Area(head) \in Nat
  BY LineFacts, HeaderFields DEF TypesInv, BoardTypes, LineTypes
<1>2. in[1] = c[1]
  <2>1. (in \o Rest)[1] = in[1]
    BY <1>1, HeadTail
  <2>2. (c \o t)[1] = c[1]
    BY HeadTail
  <2> QED  BY <1>1, <2>1, <2>2
<1>3. Len(in) \in Nat \ {0} /\ Len(c) \in Nat \ {0} /\ Len(t) \in Nat /\ Len(Line) = Len(c) + Len(t)
  BY <1>1, EmptySeq, LenProperties, ConcatProperties
<1>4. Needed = Len(c) \/ (Len(in) = 1 /\ Needed = 2 /\ Len(c) >= 2)
  <2> DEFINE x == in[1]
             l == Len(in)
             m == Len(c)
             A == Area(head)
             N == Needed
  <2>1. /\ x = 0 => N = 15
        /\ x = 1 => N = IF l < 2 THEN 2 ELSE 2 + 2 * A
        /\ x = 2 => N = 2
        /\ x = 3 => N = 2
        /\ x = 5 => N = 3
        /\ x \notin {0, 1, 2, 3, 5} => N = 1
    BY <1>1, NeededFacts
  <2>2. \/ x = 0 /\ m = 15
        \/ x = 1 /\ m = 2 + 2 * A
        \/ x \in {2, 3} /\ m = 2
        \/ x = 4 /\ m = 1
        \/ x = 5 /\ m = 3
    BY <1>2
  <2>3. l \in Nat \ {0} /\ A \in Nat
    BY <1>1, <1>3
  <2> HIDE DEF x, l, m, A, N
  <2>4. N = m \/ (l = 1 /\ N = 2 /\ m >= 2)
    BY <2>1, <2>2, <2>3
  <2> QED  BY <2>4 DEF l, m, N
<1>5. ASSUME Complete PROVE in = c /\ Rest = t
  <2>1. Len(in) = Len(c)
    BY <1>3, <1>4, <1>5 DEF Complete
  <2> QED  BY <1>1, <2>1, SplitUnique
<1>6. ASSUME Rest = <<>>, fpc = "read" PROVE Complete
  <2>1. Len(Rest) = 0
    BY <1>6
  <2>2. Len(in) >= Len(c)
    BY <1>1, <1>3, <2>1
  <2>3. Len(in) <= Needed
    BY <1>6 DEF TypesInv, InBound
  <2>4. Len(in) = Needed
    BY <1>3, <1>4, <2>2, <2>3
  <2> QED  BY <2>4 DEF Complete
<1> QED  BY <1>2, <1>5, <1>6

\* The shape of each command.
LEMMA ImagesShape ==
  ASSUME TypesInv, NEW d \in 0..3, ImagesSent(d), d < Sent(hpc)
  PROVE  LET c == CommandNo(config, d)
             t == Commands(config, d + 1, Sent(hpc))
         IN /\ Line = c \o t /\ c \in Seq(Byte) /\ t \in Seq(Byte) /\ c # <<>>
            /\ d < 3 => c[1] = 1 /\ Len(c) = 2 + 2 * Area(head)
            /\ d = 3 => c[1] = 2 /\ Len(c) = 2 /\ hpc = "started" /\ t = <<>>
<1>1. config \in Sessions /\ Area(head) = Area(config) /\ Sent(hpc) \in 0..4
  BY SameArea DEF ImagesSent, TypesInv, HostTypes, Sent
<1>2. Line = CommandNo(config, d) \o Commands(config, d + 1, Sent(hpc))
  BY <1>1, CommandsFirst DEF ImagesSent
<1>3. d + 1 \in 0..4
  OBVIOUS
<1>4. Commands(config, d + 1, Sent(hpc)) \in Seq(Byte)
  BY <1>1, <1>3, CommandsType
<1>5. /\ CommandNo(config, d) \in Seq(Byte) /\ CommandNo(config, d) # <<>>
      /\ d < 3 => CommandNo(config, d)[1] = 1 /\ Len(CommandNo(config, d)) = 2 + 2 * Area(config)
      /\ d = 3 => CommandNo(config, d)[1] = 2 /\ Len(CommandNo(config, d)) = 2
  BY <1>1, CommandFacts
<1>6. ASSUME d = 3 PROVE hpc = "started" /\ Commands(config, d + 1, Sent(hpc)) = <<>>
  <2>1. Sent(hpc) = 4 /\ d + 1 = 4
    BY <1>1, <1>6
  <2>2. hpc = "started"
    BY <2>1 DEF Sent, ImagesSent, Sending
  <2>3. Commands(config, 4, 4) = <<>>
    BY <1>1, CommandsNone
  <2> QED  BY <2>1, <2>2, <2>3
<1> QED  BY <1>1, <1>2, <1>4, <1>5, <1>6

\* Which command is complete.
LEMMA CommandTaken ==
  ASSUME TypesInv, SessionInv, clean, fpc = "read", Complete
  PROVE  /\ outcome = "none"
         /\ \/ HeaderSent /\ in = HeaderBytes(config) /\ in[1] = 0 /\ Rest = <<>>
            \/ \E d \in 0..3 : /\ ImagesSent(d) /\ d < Sent(hpc) /\ in = CommandNo(config, d)
                               /\ in[1] = (IF d < 3 THEN 1 ELSE 2)
                               /\ Rest = Commands(config, d + 1, Sent(hpc))
            \/ \E item \in Items :
                 /\ Asked(item) /\ in = RequestFor(config, item) /\ Rest = <<>>
                 /\ in[1] = (IF item = "image" THEN 3 ELSE IF item = "error" THEN 4 ELSE 5)
<1>1. in # <<>> /\ LineTypes /\ config \in Sessions /\ <<>> \in Seq(Byte)
  BY DEF Complete, TypesInv, HostTypes
<1>2. Line # <<>>
  BY <1>1, LineFacts
<1>3. outcome = "none"
  BY <1>2 DEF SessionInv, Ended
<1>4. CASE HeaderSent
  <2> DEFINE c == HeaderBytes(config)
  <2>1. c \in Seq(Byte) /\ Len(c) = 15 /\ c[1] = 0
    BY <1>1, HeaderBytesFacts
  <2> HIDE DEF c
  <2>2. Line = c \o <<>> /\ c # <<>>
    <3>1. Line = c
      BY <1>4 DEF HeaderSent, c
    <3>2. c \o <<>> = c
      BY <2>1, Empties
    <3>3. c # <<>>
      BY <1>2, <3>1
    <3> QED  BY <3>1, <3>2, <3>3
  <2>3. in[1] = c[1] /\ in = c /\ Rest = <<>>
    BY <1>1, <2>1, <2>2, CommandBegun
  <2> QED  BY <1>3, <1>4, <2>1, <2>3 DEF c
<1>5. CASE \E d \in 0..3 : ImagesSent(d)
  <2>1. PICK d \in 0..3 : ImagesSent(d)
    BY <1>5
  <2>2. d < Sent(hpc)
    <3>1. CASE d = Sent(hpc)
      <4>1. Commands(config, d, d) = <<>>
        BY <1>1, CommandsNone
      <4> QED  BY <1>2, <2>1, <3>1, <4>1 DEF ImagesSent
    <3>2. d <= Sent(hpc) /\ Sent(hpc) \in Nat
      BY <2>1 DEF ImagesSent, Sent
    <3> QED  BY <3>1, <3>2
  <2> DEFINE c == CommandNo(config, d)
             t == Commands(config, d + 1, Sent(hpc))
  <2>3. /\ Line = c \o t /\ c \in Seq(Byte) /\ t \in Seq(Byte) /\ c # <<>>
        /\ d < 3 => c[1] = 1 /\ Len(c) = 2 + 2 * Area(head)
        /\ d = 3 => c[1] = 2 /\ Len(c) = 2
    BY <2>1, <2>2, ImagesShape
  <2> HIDE DEF c, t
  <2>4. /\ d < 3 \/ d = 3
        /\ (c[1] = 1 /\ Len(c) = 2 + 2 * Area(head)) \/ (c[1] \in {2, 3} /\ Len(c) = 2)
    BY <2>3
  <2>5. in[1] = c[1] /\ in = c /\ Rest = t
    BY <1>1, <2>3, <2>4, CommandBegun
  <2>6. in[1] = (IF d < 3 THEN 1 ELSE 2)
    BY <2>3, <2>5
  <2> QED  BY <1>3, <2>1, <2>2, <2>5, <2>6 DEF c, t
<1>6. CASE \E item \in Items : Asked(item)
  <2>1. PICK item \in Items : Asked(item)
    BY <1>6
  <2> DEFINE c == RequestFor(config, item)
             n == IF item = "image" THEN 3 ELSE IF item = "error" THEN 4 ELSE 5
  <2>2. /\ c \in Seq(Byte) /\ c # <<>> /\ c[1] = n
        /\ \/ c[1] \in {2, 3} /\ Len(c) = 2
           \/ c[1] = 4 /\ Len(c) = 1
           \/ c[1] = 5 /\ Len(c) = 3
    BY <1>1, RequestFacts DEF Items
  <2> HIDE DEF c, n
  <2>3. Line = c \o <<>>
    BY <2>1, <2>2, Empties DEF Asked, c
  <2>4. in[1] = c[1] /\ in = c /\ Rest = <<>>
    BY <1>1, <2>2, <2>3, CommandBegun
  <2>5. in[1] = n
    BY <2>2, <2>4
  <2> QED  BY <1>3, <2>1, <2>4, <2>5 DEF c, n
<1>7. HeaderSent \/ (\E d \in 0..3 : ImagesSent(d)) \/ \E item \in Items : Asked(item)
  BY <1>2 DEF SessionInv, Ended, Phases, HeaderTaken, HeaderDone, Calculating, Calculated, Asking, Answered
<1> QED  BY <1>4, <1>5, <1>6, <1>7
-----------------------------------------------------------------------------
(***************************************************************************)
(* The steps of a session.                                                 *)
(***************************************************************************)
LEMMA NextLineFacts ==
  ASSUME LineTypes'
  PROVE  /\ (Line = in \o Rest)' /\ (Back = hostIn \o out)'
         /\ (rx = None => Rest = toFpga)'
         /\ (in = <<>> => Line = Rest)'
         /\ (hostIn = <<>> => Back = out)' /\ (out = <<>> => Back = hostIn)'
<1>1. (LineTypes =>
        /\ Line = in \o Rest /\ Back = hostIn \o out
        /\ (rx = None => Rest = toFpga) /\ (in = <<>> => Line = Rest)
        /\ (hostIn = <<>> => Back = out) /\ (out = <<>> => Back = hostIn))'
  BY LineFacts, PTL
<1> QED  BY <1>1

\* A step that touches neither end leaves the answers under way.
LEMMA BackKept == UNCHANGED <<hostIn, out>> => Back' = Back
  BY DEF Back

\* A step that touches neither end leaves the commands under way.
LEMMA RestKept == UNCHANGED <<rx, toFpga>> => Rest' = Rest
  BY DEF Rest, Register

\* UartRead takes a session to its next phase or leaves it where it is.
LEMMA StepUartRead == TypesInv /\ SessionInv /\ UartRead => SessionInv'
<1> SUFFICES ASSUME TypesInv, SessionInv, UartRead PROVE SessionInv'
  OBVIOUS
<1>1. TypesInv'
  BY TypesUartRead
<1>2. LineTypes /\ LineTypes' /\ rx \in Byte /\ rx # None /\ in \in Seq(Byte) /\ toFpga \in Seq(Byte)
  BY <1>1 DEF TypesInv, LineTypes, UartRead
<1>3. in' = Append(in, rx) /\ rx' = None /\ toFpga' = toFpga
  BY DEF UartRead
<1>4. Line = in \o (<<rx>> \o toFpga)
  BY <1>2 DEF Line, Rest, Register
<1>5. Line' = Append(in, rx) \o toFpga
  BY <1>2, <1>3, NextLineFacts
<1>6. Line' = Line
  <2>1. Append(in, rx) \o toFpga = in \o (<<rx>> \o toFpga)
    BY <1>2, AppendConcat
  <2> QED  BY <1>4, <1>5, <2>1
<1>7. Back' = Back /\ fpc = "read"
  BY BackKept DEF UartRead, Busy
<1> QED  BY <1>6, <1>7, SessionKept DEF UartRead, host, memory

\* ToBoard takes a session to its next phase or leaves it where it is.
LEMMA StepToBoard == TypesInv /\ SessionInv /\ ToBoard => SessionInv'
<1> SUFFICES ASSUME TypesInv, SessionInv, ToBoard, clean PROVE SessionInv'
  BY DEF SessionInv, ToBoard
<1>1. TypesInv'
  BY TypesToBoard
<1>2. LineTypes /\ LineTypes' /\ toFpga \in Seq(Byte) /\ toFpga # <<>>
  BY <1>1 DEF TypesInv, LineTypes, ToBoard
<1>3. Rest # <<>>
  BY <1>2, LineFacts
<1>4. fpc = "read"
  BY <1>2, <1>3, LineFacts
  DEF SessionInv, Ended, Phases, HeaderSent, HeaderTaken, HeaderDone, ImagesSent, Calculating, Calculated,
      Asking, Asked, Answered
<1>5. rx = None /\ rx' = Head(toFpga) /\ toFpga' = Tail(toFpga) /\ in' = in
  BY <1>4 DEF ToBoard
<1>6. Head(toFpga) \in Byte /\ <<Head(toFpga)>> \o Tail(toFpga) = toFpga
  BY <1>2, HeadTail
<1>7. Rest' = toFpga /\ Rest = toFpga
  <2>1. Head(toFpga) # None
    BY <1>6, Constants DEF Byte, None
  <2>2. Rest' = <<Head(toFpga)>> \o Tail(toFpga)
    BY <1>5, <2>1 DEF Rest, Register
  <2> QED  BY <1>2, <1>5, <1>6, <2>2, LineFacts
<1>8. Line' = Line
  BY <1>2, <1>5, <1>7, LineFacts, NextLineFacts
<1>9. Back' = Back
  BY BackKept DEF ToBoard
<1> QED  BY <1>4, <1>8, <1>9, SessionKept DEF ToBoard, host, memory

\* ToHost takes a session to its next phase or leaves it where it is.
LEMMA StepToHost == TypesInv /\ SessionInv /\ ToHost => SessionInv'
<1> SUFFICES ASSUME TypesInv, SessionInv, ToHost, clean PROVE SessionInv'
  BY DEF SessionInv, ToHost
<1>1. TypesInv'
  BY TypesToHost
<1>2. LineTypes /\ LineTypes' /\ out \in Seq(Byte) /\ out # <<>> /\ hostIn \in Seq(Byte)
  BY <1>1 DEF TypesInv, LineTypes, ToHost
<1>3. Head(out) \in Byte /\ Tail(out) \in Seq(Byte) /\ <<Head(out)>> \o Tail(out) = out
  BY <1>2, HeadTail
<1>4. Len(hostIn) + Len(out) <= InputBufferSize
  BY BuffersEnough DEF BuffersSuffice
<1>5. Len(out) \in Nat \ {0} /\ Len(hostIn) \in Nat /\ InputBufferSize \in Nat
  <2>1. Area(config) \in Nat
    BY SessionFacts DEF TypesInv, HostTypes
  <2> QED  BY <1>2, <2>1, EmptySeq, LenProperties DEF InputBufferSize
<1>6. Len(hostIn) < InputBufferSize
  BY <1>4, <1>5
<1>7. hostIn' = Append(hostIn, Head(out)) /\ out' = Tail(out)
  BY <1>6 DEF ToHost
<1>8. Append(hostIn, Head(out)) \o Tail(out) = hostIn \o (<<Head(out)>> \o Tail(out))
  BY <1>2, <1>3, AppendConcat, SMTT(30)
<1>9. Back' = Back
  BY <1>3, <1>7, <1>8 DEF Back
<1>10. Rest' = Rest /\ in' = in
  BY RestKept DEF ToHost
<1>11. Line' = Line
  BY <1>10 DEF Line
<1> QED  BY <1>9, <1>10, <1>11, SessionKept DEF ToHost, host, memory

\* HeaderRead takes a session to its next phase or leaves it where it is.
LEMMA StepHeaderRead == TypesInv /\ SessionInv /\ HeaderRead => SessionInv'
<1> SUFFICES ASSUME TypesInv, SessionInv, HeaderRead, clean PROVE HeaderTaken' /\ outcome' = "none"
  BY DEF SessionInv, Phases, HeaderRead
<1>1. fpc = "read" /\ Complete /\ in[1] = 0
  BY DEF HeaderRead, Command, Busy
<1>2. outcome = "none" /\ HeaderSent /\ in = HeaderBytes(config) /\ Rest = <<>>
  BY <1>1, CommandTaken
<1>3. config \in Sessions /\ config' = config /\ hpc' = hpc /\ outcome' = outcome
  BY DEF TypesInv, HostTypes, HeaderRead, host
<1>4. Word \in Nat \ {0} /\ config.iter \in 0..Word-1 /\ Area(config) \in Nat /\ Area(config) <= PlaneMax
      /\ PlaneMax \in Nat
  BY <1>3, SessionFacts, Constants
<1>5. HeaderIs(Header, config)
  <2> DEFINE c == (Unsigned(in, 8) - 1) % Word
  <2>1. /\ Unsigned(in, 2) = config.width /\ Unsigned(in, 4) = config.height
        /\ RoundsDown(config.Ts) => Unsigned(in, 6) = config.Ts
        /\ Unsigned(in, 8) = config.iter
        /\ Unsigned(in, 10) = config.template_no
        /\ Unsigned(in, 12) = config.learn_loop
        /\ RoundsDown(config.learn_rate) => Unsigned(in, 14) = config.learn_rate
    BY <1>2, <1>3, HeaderBytesFacts
  <2>2. c = (config.iter - 1) % Word
    BY <2>1
  <2> HIDE DEF c
  <2>3. Header = Fields(c)
    BY DEF Header, c
  <2>4. /\ Header.width = Unsigned(in, 2) /\ Header.height = Unsigned(in, 4)
        /\ Header.Ts = Unsigned(in, 6) /\ Header.iter_cnt = c
        /\ Header.template_no = Unsigned(in, 10) /\ Header.learn_loop = Unsigned(in, 12)
        /\ Header.learn_rate = Unsigned(in, 14)
    BY <2>3 DEF Fields
  <2> QED  BY <2>1, <2>2, <2>4 DEF HeaderIs
<1>6. Area(Header) = Area(config)
  BY <1>5 DEF HeaderIs, Area
<1>7. fpc' = "header" /\ head' = Header
  BY <1>4, <1>6 DEF HeaderRead, Allocate
<1>8. Rest' = Rest /\ Back' = Back
  BY RestKept, BackKept DEF HeaderRead
<1> QED  BY <1>2, <1>3, <1>5, <1>7, <1>8 DEF HeaderTaken, HeaderSent

\* HeaderAck takes a session to its next phase or leaves it where it is.
LEMMA StepHeaderAck == TypesInv /\ SessionInv /\ HeaderAck => SessionInv'
<1> SUFFICES ASSUME TypesInv, SessionInv, HeaderAck, clean PROVE HeaderDone' /\ outcome' = "none"
  BY DEF SessionInv, Phases, HeaderAck
<1>1. HeaderTaken /\ outcome = "none"
  BY DEF HeaderAck, SessionInv, Ended, Phases, HeaderSent, HeaderDone, ImagesSent, Calculating, Calculated,
      Asking, Asked, Answered
<1>2. LineTypes /\ LineTypes'
  BY TypesHeaderAck DEF TypesInv
<1>3. hostIn = <<>> /\ out = <<>>
  BY <1>1, <1>2, LineFacts DEF HeaderTaken
<1>4. Rest' = <<>> /\ in' = <<>> /\ out' = Append(out, 1) /\ hostIn' = hostIn
  BY <1>1, RestKept DEF HeaderAck, Return, HeaderTaken
<1>5. Line' = <<>>
  BY <1>2, <1>4, NextLineFacts
<1>6. Back' = << 1 >>
  <2>1. Back' = Append(<<>>, 1)
    BY <1>2, <1>3, <1>4, NextLineFacts
  <2> QED  BY <2>1
<1> QED  BY <1>1, <1>5, <1>6 DEF HeaderTaken, HeaderDone, HeaderAck, host, memory

\* The plane an image command names, and what it puts there.
LEMMA ImageStored ==
  ASSUME TypesInv, NEW type \in {"x_0", "u", "y_ideal"}, in = ImageCommand(config, type),
         Area(head) = Area(config)
  PROVE  /\ in[2] = type_ind[type] /\ in[2] \in {0, 1, 2} /\ in[2] < PlaneCount
         /\ [k \in 1..Area(head) |-> Unsigned(in, 2 * k + 1)] = ToWords(config.images[type])
<1>1. config \in Sessions
  BY DEF TypesInv, HostTypes
<1>2. config.images[type] \in [1..Area(config) -> Int] /\ Area(config) \in Nat
  BY <1>1, SessionFacts
<1>3. /\ in[2] = type_ind[type]
      /\ \A k \in 1..Area(config) : Unsigned(in, 2 * k + 1) = config.images[type][k] % Word
  BY <1>1, ImageCommandFacts
<1>4. in[2] \in {0, 1, 2}
  BY <1>3, Tables, ZenonT(30)
<1>5. in[2] < PlaneCount
  BY <1>4, Constants
<1>6. ToWords(config.images[type]) = [k \in 1..Area(config) |-> config.images[type][k] % Word]
  <2> DEFINE w == config.images[type]
  <2>1. Len(w) = Area(config)
    BY <1>2
  <2> HIDE DEF w
  <2>2. ToWords(w) = [k \in 1..Area(config) |-> w[k] % Word]
    BY <2>1 DEF ToWords
  <2> QED  BY <2>2 DEF w
<1> QED  BY <1>3, <1>4, <1>5, <1>6

\* ImageRead takes a session to its next phase or leaves it where it is.
LEMMA StepImageRead == TypesInv /\ SessionInv /\ ImageRead => SessionInv'
<1> SUFFICES ASSUME TypesInv, SessionInv, ImageRead, clean
             PROVE  (\E d \in 0..3 : ImagesSent(d)') /\ outcome' = "none"
  BY DEF SessionInv, Phases, ImageRead
<1>1. fpc = "read" /\ Complete /\ in[1] = 1
  BY DEF ImageRead, Command, Busy
<1>2. outcome = "none" /\ outcome' = outcome
  BY <1>1, CommandTaken DEF ImageRead, host
<1>3. PICK d \in 0..3 : /\ ImagesSent(d) /\ d < Sent(hpc) /\ in = CommandNo(config, d) /\ d < 3
                        /\ Rest = Commands(config, d + 1, Sent(hpc))
  BY <1>1, CommandTaken
<1>4. Area(head) = Area(config)
  BY <1>3, SameArea DEF ImagesSent
<1>5. LineTypes' /\ UNCHANGED <<hpc, config, head, hostIn, out, rx, toFpga>> /\ in' = <<>>
  BY TypesImageRead DEF TypesInv, ImageRead, host, Return
<1>6. Line' = Commands(config', d + 1, Sent(hpc')) /\ Back' = <<>>
  <2>1. Rest' = Rest /\ Back' = Back
    BY <1>5, RestKept, BackKept
  <2>2. Line' = Rest'
    BY <1>5, NextLineFacts
  <2> QED  BY <1>3, <1>5, <2>1, <2>2 DEF ImagesSent
<1>7. planes \in [0..PlaneCount-1 -> [1..Area(head) -> 0..Word-1]] /\ PlaneCount >= 3 /\ PlaneCount \in Nat
  BY Constants DEF TypesInv, BoardTypes
<1>8. ASSUME NEW type \in {"x_0", "u", "y_ideal"}, in = ImageCommand(config, type)
      PROVE  /\ fpc' = "read"
             /\ planes' = [planes EXCEPT ![type_ind[type]] = ToWords(config.images[type])]
  <2>1. /\ in[2] = type_ind[type] /\ in[2] < PlaneCount
        /\ [k \in 1..Area(head) |-> Unsigned(in, 2 * k + 1)] = ToWords(config.images[type])
    BY <1>4, <1>8, ImageStored
  <2> QED  BY <1>1, <2>1 DEF ImageRead
<1>9. fpc' = "read" /\ ImagesAre(planes', config, d + 1)
  <2>1. CASE d = 0
    <3>1. in = ImageCommand(config, "x_0")
      BY <1>3, <2>1 DEF CommandNo
    <3>2. fpc' = "read" /\ planes' = [planes EXCEPT ![1] = ToWords(config.images["x_0"])]
      BY <1>8, <3>1, Tables
    <3>3. planes'[1] = ToWords(config.images.x_0)
      BY <1>7, <3>2
    <3> QED  BY <2>1, <3>2, <3>3 DEF ImagesAre
  <2>2. CASE d = 1
    <3>1. in = ImageCommand(config, "u")
      BY <1>3, <2>2 DEF CommandNo
    <3>2. fpc' = "read" /\ planes' = [planes EXCEPT ![0] = ToWords(config.images["u"])]
      BY <1>8, <3>1, Tables
    <3>3. planes'[0] = ToWords(config.images.u) /\ planes'[1] = planes[1]
      BY <1>7, <3>2
    <3>4. planes[1] = ToWords(config.images.x_0)
      BY <1>3, <2>2 DEF ImagesSent, ImagesAre
    <3> QED  BY <2>2, <3>2, <3>3, <3>4 DEF ImagesAre
  <2>3. CASE d = 2
    <3>1. in = ImageCommand(config, "y_ideal")
      BY <1>3, <2>3 DEF CommandNo
    <3>2. fpc' = "read" /\ planes' = [planes EXCEPT ![2] = ToWords(config.images["y_ideal"])]
      BY <1>8, <3>1, Tables
    <3>3. /\ planes'[2] = ToWords(config.images.y_ideal)
          /\ planes'[0] = planes[0] /\ planes'[1] = planes[1]
      BY <1>7, <3>2
    <3>4. planes[1] = ToWords(config.images.x_0) /\ planes[0] = ToWords(config.images.u)
      BY <1>3, <2>3 DEF ImagesSent, ImagesAre
    <3> QED  BY <2>3, <3>2, <3>3, <3>4 DEF ImagesAre
  <2> QED  BY <1>3, <2>1, <2>2, <2>3
<1>10. d + 1 \in 0..3 /\ d + 1 <= Sent(hpc) /\ d + 1 < 4
  BY <1>3 DEF Sent
<1>11. ImagesSent(d + 1)'
  BY <1>3, <1>5, <1>6, <1>9, <1>10 DEF ImagesSent
<1> QED  BY <1>2, <1>10, <1>11

\* AlgorithmRun takes a session to its next phase or leaves it where it is.
LEMMA StepAlgorithmRun == TypesInv /\ SessionInv /\ AlgorithmRun => SessionInv'
<1> SUFFICES ASSUME TypesInv, SessionInv, AlgorithmRun, clean PROVE Calculating' /\ outcome' = "none"
  BY DEF SessionInv, Phases, AlgorithmRun
<1>1. fpc = "read" /\ Complete /\ in[1] = 2
  BY DEF AlgorithmRun, Command, Busy
<1>2. outcome = "none" /\ outcome' = outcome
  BY <1>1, CommandTaken DEF AlgorithmRun, host
<1>3. PICK d \in 0..3 : /\ ImagesSent(d) /\ d < Sent(hpc) /\ in = CommandNo(config, d) /\ d = 3
                        /\ Rest = Commands(config, d + 1, Sent(hpc))
  BY <1>1, CommandTaken
<1>4. hpc = "started" /\ Rest = <<>>
  BY <1>3, ImagesShape
<1>5. in = <<2, config.alg>> /\ config.alg \in 1..5
  BY <1>3, SessionFacts DEF CommandNo, TypesInv, HostTypes
<1>6. in[2] \in 1..5
  BY <1>5
<1>7. fpc' = "calc" /\ out' = Append(out, 2) /\ in' = in
  BY <1>6 DEF AlgorithmRun
<1>8. LineTypes /\ LineTypes'
  BY TypesAlgorithmRun DEF TypesInv
<1>9. hostIn = <<>> /\ out = <<>>
  BY <1>3, <1>8, LineFacts DEF ImagesSent
<1>10. Back' = << 2 >>
  <2>1. hostIn' = <<>>
    BY <1>9 DEF AlgorithmRun
  <2>2. Back' = Append(<<>>, 2)
    BY <1>7, <1>8, <1>9, <2>1, NextLineFacts
  <2> QED  BY <2>2
<1>11. Rest' = <<>>
  BY <1>4, RestKept DEF AlgorithmRun
<1>12. HeaderIs(head, config) /\ ImagesAre(planes, config, 3)
  BY <1>3 DEF ImagesSent
<1> QED  BY <1>2, <1>4, <1>5, <1>7, <1>10, <1>11, <1>12 DEF AlgorithmRun, Calculating, host, memory

\* AlgorithmEnd takes a session to its next phase or leaves it where it is.
LEMMA StepAlgorithmEnd == TypesInv /\ SessionInv /\ AlgorithmEnd => SessionInv'
<1> SUFFICES ASSUME TypesInv, SessionInv, AlgorithmEnd, clean PROVE Calculated' /\ outcome' = "none"
  BY DEF SessionInv, Phases, AlgorithmEnd
<1>1. Calculating /\ outcome = "none"
  BY DEF AlgorithmEnd, SessionInv, Ended, Phases, HeaderSent, HeaderTaken, HeaderDone, ImagesSent, Calculated,
      Asking, Asked, Answered
<1>2. LineTypes /\ LineTypes' /\ hostIn \in Seq(Byte) /\ out \in Seq(Byte) /\ 2 \in Byte
  BY TypesAlgorithmEnd, SmallBytes DEF TypesInv, LineTypes
<1>3. /\ fpc' = "read" /\ in' = <<>> /\ out' = Append(out, 2) /\ hostIn' = hostIn
      /\ head' = head /\ config' = config /\ hpc' = hpc /\ outcome' = outcome
  BY DEF AlgorithmEnd, Return, host
<1>4. Line' = <<>>
  <2>1. Rest' = <<>>
    BY <1>1, RestKept DEF AlgorithmEnd, Calculating
  <2> QED  BY <1>2, <1>3, <2>1, NextLineFacts
<1>5. Back' = Append(Back, 2)
  <2>1. hostIn \o Append(out, 2) = (hostIn \o out) \o << 2 >>
    BY <1>2, AppendConcat
  <2>2. Back' = Back \o << 2 >>
    BY <1>2, <1>3, <2>1, NextLineFacts, LineFacts
  <2>3. Back \in Seq(Byte)
    BY <1>2, LineFacts
  <2> QED  BY <1>2, <2>2, <2>3, AppendIsConcat
<1>6. Append(<<>>, 2) = << 2 >> /\ Append(<< 2 >>, 2) = <<2, 2>>
  <2>1. Append(<<>>, 2) = << 2 >>
    OBVIOUS
  <2>2. Append(<< 2 >>, 2) = <<2, 2>>
    <3> DEFINE s == Append(<< 2 >>, 2)
               t == <<2, 2>>
    <3>1. << 2 >> \in Seq(Nat) /\ Len(<< 2 >>) = 1 /\ << 2 >>[1] = 2
      OBVIOUS
    <3>2. s \in Seq(Nat) /\ Len(s) = 2 /\ s[1] = 2 /\ s[2] = 2
      BY <3>1, AppendProperties
    <3>3. t \in Seq(Nat) /\ Len(t) = 2 /\ t[1] = 2 /\ t[2] = 2
      OBVIOUS
    <3> HIDE DEF s, t
    <3>4. \A i \in 1..Len(s) : s[i] = t[i]
      BY <3>2, <3>3
    <3>5. s = t
      BY <3>2, <3>3, <3>4, SeqEqual
    <3> QED  BY <3>5 DEF s, t
  <2> QED  BY <2>1, <2>2
<1> QED  BY <1>1, <1>3, <1>4, <1>5, <1>6 DEF Calculating, Calculated

\* What the three steps that answer a request have in common.
LEMMA AnswerStep ==
  ASSUME TypesInv, TypesInv', NEW item \in Items, Asked(item), Rest = <<>>,
         in' = <<>>, fpc' = "read", out' = out \o AnswerTo(item)',
         UNCHANGED <<hpc, config, got, received, outcome, hostIn, toFpga, rx, head, planes, templates>>,
         item # "error" => errors' = errors, item = "error" => errors' \in ErrorRows
  PROVE  Answered(item)'
<1>1. LineTypes /\ LineTypes' /\ HeaderIs(head, config)
  BY DEF TypesInv, Asked
<1>2. Line' = <<>>
  <2>1. Rest' = <<>>
    BY RestKept
  <2> QED  BY <1>1, <2>1, NextLineFacts
<1>3. hostIn = <<>> /\ out = <<>> /\ got = <<>>
  BY <1>1, LineFacts DEF Asked
<1>4. HeaderIs(head', config')
  BY <1>1
<1>5. AnswerTo(item)' \in Seq(Byte) /\ Answer[item]' \in Nat \ {0}
  <2>1. (TypesInv /\ HeaderIs(head, config) /\ (item = "error" => errors \in ErrorRows)
           => AnswerTo(item) \in Seq(Byte) /\ Answer[item] \in Nat \ {0})'
    BY AnswerFacts, PTL
  <2> QED  BY <1>4, <2>1
<1>6. (got \o Back)' = AnswerTo(item)'
  <2>1. <<>> \o AnswerTo(item)' = AnswerTo(item)'
    BY <1>5, Empties
  <2>2. out' = AnswerTo(item)' /\ hostIn' = <<>> /\ got' = <<>>
    BY <1>3, <2>1
  <2>3. Back' = out'
    BY <1>1, <2>2, NextLineFacts
  <2> QED  BY <2>1, <2>2, <2>3
<1>7. Len(got') < Answer[item]'
  <2>1. Len(got') = 0
    BY <1>3
  <2> QED  BY <1>5, <2>1
<1>8. ReceivedBefore(item)'
  BY DEF Asked, ReceivedBefore, ImageReceived, ErrorReceived
<1>9. hpc' = Reading[item]
  BY DEF Asked
<1> QED  BY <1>2, <1>4, <1>6, <1>7, <1>8, <1>9 DEF Answered

\* ImageSend takes a session to its next phase or leaves it where it is.
LEMMA StepImageSend == TypesInv /\ SessionInv /\ ImageSend => SessionInv'
<1> SUFFICES ASSUME TypesInv, SessionInv, ImageSend, clean
             PROVE  Answered("image")' /\ outcome' = "none"
  BY DEF SessionInv, Phases, ImageSend, Items
<1>1. fpc = "read" /\ Complete /\ in[1] = 3
  BY DEF ImageSend, Command, Busy
<1>2. outcome = "none" /\ outcome' = outcome
  BY <1>1, CommandTaken DEF ImageSend, host
<1>3. Asked("image") /\ in = RequestFor(config, "image") /\ Rest = <<>>
  BY <1>1, CommandTaken DEF Items
<1>4. in[2] = 1 /\ 1 < PlaneCount
  BY <1>3, Constants DEF RequestFor
<1>5. out' = out \o WordBytes(planes[1]) /\ fpc' = "read" /\ planes' = planes
  BY <1>1, <1>4 DEF ImageSend, memory
<1>6. AnswerTo("image")' = WordBytes(planes[1])
  BY <1>5 DEF AnswerTo
<1>7. TypesInv' /\ "image" \in Items
  BY TypesImageSend DEF Items
<1>8. Answered("image")'
  BY <1>3, <1>5, <1>6, <1>7, AnswerStep DEF ImageSend, Return, host, memory
<1> QED  BY <1>2, <1>8

\* ErrorSend takes a session to its next phase or leaves it where it is.
LEMMA StepErrorSend == TypesInv /\ SessionInv /\ ErrorSend => SessionInv'
<1> SUFFICES ASSUME TypesInv, SessionInv, ErrorSend, clean
             PROVE  Answered("error")' /\ outcome' = "none"
  BY DEF SessionInv, Phases, ErrorSend, Items
<1>1. fpc = "read" /\ Complete /\ in[1] = 4
  BY DEF ErrorSend, Command, Busy
<1>2. outcome = "none" /\ outcome' = outcome
  BY <1>1, CommandTaken DEF ErrorSend, host
<1>3. Asked("error") /\ in = RequestFor(config, "error") /\ Rest = <<>>
  BY <1>1, CommandTaken DEF Items
<1>4. AnswerTo("error")' = LongBytes(errors')
  BY DEF AnswerTo
<1>5. TypesInv' /\ "error" \in Items
  BY TypesErrorSend DEF Items
<1>6. Answered("error")'
  BY <1>1, <1>3, <1>4, <1>5, AnswerStep DEF ErrorSend, Return, host
<1> QED  BY <1>2, <1>6

\* TemplateSend takes a session to its next phase or leaves it where it is.
LEMMA StepTemplateSend == TypesInv /\ SessionInv /\ TemplateSend => SessionInv'
<1> SUFFICES ASSUME TypesInv, SessionInv, TemplateSend, clean
             PROVE  Answered("template")' /\ outcome' = "none"
  BY DEF SessionInv, Phases, TemplateSend, Items
<1>1. fpc = "read" /\ Complete /\ in[1] = 5
  BY DEF TemplateSend, Command, Busy
<1>2. outcome = "none" /\ outcome' = outcome
  BY <1>1, CommandTaken DEF TemplateSend, host
<1>3. Asked("template") /\ in = RequestFor(config, "template") /\ Rest = <<>>
  BY <1>1, CommandTaken DEF Items
<1>4. "template" \in Items /\ config \in Sessions
  BY DEF Items, TypesInv, HostTypes
<1>5. Unsigned(in, 2) = config.template_no /\ config.template_no \in TemplateNos
  BY <1>3, <1>4, RequestFacts, SessionFacts
<1>6. out' = out \o WordBytes(templates[config.template_no]) /\ templates' = templates /\ config' = config
  BY <1>5 DEF TemplateSend, memory, host
<1>7. AnswerTo("template")' = WordBytes(templates[config.template_no])
  BY <1>6 DEF AnswerTo
<1>8. TypesInv'
  BY TypesTemplateSend
<1>9. Answered("template")'
  BY <1>1, <1>3, <1>4, <1>6, <1>7, <1>8, AnswerStep DEF TemplateSend, Return, host, memory
<1> QED  BY <1>2, <1>9

\* IgnoreCommand takes a session to its next phase or leaves it where it is.
LEMMA StepIgnoreCommand == TypesInv /\ SessionInv /\ IgnoreCommand => SessionInv'
<1> SUFFICES ASSUME TypesInv, SessionInv, IgnoreCommand, clean PROVE FALSE
  BY DEF SessionInv, IgnoreCommand
<1>1. fpc = "read" /\ Complete /\ in[1] > 5
  BY DEF IgnoreCommand, Busy
<1>2. in[1] \in 0..5
  BY <1>1, CommandTaken
<1> QED  BY <1>1, <1>2

\* SendHeader takes a session to its next phase or leaves it where it is.
LEMMA StepSendHeader == TypesInv /\ SendHeader => SessionInv'
<1> SUFFICES ASSUME TypesInv, SendHeader, clean' PROVE HeaderSent' /\ outcome' = "none"
  BY DEF SessionInv, Phases
<1>1. Quiet
  BY DEF SendHeader
<1>2. LineTypes'
  BY TypesSendHeader DEF TypesInv
<1>3. /\ in' = <<>> /\ rx' = None /\ out' = <<>> /\ hostIn' = <<>> /\ fpc' = "read"
      /\ hpc' = "header" /\ outcome' = "none"
  BY <1>1 DEF SendHeader, KeepBoard, Quiet
<1>4. toFpga' = HeaderBytes(config')
  BY DEF SendHeader
<1>5. Line' = HeaderBytes(config')
  BY <1>2, <1>3, <1>4, NextLineFacts
<1>6. Back' = <<>>
  BY <1>2, <1>3, NextLineFacts
<1> QED  BY <1>3, <1>5, <1>6 DEF HeaderSent

\* The first of the bytes that have come back.
LEMMA FirstByte ==
  ASSUME TypesInv, hostIn # <<>>
  PROVE  /\ Back # <<>> /\ Head(hostIn) = Head(Back) /\ Tail(hostIn) \o out = Tail(Back)
         /\ Head(hostIn) \in Byte /\ Tail(hostIn) \in Seq(Byte)
<1>1. hostIn \in Seq(Byte) /\ out \in Seq(Byte) /\ Back = hostIn \o out
  BY DEF TypesInv, LineTypes, Back
<1> QED  BY <1>1, HeadTail

\* ReadAck takes a session to its next phase or leaves it where it is.
LEMMA StepReadAck == TypesInv /\ SessionInv /\ ReadAck => SessionInv'
<1> SUFFICES ASSUME TypesInv, SessionInv, ReadAck, clean
             PROVE  Phases' /\ outcome' = "none"
  BY DEF SessionInv, ReadAck
<1>1. PICK step \in {"header", "started", "finished"} :
        /\ hpc = step /\ hostIn # <<>>
        /\ hpc' = IF Head(hostIn) = Ack[step] THEN AfterAck[step] ELSE step
  BY Tables DEF ReadAck, At
<1>2. Back # <<>> /\ Head(hostIn) = Head(Back) /\ Back' = Tail(Back)
  BY <1>1, FirstByte DEF ReadAck, KeepBoard, Back
<1>3. /\ Line' = Line /\ Rest' = Rest /\ in' = in
      /\ UNCHANGED <<fpc, head, planes, errors, templates, config, got, received, outcome>>
  BY RestKept DEF ReadAck, KeepBoard, memory, Line
<1>4. outcome = "none"
  BY <1>1 DEF SessionInv, Ended
<1>5. /\ Head(<< 1 >>) = 1 /\ Tail(<< 1 >>) = <<>> /\ Head(<< 2 >>) = 2 /\ Tail(<< 2 >>) = <<>>
      /\ Head(<<2, 2>>) = 2 /\ Tail(<<2, 2>>) = << 2 >>
  OBVIOUS
<1>6. CASE HeaderDone
  <2>1. step = "header" /\ Line = <<>> /\ Back = << 1 >> /\ HeaderIs(head, config) /\ fpc = "read"
    BY <1>1, <1>6 DEF HeaderDone
  <2>2. hpc' = "x_0" /\ Back' = <<>>
    BY <1>1, <1>2, <1>5, <2>1, Tables
  <2>3. Commands(config, 0, 0) = <<>> /\ Sent("x_0") = 0
    BY CommandsNone DEF Sent, TypesInv, HostTypes
  <2>4. ImagesSent(0)'
    BY <1>3, <2>1, <2>2, <2>3 DEF ImagesSent, Sending, ImagesAre
  <2>5. 0 \in 0..3
    OBVIOUS
  <2> QED  BY <1>3, <1>4, <2>4, <2>5 DEF Phases
<1>7. CASE Calculating
  <2>1. step = "started" /\ Back = << 2 >>
    BY <1>1, <1>2, <1>7 DEF Calculating
  <2>2. hpc' = "finished" /\ Back' = <<>>
    BY <1>1, <1>2, <1>5, <2>1, Tables
  <2>3. Calculating'
    BY <1>3, <1>7, <2>2 DEF Calculating
  <2> QED  BY <1>3, <1>4, <2>3 DEF Phases
<1>8. CASE Calculated /\ hpc = "started"
  <2>1. step = "started" /\ Back = <<2, 2>>
    BY <1>1, <1>8 DEF Calculated
  <2>2. hpc' = "finished" /\ Back' = << 2 >>
    BY <1>1, <1>2, <1>5, <2>1, Tables
  <2>3. Calculated'
    BY <1>3, <1>8, <2>2 DEF Calculated
  <2> QED  BY <1>3, <1>4, <2>3 DEF Phases
<1>9. CASE Calculated /\ hpc = "finished"
  <2>1. step = "finished" /\ Back = << 2 >>
    BY <1>1, <1>9 DEF Calculated
  <2>2. hpc' = "image" /\ Back' = <<>>
    BY <1>1, <1>2, <1>5, <2>1, Tables
  <2>3. Asking("image")'
    BY <1>3, <1>9, <2>2 DEF Calculated, Asking, ReceivedBefore
  <2> QED  BY <1>3, <1>4, <2>3 DEF Phases, Items
<1>10. HeaderDone \/ Calculating \/ Calculated
  <2>1. \A item \in Items : hpc # item /\ hpc # Reading[item]
    BY <1>1, Tables DEF Items
  <2> QED  BY <1>1, <1>2, <2>1
      DEF SessionInv, Ended, Phases, HeaderSent, HeaderTaken, ImagesSent, Asking, Asked, Answered
<1> QED  BY <1>6, <1>7, <1>8, <1>9, <1>10 DEF Calculated

\* One more command is put on an empty line.
LEMMA StepSend ==
  ASSUME TypesInv, SessionInv, clean, LineTypes',
         NEW n \in 0..3, hpc \in Sending, hpc' \in Sending, Sent(hpc) = n, Sent(hpc') = n + 1,
         toFpga = <<>>, toFpga' = CommandNo(config, n),
         UNCHANGED <<config, got, received, outcome, hostIn, faults, clean>>, KeepBoard,
         hpc # "started"
  PROVE  SessionInv'
<1>1. LineTypes /\ config \in Sessions
  BY DEF TypesInv, HostTypes
<1>2. PICK d \in 0..3 : ImagesSent(d)
  <2>1. \A item \in Items : hpc # item /\ hpc # Reading[item]
    BY Tables DEF Items, Sending
  <2>2. hpc \notin {"idle", "header", "started", "finished"}
    BY DEF Sending
  <2> QED  BY <2>1, <2>2 DEF SessionInv, Ended, Phases, HeaderSent, HeaderTaken, HeaderDone,
      Calculating, Calculated, Asking, Asked, Answered
<1>3. /\ in' = in /\ rx' = rx /\ fpc' = fpc /\ head' = head /\ planes' = planes /\ out' = out
      /\ in \in Seq(Byte)
  BY DEF KeepBoard, memory, TypesInv, LineTypes
<1>4. d <= n /\ d < 4 /\ d \in 0..n /\ Line = Commands(config, d, n)
  BY <1>2 DEF ImagesSent
<1>5. CommandNo(config, n) \in Seq(Byte)
  BY <1>1, CommandFacts
<1>6. Rest = Register(rx) /\ Rest' = Register(rx) \o CommandNo(config, n) /\ Register(rx) \in Seq(Byte)
  <2>1. Register(rx) \in Seq(Byte)
    BY <1>1 DEF LineTypes, Register
  <2>2. Rest = Register(rx)
    BY <2>1, Empties DEF Rest
  <2>3. Rest' = Register(rx) \o CommandNo(config, n)
    BY <1>3 DEF Rest, Register
  <2> QED  BY <2>1, <2>2, <2>3
<1>7. Line' = Line \o CommandNo(config, n)
  <2> DEFINE r == Register(rx)
             c == CommandNo(config, n)
  <2>1. r \in Seq(Byte) /\ c \in Seq(Byte)
    BY <1>5, <1>6
  <2>2. Line = in \o r /\ Line' = in \o (r \o c)
    BY <1>3, <1>6 DEF Line
  <2> HIDE DEF r, c
  <2>3. in \o (r \o c) = (in \o r) \o c
    BY <1>3, <2>1, ConcatAssociative
  <2> QED  BY <2>2, <2>3 DEF c
<1>8. Line' = Commands(config, d, n + 1)
  BY <1>1, <1>4, <1>7, CommandsLast
<1>9. Back' = <<>>
  BY <1>2, <1>3, BackKept DEF ImagesSent
<1>10. d <= n + 1
  BY <1>4
<1>11. ImagesSent(d)'
  BY <1>2, <1>3, <1>4, <1>8, <1>9, <1>10 DEF ImagesSent
<1>12. outcome = "none"
  <2>1. hpc # "idle"
    BY DEF Sending
  <2> QED  BY <2>1 DEF SessionInv, Ended
<1> QED  BY <1>11, <1>12 DEF SessionInv, Phases

\* SendImage takes a session to its next phase or leaves it where it is.
LEMMA StepSendImage == TypesInv /\ SessionInv /\ SendImage => SessionInv'
<1> SUFFICES ASSUME TypesInv, SessionInv, SendImage, clean PROVE SessionInv'
  BY DEF SessionInv, SendImage
<1>1. PICK type \in {"x_0", "u", "y_ideal"} :
        /\ hpc = type /\ toFpga = <<>> /\ hpc' = AfterImage[type]
        /\ toFpga' = ImageCommand(config, type)
  BY Tables DEF SendImage, ImageCommand, At
<1>2. LineTypes'
  BY TypesSendImage DEF TypesInv
<1>3. /\ UNCHANGED <<config, got, received, outcome, hostIn, faults, clean>> /\ KeepBoard
      /\ hpc # "started" /\ hpc \in Sending /\ hpc' \in Sending
  BY <1>1, Tables DEF SendImage, Sending
<1>4. PICK n \in 0..3 : Sent(hpc) = n /\ Sent(hpc') = n + 1 /\ toFpga' = CommandNo(config, n)
  <2>1. CASE type = "x_0"
    <3>1. hpc = "x_0" /\ hpc' = "u"
      BY <1>1, <2>1, Tables
    <3>2. Sent(hpc) = 0 /\ Sent(hpc') = 0 + 1 /\ 0 \in 0..3
      BY <3>1 DEF Sent
    <3>3. toFpga' = CommandNo(config, 0)
      BY <1>1, <2>1 DEF CommandNo
    <3> QED  BY <3>2, <3>3
  <2>2. CASE type = "u"
    <3>1. hpc = "u" /\ hpc' = "y_ideal"
      BY <1>1, <2>2, Tables
    <3>2. Sent(hpc) = 1 /\ Sent(hpc') = 1 + 1 /\ 1 \in 0..3
      BY <3>1 DEF Sent
    <3>3. toFpga' = CommandNo(config, 1)
      BY <1>1, <2>2 DEF CommandNo
    <3> QED  BY <3>2, <3>3
  <2>3. CASE type = "y_ideal"
    <3>1. hpc = "y_ideal" /\ hpc' = "calculate"
      BY <1>1, <2>3, Tables
    <3>2. Sent(hpc) = 2 /\ Sent(hpc') = 2 + 1 /\ 2 \in 0..3
      BY <3>1 DEF Sent
    <3>3. toFpga' = CommandNo(config, 2)
      BY <1>1, <2>3 DEF CommandNo
    <3> QED  BY <3>2, <3>3
  <2> QED  BY <2>1, <2>2, <2>3
<1> QED  BY <1>1, <1>2, <1>3, <1>4, StepSend

\* Calculate takes a session to its next phase or leaves it where it is.
LEMMA StepCalculate == TypesInv /\ SessionInv /\ Calculate => SessionInv'
<1> SUFFICES ASSUME TypesInv, SessionInv, Calculate, clean PROVE SessionInv'
  BY DEF SessionInv, Calculate
<1>1. hpc = "calculate" /\ toFpga = <<>> /\ hpc' = "started" /\ toFpga' = <<2, config.alg>>
  BY DEF Calculate, At
<1>2. LineTypes'
  BY TypesCalculate DEF TypesInv
<1>3. /\ UNCHANGED <<config, got, received, outcome, hostIn, faults, clean>> /\ KeepBoard
      /\ hpc # "started" /\ hpc \in Sending /\ hpc' \in Sending
  BY <1>1 DEF Calculate, Sending
<1>4. Sent(hpc) = 3 /\ Sent(hpc') = 3 + 1 /\ toFpga' = CommandNo(config, 3) /\ 3 \in 0..3
  BY <1>1 DEF Sent, CommandNo
<1> QED  BY <1>1, <1>2, <1>3, <1>4, StepSend

\* SendRequest takes a session to its next phase or leaves it where it is.
LEMMA StepSendRequest == TypesInv /\ SessionInv /\ SendRequest => SessionInv'
<1> SUFFICES ASSUME TypesInv, SessionInv, SendRequest, clean
             PROVE  (\E item \in Items : Asked(item)') /\ outcome' = "none"
  BY DEF SessionInv, Phases, SendRequest
<1>1. PICK item \in Items : hpc = item /\ hpc' = Reading[item] /\ toFpga' = RequestFor(config, item)
  BY Tables, RequestIs DEF SendRequest, At
<1>2. /\ in' = in /\ rx' = rx /\ fpc' = fpc /\ out' = out /\ hostIn' = hostIn
      /\ UNCHANGED <<head, planes, errors, templates, config, received, outcome>> /\ got' = <<>>
  BY DEF SendRequest, KeepBoard, memory
<1>3. Asking(item) /\ outcome = "none"
  <2>1. /\ hpc \notin Sending /\ hpc \notin {"idle", "header", "started", "finished"}
        /\ \A i \in Items : hpc # Reading[i]
    BY <1>1, Tables DEF Items, Sending
  <2> QED  BY <1>1, <2>1 DEF SessionInv, Ended, Phases, HeaderSent, HeaderTaken, HeaderDone,
      ImagesSent, Calculating, Calculated, Asking, Asked, Answered
<1>4. LineTypes /\ LineTypes'
  BY TypesSendRequest DEF TypesInv
<1>5. in = <<>> /\ rx = None
  BY <1>3, <1>4, LineFacts DEF Asking
<1>6. Line' = RequestFor(config, item)
  BY <1>1, <1>2, <1>4, <1>5, NextLineFacts
<1>7. Back' = <<>>
  BY <1>2, <1>3, BackKept DEF Asking
<1>8. ReceivedBefore(item)'
  BY <1>2, <1>3 DEF Asking, ReceivedBefore, ImageReceived, ErrorReceived
<1>9. Asked(item)'
  BY <1>1, <1>2, <1>3, <1>6, <1>7, <1>8 DEF Asking, Asked
<1> QED  BY <1>2, <1>3, <1>9

\* ReadData takes a session to its next phase or leaves it where it is.
LEMMA StepReadData == TypesInv /\ SessionInv /\ ReadData => SessionInv'
<1> SUFFICES ASSUME TypesInv, SessionInv, ReadData, clean
             PROVE  Ended' \/ (Phases' /\ outcome' = "none")
  BY DEF SessionInv, ReadData
<1> DEFINE bs == Append(got, Head(hostIn))
<1>1. PICK item \in Items :
        /\ hpc = Reading[item] /\ hostIn # <<>>
        /\ IF Len(bs) < Answer[item]
           THEN got' = bs /\ UNCHANGED <<hpc, received, outcome>>
           ELSE /\ got' = <<>> /\ hpc' = AfterRead[item]
                /\ received' = [received EXCEPT ![item] = Value(item, bs)]
                /\ outcome' = IF item = "template" /\ outcome = "none"
                              THEN "complete" ELSE outcome
  BY Tables DEF ReadData, At
<1>2. /\ Back # <<>> /\ Head(hostIn) = Head(Back) /\ Back' = Tail(Back) /\ Head(hostIn) \in Byte
  BY <1>1, FirstByte DEF ReadData, KeepBoard, Back
<1>3. /\ Line' = Line
      /\ UNCHANGED <<fpc, head, planes, errors, templates, config>>
  BY RestKept DEF ReadData, KeepBoard, memory, Line
<1>4. Answered(item) /\ outcome = "none"
  <2>1. /\ hpc \notin Sending /\ hpc \notin {"idle", "header", "started", "finished"}
        /\ \A i \in Items : hpc # i
        /\ \A i \in Items : hpc = Reading[i] => i = item
    BY <1>1, Tables DEF Items, Sending
  <2>2. ~Ended /\ outcome = "none" /\ Phases
    BY <2>1 DEF SessionInv, Ended
  <2>3. \E i \in Items : Asked(i) \/ Answered(i)
    BY <2>1, <2>2 DEF Phases, HeaderSent, HeaderTaken, HeaderDone, ImagesSent, Calculating,
       Calculated, Asking
  <2>4. \A i \in Items : ~Asked(i)
    BY <1>2 DEF Asked
  <2>5. \A i \in Items : Answered(i) => i = item
    BY <2>1 DEF Answered
  <2> QED  BY <2>2, <2>3, <2>4, <2>5
<1>5. /\ LineTypes /\ got \in Seq(Byte) /\ Back \in Seq(Byte)
      /\ received = [i \in Items |-> received[i]]
  BY LineFacts DEF TypesInv, HostTypes
<1>6. /\ HeaderIs(head, config) /\ ReceivedBefore(item) /\ Line = <<>> /\ fpc = "read"
      /\ got \o Back = AnswerTo(item) /\ Len(got) < Answer[item]
      /\ item = "error" => errors \in ErrorRows
  BY <1>4 DEF Answered
<1>7. bs \o Back' = AnswerTo(item)
  <2>1. <<Head(Back)>> \o Tail(Back) = Back /\ Tail(Back) \in Seq(Byte) /\ Head(Back) \in Byte
    BY <1>2, <1>5, HeadTail
  <2>2. Append(got, Head(Back)) \o Tail(Back) = got \o (<<Head(Back)>> \o Tail(Back))
    <3> DEFINE h == Head(Back)
               r == Tail(Back)
    <3>1. h \in Byte /\ r \in Seq(Byte) /\ got \in Seq(Byte)
      BY <1>5, <2>1
    <3> HIDE DEF h, r
    <3>2. Append(got, h) \o r = got \o (<<h>> \o r)
      BY <3>1, AppendConcat
    <3> QED  BY <3>2 DEF h, r
  <2> QED  BY <1>2, <1>6, <2>1, <2>2
<1>8. bs \in Seq(Byte) /\ Len(bs) = Len(got) + 1 /\ Len(got) \in Nat
  BY <1>2, <1>5
<1>9. Back' \in Seq(Byte)
  BY <1>2, <1>5, BytesOfSequence
<1>10. /\ AnswerTo(item) \in Seq(Byte) /\ Len(AnswerTo(item)) = Answer[item]
       /\ Answer[item] \in Nat
       /\ item = "image" =>
            LET r == SignedWords(AnswerTo(item))
            IN ToWords(r) = planes[1] /\ \A k \in DOMAIN r : r[k] \in SignedRange(Word)
       /\ item = "error" => SignedLongs(AnswerTo(item)) = errors
       /\ item = "template" => SignedWords(AnswerTo(item)) = templates[config.template_no]
  BY <1>6, AnswerFacts
<1>11. AnswerTo(item)' = AnswerTo(item) /\ Answer[item]' = Answer[item]
  BY <1>3 DEF AnswerTo, Answer, Area
<1> HIDE DEF bs
<1>12. CASE Len(bs) < Answer[item]
  <2>1. got' = bs /\ UNCHANGED <<hpc, received, outcome>>
    BY <1>1, <1>12
  <2>2. ReceivedBefore(item)'
    BY <1>3, <1>6, <2>1 DEF ReceivedBefore, ImageReceived, ErrorReceived
  <2>3. Answered(item)'
    BY <1>1, <1>3, <1>6, <1>7, <1>11, <1>12, <2>1, <2>2 DEF Answered
  <2> QED  BY <1>4, <2>1, <2>3 DEF Phases
<1>13. CASE ~(Len(bs) < Answer[item])
  <2>1. bs = AnswerTo(item) /\ Back' = <<>>
    <3>1. Len(bs) = Answer[item]
      BY <1>6, <1>8, <1>10, <1>13
    <3>2. AnswerTo(item) \o <<>> = AnswerTo(item) /\ <<>> \in Seq(Byte)
      BY <1>10, Empties
    <3>3. bs \o Back' = AnswerTo(item) \o <<>> /\ Len(bs) = Len(AnswerTo(item))
      BY <1>7, <1>10, <3>1, <3>2
    <3> QED  BY <1>8, <1>9, <1>10, <3>2, <3>3, SplitUnique
  <2>2. hpc' = AfterRead[item]
    BY <1>1, <1>13
  <2>3. received'[item] = Value(item, bs) /\ \A i \in Items : i # item => received'[i] = received[i]
    <3> DEFINE v == Value(item, bs)
    <3>1. received' = [received EXCEPT ![item] = v]
      BY <1>1, <1>13
    <3> HIDE DEF v
    <3>2. received'[item] = v /\ \A i \in Items : i # item => received'[i] = received[i]
      BY <1>5, <3>1
    <3> QED  BY <3>2 DEF v
  <2>4. outcome' = IF item = "template" THEN "complete" ELSE "none"
    BY <1>1, <1>4, <1>13
  <2>5. CASE item = "image"
    <3>1. received'.image = SignedWords(AnswerTo(item))
      BY <2>1, <2>3, <2>5 DEF Value
    <3>2. ImageReceived'
      BY <1>3, <1>10, <2>5, <3>1 DEF ImageReceived
    <3>3. hpc' = "error" /\ outcome' = "none"
      BY <2>2, <2>4, <2>5, Tables
    <3>4. Asking("error")'
      BY <1>3, <1>6, <2>1, <3>2, <3>3 DEF Asking, ReceivedBefore
    <3> QED  BY <3>3, <3>4 DEF Phases, Items
  <2>6. CASE item = "error"
    <3>1. received'.error = errors
      BY <1>10, <2>1, <2>3, <2>6 DEF Value
    <3>2. received'.image = received.image
      BY <2>3, <2>6 DEF Items
    <3>3. ImageReceived' /\ ErrorReceived'
      BY <1>3, <1>6, <2>6, <3>1, <3>2 DEF ReceivedBefore, ImageReceived, ErrorReceived
    <3>4. hpc' = "template" /\ outcome' = "none"
      BY <2>2, <2>4, <2>6, Tables
    <3>5. Asking("template")'
      BY <1>3, <1>6, <2>1, <3>3, <3>4 DEF Asking, ReceivedBefore
    <3> QED  BY <3>4, <3>5 DEF Phases, Items
  <2>7. CASE item = "template"
    <3>1. received'.template = templates[config.template_no]
      BY <1>10, <2>1, <2>3, <2>7 DEF Value
    <3>2. received'.image = received.image /\ received'.error = received.error
      BY <2>3, <2>7 DEF Items
    <3>3. ImageReceived' /\ ErrorReceived' /\ TemplateReceived'
      BY <1>3, <1>6, <2>7, <3>1, <3>2 DEF ReceivedBefore, ImageReceived, ErrorReceived, TemplateReceived
    <3>4. hpc' = "idle" /\ outcome' = "complete"
      BY <2>2, <2>4, <2>7, Tables
    <3>5. Ended'
      BY <1>3, <1>6, <2>1, <3>3, <3>4 DEF Ended
    <3> QED  BY <3>5
  <2> QED  BY <2>5, <2>6, <2>7 DEF Items
<1> QED  BY <1>12, <1>13

(***************************************************************************)
(* In a session without faults fread does not give up: wherever the script *)
(* waits, the answer has come back, the board is working on it, or it has  *)
(* the last byte of the command.                                           *)
(***************************************************************************)
LEMMA StepTimeout == TypesInv /\ SessionInv /\ Timeout => SessionInv'
<1> SUFFICES ASSUME TypesInv, SessionInv, Timeout, clean PROVE FALSE
  BY DEF SessionInv, Timeout
<1>1. toFpga = <<>> /\ hostIn = <<>> /\ out = <<>> /\ LineTypes /\ config \in Sessions
  BY DEF Timeout, GiveUp, TypesInv, HostTypes
<1>2. Back = <<>>
  BY <1>1, LineFacts
<1>3. fpc = "read"
  BY DEF Timeout, SessionInv, Ended, Phases, HeaderSent, HeaderTaken, HeaderDone, ImagesSent,
     Calculating, Calculated, Asking, Asked, Answered
<1>4. rx = None /\ ~Complete
  BY <1>3 DEF Timeout
<1>5. Rest = <<>> /\ Line = in /\ <<>> \in Seq(Byte) /\ in \in Seq(Byte)
  BY <1>1, <1>4, LineFacts DEF LineTypes
<1>6. hpc \in {"header", "started", "finished"} \/ \E item \in Items : hpc = Reading[item]
  BY Tables DEF Timeout, GiveUp
<1>7. ~Ended
  BY <1>6, Tables DEF Ended, Items
<1>8. ~HeaderSent
  <2> SUFFICES ASSUME HeaderSent PROVE FALSE
    OBVIOUS
  <2> DEFINE c == HeaderBytes(config)
  <2>1. c \in Seq(Byte) /\ Len(c) = 15 /\ c[1] = 0
    BY <1>1, HeaderBytesFacts
  <2>2. in = c
    BY <1>5 DEF HeaderSent
  <2> HIDE DEF c
  <2>3. c # <<>> /\ in # <<>>
    BY <2>1, <2>2
  <2>4. c \o <<>> = c
    BY <2>1, Empties
  <2>5. Line = c \o <<>>
    BY <1>5, <2>2, <2>4
  <2> QED  BY <1>3, <1>4, <1>5, <2>1, <2>3, <2>5, CommandBegun
<1>9. ~HeaderTaken /\ ~Calculating
  BY <1>3 DEF HeaderTaken, Calculating
<1>10. ~HeaderDone /\ ~Calculated
  BY <1>2 DEF HeaderDone, Calculated
<1>11. \A d \in 0..3 : ~ImagesSent(d)
  <2> SUFFICES ASSUME NEW d \in 0..3, ImagesSent(d) PROVE FALSE
    OBVIOUS
  <2>1. hpc = "started"
    BY <1>6, Tables DEF ImagesSent, Sending, Items
  <2>2. d < Sent(hpc)
    BY <2>1 DEF Sent
  <2> DEFINE c == CommandNo(config, d)
             t == Commands(config, d + 1, Sent(hpc))
  <2>3. /\ Line = c \o t /\ c \in Seq(Byte) /\ t \in Seq(Byte) /\ c # <<>>
        /\ d < 3 => c[1] = 1 /\ Len(c) = 2 + 2 * Area(head)
        /\ d = 3 => c[1] = 2 /\ Len(c) = 2
    BY <2>2, ImagesShape
  <2> HIDE DEF c, t
  <2>4. (c[1] = 1 /\ Len(c) = 2 + 2 * Area(head)) \/ (c[1] \in {2, 3} /\ Len(c) = 2)
    BY <2>3
  <2>5. in # <<>>
    <3>1. c \o t # <<>>
      BY <2>3, HeadTail
    <3> QED  BY <1>5, <2>3, <3>1
  <2> QED  BY <1>3, <1>4, <1>5, <2>3, <2>4, <2>5, CommandBegun
<1>12. \A item \in Items : ~Asking(item)
  BY <1>6, Tables DEF Asking, Items
<1>13. \A item \in Items : ~Asked(item)
  <2> SUFFICES ASSUME NEW item \in Items, Asked(item) PROVE FALSE
    OBVIOUS
  <2> DEFINE c == RequestFor(config, item)
  <2>1. /\ c \in Seq(Byte) /\ c # <<>>
        /\ \/ c[1] \in {2, 3} /\ Len(c) = 2
           \/ c[1] = 4 /\ Len(c) = 1
           \/ c[1] = 5 /\ Len(c) = 3
    BY <1>1, RequestFacts DEF Items
  <2>2. in = c
    BY <1>5 DEF Asked
  <2> HIDE DEF c
  <2>3. c \o <<>> = c
    BY <2>1, Empties
  <2>4. Line = c \o <<>> /\ in # <<>>
    BY <1>5, <2>1, <2>2, <2>3
  <2> QED  BY <1>3, <1>4, <1>5, <2>1, <2>4, CommandBegun
<1>14. \A item \in Items : ~Answered(item)
  <2> SUFFICES ASSUME NEW item \in Items, Answered(item) PROVE FALSE
    OBVIOUS
  <2>1. got \o Back = AnswerTo(item) /\ Len(got) < Answer[item] /\ got \in Seq(Byte)
    BY DEF Answered, TypesInv, HostTypes
  <2>2. got = AnswerTo(item)
    BY <1>2, <2>1, Empties
  <2>3. Len(AnswerTo(item)) = Answer[item] /\ Answer[item] \in Nat
    BY AnswerFacts DEF Answered
  <2> QED  BY <2>1, <2>2, <2>3
<1> QED  BY <1>7, <1>8, <1>9, <1>10, <1>11, <1>12, <1>13, <1>14 DEF SessionInv, Phases

\* After a fault nothing is claimed of the session.
LEMMA FaultEndsSession ==
  BusyTimeout \/ Overrun \/ LoseToBoard \/ LoseToHost \/ BoardReset => SessionInv'
<1> SUFFICES ASSUME BusyTimeout \/ Overrun \/ LoseToBoard \/ LoseToHost \/ BoardReset
             PROVE  ~clean'
  BY DEF SessionInv
<1> QED  BY DEF BusyTimeout, Overrun, LoseToBoard, LoseToHost, BoardReset, Fault

\* Every step keeps the invariant of a session.
LEMMA SessionStep == TypesInv /\ SessionInv /\ [Next]_vars => SessionInv'
<1> SUFFICES ASSUME TypesInv, SessionInv, [Next]_vars PROVE SessionInv'
  OBVIOUS
<1>1. CASE Host
  BY <1>1, StepSendHeader, StepReadAck, StepSendImage, StepCalculate, StepSendRequest,
     StepReadData, StepTimeout DEF Host
<1>2. CASE Firmware
  BY <1>2, StepUartRead, StepHeaderRead, StepHeaderAck, StepImageRead, StepAlgorithmRun,
     StepAlgorithmEnd, StepImageSend, StepErrorSend, StepTemplateSend, StepIgnoreCommand
  DEF Firmware
<1>3. CASE ToBoard \/ ToHost
  BY <1>3, StepToBoard, StepToHost
<1>4. CASE BusyTimeout \/ Overrun \/ LoseToBoard \/ LoseToHost \/ BoardReset
  BY <1>4, FaultEndsSession
<1>5. CASE UNCHANGED vars
  <2>1. Line' = Line /\ Back' = Back /\ Rest' = Rest /\ in' = in
    BY <1>5 DEF vars, Line, Back, Rest, Register
  <2> QED  BY <1>5, <2>1, SessionKept DEF vars
<1> QED  BY <1>1, <1>2, <1>3, <1>4, <1>5 DEF Next

(***************************************************************************)
(* In every behaviour of the host, the line and the board the bytes under  *)
(* way are those that the phase of the session says.                       *)
(***************************************************************************)
THEOREM SessionInvariant == Spec => [](TypesInv /\ SessionInv)
<1>1. Init => TypesInv /\ SessionInv
  BY TypesInit DEF Init, SessionInv
<1>2. TypesInv /\ SessionInv /\ [Next]_vars => (TypesInv /\ SessionInv)'
  BY TypesStep, SessionStep
<1> QED  BY <1>1, <1>2, PTL DEF Spec

(***************************************************************************)
(* When the host goes on after its header the firmware has every field of  *)
(* it, whatever earlier sessions left behind.                              *)
(***************************************************************************)
THEOREM HeaderDeliveredHolds == Spec => []HeaderDelivered
<1>1. TypesInv /\ SessionInv => HeaderDelivered
  <2> SUFFICES ASSUME TypesInv, SessionInv, AfterHeader PROVE HeaderIs(head, config)
    BY DEF HeaderDelivered, HeaderIs
  <2>1. clean /\ hpc # "idle" /\ hpc # "header"
    BY DEF AfterHeader
  <2> QED  BY <2>1 DEF SessionInv, Ended, Phases, HeaderSent, HeaderTaken, HeaderDone, ImagesSent,
     Calculating, Calculated, Asking, Asked, Answered
<1> QED  BY <1>1, SessionInvariant, PTL

(***************************************************************************)
(* When an algorithm of a session without faults runs, the three planes    *)
(* hold the images the host sent, each in its place.                       *)
(***************************************************************************)
THEOREM ImagesDeliveredHolds == Spec => []ImagesDelivered
<1>1. TypesInv /\ SessionInv => ImagesDelivered
  <2> SUFFICES ASSUME TypesInv, SessionInv, clean, fpc = "calc"
               PROVE  /\ in[2] = config.alg
                      /\ planes[0] = ToWords(config.images.u) /\ planes[1] = ToWords(config.images.x_0)
                      /\ planes[2] = ToWords(config.images.y_ideal)
    BY DEF ImagesDelivered
  <2>1. Calculating
    BY DEF SessionInv, Ended, Phases, HeaderSent, HeaderTaken, HeaderDone, ImagesSent, Calculated,
       Asking, Asked, Answered
  <2> QED  BY <2>1 DEF Calculating, ImagesAre
<1> QED  BY <1>1, SessionInvariant, PTL

(***************************************************************************)
(* A session that began with the board waiting and met no fault ends       *)
(* complete, and Matlab has the image, the error values and the template   *)
(* of the firmware.                                                        *)
(***************************************************************************)
THEOREM ResultDeliveredHolds == Spec => []ResultDelivered
<1>1. TypesInv /\ SessionInv => ResultDelivered
  <2> SUFFICES ASSUME TypesInv, SessionInv, clean, hpc = "idle"
               PROVE  /\ outcome = "complete" /\ ImageReceived /\ ErrorReceived /\ TemplateReceived
    BY DEF ResultDelivered, ImageReceived, ErrorReceived, TemplateReceived
  <2>1. \A item \in Items : hpc # item /\ hpc # Reading[item]
    BY Tables DEF Items
  <2>2. Ended
    BY <2>1 DEF SessionInv, Phases, HeaderSent, HeaderTaken, HeaderDone, ImagesSent, Sending,
       Calculating, Calculated, Asking, Asked, Answered
  <2> QED  BY <2>2 DEF Ended
<1> QED  BY <1>1, SessionInvariant, PTL

(***************************************************************************)
(* Without flow control, nothing is on its way to a firmware that is not   *)
(* reading, and Matlab's input buffer holds what is on its way back.       *)
(***************************************************************************)
THEOREM BuffersSufficeHolds == Spec => []BuffersSuffice
<1>1. TypesInv /\ SessionInv => BuffersSuffice
  BY BuffersEnough
<1> QED  BY <1>1, SessionInvariant, PTL
=============================================================================
