------------------------ MODULE HelperProtocol_proof ------------------------
(***************************************************************************)
(* The session's two streams implement its calls, for every set of paths   *)
(* and offsets, all limits on both sides and any number of calls.          *)
(***************************************************************************)
EXTENDS HelperProtocol, SequenceTheorems, TLAPS

-----------------------------------------------------------------------------
(* The invariant: what is in the two streams at each point of a call. *)

Types ==
    /\ speaks \in Protocols
    /\ knows \in {{OPEN, READ}, {OPEN, READ, UPDATE}}
    /\ cpc \in {"idle", "head", "body", "gone"}
    /\ spc \in {"proto", "op", "data", "closed"}
    /\ calls \in Nat
    /\ call \in CallSet \cup {None}
    /\ file \in Paths \cup {None}

\* What a call sends, and what is sent back to it.
Fields(c) ==
    CASE c.op = "start" -> <<<<"proto", c.proto>>>>
      [] c.op = "open" -> OpenFields(c.path)
      [] c.op = "read" -> ReadFields(c.off, c.len)
      [] c.op = "update" -> UpdateFields
Body(a) == <<"body", a.body>>
Whole(a) == IF PayloadLen(a) > 0 THEN Append(<<Header(a)>>, Body(a)) ELSE <<Header(a)>>

\* An answer is a message that the call does not refuse.
Fits(c, a) ==
    /\ a \in AnswerSet
    /\ PayloadLen(a) \in Nat
    /\ PayloadLen(a) = 0 <=> a.body = <<>>
    /\ PayloadLen(a) <= (IF c.op = "read" /\ a.status = OK THEN c.len ELSE MAX_MESSAGE)

\* Between two calls the streams are empty.
Quiet ==
    cpc = "idle" =>
        /\ call = None /\ s2c = <<>>
        /\ spc # "closed" => c2s = <<>> /\ (spc = "proto" <=> calls = 0)

\* A client that ended between two calls may have left a part of a request.
Leftover ==
    \/ c2s = <<>>
    \/ spc # "proto" /\ \E p \in Paths, k \in 1..2 : c2s = SubSeq(OpenFields(p), 1, k)

Calling == cpc \in {"head", "body"} => call # None /\ calls > 0

NoCall ==
    call = None => answer = None /\ (cpc = "gone" /\ spc # "closed" => Leftover)

\* Until it is decided the call's request is all there is in the streams.
Undecided ==
    call # None /\ answer = None =>
        /\ cpc \in {"head", "gone"}
        /\ s2c = <<>>
        /\ spc # "closed" => c2s = Fields(call) /\ (spc = "proto" <=> call.op = "start")

\* After that it is what the client has not read of the answer, unless the
\* service is still writing it, or has ended.
Decided ==
    answer # None =>
        /\ Fits(call, answer)
        /\ spc # "proto"
        /\ spc # "closed" => c2s = <<>>
        /\ cpc = "body" => head = Header(answer) /\ PayloadLen(answer) > 0
        /\ cpc = "head" =>
            /\ s2c \in {<<>>, <<Header(answer)>>, Whole(answer)}
            /\ spc = "op" => s2c = Whole(answer)
            /\ spc = "data" => s2c = <<Header(answer)>>
        /\ cpc = "body" =>
            /\ s2c \in {<<>>, <<Body(answer)>>}
            /\ spc = "op" => s2c = <<Body(answer)>>
            /\ spc = "data" => s2c = <<>>

Inv == Types /\ Quiet /\ Calling /\ NoCall /\ Undecided /\ Decided

-----------------------------------------------------------------------------
(* Answers *)

Statuses == {OK, NOT_FOUND, REFUSED, ERROR}

LEMMA StatusFacts ==
    /\ OK \in Statuses /\ NOT_FOUND \in Statuses /\ REFUSED \in Statuses /\ ERROR \in Statuses
    /\ OK # NOT_FOUND /\ OK # REFUSED /\ OK # ERROR
BY DEF Statuses, OK, NOT_FOUND, REFUSED, ERROR

LEMMA TextFacts ==
    ASSUME NEW s \in Statuses, NEW w \in Words
    PROVE  /\ Text(s, w) \in AnswerSet
           /\ Text(s, w).status = s /\ Text(s, w).body = <<w>>
           /\ PayloadLen(Text(s, w)) = TextLen
           /\ TextLen \in Nat /\ TextLen > 0 /\ TextLen <= MAX_MESSAGE /\ <<w>> # <<>>
<1>1. Len(<<w>>) = 1 /\ <<w>> # <<>>
  OBVIOUS
<1> QED
  BY <1>1, LimitsAreNat, MessagesAreShort DEF Text, AnswerSet, PayloadLen, Statuses

LEMMA TextFits ==
    ASSUME NEW c, NEW s \in Statuses, NEW w \in Words, c.op = "read" => s # OK
    PROVE  Fits(c, Text(s, w)) /\ Text(s, w) # None
<1> DEFINE a == Text(s, w)
<1>1. /\ a \in AnswerSet /\ a.status = s /\ a.body = <<w>> /\ PayloadLen(a) = TextLen
      /\ TextLen \in Nat /\ TextLen > 0 /\ TextLen <= MAX_MESSAGE /\ <<w>> # <<>>
  BY TextFacts
<1>2. a # None
  BY <1>1, NoneIsNoMessage
<1> HIDE DEF a
<1>3. Fits(c, a)
  BY <1>1 DEF Fits
<1> QED
  BY <1>2, <1>3 DEF a

LEMMA EmptyFacts ==
    /\ Empty \in AnswerSet /\ Empty.status = OK /\ Empty.body = <<>>
    /\ PayloadLen(Empty) = 0
<1>1. Len(<<>>) = 0
  OBVIOUS
<1> QED
  BY <1>1 DEF Empty, AnswerSet, PayloadLen

LEMMA DataFacts ==
    ASSUME NEW f \in Paths, NEW off \in Offsets, NEW n \in Nat
    PROVE  /\ Data(f, off, n) \in AnswerSet /\ Data(f, off, n).status = OK
           /\ PayloadLen(Data(f, off, n)) = n
           /\ n = 0 <=> Data(f, off, n).body = <<>>
           /\ n > 0 => Data(f, off, n).body = <<f, off, n>>
<1>1. CASE n = 0
  BY <1>1, EmptyFacts DEF Data
<1>2. CASE n > 0
  <2>1. /\ <<f, off, n>> \in Paths \X Offsets \X Nat
        /\ Len(<<f, off, n>>) = 3 /\ <<f, off, n>>[3] = n /\ <<f, off, n>> # <<>>
    OBVIOUS
  <2>2. Data(f, off, n) = [status |-> OK, body |-> <<f, off, n>>]
    BY <1>2 DEF Data
  <2> QED
    BY <1>2, <2>1, <2>2 DEF AnswerSet, PayloadLen
<1> QED
  BY <1>1, <1>2

\* Whatever is answered to a call is a message the call takes.
LEMMA OutcomesFit ==
    ASSUME NEW c \in CallSet, NEW f \in Paths \cup {None}, NEW a \in Outcomes(c, f)
    PROVE  Fits(c, a) /\ a # None
<1>1. CASE c.op = "start"
  <2>1. a = Text(OK, "version") \/ a = Text(ERROR, "another protocol")
    BY <1>1 DEF Outcomes, Version, WrongProtocol
  <2>2. c.op # "read"
    BY <1>1
  <2> QED
    BY <2>1, <2>2, TextFits, StatusFacts DEF Words
<1>2. CASE c.op = "open"
  <2>1. c.path \in Paths /\ c.op # "read"
    BY <1>2 DEF CallSet
  <2>2. a = PathTooLong \/ a = OpenAnswer(c.path, f)
    BY <1>2 DEF Outcomes
  <2>3. \/ a = Text(ERROR, "path too long") \/ a = Text(ERROR, "already open")
        \/ a = Text(ERROR, "not UTF-8") \/ a = Text(REFUSED, "not a partition")
        \/ a = Text(NOT_FOUND, "no such partition") \/ a = Text(ERROR, "system error")
        \/ a = Text(REFUSED, "not btrfs") \/ a = Empty
    BY <2>1, <2>2, PathsAreRecords DEF PathTooLong, OpenAnswer, OpenPartition
  <2>4. Fits(c, Empty) /\ Empty # None
    BY <2>1, EmptyFacts, NoneIsNoMessage, LimitsAreNat DEF Fits
  <2> QED
    BY <2>1, <2>3, <2>4, TextFits, StatusFacts DEF Words
<1>3. CASE c.op = "read"
  <2>1. c.off \in Offsets /\ c.len \in Nat
    BY <1>3 DEF CallSet
  <2>2. a \in ReadAnswers(c.off, c.len, f)
    BY <1>3 DEF Outcomes
  <2>3. \/ a = Text(ERROR, "too long") \/ a = Text(ERROR, "not open")
        \/ a = Text(ERROR, "system error")
        \/ f # None /\ \E k \in 0..c.len : a = Data(f, c.off, k)
    BY <2>2 DEF ReadAnswers
  <2>4. CASE f # None /\ \E k \in 0..c.len : a = Data(f, c.off, k)
    <3>1. PICK k \in 0..c.len : a = Data(f, c.off, k)
      BY <2>4
    <3>2. k \in Nat /\ k <= c.len /\ f \in Paths
      BY <2>1, <2>4
    <3>3. /\ a \in AnswerSet /\ a.status = OK /\ PayloadLen(a) = k
          /\ k = 0 <=> a.body = <<>>
      BY <2>1, <3>1, <3>2, DataFacts
    <3> QED
      BY <1>3, <3>2, <3>3, NoneIsNoMessage DEF Fits
  <2> QED
    BY <2>3, <2>4, TextFits, StatusFacts DEF Words
<1>4. CASE c.op = "update"
  <2>1. \/ a = Text(OK, "installed") \/ a = Text(OK, "up to date")
        \/ a = Text(ERROR, "update failed") \/ a = Text(ERROR, "unknown operation")
    BY <1>4 DEF Outcomes, UpdateAnswers, Unknown
  <2>2. c.op # "read"
    BY <1>4
  <2> QED
    BY <2>1, <2>2, TextFits, StatusFacts DEF Words
<1> QED
  BY <1>1, <1>2, <1>3, <1>4 DEF CallSet

\* The answers that end a session, told from those that do not.
LEMMA TextsDiffer ==
    ASSUME NEW s \in Statuses, NEW w \in Words,
           w \notin {"unknown operation", "another protocol", "path too long", "installed"}
    PROVE  ~Final(Text(s, w))
<1>1. ASSUME NEW t \in Statuses, NEW v \in Words, Text(s, w) = Text(t, v)
      PROVE  v = w
  <2>1. Text(s, w).body = <<w>> /\ Text(t, v).body = <<v>>
    BY TextFacts
  <2>2. <<w>> = <<v>>
    BY <1>1, <2>1
  <2> QED
    BY <2>2
<1> QED
  BY <1>1, StatusFacts DEF Final, Unknown, WrongProtocol, PathTooLong, Words

LEMMA OthersDiffer ==
    ASSUME NEW a, \A w : a.body # <<w>>
    PROVE  ~Final(a) /\ a # PathTooLong
<1>1. ASSUME NEW s \in Statuses, NEW w \in Words PROVE a # Text(s, w)
  <2>1. Text(s, w).body = <<w>>
    BY TextFacts
  <2> QED
    BY <2>1
<1> QED
  BY <1>1, StatusFacts DEF Final, Unknown, WrongProtocol, PathTooLong, Words

LEMMA WhichAreFinal ==
    /\ Final(Unknown) /\ Final(WrongProtocol) /\ Final(PathTooLong) /\ ~Final(Version)
    /\ PathTooLong # Empty
    /\ \A p \in Paths : \A f : ~Final(OpenAnswer(p, f))
    /\ \A f \in Paths \cup {None}, off \in Offsets, n \in Nat :
         \A a \in ReadAnswers(off, n, f) : ~Final(a)
<1>1. Final(Unknown) /\ Final(WrongProtocol) /\ Final(PathTooLong)
  BY DEF Final
<1>2. ~Final(Version)
  BY TextsDiffer, StatusFacts DEF Version, Words
<1>3. ~Final(Empty) /\ PathTooLong # Empty
  <2>1. \A w : <<>> # <<w>>
    OBVIOUS
  <2> QED
    BY <2>1, EmptyFacts, OthersDiffer
<1>4. ASSUME NEW p \in Paths, NEW f PROVE ~Final(OpenAnswer(p, f))
  <2>1. \/ OpenAnswer(p, f) = Text(ERROR, "already open")
        \/ OpenAnswer(p, f) = Text(ERROR, "not UTF-8")
        \/ OpenAnswer(p, f) = Text(REFUSED, "not a partition")
        \/ OpenAnswer(p, f) = Text(NOT_FOUND, "no such partition")
        \/ OpenAnswer(p, f) = Text(ERROR, "system error")
        \/ OpenAnswer(p, f) = Text(REFUSED, "not btrfs")
        \/ OpenAnswer(p, f) = Empty
    BY PathsAreRecords DEF OpenAnswer, OpenPartition
  <2> QED
    BY <1>3, <2>1, TextsDiffer, StatusFacts DEF Words
<1>5. ASSUME NEW f \in Paths \cup {None}, NEW off \in Offsets, NEW n \in Nat,
             NEW a \in ReadAnswers(off, n, f)
      PROVE  ~Final(a)
  <2>1. \/ a = Text(ERROR, "too long") \/ a = Text(ERROR, "not open")
        \/ a = Text(ERROR, "system error")
        \/ f # None /\ \E k \in 0..n : a = Data(f, off, k)
    BY DEF ReadAnswers
  <2>2. CASE f # None /\ \E k \in 0..n : a = Data(f, off, k)
    <3>1. PICK k \in 0..n : a = Data(f, off, k)
      BY <2>2
    <3>2. k \in Nat /\ f \in Paths
      BY <2>2
    <3>3. a.body = <<>> \/ a.body = <<f, off, k>>
      BY <3>1, <3>2, DataFacts
    <3>4. Len(<<f, off, k>>) = 3 /\ Len(<<>>) = 0
      OBVIOUS
    <3>5. ASSUME NEW w, a.body = <<w>> PROVE FALSE
      <4>1. Len(<<w>>) = 1
        OBVIOUS
      <4>2. Len(a.body) = 1
        BY <3>5, <4>1
      <4>3. CASE a.body = <<>>
        BY <3>4, <4>2, <4>3
      <4>4. CASE a.body = <<f, off, k>>
        BY <3>4, <4>2, <4>4
      <4> QED
        BY <3>3, <4>3, <4>4
    <3> QED
      BY <3>5, OthersDiffer
  <2> QED
    BY <2>1, <2>2, TextsDiffer, StatusFacts DEF Words
<1> QED
  BY <1>1, <1>2, <1>3, <1>4, <1>5

-----------------------------------------------------------------------------
(* Streams *)

LEMMA Concats ==
    ASSUME NEW h, NEW b
    PROVE  /\ Append(<<>>, h) = <<h>> /\ <<>> \o <<h>> = <<h>> /\ <<h>> \o <<>> = <<h>>
           /\ <<h>> \o <<b>> = Append(<<h>>, b)
           /\ <<>> \o <<>> = <<>>
<1>1. Append(<<>>, h) = <<h>> /\ <<>> \o <<h>> = <<h>> /\ <<h>> \o <<>> = <<h>>
  OBVIOUS
<1>2. <<>> \o <<>> = <<>>
  OBVIOUS
<1>3. <<h>> \o <<b>> = Append(<<h>>, b)
  <2>1. <<h>> \in Seq({h, b})
    OBVIOUS
  <2> QED
    BY <2>1, AppendIsConcat
<1> QED
  BY <1>1, <1>2, <1>3

LEMMA Replied ==
    ASSUME NEW a, PayloadLen(a) \in Nat
    PROVE  /\ <<>> \o <<Header(a)>> \o Payload(a) = Whole(a)
           /\ Append(<<>>, Header(a)) = <<Header(a)>>
           /\ <<Header(a)>> \o Payload(a) = Whole(a)
           /\ <<>> \o Payload(a) = IF PayloadLen(a) > 0 THEN <<Body(a)>> ELSE <<>>
<1> DEFINE h == Header(a)
<1>1. Payload(a) = IF PayloadLen(a) > 0 THEN <<Body(a)>> ELSE <<>>
  BY DEF Payload, Body
<1>2. Whole(a) = IF PayloadLen(a) > 0 THEN Append(<<h>>, Body(a)) ELSE <<h>>
  BY DEF Whole
<1> HIDE DEF h
<1>3. CASE PayloadLen(a) > 0
  BY <1>1, <1>2, <1>3, Concats DEF h
<1>4. CASE ~(PayloadLen(a) > 0)
  BY <1>1, <1>2, <1>4, Concats DEF h
<1> QED
  BY <1>3, <1>4

LEMMA HeadsAndTails ==
    ASSUME NEW h, NEW b
    PROVE  /\ Head(<<h>>) = h /\ Tail(<<h>>) = <<>> /\ <<h>> # <<>>
           /\ Head(Append(<<h>>, b)) = h /\ Tail(Append(<<h>>, b)) = <<b>>
           /\ Append(<<h>>, b) # <<>>
<1>1. Head(<<h>>) = h /\ Tail(<<h>>) = <<>> /\ <<h>> # <<>> /\ Append(<<>>, b) = <<b>>
  OBVIOUS
<1>2. <<h>> \in Seq({h})
  OBVIOUS
<1>3. /\ Head(Append(<<h>>, b)) = (IF <<h>> = <<>> THEN b ELSE Head(<<h>>))
      /\ Tail(Append(<<h>>, b)) = (IF <<h>> = <<>> THEN <<>> ELSE Append(Tail(<<h>>), b))
  BY <1>2, HeadTailAppend
<1>4. Append(<<h>>, b) # <<>>
  BY <1>2
<1> QED
  BY <1>1, <1>3, <1>4

LEMMA Prefixes ==
    ASSUME NEW m, NEW n
    PROVE  /\ \A k \in 0..Len(<<>>) : SubSeq(<<>>, 1, k) = <<>>
           /\ \A k \in 0..Len(<<m>>) : SubSeq(<<m>>, 1, k) \in {<<>>, <<m>>}
           /\ \A k \in 0..Len(Append(<<m>>, n)) :
                SubSeq(Append(<<m>>, n), 1, k) \in {<<>>, <<m>>, Append(<<m>>, n)}
<1>1. Len(<<>>) = 0 /\ Len(<<m>>) = 1 /\ <<m>> \in Seq({m, n}) /\ <<>> \in Seq({m, n})
  OBVIOUS
<1>2. Len(Append(<<m>>, n)) = 2 /\ Append(<<m>>, n) \in Seq({m, n})
  OBVIOUS
<1>3. \A t : SubSeq(t, 1, 0) = <<>>
  BY SubSeqEmpty
<1>4. \A t \in Seq({m, n}) : SubSeq(t, 1, Len(t)) = t
  BY SubSeqFull
<1>5. SubSeq(Append(<<m>>, n), 1, 1) = <<m>>
  <2>1. SubSeq(Append(<<m>>, n), 1, Len(<<m>>)) = SubSeq(<<m>>, 1, Len(<<m>>))
    OBVIOUS
  <2> QED
    BY <1>1, <1>4, <2>1
<1>6. ASSUME NEW k \in 0..Len(<<>>) PROVE SubSeq(<<>>, 1, k) = <<>>
  <2>1. k = 0
    BY <1>1
  <2> QED
    BY <1>3, <2>1
<1>7. ASSUME NEW k \in 0..Len(<<m>>) PROVE SubSeq(<<m>>, 1, k) \in {<<>>, <<m>>}
  <2>1. k = 0 \/ k = Len(<<m>>)
    BY <1>1
  <2> QED
    BY <1>1, <1>3, <1>4, <2>1
<1>8. ASSUME NEW k \in 0..Len(Append(<<m>>, n))
      PROVE  SubSeq(Append(<<m>>, n), 1, k) \in {<<>>, <<m>>, Append(<<m>>, n)}
  <2>1. k = 0 \/ k = 1 \/ k = Len(Append(<<m>>, n))
    BY <1>2
  <2> QED
    BY <1>2, <1>3, <1>4, <1>5, <2>1
<1> QED
  BY <1>6, <1>7, <1>8

LEMMA FieldsFacts ==
    ASSUME NEW c \in CallSet
    PROVE  /\ <<>> \o Fields(c) = Fields(c)
           /\ Fields(c) # <<>>
           /\ c.op = "start" =>
                /\ Len(Fields(c)) = 1 /\ Fields(c)[1] = <<"proto", c.proto>>
           /\ c.op = "open" =>
                /\ c.path \in Paths
                /\ Len(Fields(c)) = 3 /\ Fields(c)[1] = <<"op", OPEN>>
                /\ Fields(c)[2] = <<"len", c.path.len>>
                /\ Fields(c)[3] = <<"path", c.path>>
           /\ c.op = "read" =>
                /\ c.off \in Offsets /\ c.len \in Nat
                /\ Len(Fields(c)) = 3 /\ Fields(c)[1] = <<"op", READ>>
                /\ Fields(c)[2] = <<"off", c.off>>
                /\ Fields(c)[3] = <<"len", c.len>>
           /\ c.op = "update" =>
                /\ Len(Fields(c)) = 1 /\ Fields(c)[1] = <<"op", UPDATE>>
           /\ c.op \in {"start", "open", "read", "update"}
<1>1. CASE c.op = "start"
  BY <1>1 DEF Fields
<1>2. CASE c.op = "open"
  BY <1>2 DEF Fields, OpenFields, CallSet
<1>3. CASE c.op = "read"
  BY <1>3 DEF Fields, ReadFields, CallSet
<1>4. CASE c.op = "update"
  BY <1>4 DEF Fields, UpdateFields
<1> QED
  BY <1>1, <1>2, <1>3, <1>4 DEF CallSet

LEMMA PartFacts ==
    ASSUME NEW q \in Paths, NEW k \in 1..2
    PROVE  /\ Len(SubSeq(OpenFields(q), 1, k)) = k
           /\ SubSeq(OpenFields(q), 1, k)[1] = <<"op", OPEN>>
           /\ k = 2 => SubSeq(OpenFields(q), 1, k)[2] = <<"len", q.len>>
<1> DEFINE fields == OpenFields(q)
           S == {<<"op", OPEN>>, <<"len", q.len>>, <<"path", q>>}
<1>1. /\ fields[1] = <<"op", OPEN>> /\ fields[2] = <<"len", q.len>>
      /\ \A i \in 1..k : fields[i] \in S
  BY DEF OpenFields
<1> HIDE DEF fields, S
<1>2. /\ Len(SubSeq(fields, 1, k)) = k
      /\ \A i \in 1..k : SubSeq(fields, 1, k)[i] = fields[i]
  <2>1. 1 \in Int /\ k \in Int /\ 1 <= k /\ k - 1 + 1 = k
    OBVIOUS
  <2>2. /\ Len(SubSeq(fields, 1, k)) = IF 1 <= k THEN k - 1 + 1 ELSE 0
        /\ \A i \in 1..(k - 1 + 1) : SubSeq(fields, 1, k)[i] = fields[1 + i - 1]
    BY <1>1, <2>1, SubSeqProperties
  <2> QED
    BY <2>1, <2>2
<1> QED
  BY <1>1, <1>2 DEF fields

-----------------------------------------------------------------------------
(* The client's steps *)

Promised == [Promise!Next]_(Promise!vars)

LEMMA Requests ==
    ASSUME Inv, NEW c \in CallSet, Request(c, Fields(c)), c.op = "start" <=> calls = 0
    PROVE  Inv' /\ Promised
<1>1. /\ cpc = "idle" /\ cpc' = "head" /\ call' = c /\ calls' = calls + 1 /\ result' = None
      /\ c2s' = c2s \o Fields(c)
      /\ UNCHANGED <<s2c, speaks, knows, spc, file, answer>>
  BY DEF Request, MayCall, builds, server
<1>2. call = None /\ answer = None /\ s2c = <<>> /\ c # None
  BY <1>1, NoneIsNoMessage DEF Inv, Quiet, NoCall
<1>3. spc # "closed" => c2s' = Fields(c) /\ (spc = "proto" <=> c.op = "start")
  BY <1>1, FieldsFacts DEF Inv, Quiet
<1>4. Types'
  BY <1>1 DEF Inv, Types
<1>5. Inv'
  BY <1>1, <1>2, <1>3, <1>4 DEF Inv, Types, Quiet, Calling, NoCall, Undecided, Decided
<1>6. Promise!Call
  BY <1>1, <1>2 DEF Promise!Call
<1> QED
  BY <1>5, <1>6 DEF Promised, Promise!Next

LEMMA CallsKeep == Inv /\ ClientCalls => Inv' /\ Promised
<1> SUFFICES ASSUME Inv, ClientCalls PROVE Inv' /\ Promised
  OBVIOUS
<1>1. CASE Start
  <2> DEFINE c == [op |-> "start", proto |-> speaks]
  <2>1. c \in CallSet /\ Fields(c) = StartFields /\ c.op = "start"
    BY DEF Inv, Types, CallSet, Fields, StartFields
  <2>2. Request(c, Fields(c)) /\ calls = 0
    BY <1>1, <2>1 DEF Start
  <2> HIDE DEF c
  <2> QED
    BY <2>1, <2>2, Requests
<1>2. ASSUME NEW q \in Paths, Open(q) PROVE Inv' /\ Promised
  <2> DEFINE c == [op |-> "open", path |-> q]
  <2>1. c \in CallSet /\ Fields(c) = OpenFields(q) /\ c.op # "start"
    BY DEF CallSet, Fields
  <2>2. Request(c, Fields(c)) /\ calls # 0
    BY <1>2, <2>1 DEF Open, Inv, Types
  <2> HIDE DEF c
  <2> QED
    BY <2>1, <2>2, Requests
<1>3. ASSUME NEW q \in Paths, OpenTooLong(q) PROVE Inv' /\ Promised
  <2>1. /\ cpc = "idle" /\ calls > 0 /\ calls' = calls + 1 /\ result' = Refused
        /\ UNCHANGED <<c2s, s2c, speaks, knows, cpc, call, head, spc, file, answer>>
    BY <1>3 DEF OpenTooLong, MayCall, builds, server
  <2>2. call = None
    BY <2>1 DEF Inv, Quiet
  <2>3. Inv'
    BY <2>1, <2>2 DEF Inv, Types, Quiet, Calling, NoCall, Leftover, Undecided, Decided
  <2>4. Promise!Refuse
    BY <2>1, <2>2 DEF Promise!Refuse
  <2> QED
    BY <2>3, <2>4 DEF Promised, Promise!Next
<1>4. ASSUME NEW off \in Offsets, NEW size \in Sizes, ReadAt(off, size)
      PROVE  Inv' /\ Promised
  <2> DEFINE n == IF size < ClientMaxRead THEN size ELSE ClientMaxRead
             c == [op |-> "read", off |-> off, len |-> n]
  <2>1. n \in Nat
    BY LimitsAreNat
  <2>2. c \in CallSet /\ Fields(c) = ReadFields(off, n) /\ c.op # "start"
    BY <2>1 DEF CallSet, Fields
  <2>3. Request(c, Fields(c)) /\ calls # 0
    BY <1>4, <2>2 DEF ReadAt, Inv, Types
  <2> HIDE DEF c
  <2> QED
    BY <2>2, <2>3, Requests
<1>5. CASE Update
  <2> DEFINE c == [op |-> "update"]
  <2>1. c \in CallSet /\ Fields(c) = UpdateFields /\ c.op # "start"
    BY DEF CallSet, Fields
  <2>2. Request(c, Fields(c)) /\ calls # 0
    BY <1>5, <2>1 DEF Update, Inv, Types
  <2> HIDE DEF c
  <2> QED
    BY <2>1, <2>2, Requests
<1> QED
  BY <1>1, <1>2, <1>3, <1>4, <1>5 DEF ClientCalls

\* A call that returns leaves no trace of it in the streams.
LEMMA Returns ==
    ASSUME Inv, NEW r, Return(r), cpc \in {"head", "body"}, s2c' = <<>>,
           UNCHANGED <<c2s, builds, calls, spc, file>>,
           IF spc = "closed" /\ r = Lost THEN TRUE ELSE r = answer /\ answer # None
    PROVE  Inv' /\ Promised
<1>1. /\ result' = r /\ call' = None /\ answer' = None /\ cpc' = "idle"
      /\ UNCHANGED <<c2s, speaks, knows, calls, spc, file>>
  BY DEF Return, builds
<1>2. call # None
  BY DEF Inv, Calling
<1>3. spc # "closed" => c2s = <<>> /\ spc # "proto" /\ calls # 0
  <2>1. spc # "closed" => answer # None
    OBVIOUS
  <2> QED
    BY <2>1 DEF Inv, Decided, Calling, Types
<1>4. Inv'
  BY <1>1, <1>3 DEF Inv, Types, Quiet, Calling, NoCall, Undecided, Decided
<1>5. Promise!Return \/ Promise!Fail
  BY <1>1, <1>2 DEF Promise!Return, Promise!Fail
<1> QED
  BY <1>4, <1>5 DEF Promised, Promise!Next

LEMMA ReadsKeep == Inv /\ ClientReads => Inv' /\ Promised
<1> SUFFICES ASSUME Inv, ClientReads PROVE Inv' /\ Promised
  OBVIOUS
<1>1. CASE GetHead
  <2> DEFINE h == Head(s2c)
  <2>1. /\ cpc = "head" /\ s2c # <<>> /\ s2c' = Tail(s2c)
        /\ UNCHANGED <<c2s, builds, calls, spc, file>>
    BY <1>1 DEF GetHead
  <2>2. call # None /\ answer # None
    BY <2>1 DEF Inv, Calling, Undecided
  <2>3. Fits(call, answer) /\ s2c \in {<<Header(answer)>>, Whole(answer)}
    BY <2>1, <2>2 DEF Inv, Decided
  <2>4. h = Header(answer)
    BY <2>3, HeadsAndTails DEF Whole
  <2>5. h[2] = answer.status /\ h[3] = PayloadLen(answer)
    BY <2>4 DEF Header
  <2>6. ~TooLong(h)
    <3>1. call \in CallSet
      BY <2>2 DEF Inv, Types
    <3>2. call.op = "read" => call.len \in Nat
      BY <3>1, FieldsFacts
    <3> QED
      BY <2>3, <2>5, <3>2, LimitsAreNat DEF TooLong, Fits
  <2>7. PayloadLen(answer) \in Nat
    BY <2>3 DEF Fits
  <2>8. CASE NeedsBody(h[3])
    <3>1. cpc' = "body" /\ head' = h /\ UNCHANGED <<call, result, answer>>
      BY <1>1, <2>6, <2>8 DEF GetHead
    <3>2. PayloadLen(answer) > 0
      BY <2>5, <2>8 DEF NeedsBody
    <3>3. Whole(answer) = Append(<<Header(answer)>>, Body(answer))
      BY <3>2 DEF Whole
    <3>4. /\ s2c = <<Header(answer)>> => s2c' = <<>>
          /\ s2c = Whole(answer) => s2c' = <<Body(answer)>>
      <4>1. Tail(<<Header(answer)>>) = <<>>
        BY HeadsAndTails
      <4>2. Tail(Whole(answer)) = <<Body(answer)>>
        BY <3>3, HeadsAndTails
      <4>3. s2c' = Tail(s2c)
        BY <2>1
      <4> QED
        BY <4>1, <4>2, <4>3
    <3>5. s2c' \in {<<>>, <<Body(answer)>>}
      BY <2>3, <3>4
    <3>6. /\ spc = "op" => s2c' = <<Body(answer)>>
          /\ spc = "data" => s2c' = <<>>
      <4>1. /\ spc = "op" => s2c = Whole(answer)
            /\ spc = "data" => s2c = <<Header(answer)>>
        BY <2>1, <2>2 DEF Inv, Decided
      <4> QED
        BY <3>4, <4>1
    <3>7. Fits(call, answer)' /\ (head = Header(answer))' /\ (PayloadLen(answer) > 0)'
      BY <2>3, <2>4, <3>1, <3>2 DEF Fits, Header, PayloadLen
    <3>8. (Body(answer))' = Body(answer)
      BY <3>1 DEF Body
    <3>9. Inv'
      BY <2>1, <2>2, <3>1, <3>5, <3>6, <3>7, <3>8
      DEF Inv, Types, Quiet, Calling, NoCall, Undecided, Decided, builds
    <3>10. UNCHANGED Promise!vars
      BY <2>1, <3>1 DEF Promise!vars
    <3> QED
      BY <3>9, <3>10 DEF Promised
  <2>9. CASE ~NeedsBody(h[3])
    <3> DEFINE r == [status |-> h[2], body |-> <<>>]
    <3>1. Return(r)
      BY <1>1, <2>6, <2>9 DEF GetHead
    <3>2. PayloadLen(answer) = 0
      BY <2>5, <2>7, <2>9 DEF NeedsBody
    <3>3. r = answer
      BY <2>3, <2>5, <3>2 DEF Fits, AnswerSet
    <3>4. s2c' = <<>>
      BY <2>1, <2>3, <3>2, HeadsAndTails DEF Whole
    <3> HIDE DEF r
    <3> QED
      BY <2>1, <2>2, <3>1, <3>3, <3>4, Returns
  <2> QED
    BY <2>8, <2>9
<1>2. CASE GetBody
  <2>1. /\ cpc = "body" /\ s2c # <<>> /\ s2c' = Tail(s2c)
        /\ Return([status |-> head[2], body |-> Head(s2c)[2]])
        /\ UNCHANGED <<c2s, builds, calls, spc, file>>
    BY <1>2 DEF GetBody
  <2>2. answer # None
    BY <2>1 DEF Inv, Calling, Undecided
  <2>3. Fits(call, answer) /\ head = Header(answer) /\ s2c = <<Body(answer)>>
    BY <2>1, <2>2 DEF Inv, Decided
  <2>4. s2c' = <<>> /\ Head(s2c) = Body(answer)
    BY <2>1, <2>3, HeadsAndTails
  <2>5. [status |-> head[2], body |-> Head(s2c)[2]] = answer
    BY <2>3, <2>4 DEF Fits, AnswerSet, Header, Body
  <2> QED
    BY <2>1, <2>2, <2>4, <2>5, Returns
<1>3. CASE LoseService
  BY <1>3, Returns DEF LoseService
<1> QED
  BY <1>1, <1>2, <1>3 DEF ClientReads

LEMMA LeavesKeep == Inv /\ (Leave \/ ClientDies) => Inv' /\ Promised
<1> SUFFICES ASSUME Inv, Leave \/ ClientDies PROVE Inv' /\ Promised
  OBVIOUS
<1>1. /\ cpc # "gone" /\ cpc' = "gone"
      /\ UNCHANGED <<s2c, speaks, knows, call, head, result, calls, spc, file, answer>>
  BY DEF Leave, ClientDies, builds, server
<1>2. \/ c2s' = c2s
      \/ /\ cpc = "idle" /\ calls > 0
         /\ \E q \in Paths, k \in 1..2 : c2s' = c2s \o SubSeq(OpenFields(q), 1, k)
  BY DEF Leave, ClientDies
<1>3. CASE call = None
  <2>1. cpc = "idle" /\ answer = None
    BY <1>1, <1>3 DEF Inv, Types, Calling, NoCall
  <2>2. spc # "closed" => Leftover'
    <3> SUFFICES ASSUME spc # "closed" PROVE Leftover'
      OBVIOUS
    <3>1. c2s = <<>> /\ (spc = "proto" <=> calls = 0)
      BY <2>1 DEF Inv, Quiet
    <3>2. CASE c2s' = c2s
      BY <3>1, <3>2 DEF Leftover
    <3>3. ASSUME calls > 0, NEW q \in Paths, NEW k \in 1..2,
                 c2s' = c2s \o SubSeq(OpenFields(q), 1, k)
          PROVE  Leftover'
      <4>1. c2s' = SubSeq(OpenFields(q), 1, k)
        BY <3>1, <3>3, PartFacts
      <4> QED
        BY <1>1, <3>1, <3>3, <4>1 DEF Leftover
    <3> QED
      BY <1>2, <3>2, <3>3
  <2> QED
    BY <1>1, <1>3, <2>1, <2>2
    DEF Inv, Types, Quiet, Calling, NoCall, Undecided, Decided, Promised, Promise!vars
<1>4. CASE call # None
  <2>1. cpc # "idle"
    BY <1>4 DEF Inv, Quiet
  <2>2. c2s' = c2s
    BY <1>2, <2>1
  <2>3. Fits(call, answer)' <=> Fits(call, answer)
    BY <1>1 DEF Fits, PayloadLen
  <2>4. Fields(call)' = Fields(call)
    BY <1>1 DEF Fields
  <2> QED
    BY <1>1, <1>4, <2>1, <2>2, <2>3, <2>4
    DEF Inv, Types, Quiet, Calling, NoCall, Undecided, Decided, Promised, Promise!vars
<1> QED
  BY <1>3, <1>4

-----------------------------------------------------------------------------
(* The service's steps *)

\* What the service reads is the request of a call that is not yet decided.
LEMMA AtRequest ==
    ASSUME Inv, spc \in {"proto", "op"}, Arrived(1), call # None
    PROVE  /\ call \in CallSet /\ answer = None /\ s2c = <<>> /\ cpc \in {"head", "gone"}
           /\ c2s = Fields(call) /\ (spc = "proto" <=> call.op = "start")
<1>1. c2s # <<>>
  <2>1. Len(<<>>) = 0
    OBVIOUS
  <2> QED
    BY <2>1 DEF Arrived
<1>2. answer = None
  BY <1>1 DEF Inv, Decided
<1> QED
  BY <1>2 DEF Inv, Undecided, Types

\* Or what a client that ended has left of one.
LEMMA AtLeftover ==
    ASSUME Inv, spc \in {"proto", "op"}, Arrived(1), call = None
    PROVE  /\ cpc = "gone" /\ answer = None /\ spc = "op"
           /\ Field(1) = OPEN /\ ~Arrived(3)
<1>1. c2s # <<>>
  <2>1. Len(<<>>) = 0
    OBVIOUS
  <2> QED
    BY <2>1 DEF Arrived
<1>2. cpc = "gone" /\ answer = None
  BY <1>1 DEF Inv, Types, Quiet, Calling, NoCall
<1>3. Leftover
  BY <1>2 DEF Inv, NoCall
<1>4. PICK q \in Paths, k \in 1..2 : c2s = SubSeq(OpenFields(q), 1, k)
  BY <1>1, <1>3 DEF Leftover
<1>5. Len(c2s) = k /\ c2s[1] = <<"op", OPEN>>
  BY <1>4, PartFacts
<1> QED
  BY <1>1, <1>2, <1>3, <1>5 DEF Leftover, Field, Arrived

\* An answer to a call is decided once, for the request that was read whole.
LEMMA Decides ==
    ASSUME Inv, spc \in {"proto", "op"}, Arrived(1), call # None,
           NEW a \in Outcomes(call, file), answer' = a,
           spc' \in {"op", "data", "closed"}, spc' = "closed" <=> Final(a),
           spc' # "closed" => c2s' = <<>>,
           s2c' = IF spc' = "data" THEN <<Header(a)>> ELSE Whole(a),
           file' = OpenedBy(call, file, a), file' \in Paths \cup {None},
           UNCHANGED <<builds, client>>
    PROVE  Inv' /\ Promised
<1>1. /\ call \in CallSet /\ answer = None /\ cpc \in {"head", "gone"}
      /\ UNCHANGED <<speaks, knows, cpc, call, head, result, calls>>
  BY AtRequest DEF builds, client
<1>2. Fits(call, a) /\ a # None
  BY <1>1, OutcomesFit DEF Inv, Types
<1>3. Fits(call, answer)' /\ Header(answer)' = Header(a) /\ Whole(answer)' = Whole(a)
  BY <1>1, <1>2
<1>4. Inv'
  BY <1>1, <1>2, <1>3 DEF Inv, Types, Quiet, Calling, NoCall, Undecided, Decided
<1>5. Promise!Decide
  BY <1>1 DEF Promise!Decide, Final
<1> QED
  BY <1>4, <1>5 DEF Promised, Promise!Next

\* A reply that is written whole.
LEMMA Replies ==
    ASSUME Inv, spc \in {"proto", "op"}, Arrived(1), call # None,
           NEW a \in Outcomes(call, file), NEW rest, NEW closes \in BOOLEAN,
           Reply(a, rest, closes), closes <=> Final(a), ~closes => rest = <<>>,
           file' = OpenedBy(call, file, a), file' \in Paths \cup {None}
    PROVE  Inv' /\ Promised
<1>1. call \in CallSet /\ s2c = <<>>
  BY AtRequest
<1>2. PayloadLen(a) \in Nat
  BY <1>1, OutcomesFit DEF Inv, Types, Fits
<1>3. /\ answer' = a /\ c2s' = rest /\ s2c' = Whole(a)
      /\ spc' = (IF closes THEN "closed" ELSE "op") /\ UNCHANGED <<builds, client>>
  BY <1>1, <1>2, Replied DEF Reply
<1> QED
  BY <1>3, Decides

\* The service ends the session without an answer.
LEMMA Ends ==
    ASSUME Inv, spc' = "closed", UNCHANGED <<builds, client, file, answer>>,
           \/ s2c' = s2c
           \/ cpc # "gone" /\ \E k \in 0..Len(s2c) : s2c' = SubSeq(s2c, 1, k)
           \/ cpc = "gone" /\ (call = None \/ answer # None \/ s2c' = <<>>)
    PROVE  Inv' /\ Promised
<1>1. UNCHANGED <<speaks, knows, cpc, call, head, result, calls, file, answer>>
  BY DEF builds, client
<1>2. /\ Fits(call, answer)' <=> Fits(call, answer)
      /\ Header(answer)' = Header(answer) /\ Whole(answer)' = Whole(answer)
      /\ Body(answer)' = Body(answer) /\ PayloadLen(answer)' = PayloadLen(answer)
  BY <1>1 DEF Fits, Header, Whole, PayloadLen, Body
<1>3. Types'
  BY <1>1 DEF Inv, Types
<1>4. Promise!End
  BY <1>1 DEF Promise!End
<1>5. CASE cpc = "gone"
  BY <1>1, <1>2, <1>3, <1>4, <1>5
  DEF Inv, Quiet, Calling, NoCall, Undecided, Decided, Promised, Promise!Next
<1>6. CASE s2c' = s2c
  BY <1>1, <1>2, <1>3, <1>4, <1>6
  DEF Inv, Quiet, Calling, NoCall, Undecided, Decided, Promised, Promise!Next
<1>7. CASE cpc # "gone" /\ \E k \in 0..Len(s2c) : s2c' = SubSeq(s2c, 1, k)
  <2>1. s2c = <<>> => s2c' = <<>>
    BY <1>7, Prefixes
  <2>2. \A m : s2c = <<m>> => s2c' \in {<<>>, <<m>>}
    BY <1>7, Prefixes
  <2>3. \A m, n : s2c = Append(<<m>>, n) => s2c' \in {<<>>, <<m>>, Append(<<m>>, n)}
    BY <1>7, Prefixes
  <2>4. Quiet' /\ Calling' /\ NoCall' /\ Undecided'
    BY <1>1, <1>7, <2>1 DEF Inv, Quiet, Calling, NoCall, Undecided
  <2>5. Decided'
    <3> SUFFICES ASSUME answer # None PROVE Decided'
      BY <1>1 DEF Decided
    <3>1. cpc = "head" => s2c' \in {<<>>, <<Header(answer)>>, Whole(answer)}
      BY <2>1, <2>2, <2>3 DEF Inv, Decided, Whole
    <3>2. cpc = "body" => s2c' \in {<<>>, <<Body(answer)>>}
      BY <2>1, <2>2 DEF Inv, Decided
    <3> QED
      BY <1>1, <1>2, <3>1, <3>2 DEF Inv, Decided
  <2> QED
    BY <1>3, <1>4, <2>4, <2>5 DEF Inv, Promised, Promise!Next
<1> QED
  BY <1>5, <1>6, <1>7

LEMMA HandshakeKeeps == Inv /\ Handshake => Inv' /\ Promised
<1> SUFFICES ASSUME Inv, Handshake PROVE Inv' /\ Promised
  OBVIOUS
<1> DEFINE a == IF Field(1) = PROTOCOL THEN Version ELSE WrongProtocol
<1>1. spc = "proto" /\ Arrived(1) /\ Reply(a, From(2), Final(a)) /\ file' = file
  BY DEF Handshake
<1>2. call # None
  BY <1>1, AtLeftover
<1>3. call \in CallSet /\ call.op = "start" /\ c2s = Fields(call)
  BY <1>1, <1>2, AtRequest
<1>4. Field(1) = call.proto /\ Len(c2s) = 1
  BY <1>3, FieldsFacts DEF Field
<1>5. a \in Outcomes(call, file)
  BY <1>3, <1>4 DEF Outcomes
<1>6. From(2) = <<>>
  BY <1>4, SubSeqEmpty DEF From
<1>7. file' = OpenedBy(call, file, a) /\ file' \in Paths \cup {None}
  BY <1>1, <1>3 DEF OpenedBy, Inv, Types
<1>8. Final(a) \in BOOLEAN
  BY DEF Final
<1> HIDE DEF a
<1> QED
  BY <1>1, <1>2, <1>5, <1>6, <1>7, <1>8, Replies

LEMMA LongPathKeeps == Inv /\ ServeLongPath => Inv' /\ Promised
<1> SUFFICES ASSUME Inv, ServeLongPath PROVE Inv' /\ Promised
  OBVIOUS
<1>1. /\ spc = "op" /\ Arrived(1) /\ Field(1) = OPEN /\ Field(2) > MAX_PATH
      /\ Reply(PathTooLong, From(3), TRUE) /\ file' = file
  BY DEF ServeLongPath, NextOp
<1>2. CASE call = None
  <2>1. cpc = "gone" /\ answer = None
    BY <1>1, <1>2, AtLeftover
  <2> QED
    BY <1>1, <1>2, <2>1, Ends DEF Reply
<1>3. CASE call # None
  <2>1. call \in CallSet /\ call.op # "start" /\ c2s = Fields(call)
    BY <1>1, <1>3, AtRequest
  <2>2. call.op = "open" /\ Field(2) = call.path.len
    BY <1>1, <2>1, FieldsFacts DEF Field, OPEN, READ, UPDATE
  <2>3. PathTooLong \in Outcomes(call, file)
    BY <1>1, <2>2 DEF Outcomes
  <2>4. file' = OpenedBy(call, file, PathTooLong) /\ file' \in Paths \cup {None}
    BY <1>1, <2>2, WhichAreFinal DEF OpenedBy, Opened, Inv, Types
  <2> QED
    BY <1>1, <1>3, <2>3, <2>4, WhichAreFinal, Replies
<1> QED
  BY <1>2, <1>3

LEMMA OpenKeeps == Inv /\ ServeOpen => Inv' /\ Promised
<1> SUFFICES ASSUME Inv, ServeOpen PROVE Inv' /\ Promised
  OBVIOUS
<1> DEFINE a == OpenAnswer(Field(3), file)
<1>1. /\ spc = "op" /\ Arrived(1) /\ Arrived(3) /\ Field(1) = OPEN /\ Field(2) <= MAX_PATH
      /\ Reply(a, From(4), FALSE) /\ file' = Opened(Field(3), file, a)
  BY DEF ServeOpen, NextOp, AfterOpen
<1>2. call # None
  BY <1>1, AtLeftover
<1>3. call \in CallSet /\ call.op # "start" /\ c2s = Fields(call)
  BY <1>1, <1>2, AtRequest
<1>4. /\ call.op = "open" /\ call.path \in Paths /\ Len(c2s) = 3
      /\ Field(2) = call.path.len /\ Field(3) = call.path
  BY <1>1, <1>3, FieldsFacts DEF Field, OPEN, READ, UPDATE
<1>5. call.path.len \in Nat
  BY <1>4, PathsAreRecords
<1>6. a \in Outcomes(call, file)
  BY <1>1, <1>4, <1>5, LimitsAreNat DEF Outcomes
<1>7. From(4) = <<>>
  BY <1>4, SubSeqEmpty DEF From
<1>8. file' = OpenedBy(call, file, a) /\ file' \in Paths \cup {None}
  BY <1>1, <1>4 DEF OpenedBy, Opened, Inv, Types
<1>9. ~Final(a)
  BY <1>4, WhichAreFinal
<1> HIDE DEF a
<1> QED
  BY <1>1, <1>2, <1>6, <1>7, <1>8, <1>9, Replies

LEMMA ReadKeeps == Inv /\ ServeRead => Inv' /\ Promised
<1> SUFFICES ASSUME Inv, ServeRead PROVE Inv' /\ Promised
  OBVIOUS
<1>1. /\ spc = "op" /\ Arrived(1) /\ Arrived(3) /\ Field(1) = READ /\ file' = file
  BY DEF ServeRead, NextOp
<1>2. PICK a \in ReadAnswers(Field(2), Field(3), file) :
        IF a.status = OK
        THEN /\ c2s' = From(4)
             /\ s2c' = Append(s2c, Header(a))
             /\ answer' = IF call = None THEN None ELSE a
             /\ spc' = "data"
             /\ UNCHANGED <<builds, client>>
        ELSE Reply(a, From(4), FALSE)
  BY DEF ServeRead
<1>3. call # None
  BY <1>1, AtLeftover
<1>4. call \in CallSet /\ call.op # "start" /\ c2s = Fields(call) /\ s2c = <<>>
  BY <1>1, <1>3, AtRequest
<1>5. /\ call.op = "read" /\ call.off \in Offsets /\ call.len \in Nat /\ Len(c2s) = 3
      /\ Field(2) = call.off /\ Field(3) = call.len
  BY <1>1, <1>4, FieldsFacts DEF Field, OPEN, READ, UPDATE
<1>6. a \in Outcomes(call, file)
  BY <1>5 DEF Outcomes
<1>7. From(4) = <<>>
  BY <1>5, SubSeqEmpty DEF From
<1>8. file' = OpenedBy(call, file, a) /\ file' \in Paths \cup {None}
  BY <1>1, <1>5 DEF OpenedBy, Inv, Types
<1>9. ~Final(a)
  BY <1>5, WhichAreFinal DEF Inv, Types
<1>10. CASE a.status = OK
  BY <1>1, <1>2, <1>3, <1>4, <1>6, <1>7, <1>8, <1>9, <1>10, Decides, Concats
<1>11. CASE a.status # OK
  BY <1>1, <1>2, <1>3, <1>6, <1>7, <1>8, <1>9, <1>11, Replies
<1> QED
  BY <1>10, <1>11

LEMMA UpdateKeeps == Inv /\ (ServeUpdate \/ ServeUnknown) => Inv' /\ Promised
<1> SUFFICES ASSUME Inv, ServeUpdate \/ ServeUnknown PROVE Inv' /\ Promised
  OBVIOUS
<1>1. spc = "op" /\ Arrived(1) /\ file' = file /\ Field(1) # OPEN /\ Field(1) # READ
  <2>1. OPEN \in knows /\ READ \in knows
    BY DEF Inv, Types
  <2>2. UPDATE # OPEN /\ UPDATE # READ
    BY DEF OPEN, READ, UPDATE
  <2> QED
    BY <2>1, <2>2 DEF ServeUpdate, ServeUnknown, NextOp
<1>2. call # None
  BY <1>1, AtLeftover
<1>3. call \in CallSet /\ call.op # "start" /\ c2s = Fields(call)
  BY <1>1, <1>2, AtRequest
<1>4. call.op = "update" /\ Len(c2s) = 1
  BY <1>1, <1>3, FieldsFacts DEF Field
<1>5. From(2) = <<>>
  BY <1>4, SubSeqEmpty DEF From
<1>6. PICK a \in Outcomes(call, file) : Reply(a, From(2), Final(a))
  <2>1. UpdateAnswers \cup {Unknown} = Outcomes(call, file)
    BY <1>4 DEF Outcomes
  <2> QED
    BY <2>1, WhichAreFinal DEF ServeUpdate, ServeUnknown, ClosingAfter
<1>7. file' = OpenedBy(call, file, a) /\ file' \in Paths \cup {None}
  BY <1>1, <1>4 DEF OpenedBy, Inv, Types
<1>8. Final(a) \in BOOLEAN
  BY DEF Final
<1> QED
  BY <1>1, <1>2, <1>5, <1>6, <1>7, <1>8, Replies

LEMMA WriteDataKeeps == Inv /\ WriteData => Inv' /\ Promised
<1> SUFFICES ASSUME Inv, WriteData PROVE Inv' /\ Promised
  OBVIOUS
<1>1. /\ spc = "data" /\ spc' = "op"
      /\ s2c' = (IF answer = None THEN s2c ELSE s2c \o Payload(answer))
      /\ UNCHANGED <<c2s, speaks, knows, cpc, call, head, result, calls, file, answer>>
  BY DEF WriteData, builds, client
<1>2. UNCHANGED Promise!vars
  BY <1>1 DEF Promise!vars
<1>3. CASE answer = None
  BY <1>1, <1>2, <1>3
  DEF Inv, Types, Quiet, Calling, NoCall, Leftover, Undecided, Decided, Promised, Fields
<1>4. CASE answer # None
  <2>1. call # None /\ Fits(call, answer) /\ PayloadLen(answer) \in Nat
    BY <1>4 DEF Inv, NoCall, Decided, Fits
  <2>2. cpc = "head" => s2c' = Whole(answer)
    BY <1>1, <1>4, <2>1, Replied DEF Inv, Decided
  <2>3. cpc = "body" => s2c' = <<Body(answer)>>
    BY <1>1, <1>4, <2>1, Replied DEF Inv, Decided
  <2>4. /\ Fits(call, answer)' <=> Fits(call, answer)
        /\ Header(answer)' = Header(answer) /\ Whole(answer)' = Whole(answer)
        /\ Body(answer)' = Body(answer) /\ PayloadLen(answer)' = PayloadLen(answer)
    BY <1>1 DEF Fits, Header, Whole, PayloadLen, Body
  <2>5. cpc # "idle"
    BY <2>1 DEF Inv, Quiet
  <2> QED
    BY <1>1, <1>2, <1>4, <2>1, <2>2, <2>3, <2>4, <2>5
    DEF Inv, Types, Quiet, Calling, NoCall, Undecided, Decided, Promised
<1> QED
  BY <1>3, <1>4

LEMMA EndsKeep ==
    Inv /\ (ServeEnd \/ WriteFails \/ ServiceDies) => Inv' /\ Promised
BY Ends DEF ServeEnd, WriteFails, ServiceDies, Undecided, Inv

-----------------------------------------------------------------------------
(* The theorems *)

LEMMA InitInv == Init => Inv /\ Promise!Init
BY DEF Init, Inv, Types, Quiet, Calling, NoCall, Undecided, Decided, Promise!Init

LEMMA StepKeeps == Inv /\ [Next]_vars => Inv' /\ Promised
<1> SUFFICES ASSUME Inv, [Next]_vars PROVE Inv' /\ Promised
  OBVIOUS
<1>1. CASE ClientCalls
  BY <1>1, CallsKeep
<1>2. CASE ClientReads
  BY <1>2, ReadsKeep
<1>3. CASE Leave \/ ClientDies
  BY <1>3, LeavesKeep
<1>4. CASE Serve
  BY <1>4, HandshakeKeeps, LongPathKeeps, OpenKeeps, ReadKeeps, WriteDataKeeps,
     UpdateKeeps, EndsKeep DEF Serve
<1>5. CASE WriteFails \/ ServiceDies
  BY <1>5, EndsKeep
<1>6. CASE UNCHANGED vars
  BY <1>6 DEF vars, client, server, builds, Inv, Types, Quiet, Calling, NoCall, Leftover,
              Undecided, Decided, Fits, Fields, Header, Whole, Body, PayloadLen,
              Promised, Promise!vars
<1> QED
  BY <1>1, <1>2, <1>3, <1>4, <1>5, <1>6 DEF Next

\* Whatever the calls, the errors, the two builds and the ends of either side:
\* serve_client and Session implement calls that are decided at most once and
\* return what was decided for them, or fail with the session.
THEOREM SessionImplementsCalls == Spec => KeepsPromise
<1>1. Inv /\ [Next]_vars => Inv' /\ [Promise!Next]_(Promise!vars)
  BY StepKeeps DEF Promised
<1> QED
  BY <1>1, InitInv, PTL DEF Spec, KeepsPromise, Promise!Spec

LEMMA InvIsInStep == Inv => InStep
<1> SUFFICES ASSUME Inv PROVE InStep
  OBVIOUS
<1>1. ASSUME spc \in {"proto", "op"}, c2s # <<>>
      PROVE  c2s[1][1] = IF spc = "op" THEN "op" ELSE "proto"
  <2>1. CASE call = None
    <3>1. cpc = "gone"
      BY <1>1, <2>1 DEF Inv, Types, Quiet, Calling
    <3>2. PICK q \in Paths, k \in 1..2 : c2s = SubSeq(OpenFields(q), 1, k) /\ spc # "proto"
      BY <1>1, <2>1, <3>1 DEF Inv, NoCall, Leftover
    <3> QED
      BY <1>1, <3>2, PartFacts
  <2>2. CASE call # None
    <3>1. call \in CallSet /\ c2s = Fields(call) /\ (spc = "proto" <=> call.op = "start")
      BY <1>1, <2>2 DEF Inv, Types, Undecided, Decided
    <3> QED
      BY <1>1, <3>1, FieldsFacts
  <2> QED
    BY <2>1, <2>2
<1>2. ASSUME cpc \in {"head", "body"}, s2c # <<>>
      PROVE  s2c[1][1] = cpc
  <2>1. answer # None
    BY <1>2 DEF Inv, Calling, Undecided
  <2>2. \A m, n : <<m>>[1] = m /\ Append(<<m>>, n)[1] = m
    OBVIOUS
  <2>3. Header(answer)[1] = "head" /\ Body(answer)[1] = "body"
    BY DEF Header, Body
  <2>4. IF cpc = "head" THEN s2c \in {<<Header(answer)>>, Whole(answer)}
                        ELSE s2c = <<Body(answer)>>
    BY <1>2, <2>1 DEF Inv, Decided
  <2> QED
    BY <1>2, <2>2, <2>3, <2>4 DEF Whole
<1>3. cpc = "idle" /\ spc = "op" => s2c = <<>> /\ c2s = <<>>
  BY DEF Inv, Quiet
<1> QED
  BY <1>1, <1>2, <1>3 DEF InStep

\* Each end reads every message from its first byte (serve_client consumes
\* exactly the request it answers, Session exactly the reply).
THEOREM StaysInStep == Spec => []InStep
<1>1. Inv /\ [Next]_vars => Inv'
  BY StepKeeps
<1> QED
  BY <1>1, InitInv, InvIsInStep, PTL DEF Spec
=============================================================================
