------------------------ MODULE PlaybackSessionProofs ------------------------
(***************************************************************************)
(* What the player gets is the file, for every length of it and of the     *)
(* chunks, and however the ranges come, as long as no read is short.       *)
(***************************************************************************)
EXTENDS PlaybackSession, SequenceTheorems, TLAPS

Pairs == Int \X BOOLEAN
SessionType ==
  [step : Steps, first : 0 .. Size, last : {Open} \cup 0 .. Size, pos : Nat,
   announced : BOOLEAN, short : BOOLEAN, data : Seq(Pairs)]

FileOK ==
  /\ fetched \subseteq Bytes /\ reported \subseteq fetched /\ written \subseteq fetched
  /\ length \in 0 .. Size /\ written \subseteq 0 .. length - 1
  /\ touched \in {"no", "cut", "gone"}
  /\ touched = "no" => written = fetched

FieldsOK ==
  /\ FileOK
  /\ active \in BOOLEAN /\ proxy \in BOOLEAN /\ player \in BOOLEAN
  /\ session \in SessionType /\ body \in Seq(Pairs)
  /\ requests \in 0 .. MaxRequests /\ stops \in 0 .. MaxStops

\* Bytes in order, between two positions; one after the other from a position on;
\* all of them in the file.
Rising(s, from, to) ==
  \A i \in DOMAIN s :
    /\ from <= s[i][1] /\ s[i][1] < to
    /\ \A j \in DOMAIN s : i < j => s[i][1] < s[j][1]
Unbroken(s, from) == \A i \in DOMAIN s : s[i][1] = from + i - 1
Genuine(s) == \A i \in DOMAIN s : s[i][2]

\* A player is connected to a proxy that runs, and so is a session.
ProxyInv == /\ player => proxy
            /\ session.step \notin Over => proxy

\* What was sent, and is being sent, comes from before the next position.
SentInv(s) ==
  /\ Rising(s, session.first, session.pos)
  /\ ~session.short => Unbroken(s, session.first) /\ session.pos = session.first + Len(s)
  /\ touched = "no" => Genuine(s)

SessionInv ==
  /\ Rising(body, session.first, session.last + 1)
  /\ ~session.short => Unbroken(body, session.first)
  /\ touched = "no" => ~session.short /\ Genuine(body)
  /\ session.step \notin Over => session.first <= session.pos
  /\ session.step \in {"stream", "wait"} =>
       SentInv(body) /\ session.pos <= session.last
  /\ session.step \in {"header", "body"} =>
       SentInv(body \o session.data) /\ session.pos <= session.last + 1
  /\ session.step = "done" /\ ~session.short =>
       Len(body) = session.last - session.first + 1

IInv == FieldsOK /\ ProxyInv /\ SessionInv

-----------------------------------------------------------------------------
\* The data ends with the range that was found, the one that was asked for, or
\* a chunk, whichever is first.
LEMMA UptoEnds ==
  ASSUME NEW end \in Int, session.last \in Int, session.pos \in Int,
         session.pos <= end, session.pos <= session.last
  PROVE  /\ Upto(end) \in Int /\ session.pos <= Upto(end)
         /\ Upto(end) <= end /\ Upto(end) <= session.last
<1> DEFINE P(n) == n <= end /\ n <= session.last /\ n <= session.pos + Chunk - 1
           S == {end, session.last, session.pos + Chunk - 1}
<1>1. Chunk \in Int /\ Chunk >= 1
  BY PlaybackAssumption
<1>2. \E n \in S : P(n)
  BY <1>1
<1>3. Upto(end) = CHOOSE n \in S : P(n)
  BY DEF Upto
<1>4. Upto(end) \in S /\ P(Upto(end))
  <2> HIDE DEF P, S
  <2> QED
    BY <1>2, <1>3
<1> QED
  BY <1>1, <1>4

\* What is read comes from where it was asked for, and unless the user has touched
\* the file it is all that was asked for, and genuine.
LEMMA ReadIs ==
  ASSUME FileOK, NEW n \in Int, session.pos \in Nat, session.pos <= n,
         session.pos .. n \subseteq fetched, ReadUpto(n) # <<>>
  PROVE  /\ ReadUpto(n) \in Seq(Pairs)
         /\ Rising(ReadUpto(n), session.pos, n + 1)
         /\ Unbroken(ReadUpto(n), session.pos)
         /\ n < length => Len(ReadUpto(n)) = n + 1 - session.pos
         /\ touched = "no" => n < length /\ Genuine(ReadUpto(n))
<1> DEFINE end == IF n < length THEN n ELSE length - 1
           len == end - session.pos + 1
           F(i) == <<session.pos + i - 1, session.pos + i - 1 \in written>>
<1>1. length \in Int /\ end \in Int /\ len \in Int /\ end <= n
  BY PlaybackAssumption DEF FileOK
<1>2. ReadUpto(n) = [i \in 1 .. len |-> F(i)]
  BY DEF ReadUpto
<1>3. \A i \in 1 .. len :
        F(i) \in Pairs /\ F(i)[1] = session.pos + i - 1 /\ F(i)[2] = (F(i)[1] \in written)
  <2>1. SUFFICES ASSUME NEW i \in 1 .. len
                 PROVE  F(i) \in Pairs /\ F(i)[1] = session.pos + i - 1
                        /\ F(i)[2] = (F(i)[1] \in written)
    OBVIOUS
  <2> DEFINE b == session.pos + i - 1
             v == b \in written
  <2>2. b \in Int /\ v \in BOOLEAN
    BY <1>1, <2>1
  <2> HIDE DEF b, v
  <2>3. <<b, v>> \in Pairs /\ <<b, v>>[1] = b /\ <<b, v>>[2] = v
    BY <2>2 DEF Pairs
  <2> QED
    BY <2>3 DEF b, v
<1>4. end < length
  BY <1>1
<1> HIDE DEF F, len
<1>5. /\ ReadUpto(n) \in [1 .. len -> Pairs] /\ DOMAIN ReadUpto(n) = 1 .. len
      /\ \A i \in 1 .. len : ReadUpto(n)[i] = F(i)
  BY <1>2, <1>3
<1>6. len \in Nat
  <2>1. CASE len < 1
    <3>1. 1 .. len = {}
      BY <1>1, <2>1
    <3>2. ReadUpto(n) = <<>>
      BY <1>2, <3>1
    <3> QED
      BY <3>2
  <2> QED
    BY <1>1, <2>1
<1>7. ReadUpto(n) \in Seq(Pairs) /\ Len(ReadUpto(n)) = len
  <2>1. ReadUpto(n) \in Seq(Pairs)
    BY <1>5, <1>6
  <2> QED
    BY <1>5, <1>6, <2>1, LenProperties
<1>8. \A i \in 1 .. len : ReadUpto(n)[i][1] = session.pos + i - 1
  BY <1>3, <1>5
<1>9. Unbroken(ReadUpto(n), session.pos)
  BY <1>5, <1>8 DEF Unbroken
<1>10. Rising(ReadUpto(n), session.pos, n + 1)
  BY <1>1, <1>5, <1>8 DEF Rising, len
<1>11. n < length => len = n + 1 - session.pos
  BY <1>1 DEF len
<1>12. ASSUME touched = "no" PROVE n < length /\ Genuine(ReadUpto(n))
  <2>1. written = fetched /\ session.pos .. n \subseteq written
    BY <1>12 DEF FileOK
  <2>2. n \in written /\ n < length
    BY <1>1, <2>1 DEF FileOK
  <2>3. \A i \in 1 .. len : ReadUpto(n)[i][2] = (ReadUpto(n)[i][1] \in written)
    BY <1>3, <1>5
  <2>4. \A i \in 1 .. len : session.pos + i - 1 \in session.pos .. n
    BY <1>1, <1>6, <1>11, <2>2
  <2>5. \A i \in 1 .. len : ReadUpto(n)[i][2]
    BY <1>8, <2>1, <2>3, <2>4
  <2> QED
    BY <1>5, <2>2, <2>5 DEF Genuine
<1> QED
  BY <1>7, <1>9, <1>10, <1>11, <1>12

\* What comes from before a position, and what comes from there on.
LEMMA Concat ==
  ASSUME NEW s \in Seq(Pairs), NEW t \in Seq(Pairs),
         NEW from \in Int, NEW mid \in Int, NEW to \in Int, from <= mid, mid <= to,
         Rising(s, from, mid), Rising(t, mid, to)
  PROVE  /\ s \o t \in Seq(Pairs) /\ Len(s \o t) = Len(s) + Len(t)
         /\ Rising(s \o t, from, to)
         /\ Unbroken(s, from) /\ mid = from + Len(s) /\ Unbroken(t, mid) =>
              Unbroken(s \o t, from)
         /\ Genuine(s) /\ Genuine(t) => Genuine(s \o t)
<1>1. /\ Len(s) \in Nat /\ DOMAIN s = 1 .. Len(s)
      /\ Len(t) \in Nat /\ DOMAIN t = 1 .. Len(t)
      /\ s \o t \in Seq(Pairs) /\ Len(s \o t) = Len(s) + Len(t)
      /\ DOMAIN (s \o t) = 1 .. Len(s) + Len(t)
      /\ \A i \in 1 .. Len(s) + Len(t) :
           (s \o t)[i] = IF i <= Len(s) THEN s[i] ELSE t[i - Len(s)]
  BY LenProperties, ConcatProperties
<1>2. /\ \A i \in 1 .. Len(s) : s[i][1] \in Int
      /\ \A i \in 1 .. Len(t) : t[i][1] \in Int
  <2>1. /\ \A i \in 1 .. Len(s) : s[i] \in Pairs
        /\ \A i \in 1 .. Len(t) : t[i] \in Pairs
    BY <1>1, ElementOfSeq
  <2> QED
    BY <2>1 DEF Pairs
<1> DEFINE r == s \o t
<1> HIDE DEF r
<1>3. \A i \in 1 .. Len(s) + Len(t) :
        \/ i \in 1 .. Len(s) /\ r[i] = s[i]
        \/ i - Len(s) \in 1 .. Len(t) /\ r[i] = t[i - Len(s)] /\ i > Len(s)
  BY <1>1 DEF r
<1>4. Rising(r, from, to)
  <2>1. ASSUME NEW i \in 1 .. Len(s) + Len(t)
        PROVE  /\ from <= r[i][1] /\ r[i][1] < to /\ r[i][1] \in Int
               /\ i <= Len(s) => r[i][1] < mid
               /\ i > Len(s) => mid <= r[i][1]
    <3>1. CASE i \in 1 .. Len(s) /\ r[i] = s[i]
      <4>1. i \in DOMAIN s /\ s[i][1] \in Int /\ i <= Len(s)
        BY <1>1, <1>2, <3>1
      <4>2. from <= s[i][1] /\ s[i][1] < mid
        BY <4>1 DEF Rising
      <4> QED
        BY <3>1, <4>1, <4>2
    <3>2. CASE i - Len(s) \in 1 .. Len(t) /\ r[i] = t[i - Len(s)] /\ i > Len(s)
      <4>1. i - Len(s) \in DOMAIN t /\ t[i - Len(s)][1] \in Int
        BY <1>1, <1>2, <3>2
      <4>2. mid <= t[i - Len(s)][1] /\ t[i - Len(s)][1] < to
        BY <4>1 DEF Rising
      <4> QED
        BY <1>1, <3>2, <4>1, <4>2
    <3> QED
      BY <1>3, <3>1, <3>2
  <2>2. ASSUME NEW i \in 1 .. Len(s) + Len(t), NEW j \in 1 .. Len(s) + Len(t), i < j
        PROVE  r[i][1] < r[j][1]
    <3>1. CASE j <= Len(s)
      <4>1. i \in DOMAIN s /\ j \in DOMAIN s /\ r[i] = s[i] /\ r[j] = s[j]
        BY <1>1, <1>3, <2>2, <3>1
      <4> QED
        BY <2>2, <4>1 DEF Rising
    <3>2. CASE i > Len(s)
      <4>1. /\ i - Len(s) \in DOMAIN t /\ j - Len(s) \in DOMAIN t /\ i - Len(s) < j - Len(s)
            /\ r[i] = t[i - Len(s)] /\ r[j] = t[j - Len(s)]
        BY <1>1, <1>3, <2>2, <3>2
      <4> QED
        BY <4>1 DEF Rising
    <3>3. CASE i <= Len(s) /\ j > Len(s)
      BY <2>1, <3>3
    <3> QED
      BY <1>1, <3>1, <3>2, <3>3
  <2> QED
    BY <1>1, <2>1, <2>2 DEF Rising, r
<1>5. Unbroken(s, from) /\ mid = from + Len(s) /\ Unbroken(t, mid) => Unbroken(r, from)
  BY <1>1, <1>2, <1>3 DEF Unbroken, r
<1>6. Genuine(s) /\ Genuine(t) => Genuine(r)
  BY <1>1, <1>3 DEF Genuine, r
<1> QED
  BY <1>1, <1>4, <1>5, <1>6 DEF r

\* The part of a sequence that was sent.
LEMMA Prefix ==
  ASSUME NEW s \in Seq(Pairs), NEW t \in Seq(Pairs), NEW from, NEW to
  PROVE  /\ Rising(s \o t, from, to) => Rising(s, from, to)
         /\ Unbroken(s \o t, from) => Unbroken(s, from)
         /\ Genuine(s \o t) => Genuine(s)
<1>1. /\ DOMAIN s \subseteq DOMAIN (s \o t)
      /\ \A i \in DOMAIN s : (s \o t)[i] = s[i]
  BY LenProperties, ConcatProperties
<1> QED
  BY <1>1 DEF Rising, Unbroken, Genuine

LEMMA Later ==
  ASSUME NEW s \in Seq(Pairs), NEW from \in Int, NEW a \in Int, NEW b \in Int, a <= b,
         Rising(s, from, a)
  PROVE  Rising(s, from, b)
<1>1. \A i \in DOMAIN s : s[i] \in Pairs
  BY ElementOfSeq, LenProperties
<1> QED
  BY <1>1 DEF Rising, Pairs

-----------------------------------------------------------------------------
\* A session that begins.
Started(step, first, last) ==
  [NoSession EXCEPT !.step = step, !.first = first, !.last = last, !.pos = first]

LEMMA NoSessionIs ==
  NoSession \in SessionType /\ NoSession.step = "none" /\ ~NoSession.short
<1>1. <<>> \in Seq(Pairs) /\ 0 \in 0 .. Size /\ 0 \in Nat /\ "none" \in Steps
  BY PlaybackAssumption DEF Steps
<1> QED
  BY <1>1 DEF NoSession, SessionType

LEMMA StartedIs ==
  ASSUME NEW step \in Steps, NEW first \in 0 .. Size, NEW last \in {Open} \cup 0 .. Size
  PROVE  /\ Started(step, first, last) \in SessionType
         /\ Started(step, first, last).step = step
         /\ Started(step, first, last).first = first
         /\ Started(step, first, last).last = last
         /\ Started(step, first, last).pos = first
         /\ ~Started(step, first, last).short
<1>1. NoSession \in SessionType /\ ~NoSession.short
  BY NoSessionIs
<1> DEFINE s1 == [NoSession EXCEPT !.step = step]
           s2 == [s1 EXCEPT !.first = first]
           s3 == [s2 EXCEPT !.last = last]
           s4 == [s3 EXCEPT !.pos = first]
<1>2. Started(step, first, last) = s4
  BY DEF Started
<1>3. s1 \in SessionType /\ s1.step = step /\ ~s1.short
  BY <1>1 DEF SessionType
<1> HIDE DEF s1
<1>4. s2 \in SessionType /\ s2.step = step /\ s2.first = first /\ ~s2.short
  BY <1>3 DEF SessionType
<1> HIDE DEF s2
<1>5. /\ s3 \in SessionType /\ s3.step = step /\ s3.first = first /\ s3.last = last
      /\ ~s3.short
  BY <1>4 DEF SessionType
<1> HIDE DEF s3
<1>6. first \in Nat
  BY PlaybackAssumption
<1>7. /\ s4 \in SessionType /\ s4.step = step /\ s4.first = first /\ s4.last = last
      /\ s4.pos = first /\ ~s4.short
  BY <1>5, <1>6 DEF SessionType
<1> QED
  BY <1>2, <1>7

LEMMA EmptyIs ==
  /\ <<>> \in Seq(Pairs) /\ Len(<<>>) = 0
  /\ \A from, to : Rising(<<>>, from, to) /\ Unbroken(<<>>, from)
  /\ Genuine(<<>>)
BY DEF Rising, Unbroken, Genuine

LEMMA InvInit == Init => IInv
<1> SUFFICES ASSUME Init PROVE IInv
  OBVIOUS
<1>1. NoSession \in SessionType /\ NoSession.step = "none" /\ ~NoSession.short
  BY NoSessionIs
<1>2. <<>> \in Seq(Pairs) /\ 0 \in 0 .. MaxRequests /\ 0 \in 0 .. MaxStops
  BY PlaybackAssumption
<1>3. FieldsOK
  BY <1>1, <1>2 DEF Init, FieldsOK, FileOK
<1>4. SessionInv
  BY <1>1, EmptyIs DEF Init, SessionInv, Over
<1>5. ProxyInv
  BY <1>1 DEF Init, ProxyInv, Over
<1> QED
  BY <1>3, <1>4, <1>5 DEF IInv

\* The download, its end and what the user does to the file leave the session
\* alone.
LEMMA DownloadStep ==
  ASSUME IInv, Write \/ Report \/ StopOrGoOn \/ UserCuts \/ UserReplaces
  PROVE  IInv'
<1>1. FileOK' /\ (touched' = "no" => touched = "no")
  <2>1. FileOK /\ Bytes = 0 .. Size - 1 /\ Size \in Nat
    BY PlaybackAssumption DEF IInv, FieldsOK, Bytes
  <2>2. CASE Write
    <3>1. PICK b \in Bytes \ fetched :
            /\ fetched' = fetched \cup {b}
            /\ \/ /\ written' = written \cup {b}
                  /\ length' = IF b < length THEN length ELSE b + 1
               \/ touched = "gone" /\ UNCHANGED <<written, length>>
      BY <2>2 DEF Write
    <3>2. reported' = reported /\ touched' = touched
      BY <2>2 DEF Write
    <3>3. CASE UNCHANGED <<written, length>> /\ touched = "gone"
      BY <2>1, <3>1, <3>2, <3>3 DEF FileOK
    <3>4. CASE written' = written \cup {b} /\ length' = IF b < length THEN length ELSE b + 1
      <4>1. b \in 0 .. Size - 1 /\ length \in 0 .. Size
        BY <2>1, <3>1 DEF FileOK
      <4>2. length' \in 0 .. Size /\ length <= length' /\ b < length'
        BY <2>1, <3>4, <4>1
      <4>3. 0 .. length - 1 \subseteq 0 .. length' - 1 /\ b \in 0 .. length' - 1
        <5>1. b \in Nat /\ length \in Nat /\ length' \in Nat
          BY <2>1, <4>1, <4>2
        <5>2. \A m, n \in Nat : m <= n => 0 .. m - 1 \subseteq 0 .. n - 1
          OBVIOUS
        <5>3. 0 .. length - 1 \subseteq 0 .. length' - 1
          BY <4>2, <5>1, <5>2, Zenon
        <5>4. \A m, n \in Nat : m < n => m \in 0 .. n - 1
          OBVIOUS
        <5>5. b \in 0 .. length' - 1
          BY <4>2, <5>1, <5>4, Zenon
        <5> QED
          BY <5>3, <5>5
      <4>4. written' \subseteq 0 .. length' - 1
        BY <2>1, <3>4, <4>3 DEF FileOK
      <4>5. /\ fetched' \subseteq Bytes /\ reported' \subseteq fetched'
            /\ written' \subseteq fetched'
        BY <2>1, <3>1, <3>2, <3>4 DEF FileOK
      <4> QED
        BY <2>1, <3>1, <3>2, <3>4, <4>2, <4>4, <4>5 DEF FileOK
    <3> QED
      BY <3>1, <3>3, <3>4
  <2>3. CASE Report \/ StopOrGoOn
    <3>1. /\ UNCHANGED <<fetched, written, length, touched>>
          /\ reported' = fetched \/ reported' = reported
      BY <2>3 DEF Report, StopOrGoOn, file
    <3> QED
      BY <2>1, <3>1 DEF FileOK
  <2>4. CASE UserCuts
    <3>1. /\ length' \in 0 .. length - 1 /\ written' = written \cap (0 .. length' - 1)
          /\ UNCHANGED <<fetched, reported>> /\ touched' \in {"cut", "gone"}
      BY <2>4 DEF UserCuts
    <3>2. length' \in 0 .. Size
      BY <2>1, <3>1 DEF FileOK
    <3> QED
      BY <2>1, <3>1, <3>2 DEF FileOK
  <2>5. CASE UserReplaces
    BY <2>1, <2>5 DEF UserReplaces, FileOK
  <2> QED
    BY <2>2, <2>3, <2>4, <2>5
<1>2. active' \in BOOLEAN
  BY DEF Write, Report, StopOrGoOn, UserCuts, UserReplaces, IInv, FieldsOK
<1>3. stops' \in 0 .. MaxStops
  <2>1. stops' = stops \/ (stops < MaxStops /\ stops' = stops + 1)
    BY DEF Write, Report, StopOrGoOn, UserCuts, UserReplaces
  <2> QED
    BY <2>1, PlaybackAssumption DEF IInv, FieldsOK
<1>4. UNCHANGED <<proxy, player, session, body, requests>>
  BY DEF Write, Report, StopOrGoOn, UserCuts, UserReplaces, DownloadFrame
<1>5. FieldsOK' /\ ProxyInv'
  BY <1>1, <1>2, <1>3, <1>4 DEF IInv, FieldsOK, ProxyInv
<1>6. SessionInv'
  BY <1>1, <1>4 DEF IInv, SessionInv, SentInv, Rising, Unbroken, Genuine
<1> QED
  BY <1>5, <1>6 DEF IInv

LEMMA ProxyStep ==
  ASSUME IInv, ProxyStart \/ ProxyStop \/ PlayerLeaves
  PROVE  IInv'
<1>1. UNCHANGED <<download, body, requests>> /\ player' \in BOOLEAN /\ proxy' \in BOOLEAN
  BY DEF ProxyStart, ProxyStop, PlayerLeaves, IInv, FieldsOK
<1>2. player' => proxy'
  BY DEF ProxyStart, ProxyStop, PlayerLeaves, IInv, ProxyInv
<1>3. CASE session' = session /\ (session.step \in Over \/ proxy' = proxy)
  <2>1. SessionInv'
    BY <1>1, <1>3 DEF download, file, IInv, SessionInv, SentInv, Rising, Unbroken, Genuine
  <2> QED
    BY <1>1, <1>2, <1>3, <2>1 DEF download, file, IInv, FieldsOK, FileOK, ProxyInv
<1>4. CASE session' = [session EXCEPT !.step = "dropped"]
  <2>1. /\ session' \in SessionType /\ session'.step = "dropped"
        /\ session'.first = session.first /\ session'.last = session.last
        /\ session'.short = session.short
    BY <1>4 DEF IInv, FieldsOK, SessionType, Steps
  <2>2. FieldsOK' /\ ProxyInv'
    BY <1>1, <1>2, <2>1 DEF download, file, IInv, FieldsOK, FileOK, ProxyInv, Over
  <2>3. SessionInv'
    BY <1>1, <2>1 DEF download, file, IInv, SessionInv, Rising, Unbroken, Genuine, Over
  <2> QED
    BY <2>2, <2>3 DEF IInv
<1>5. \/ session' = session /\ (session.step \in Over \/ proxy' = proxy)
      \/ session' = [session EXCEPT !.step = "dropped"]
  BY DEF ProxyStart, ProxyStop, PlayerLeaves, IInv, ProxyInv
<1> QED
  BY <1>3, <1>4, <1>5

LEMMA RequestStep ==
  ASSUME IInv, NEW first \in 0 .. Size, NEW last \in {Open} \cup 0 .. Size,
         NEW known \in BOOLEAN, Request(first, last, known)
  PROVE  IInv'
<1>1. PICK end \in {EndOf(last, known)} :
        \/ session' = Started("refused", first, end)
        \/ session' = Started("stream", first, end) /\ end >= first
  BY DEF Request, Started
<1>2. PICK step \in {"refused", "stream"} :
        session' = Started(step, first, end) /\ (step = "stream" => end >= first)
  BY <1>1
<1>3. end \in {Open} \cup 0 .. Size
  BY PlaybackAssumption DEF EndOf, Open, IInv, FieldsOK, FileOK
<1>4. step \in Steps
  BY DEF Steps
<1>5. /\ session' \in SessionType /\ session'.step = step /\ session'.first = first
      /\ session'.pos = first /\ session'.last = end /\ ~session'.short
  <2> DEFINE S == Started(step, first, end)
  <2>1. /\ S \in SessionType /\ S.step = step /\ S.first = first
        /\ S.last = end /\ S.pos = first /\ ~S.short
    BY <1>3, <1>4, StartedIs
  <2>2. session' = S
    BY <1>2
  <2> HIDE DEF S
  <2> QED
    BY <2>1, <2>2
<1>6. requests' \in 0 .. MaxRequests
  <2>1. requests < MaxRequests /\ requests' = requests + 1 /\ requests \in 0 .. MaxRequests
    BY DEF Request, IInv, FieldsOK
  <2> QED
    BY <2>1, PlaybackAssumption
<1>7. proxy /\ player' \in BOOLEAN /\ body' = <<>> /\ UNCHANGED <<download, proxy>>
  BY DEF Request
<1>8. FieldsOK'
  BY <1>5, <1>6, <1>7, EmptyIs DEF download, file, IInv, FieldsOK, FileOK
<1>9. ProxyInv'
  BY <1>7 DEF ProxyInv
<1>10. SessionInv'
  <2>1. first \in Int /\ end \in Int
    BY <1>3, PlaybackAssumption DEF Open
  <2>2. SentInv(body)'
    BY <1>5, <1>7, <2>1, EmptyIs DEF SentInv
  <2>3. /\ Rising(body', session'.first, session'.last + 1)
        /\ Unbroken(body', session'.first) /\ Genuine(body')
    BY <1>7, EmptyIs
  <2>4. step = "stream" => session'.pos <= session'.last
    BY <1>2, <1>5, <2>1
  <2>5. session'.first <= session'.pos
    BY <1>5, <2>1
  <2> QED
    BY <1>5, <2>2, <2>3, <2>4, <2>5 DEF SessionInv
<1> QED
  BY <1>8, <1>9, <1>10 DEF IInv

-----------------------------------------------------------------------------
(* The session's steps.                                                    *)

\* A step that changes only what the session does next, and what it holds.
LEMMA SessionFrameKeeps ==
  ASSUME IInv, SessionFrame, proxy, session' \in SessionType, body' \in Seq(Pairs)
  PROVE  FieldsOK' /\ ProxyInv' /\ touched' = touched
BY DEF SessionFrame, download, file, IInv, FieldsOK, FileOK, ProxyInv

LEMMA StreamStep ==
  ASSUME IInv, Stream
  PROVE  IInv'
<1>1. /\ session \in SessionType /\ session.step = "stream" /\ proxy
      /\ SentInv(body) /\ session.pos <= session.last /\ session.first <= session.pos
      /\ body' = body /\ SessionFrame /\ body \in Seq(Pairs) /\ FileOK /\ SessionInv
  BY DEF Stream, Does, IInv, FieldsOK, SessionInv, Over
<1>2. ASSUME NEW step \in {"wait", "dropped", "refused"},
             session' = [session EXCEPT !.step = step]
      PROVE  IInv'
  <2>1. /\ session' \in SessionType /\ session'.step = step
        /\ session'.first = session.first /\ session'.pos = session.pos
        /\ session'.last = session.last /\ session'.short = session.short
    BY <1>1, <1>2 DEF SessionType, Steps
  <2>2. FieldsOK' /\ ProxyInv' /\ touched' = touched
    BY <1>1, <2>1, SessionFrameKeeps
  <2>3. SentInv(body)'
    BY <1>1, <2>1, <2>2 DEF SentInv, Rising, Unbroken, Genuine
  <2>4. SessionInv'
    BY <1>1, <2>1, <2>2, <2>3 DEF SessionInv, Rising, Unbroken, Genuine
  <2> QED
    BY <2>2, <2>4 DEF IInv
<1>3. ASSUME NEW end \in Bytes, Found(end), ReadUpto(Upto(end)) # <<>>,
             session' = [session EXCEPT
                           !.step = IF session.announced THEN "body" ELSE "header",
                           !.announced = TRUE,
                           !.pos = Upto(end) + 1,
                           !.short = @ \/ Upto(end) >= length,
                           !.data = ReadUpto(Upto(end))]
      PROVE  IInv'
  <2> DEFINE n == Upto(end)
             step == IF session.announced THEN "body" ELSE "header"
             short == session.short \/ n >= length
             data == ReadUpto(n)
  <2>1. /\ session.pos \in Nat /\ session.first \in Nat /\ session.last \in Int
        /\ end \in Int /\ session.pos <= end /\ length \in Int
    BY <1>1, <1>3, PlaybackAssumption DEF SessionType, Bytes, Found, Open, FileOK
  <2>2. n \in Int /\ session.pos <= n /\ n <= end /\ n <= session.last
    BY <1>1, <2>1, UptoEnds
  <2>3. session.pos .. n \subseteq fetched
    <3>1. session.pos .. end \subseteq fetched
      BY <1>1, <1>3 DEF Found, Segments, FileOK
    <3>2. session.pos .. n \subseteq session.pos .. end
      BY <2>1, <2>2
    <3> QED
      BY <3>1, <3>2
  <2>4. /\ data \in Seq(Pairs) /\ Rising(data, session.pos, n + 1)
        /\ Unbroken(data, session.pos)
        /\ n < length => Len(data) = n + 1 - session.pos
        /\ touched = "no" => n < length /\ Genuine(data)
    BY <1>1, <1>3, <2>1, <2>2, <2>3, ReadIs
  <2>5. /\ n + 1 \in Nat /\ step \in {"body", "header"} /\ step \in Steps
        /\ short \in BOOLEAN
    BY <1>1, <2>1, <2>2 DEF Steps, SessionType
  <2>6. ~short => ~session.short /\ n < length
    BY <2>1, <2>2
  <2>7. touched = "no" => ~short
    BY <1>1, <2>1, <2>2, <2>4 DEF SessionInv
  <2> HIDE DEF n, step, short, data
  <2>8. session' = [session EXCEPT !.step = step, !.announced = TRUE, !.pos = n + 1,
                                   !.short = short, !.data = data]
    BY <1>3 DEF n, step, short, data
  <2>9. /\ session' \in SessionType /\ session'.step = step
        /\ session'.first = session.first /\ session'.last = session.last
        /\ session'.pos = n + 1 /\ session'.data = data /\ session'.short = short
    BY <1>1, <2>4, <2>5, <2>8 DEF SessionType
  <2>10. FieldsOK' /\ ProxyInv' /\ touched' = touched
    BY <1>1, <2>9, SessionFrameKeeps
  <2>11. /\ Len(body \o data) = Len(body) + Len(data)
         /\ Rising(body \o data, session.first, n + 1)
         /\ Unbroken(body, session.first) /\ session.pos = session.first + Len(body)
              /\ Unbroken(data, session.pos) =>
              Unbroken(body \o data, session.first)
         /\ Genuine(body) /\ Genuine(data) => Genuine(body \o data)
    <3>1. Rising(body, session.first, session.pos)
      BY <1>1 DEF SentInv
    <3>2. session.pos <= n + 1
      BY <2>1, <2>2
    <3> QED
      BY <1>1, <2>1, <2>2, <2>4, <3>1, <3>2, Concat
  <2>12. ~short => /\ Unbroken(body \o data, session.first)
                  /\ n + 1 = session.first + Len(body \o data)
    <3>1. Len(body) \in Nat /\ Len(data) \in Nat
      BY <1>1, <2>4, LenProperties
    <3>2. ~short => Unbroken(body, session.first)
                    /\ session.pos = session.first + Len(body)
      BY <1>1, <2>6 DEF SentInv
    <3>3. ~short => Len(data) = n + 1 - session.pos
      BY <2>4, <2>6
    <3>4. ~short => Unbroken(body \o data, session.first)
      BY <2>4, <2>11, <3>2
    <3>5. Len(body \o data) = Len(body) + Len(data)
      BY <2>11
    <3>6. n \in Int /\ session.pos \in Int /\ session.first \in Int
      BY <2>1, <2>2
    <3>7. ASSUME ~short
          PROVE  n + 1 = session.first + Len(body \o data)
      <4>1. session.pos = session.first + Len(body)
        BY <3>2, <3>7
      <4>2. Len(data) = n + 1 - session.pos
        BY <3>3, <3>7
      <4>3. n + 1 = session.pos + Len(data)
        BY <3>1, <3>6, <4>2
      <4>4. session.pos + Len(data) = session.first + (Len(body) + Len(data))
        BY <3>1, <3>6, <4>1
      <4> QED
        BY <3>5, <4>3, <4>4
    <3> QED
      BY <3>4, <3>7
  <2>13. touched = "no" => Genuine(body \o data)
    BY <1>1, <2>4, <2>11 DEF SentInv
  <2>14. SentInv(body \o session.data)'
    BY <1>1, <2>9, <2>10, <2>11, <2>12, <2>13 DEF SentInv
  <2>15. session'.pos <= session'.last + 1 /\ session'.first <= session'.pos
    BY <1>1, <2>1, <2>2, <2>9
  <2>16. ~short => ~session.short
    BY <2>6
  <2>17. /\ Rising(body', session'.first, session'.last + 1)
         /\ ~session'.short => Unbroken(body', session'.first)
         /\ touched' = "no" => ~session'.short /\ Genuine(body')
    BY <1>1, <2>7, <2>9, <2>10, <2>16 DEF SessionInv
  <2> QED
    BY <2>5, <2>9, <2>10, <2>14, <2>15, <2>17 DEF IInv, SessionInv
<1> QED
  BY <1>2, <1>3 DEF Stream

LEMMA HeaderStep ==
  ASSUME IInv, HeaderWritten
  PROVE  IInv'
<1>1. /\ session \in SessionType /\ session.step = "header" /\ proxy
      /\ body' = body /\ SessionFrame /\ body \in Seq(Pairs) /\ SessionInv
      /\ session.first <= session.pos
  BY DEF HeaderWritten, Does, IInv, FieldsOK, SessionInv, Over
<1>2. PICK step \in {"body", "dropped"} : session' = [session EXCEPT !.step = step]
  BY DEF HeaderWritten
<1>3. /\ session' \in SessionType /\ session'.step = step
      /\ session'.first = session.first /\ session'.last = session.last
      /\ session'.pos = session.pos /\ session'.data = session.data
      /\ session'.short = session.short
  BY <1>1, <1>2 DEF SessionType, Steps
<1>4. FieldsOK' /\ ProxyInv' /\ touched' = touched
  BY <1>1, <1>3, SessionFrameKeeps
<1>5. SentInv(body \o session.data) /\ session.pos <= session.last + 1
  BY <1>1 DEF SessionInv
<1>6. SentInv(body \o session.data)'
  BY <1>1, <1>3, <1>4, <1>5 DEF SentInv
<1>7. SessionInv'
  BY <1>1, <1>3, <1>4, <1>5, <1>6 DEF SessionInv
<1> QED
  BY <1>4, <1>7 DEF IInv

LEMMA BodyStep ==
  ASSUME IInv, BodyWritten
  PROVE  IInv'
<1>1. /\ session \in SessionType /\ session.step = "body" /\ proxy
      /\ SessionFrame /\ body \in Seq(Pairs) /\ SessionInv
      /\ session.first \in Int /\ session.pos \in Int /\ session.last \in Int
      /\ session.data \in Seq(Pairs) /\ session.first <= session.pos
  BY PlaybackAssumption
  DEF BodyWritten, Does, IInv, FieldsOK, SessionType, SessionInv, Open, Over
<1>2. SentInv(body \o session.data) /\ session.pos <= session.last + 1
  BY <1>1 DEF SessionInv
<1>3. CASE player
  <2> DEFINE step == IF Finished THEN "done" ELSE "stream"
             sent == body \o session.data
  <2>1. sent \in Seq(Pairs) /\ Len(sent) \in Nat
    BY <1>1, ConcatProperties, LenProperties
  <2>2. body' = sent /\ session' = [session EXCEPT !.data = <<>>, !.step = step]
    BY <1>3 DEF BodyWritten
  <2>3. step \in Steps /\ <<>> \in Seq(Pairs)
    BY DEF Steps
  <2>4. /\ step = "done" => session.pos = session.last + 1
        /\ step = "stream" => session.pos <= session.last
        /\ step \in {"done", "stream"}
    BY <1>1, <1>2 DEF Finished
  <2>5. SentInv(sent)
    BY <1>2
  <2> HIDE DEF sent, step
  <2>6. /\ session' \in SessionType /\ session'.step = step
        /\ session'.first = session.first /\ session'.last = session.last
        /\ session'.pos = session.pos /\ session'.short = session.short
    BY <1>1, <2>2, <2>3 DEF SessionType
  <2>7. FieldsOK' /\ ProxyInv' /\ touched' = touched
    BY <1>1, <2>1, <2>2, <2>6, SessionFrameKeeps
  <2>8. SentInv(body)'
    BY <2>2, <2>5, <2>6, <2>7 DEF SentInv
  <2>9. Rising(body', session'.first, session'.last + 1)
    <3>1. Rising(sent, session.first, session.pos)
      BY <2>5 DEF SentInv
    <3>2. Rising(sent, session.first, session.last + 1)
      BY <1>1, <1>2, <2>1, <3>1, Later
    <3> QED
      BY <2>2, <2>6, <3>2
  <2>10. /\ ~session'.short => Unbroken(body', session'.first)
         /\ touched' = "no" => ~session'.short /\ Genuine(body')
    BY <1>1, <2>2, <2>5, <2>6, <2>7 DEF SentInv, SessionInv
  <2>11. step = "done" /\ ~session'.short =>
           Len(body') = session'.last - session'.first + 1
    BY <1>1, <2>1, <2>2, <2>4, <2>5, <2>6 DEF SentInv
  <2>12. step = "stream" => session'.pos <= session'.last
    BY <2>4, <2>6
  <2>13. session'.first <= session'.pos
    BY <1>1, <2>6
  <2>14. SessionInv'
    BY <2>4, <2>6, <2>8, <2>9, <2>10, <2>11, <2>12, <2>13 DEF SessionInv
  <2> QED
    BY <2>7, <2>14 DEF IInv
<1>4. CASE ~player
  <2>1. session' = [session EXCEPT !.step = "dropped"] /\ body' = body
    BY <1>4 DEF BodyWritten
  <2>2. /\ session' \in SessionType /\ session'.step = "dropped"
        /\ session'.first = session.first /\ session'.last = session.last
        /\ session'.short = session.short
    BY <1>1, <2>1 DEF SessionType, Steps
  <2>3. FieldsOK' /\ ProxyInv' /\ touched' = touched
    BY <1>1, <2>1, <2>2, SessionFrameKeeps
  <2>4. SessionInv'
    BY <1>1, <2>1, <2>2, <2>3 DEF SessionInv, Over
  <2> QED
    BY <2>3, <2>4 DEF IInv
<1> QED
  BY <1>3, <1>4

LEMMA TimerStep ==
  ASSUME IInv, TimerFires
  PROVE  IInv'
<1>1. /\ session \in SessionType /\ session.step = "wait" /\ proxy
      /\ body' = body /\ SessionFrame /\ body \in Seq(Pairs) /\ SessionInv
      /\ session' = [session EXCEPT !.step = "stream"]
      /\ session.first <= session.pos /\ session.pos <= session.last /\ SentInv(body)
  BY DEF TimerFires, Does, IInv, FieldsOK, SessionInv, Over
<1>2. /\ session' \in SessionType /\ session'.step = "stream"
      /\ session'.first = session.first /\ session'.last = session.last
      /\ session'.pos = session.pos /\ session'.short = session.short
  BY <1>1 DEF SessionType, Steps
<1>3. FieldsOK' /\ ProxyInv' /\ touched' = touched
  BY <1>1, <1>2, SessionFrameKeeps
<1>4. SentInv(body)'
  BY <1>1, <1>2, <1>3 DEF SentInv
<1>5. SessionInv'
  BY <1>1, <1>2, <1>3, <1>4 DEF SessionInv
<1> QED
  BY <1>3, <1>5 DEF IInv

-----------------------------------------------------------------------------
(* The theorems.                                                           *)

LEMMA InvStep == IInv /\ [Next]_vars => IInv'
<1> SUFFICES ASSUME IInv, [Next]_vars PROVE IInv'
  OBVIOUS
<1>1. CASE UNCHANGED vars
  BY <1>1 DEF vars, download, file, IInv, FieldsOK, FileOK, ProxyInv, SessionInv, SentInv,
              Rising, Unbroken, Genuine
<1>2. CASE Next
  BY <1>2, DownloadStep, ProxyStep, RequestStep, StreamStep, HeaderStep, BodyStep, TimerStep
  DEF Next, SessionStep
<1> QED
  BY <1>1, <1>2

\* The inductive invariant holds in every reachable state.
THEOREM Invariant == Spec => []IInv
BY InvInit, InvStep, PTL DEF Spec

\* Every variable has its type, and a session that is not over runs in a proxy
\* that does and has a range.
THEOREM TypeCorrect == Spec => []TypeOK
<1>1. IInv => TypeOK
  <2> SUFFICES ASSUME IInv PROVE TypeOK
    OBVIOUS
  <2>1. session.step \notin Over =>
          proxy /\ session.first <= session.pos /\ session.pos <= session.last + 1
    <3>1. session.step \in Steps /\ session.last \in Int /\ session.pos \in Int
      BY PlaybackAssumption DEF IInv, FieldsOK, SessionType, Open
    <3>2. session.step \notin Over => session.step \in {"stream", "wait", "header", "body"}
      BY <3>1 DEF Steps, Over
    <3> QED
      BY <3>1, <3>2 DEF IInv, ProxyInv, SessionInv
  <2> QED
    BY <2>1 DEF TypeOK, IInv, FieldsOK, FileOK, ProxyInv, SessionType
<1> QED
  BY <1>1, Invariant, PTL

\* The player gets bytes of the range it asked for, in order and none twice; unless
\* a read was short they are all of them, from the first on; and none is short and
\* every byte was written before, as long as the user leaves the file alone.
THEOREM PlayerGetsTheFile == Spec => []BodyIsFile
<1>1. IInv => BodyIsFile
  <2> SUFFICES ASSUME IInv PROVE BodyIsFile
    OBVIOUS
  <2>1. /\ Rising(body, session.first, session.last + 1) /\ SessionInv
        /\ session.first \in Int /\ session.last \in Int
        /\ \A i \in DOMAIN body : body[i][1] \in Int
    <3>1. \A i \in DOMAIN body : body[i] \in Pairs
      BY ElementOfSeq, LenProperties DEF IInv, FieldsOK
    <3> QED
      BY <3>1, PlaybackAssumption DEF IInv, FieldsOK, SessionInv, SessionType, Open, Pairs
  <2>2. \A i \in DOMAIN body :
          /\ body[i][1] \in session.first .. session.last
          /\ \A j \in DOMAIN body : i < j => body[i][1] < body[j][1]
    BY <2>1 DEF Rising
  <2> QED
    BY <2>1, <2>2 DEF SessionInv, Unbroken, Genuine, BodyIsFile
<1> QED
  BY <1>1, Invariant, PTL
=============================================================================
