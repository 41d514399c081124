---------------------------- MODULE EventLog_proofs ----------------------------
(***************************************************************************)
(* Proofs about the event log: what an orderly session leaves in the file, *)
(* how much a crash can cost, in which order a replay hands events out,    *)
(* and that the log implements LossyLog. They rest on one inductive        *)
(* invariant, LogInv, about the stream of pieces that is in the file or on *)
(* its way to it.                                                          *)
(***************************************************************************)
EXTENDS EventLog, FiniteSetTheorems, SequenceTheorems, TLAPS

\* The pieces written so far that a crash has not lost: a flush moves them
\* from the buffer to the file and leaves their order alone.
Stream == file \o buffer

\* The sequences are sequences.
Shape ==
  /\ offered \in Seq(Session) /\ channel \in Seq(Event)
  /\ buffer \in Seq(Piece) /\ file \in Seq(Piece)
  /\ seq \in Nat /\ written \in Nat
  /\ session \in 0..MaxSessions
  /\ phase \in {"Down", "Up", "Closing"}
  /\ writer \in {"Gone", "Opening", "Idle", "Writing", "Flushing", "Closing"}

\* Where the process is, where its writer is, and what each then holds.
Lifecycle ==
  /\ writer = "Writing" <=> hand # Nothing
  /\ writer \in {"Gone", "Opening"} => buffer = << >>
  /\ writer = "Gone" => channel = << >>
  /\ writer = "Closing" => phase = "Closing" /\ channel = << >>
  /\ phase = "Down" => writer = "Gone"
  /\ phase # "Down" => session > 0 /\ session \notin crashed
  /\ phase # "Down" /\ writer = "Gone" => session \in failed
  /\ failed \cup crashed \subseteq 1..session
  /\ Len(channel) <= BufferSize

\* Events are offered session by session; a critical one is accepted or its
\* loss is reported.
Offers ==
  /\ Len(offered) <= MaxOffers
  /\ accepted \cup reported \subseteq DOMAIN offered /\ accepted \cap reported = {}
  /\ \A i \in DOMAIN offered : offered[i] \in 1..session
  /\ \A i, j \in DOMAIN offered : i < j => offered[i] <= offered[j]
  /\ Critical \cap DOMAIN offered \subseteq accepted \cup reported

\* Ours(id): an event accepted in the session that runs.
Ours(id) == id \in accepted /\ offered[id] = session

\* The channel is in order, and the writer's hand before it.
Queued ==
  /\ \A i \in DOMAIN channel :
       /\ Ours(channel[i]) /\ hand < channel[i]
       /\ \A j \in DOMAIN channel : i < j => channel[i] < channel[j]
  /\ hand = Nothing \/ Ours(hand)

\* The events that are accepted and not yet written, or none.
Waiting == Range(channel) \cup {hand}

\* A session that met no fault.
Whole(s) == s \notin failed \cup crashed

\* What is written was accepted, before everything that is still to come.
Known ==
  /\ \A i \in DOMAIN Stream : LET p == Stream[i] IN
       /\ p.id \in accepted /\ p.at \in 1..written
       /\ offered[p.id] = session => writer # "Opening" /\ p.seq <= seq
       /\ \A x \in Waiting : x # Nothing => p.id < x
  /\ \A i \in DOMAIN buffer : offered[buffer[i].id] = session

\* A newline follows its body, and a body that is followed by something else
\* or by nothing is of a session that met a fault.
Linked ==
  \A i \in DOMAIN Stream : LET p == Stream[i] IN
    /\ p.part = "end" => i > 1 /\ Stream[i - 1].part = "body" /\ Stream[i - 1].id = p.id
    /\ p.part = "torn" => offered[p.id] \in crashed
    /\ p.part = "body" /\ Whole(offered[p.id]) =>
         i + 1 \in DOMAIN Stream /\ Stream[i + 1].part = "end"

\* Bodies are in the order of their events, of their times and, within a
\* session, of their numbers.
Ordered ==
  \A i, j \in DOMAIN Stream : LET p == Stream[i]  q == Stream[j] IN
    j < i /\ p.part # "end" =>
      /\ q.id < p.id /\ q.at < p.at
      /\ offered[q.id] = offered[p.id] => q.seq < p.seq

\* An accepted event of a session without a fault is somewhere.
Complete ==
  \A id \in accepted : Whole(offered[id]) =>
    \/ id \in Waiting
    \/ \E i \in DOMAIN Stream : Stream[i].id = id /\ Stream[i].part = "body"

\* A sidecar holds the count of its session, which takes no event any more.
Metas ==
  \A s \in DOMAIN meta :
    s \in 1..session /\ meta[s] = Cardinality(AcceptedIn(s)) /\ (s = session => phase # "Up")

FileInv == Shape /\ Lifecycle /\ Offers /\ Queued /\ Known /\ Linked /\ Ordered /\ Complete /\ Metas

\* The events of session s that are not in the file for good.
SettledIds == {file[i].id : i \in Settled}
Lost(s) == AcceptedIn(s) \ SettledIds
Mid(s) == IF OpenedMidLine(s) THEN 1 ELSE 0

\* Events written since the last flush.
Unflushed == IF writer = "Flushing" THEN FlushInterval ELSE seq % FlushInterval

Losses ==
  \A s \in 1..session : s \notin failed =>
    IF s < session \/ phase = "Down"
    THEN Cardinality(Lost(s)) <= BufferSize + FlushInterval + Mid(s)
    ELSE Cardinality(Lost(s) \ Waiting) <= Unflushed + Mid(s)

LogInv == FileInv /\ Losses

-----------------------------------------------------------------------------
(* Sequences that grow at their end.                                        *)

\* t begins with s.
Begins(s, t) == Len(s) <= Len(t) /\ \A i \in DOMAIN s : t[i] = s[i]

\* What a concatenation is made of.
LEMMA Joined ==
  ASSUME NEW S, NEW s \in Seq(S), NEW t \in Seq(S)
  PROVE  /\ s \o t \in Seq(S) /\ Len(s \o t) = Len(s) + Len(t)
         /\ Len(s) \in Nat /\ Len(t) \in Nat
         /\ DOMAIN s = 1..Len(s) /\ DOMAIN t = 1..Len(t)
         /\ DOMAIN (s \o t) = 1..Len(s) + Len(t)
         /\ \A i \in 1..Len(s) : (s \o t)[i] = s[i]
         /\ \A i \in 1..Len(t) : (s \o t)[Len(s) + i] = t[i]
         /\ \A i \in 1..Len(s) + Len(t) :
              (s \o t)[i] = IF i <= Len(s) THEN s[i] ELSE t[i - Len(s)]
         /\ Begins(s, s \o t)
<1>1. /\ Len(s) \in Nat /\ Len(t) \in Nat /\ DOMAIN s = 1..Len(s) /\ DOMAIN t = 1..Len(t)
  BY LenProperties
<1>2. /\ s \o t \in Seq(S) /\ Len(s \o t) = Len(s) + Len(t)
      /\ \A i \in 1..Len(s) + Len(t) :
           (s \o t)[i] = IF i <= Len(s) THEN s[i] ELSE t[i - Len(s)]
  BY ConcatProperties
<1>3. DOMAIN (s \o t) = 1..Len(s) + Len(t)
  BY <1>2, LenProperties
<1>4. /\ \A i \in 1..Len(s) : (s \o t)[i] = s[i]
      /\ \A i \in 1..Len(t) : (s \o t)[Len(s) + i] = t[i]
  BY <1>1, <1>2
<1> QED
  BY <1>1, <1>2, <1>3, <1>4 DEF Begins

\* u is s and then t.
Joins(s, t, u) == u = s \o t

\* What a joined sequence is made of.
LEMMA JoinedAs ==
  ASSUME NEW S, NEW s, s \in Seq(S), NEW t, t \in Seq(S), NEW u, Joins(s, t, u)
  PROVE  /\ u \in Seq(S) /\ Len(u) = Len(s) + Len(t) /\ DOMAIN u = 1..Len(s) + Len(t)
         /\ Len(s) \in Nat /\ Len(t) \in Nat /\ Begins(s, u)
         /\ \A i \in 1..Len(s) + Len(t) : u[i] = IF i <= Len(s) THEN s[i] ELSE t[i - Len(s)]
  BY Joined DEF Joins

\* A sequence that begins with s and goes on with t is the two joined.
LEMMA JoinedBy ==
  ASSUME NEW S, NEW s, s \in Seq(S), NEW t, t \in Seq(S), NEW u, u \in Seq(S),
         Len(u) = Len(s) + Len(t), \A i \in 1..Len(s) : u[i] = s[i],
         \A i \in 1..Len(t) : u[Len(s) + i] = t[i]
  PROVE  Joins(s, t, u)
<1>1. /\ s \o t \in Seq(S) /\ Len(s \o t) = Len(s) + Len(t) /\ Len(s) \in Nat /\ Len(t) \in Nat
      /\ \A i \in 1..Len(s) + Len(t) : (s \o t)[i] = IF i <= Len(s) THEN s[i] ELSE t[i - Len(s)]
  BY Joined
<1>2. ASSUME NEW i \in 1..Len(s) + Len(t) PROVE u[i] = (s \o t)[i]
  <2>1. (s \o t)[i] = IF i <= Len(s) THEN s[i] ELSE t[i - Len(s)]
    BY <1>1
  <2>2. CASE i <= Len(s)
    <3>1. i \in 1..Len(s)
      BY <1>1, <2>2
    <3> QED
      BY <2>1, <2>2, <3>1
  <2>3. CASE ~(i <= Len(s))
    <3>1. i - Len(s) \in 1..Len(t) /\ Len(s) + (i - Len(s)) = i
      BY <1>1, <2>3
    <3>2. u[i] = t[i - Len(s)]
      BY <3>1
    <3> QED
      BY <2>1, <2>3, <3>2
  <2> QED
    BY <2>2, <2>3
<1> QED
  BY <1>1, <1>2, SeqEqual DEF Joins

\* It does not matter how three sequences are joined.
LEMMA Regrouped ==
  ASSUME NEW S, NEW s \in Seq(S), NEW t \in Seq(S), NEW u \in Seq(S),
         NEW st, Joins(s, t, st), NEW tu, Joins(t, u, tu), NEW stu, Joins(st, u, stu)
  PROVE  Joins(s, tu, stu)
  BY ConcatAssociative DEF Joins

\* Cutting a sequence in two and joining the parts gives it back.
LEMMA CutInTwo ==
  ASSUME NEW S, NEW s \in Seq(S), NEW n \in 0..Len(s)
  PROVE  /\ SubSeq(s, 1, n) \in Seq(S) /\ SubSeq(s, n + 1, Len(s)) \in Seq(S)
         /\ Len(SubSeq(s, 1, n)) = n /\ \A i \in 1..n : SubSeq(s, 1, n)[i] = s[i]
         /\ Len(SubSeq(s, n + 1, Len(s))) = Len(s) - n
         /\ \A i \in 1..Len(s) - n : SubSeq(s, n + 1, Len(s))[i] = s[n + i]
         /\ SubSeq(s, 1, n) \o SubSeq(s, n + 1, Len(s)) = s
<1>1. Len(s) \in Nat /\ n \in Int /\ \A i \in 1..Len(s) : s[i] \in S
  BY LenProperties
<1>2. /\ SubSeq(s, 1, n) \in Seq(S) /\ Len(SubSeq(s, 1, n)) = IF 1 <= n THEN n - 1 + 1 ELSE 0
      /\ \A i \in 1..n - 1 + 1 : SubSeq(s, 1, n)[i] = s[1 + i - 1]
  <2>1. \A i \in 1..n : s[i] \in S
    BY <1>1
  <2> QED
    BY <1>1, <2>1, SubSeqProperties
<1>3. /\ SubSeq(s, n + 1, Len(s)) \in Seq(S) /\ Len(SubSeq(s, n + 1, Len(s))) = Len(s) - n
      /\ \A i \in 1..Len(s) - n : SubSeq(s, n + 1, Len(s))[i] = s[n + i]
  <2> DEFINE m == n + 1
             k == Len(s)
  <2>1. m \in Int /\ k \in Int /\ \A i \in m..k : s[i] \in S
    BY <1>1
  <2>2. /\ SubSeq(s, m, k) \in Seq(S) /\ Len(SubSeq(s, m, k)) = IF m <= k THEN k - m + 1 ELSE 0
        /\ \A i \in 1..k - m + 1 : SubSeq(s, m, k)[i] = s[m + i - 1]
    <3> HIDE DEF m, k
    <3> QED
      BY <2>1, SubSeqProperties
  <2>3. /\ k - m + 1 = k - n /\ (IF m <= k THEN k - m + 1 ELSE 0) = k - n
        /\ \A i \in 1..k - n : m + i - 1 = n + i
    BY <1>1
  <2>4. /\ SubSeq(s, m, k) \in Seq(S) /\ Len(SubSeq(s, m, k)) = k - n
        /\ \A i \in 1..k - n : SubSeq(s, m, k)[i] = s[n + i]
    <3> HIDE DEF m, k
    <3> QED
      BY <2>2, <2>3
  <2> QED
    BY <2>4
<1>4. SubSeq(s, 1, n) \o SubSeq(s, n + 1, Len(s)) = s
  <2>1. SubSeq(s, 1, n) \o SubSeq(s, n + 1, Len(s)) = SubSeq(s, 1, Len(s))
    <3>1. 1 \in 1..Len(s) + 1 /\ n \in 1 - 1..Len(s) /\ Len(s) \in n..Len(s)
      BY <1>1
    <3> QED
      BY <3>1, ConcatAdjacentSubSeq
  <2> QED
    BY <2>1, SubSeqFull
<1>5. Len(SubSeq(s, 1, n)) = n /\ \A i \in 1..n : SubSeq(s, 1, n)[i] = s[i]
  BY <1>1, <1>2
<1> QED
  BY <1>2, <1>3, <1>4, <1>5

\* g and c are f and b once the first n elements of b have moved to f.
Moved(f, b, n, g, c) == g = f \o SubSeq(b, 1, n) /\ c = SubSeq(b, n + 1, Len(b))

\* Moving the first pieces of the buffer to the file leaves the stream alone.
LEMMA MovedAlong ==
  ASSUME NEW S, NEW f, f \in Seq(S), NEW b, b \in Seq(S), NEW n \in 0..Len(b),
         NEW g, NEW c, Moved(f, b, n, g, c), NEW x, Joins(f, b, x)
  PROVE  /\ g \in Seq(S) /\ c \in Seq(S) /\ Joins(g, c, x) /\ Begins(f, g)
         /\ Len(g) = Len(f) + n /\ \A i \in DOMAIN g : g[i] = x[i]
         /\ \A i \in DOMAIN c : n + i \in DOMAIN b /\ c[i] = b[n + i]
<1> DEFINE a == SubSeq(b, 1, n)
<1>1. /\ a \in Seq(S) /\ c \in Seq(S) /\ Len(a) = n /\ Len(c) = Len(b) - n /\ Joins(a, c, b)
      /\ \A i \in 1..Len(b) - n : c[i] = b[n + i]
  BY CutInTwo DEF Moved, Joins
<1>2. Joins(f, a, g)
  BY DEF Moved, Joins
<1> HIDE DEF a
<1>3. g \in Seq(S) /\ Begins(f, g) /\ Len(g) = Len(f) + n
  <2>1. f \o a \in Seq(S) /\ Begins(f, f \o a) /\ Len(f \o a) = Len(f) + Len(a)
    BY <1>1, Joined, Zenon
  <2> QED
    BY <1>1, <1>2, <2>1 DEF Joins
<1>4. Joins(g, c, x)
  <2>1. a \in Seq(S) /\ c \in Seq(S) /\ Joins(a, c, b) /\ Joins(f, a, g)
    BY <1>1, <1>2
  <2>2. \A y : Joins(g, c, y) => Joins(f, b, y)
    BY <2>1, Regrouped, ZenonT(30)
  <2>3. Joins(f, b, g \o c)
    BY <2>2 DEF Joins
  <2> QED
    BY <2>3 DEF Joins
<1>5. Begins(g, x)
  <2>1. Begins(g, g \o c)
    BY <1>1, <1>3, Joined, Zenon
  <2> QED
    BY <1>4, <2>1 DEF Joins
<1>6. \A i \in DOMAIN c : n + i \in DOMAIN b /\ c[i] = b[n + i]
  <2>1. DOMAIN c = 1..Len(c) /\ DOMAIN b = 1..Len(b) /\ Len(b) \in Nat
    BY <1>1, LenProperties
  <2> QED
    BY <1>1, <2>1
<1> QED
  BY <1>1, <1>3, <1>4, <1>5, <1>6 DEF Begins

-----------------------------------------------------------------------------
(* What the actions do to the stream.                                       *)

\* The lines written are of the right shape, and so is what a crash leaves.
LEMMA LineShape ==
  ASSUME Shape, hand \in Event
  PROVE  /\ Line \in Seq(Piece) /\ Len(Line) = 2
         /\ Line[1] = [id |-> hand, seq |-> seq + 1, at |-> written + 1, part |-> "body"]
         /\ Line[2] = [id |-> hand, seq |-> seq + 1, at |-> written + 1, part |-> "end"]
<1>1. Line \in [1..2 -> Piece]
  BY DEF Line, Piece, Shape
<1>2. Line \in Seq(Piece) /\ Len(Line) = 2
  <2>1. Line \in Seq(Piece)
    BY <1>1, SeqDef
  <2>2. DOMAIN Line = 1..2
    BY <1>1
  <2> HIDE DEF Line
  <2> QED
    BY <2>1, <2>2, LenProperties
<1>3. /\ Line[1] = [id |-> hand, seq |-> seq + 1, at |-> written + 1, part |-> "body"]
      /\ Line[2] = [id |-> hand, seq |-> seq + 1, at |-> written + 1, part |-> "end"]
  BY DEF Line
<1> QED
  BY <1>2, <1>3

\* Writing an event adds its line to the stream, wherever the buffer is
\* emptied meanwhile.
LEMMA WriteAdds ==
  ASSUME Shape, hand \in Event, WriteEvent
  PROVE  /\ file' \in Seq(Piece) /\ buffer' \in Seq(Piece)
         /\ Stream' = Stream \o Line /\ Begins(file, file')
         /\ \A i \in DOMAIN buffer' :
              buffer'[i].id = hand \/ \E j \in DOMAIN buffer : buffer[j].id = buffer'[i].id
<1>1. Line \in Seq(Piece) /\ Len(Line) = 2 /\ Line[1].id = hand /\ Line[2].id = hand
  <2>1. /\ Line \in Seq(Piece) /\ Len(Line) = 2
        /\ Line[1] = [id |-> hand, seq |-> seq + 1, at |-> written + 1, part |-> "body"]
        /\ Line[2] = [id |-> hand, seq |-> seq + 1, at |-> written + 1, part |-> "end"]
    BY LineShape
  <2> QED
    BY <2>1
<1>2. file \in Seq(Piece) /\ buffer \in Seq(Piece)
  BY DEF Shape
<1> DEFINE pieces == buffer \o Line
<1>3. PICK n \in {0, Len(buffer), Len(buffer) + 1} :
        file' = file \o SubSeq(pieces, 1, n) /\ buffer' = SubSeq(pieces, n + 1, Len(pieces))
  BY DEF WriteEvent
<1> HIDE DEF Line
<1>4. /\ pieces \in Seq(Piece) /\ Len(pieces) = Len(buffer) + 2 /\ Len(buffer) \in Nat
      /\ \A i \in DOMAIN pieces :
           pieces[i].id = hand \/ \E j \in DOMAIN buffer : buffer[j].id = pieces[i].id
  <2>1. /\ pieces \in Seq(Piece) /\ Len(pieces) = Len(buffer) + 2 /\ Len(buffer) \in Nat
        /\ DOMAIN pieces = 1..Len(buffer) + 2 /\ DOMAIN buffer = 1..Len(buffer)
        /\ \A i \in 1..Len(buffer) + 2 :
             pieces[i] = IF i <= Len(buffer) THEN buffer[i] ELSE Line[i - Len(buffer)]
    <3>1. /\ buffer \o Line \in Seq(Piece) /\ Len(buffer \o Line) = Len(buffer) + Len(Line)
          /\ Len(buffer) \in Nat /\ DOMAIN buffer = 1..Len(buffer)
          /\ DOMAIN (buffer \o Line) = 1..Len(buffer) + Len(Line)
          /\ \A i \in 1..Len(buffer) + Len(Line) : (buffer \o Line)[i] =
               IF i <= Len(buffer) THEN buffer[i] ELSE Line[i - Len(buffer)]
      <4>1. buffer \in Seq(Piece) /\ Line \in Seq(Piece)
        BY <1>1, <1>2
      <4> QED
        BY <4>1, Joined
    <3> QED
      BY <1>1, <3>1
  <2> HIDE DEF pieces
  <2>2. ASSUME NEW i \in DOMAIN pieces
        PROVE  pieces[i].id = hand \/ \E j \in DOMAIN buffer : buffer[j].id = pieces[i].id
    <3>1. i \in 1..Len(buffer) + 2 /\ Len(buffer) \in Nat
      BY <2>1, <2>2
    <3>2. pieces[i] = IF i <= Len(buffer) THEN buffer[i] ELSE Line[i - Len(buffer)]
      BY <2>1, <3>1
    <3>3. CASE i <= Len(buffer)
      <4>1. i \in 1..Len(buffer)
        BY <3>1, <3>3
      <4> QED
        BY <2>1, <3>2, <3>3, <4>1
    <3>4. CASE ~(i <= Len(buffer))
      <4>1. i - Len(buffer) = 1 \/ i - Len(buffer) = 2
        BY <3>1, <3>4
      <4> QED
        BY <1>1, <3>2, <3>4, <4>1
    <3> QED
      BY <3>3, <3>4
  <2> QED
    BY <2>1, <2>2
<1> HIDE DEF pieces
<1>5. n \in 0..Len(pieces)
  BY <1>3, <1>4
<1>6. /\ file' \in Seq(Piece) /\ buffer' \in Seq(Piece) /\ file' \o buffer' = file \o pieces
      /\ Begins(file, file')
      /\ \A i \in DOMAIN buffer' : n + i \in DOMAIN pieces /\ buffer'[i] = pieces[n + i]
  <2>1. pieces \in Seq(Piece) /\ Moved(file, pieces, n, file', buffer')
    BY <1>3, <1>4 DEF Moved
  <2>2. Joins(file, pieces, file \o pieces)
    BY DEF Joins
  <2>3. \A x : Joins(file, pieces, x) =>
          /\ file' \in Seq(Piece) /\ buffer' \in Seq(Piece) /\ Joins(file', buffer', x)
          /\ Begins(file, file')
          /\ \A i \in DOMAIN buffer' : n + i \in DOMAIN pieces /\ buffer'[i] = pieces[n + i]
    BY <1>2, <1>5, <2>1, MovedAlong
  <2> QED
    BY <2>2, <2>3 DEF Joins
<1>7. file \o pieces = Stream \o Line
  <2>1. Joins(file, buffer, Stream) /\ Joins(buffer, Line, pieces)
    BY DEF Joins, Stream, pieces
  <2>2. \A x : Joins(Stream, Line, x) => Joins(file, pieces, x)
    BY <1>1, <1>2, <2>1, Regrouped, Zenon
  <2> QED
    BY <2>2 DEF Joins
<1> QED
  BY <1>4, <1>6, <1>7 DEF Stream

\* A write that fails adds the body or nothing.
LEMMA FailAdds ==
  ASSUME Shape, hand \in Event, WriteFails
  PROVE  /\ buffer' \in Seq(Piece)
         /\ \/ buffer' = buffer /\ Stream' = Stream
            \/ buffer' = Append(buffer, Line[1]) /\ Stream' = Append(Stream, Line[1])
<1>1. Line[1] \in Piece
  <2>1. Line \in Seq(Piece) /\ Len(Line) = 2
    BY LineShape
  <2> HIDE DEF Line
  <2> QED
    BY <2>1
<1>2. file \in Seq(Piece) /\ buffer \in Seq(Piece) /\ file' = file
  BY DEF Shape, WriteFails
<1>3. CASE buffer' = buffer
  BY <1>2, <1>3 DEF Stream
<1>4. CASE buffer' = Append(buffer, Line[1])
  <2> DEFINE e == Line[1]
             r == <<e>>
  <2>1. e \in Piece
    BY <1>1
  <2> HIDE DEF e
  <2>2. r \in Seq(Piece)
    BY <2>1
  <2>3. Append(buffer, e) = buffer \o r /\ Stream \in Seq(Piece)
    BY <1>2, <2>1, AppendIsConcat, Joined DEF Stream
  <2>4. Append(Stream, e) = Stream \o r /\ buffer \o r \in Seq(Piece)
    BY <1>2, <2>1, <2>2, <2>3, AppendIsConcat, Joined
  <2> HIDE DEF r
  <2>5. file \o (buffer \o r) = (file \o buffer) \o r
    BY <1>2, <2>2, ConcatAssociative
  <2>6. buffer' = buffer \o r
    BY <1>4, <2>3 DEF e
  <2> QED
    BY <1>2, <1>4, <2>3, <2>4, <2>5, <2>6 DEF Stream, e
<1> QED
  BY <1>3, <1>4 DEF WriteFails

\* A flush moves pieces, and a failing one in the middle of a session too.
LEMMA FlushMoves ==
  ASSUME Shape, Flush \/ (FlushFails /\ writer = "Flushing")
  PROVE  /\ file' \in Seq(Piece) /\ buffer' \in Seq(Piece)
         /\ Stream' = Stream /\ Begins(file, file')
         /\ \A i \in DOMAIN buffer' : \E j \in DOMAIN buffer : buffer'[i] = buffer[j]
<1>1. file \in Seq(Piece) /\ buffer \in Seq(Piece)
  BY DEF Shape
<1>2. CASE Flush
  <2>1. file' = file \o buffer /\ buffer' = << >>
    BY <1>2 DEF Flush
  <2>2. /\ file' \in Seq(Piece) /\ Begins(file, file') /\ << >> \in Seq(Piece)
        /\ file' \o << >> = file' /\ DOMAIN << >> = {}
    BY <1>1, <2>1, Joined, ConcatEmptySeq, EmptySeq
  <2> QED
    BY <2>1, <2>2 DEF Stream
<1>3. CASE FlushFails /\ writer = "Flushing"
  <2>1. PICK n \in 0..Len(buffer) - 1 :
          file' = file \o SubSeq(buffer, 1, n) /\ buffer' = SubSeq(buffer, n + 1, Len(buffer))
    BY <1>3 DEF FlushFails
  <2>2. n \in 0..Len(buffer)
    BY <1>1, LenProperties
  <2>3. /\ file' \in Seq(Piece) /\ buffer' \in Seq(Piece) /\ file' \o buffer' = file \o buffer
        /\ Begins(file, file')
        /\ \A i \in DOMAIN buffer' : n + i \in DOMAIN buffer /\ buffer'[i] = buffer[n + i]
    <3>1. Moved(file, buffer, n, file', buffer') /\ Joins(file, buffer, Stream)
      BY <2>1 DEF Moved, Joins, Stream
    <3>2. /\ file' \in Seq(Piece) /\ buffer' \in Seq(Piece) /\ Joins(file', buffer', Stream)
          /\ Begins(file, file')
          /\ \A i \in DOMAIN buffer' : n + i \in DOMAIN buffer /\ buffer'[i] = buffer[n + i]
      BY <1>1, <2>2, <3>1, MovedAlong
    <3> QED
      BY <3>2 DEF Joins, Stream
  <2> QED
    BY <2>3 DEF Stream
<1> QED
  BY <1>2, <1>3

\* What a dying process may have written of its buffer: pieces of it, and
\* half a body at the end.
LEMMA TornShape ==
  ASSUME Shape, NEW n \in 1..Len(buffer), NEW t, t = Torn(n)
  PROVE  /\ t \in Seq(Piece) /\ Len(t) <= Len(buffer)
         /\ \A k \in 1..Len(t) :
              \/ t[k] = buffer[k]
              \/ k = Len(t) /\ buffer[k].part = "body" /\ t[k] = [buffer[k] EXCEPT !.part = "torn"]
<1> DEFINE m == n - 1
           a == SubSeq(buffer, 1, m)
           e == [buffer[n] EXCEPT !.part = "torn"]
<1>1. buffer \in Seq(Piece) /\ Len(buffer) \in Nat /\ m \in 0..Len(buffer) /\ m + 1 = n
      /\ buffer[n] \in Piece
  BY LenProperties DEF Shape
<1>2. a \in Seq(Piece) /\ Len(a) = m /\ \A k \in 1..m : a[k] = buffer[k]
  <2> HIDE DEF m
  <2> QED
    BY <1>1, CutInTwo
<1>3. CASE buffer[n].part = "body"
  <2>1. e \in Piece
    BY <1>1 DEF Piece
  <2>2. t = a \o <<e>>
    BY <1>3 DEF Torn
  <2> HIDE DEF a, m
  <2>3. Append(a, e) = a \o <<e>> /\ Append(a, e) \in Seq(Piece) /\ Len(Append(a, e)) = m + 1
        /\ Append(a, e)[m + 1] = e /\ \A k \in 1..m : Append(a, e)[k] = a[k]
    <3> HIDE DEF e
    <3> QED
      BY <1>2, <2>1, AppendIsConcat, AppendProperties
  <2>4. t \in Seq(Piece) /\ Len(t) = n /\ t[n] = e /\ \A k \in 1..m : t[k] = buffer[k]
    <3> HIDE DEF e
    <3> QED
      BY <1>1, <1>2, <2>2, <2>3
  <2>5. ASSUME NEW k \in 1..Len(t), k # n PROVE k \in 1..m
    BY <1>1, <2>4, <2>5
  <2> QED
    BY <1>1, <1>3, <2>4, <2>5
<1>4. CASE buffer[n].part # "body"
  <2>1. t = a
    BY <1>4 DEF Torn
  <2> HIDE DEF a, m
  <2> QED
    BY <1>1, <1>2, <2>1
<1> QED
  BY <1>3, <1>4

\* A crash, or a last flush that fails, leaves the file with a part of the
\* stream, whose last body may be torn.
LEMMA CutShort ==
  ASSUME Shape, Crash \/ (FlushFails /\ writer = "Closing")
  PROVE  /\ file' \in Seq(Piece) /\ buffer' = << >> /\ Stream' = file'
         /\ Begins(file, file') /\ Len(file') <= Len(Stream)
         /\ \A i \in DOMAIN file' :
              \/ file'[i] = Stream[i]
              \/ /\ Crash /\ i = Len(file') /\ Len(file) < i /\ Stream[i].part = "body"
                 /\ file'[i] = [Stream[i] EXCEPT !.part = "torn"]
<1>1. file \in Seq(Piece) /\ buffer \in Seq(Piece) /\ Len(buffer) \in Nat
  BY LenProperties DEF Shape
<1>2. buffer' = << >>
  BY DEF Crash, FlushFails
<1>3. \E t \in Seq(Piece) :
        /\ Joins(file, t, file') /\ Len(t) <= Len(buffer)
        /\ \A k \in 1..Len(t) :
             \/ t[k] = buffer[k]
             \/ /\ Crash /\ k = Len(t) /\ buffer[k].part = "body"
                /\ t[k] = [buffer[k] EXCEPT !.part = "torn"]
  <2>1. CASE file' = file
    <3>1. << >> \in Seq(Piece) /\ Len(<< >>) = 0 /\ file \o << >> = file
      BY <1>1, EmptySeq, ConcatEmptySeq
    <3>2. Joins(file, << >>, file')
      BY <2>1, <3>1 DEF Joins
    <3> DEFINE z == << >>
    <3>3. z \in Seq(Piece) /\ Len(z) = 0 /\ Joins(file, z, file')
      BY <3>1, <3>2
    <3> HIDE DEF z
    <3>4. Len(z) <= Len(buffer) /\ \A k \in 1..Len(z) : FALSE
      BY <1>1, <3>3
    <3> QED
      BY <3>3, <3>4, Zenon
  <2>2. CASE Crash /\ \E n \in 1..Len(buffer) : file' = file \o Torn(n)
    <3>1. PICK n \in 1..Len(buffer) : file' = file \o Torn(n)
      BY <2>2
    <3> HIDE DEF Crash
    <3>2. \A t : t = Torn(n) =>
            /\ t \in Seq(Piece) /\ Len(t) <= Len(buffer)
            /\ \A k \in 1..Len(t) :
                 \/ t[k] = buffer[k]
                 \/ /\ k = Len(t) /\ buffer[k].part = "body"
                    /\ t[k] = [buffer[k] EXCEPT !.part = "torn"]
      BY TornShape, Zenon
    <3>3. Joins(file, Torn(n), file')
      BY <3>1 DEF Joins
    <3> DEFINE z == Torn(n)
    <3>4. /\ z \in Seq(Piece) /\ Len(z) <= Len(buffer)
          /\ \A k \in 1..Len(z) :
               \/ z[k] = buffer[k]
               \/ k = Len(z) /\ buffer[k].part = "body" /\ z[k] = [buffer[k] EXCEPT !.part = "torn"]
      BY <3>2, Zenon
    <3> HIDE DEF z
    <3>5. \A k \in 1..Len(z) :
            \/ z[k] = buffer[k]
            \/ /\ Crash /\ k = Len(z) /\ buffer[k].part = "body"
               /\ z[k] = [buffer[k] EXCEPT !.part = "torn"]
      BY <2>2, <3>4
    <3>6. Joins(file, z, file')
      BY <3>3 DEF z
    <3> QED
      BY <3>4, <3>5, <3>6, Zenon
  <2>3. CASE FlushFails /\ writer = "Closing"
    <3>1. PICK n \in 0..Len(buffer) - 1 : file' = file \o SubSeq(buffer, 1, n)
      BY <2>3 DEF FlushFails
    <3>2. n \in 0..Len(buffer)
      BY <1>1
    <3>3. SubSeq(buffer, 1, n) \in Seq(Piece) /\ Len(SubSeq(buffer, 1, n)) = n
          /\ \A k \in 1..n : SubSeq(buffer, 1, n)[k] = buffer[k]
      BY <1>1, <3>2, CutInTwo
    <3> DEFINE z == SubSeq(buffer, 1, n)
    <3>4. /\ Joins(file, z, file') /\ z \in Seq(Piece) /\ Len(z) <= Len(buffer)
          /\ \A k \in 1..Len(z) : z[k] = buffer[k]
      BY <1>1, <3>1, <3>2, <3>3 DEF Joins
    <3> HIDE DEF z
    <3> QED
      BY <3>4
  <2> QED
    BY <2>1, <2>2, <2>3 DEF Crash
<1>4. PICK t \in Seq(Piece) :
        /\ Joins(file, t, file') /\ Len(t) <= Len(buffer)
        /\ \A k \in 1..Len(t) :
             \/ t[k] = buffer[k]
             \/ /\ Crash /\ k = Len(t) /\ buffer[k].part = "body"
                /\ t[k] = [buffer[k] EXCEPT !.part = "torn"]
  BY <1>3
<1>5. /\ file' \in Seq(Piece) /\ Len(file') = Len(file) + Len(t) /\ DOMAIN file' = 1..Len(file) + Len(t)
      /\ Len(file) \in Nat /\ Len(t) \in Nat /\ Begins(file, file')
      /\ \A i \in 1..Len(file) + Len(t) : file'[i] = IF i <= Len(file) THEN file[i] ELSE t[i - Len(file)]
  BY <1>1, <1>4, JoinedAs
<1>6. /\ Len(Stream) = Len(file) + Len(buffer)
      /\ \A i \in 1..Len(file) + Len(buffer) :
           Stream[i] = IF i <= Len(file) THEN file[i] ELSE buffer[i - Len(file)]
  BY <1>1, Joined, Zenon DEF Stream
<1>7. Stream' = file'
  BY <1>2, <1>5, ConcatEmptySeq DEF Stream
<1>8. ASSUME NEW i \in DOMAIN file'
      PROVE  \/ file'[i] = Stream[i]
             \/ /\ Crash /\ i = Len(file') /\ Len(file) < i /\ Stream[i].part = "body"
                /\ file'[i] = [Stream[i] EXCEPT !.part = "torn"]
  <2> HIDE DEF Crash
  <2>1. i \in 1..Len(file) + Len(t) /\ i \in 1..Len(file) + Len(buffer)
    BY <1>1, <1>4, <1>5
  <2>2. CASE i <= Len(file)
    BY <1>5, <1>6, <2>1, <2>2
  <2>3. CASE ~(i <= Len(file))
    <3>1. i - Len(file) \in 1..Len(t) /\ Len(file) < i
      BY <1>5, <2>1, <2>3
    <3>2. file'[i] = t[i - Len(file)] /\ Stream[i] = buffer[i - Len(file)]
      BY <1>5, <1>6, <2>1, <2>3
    <3>3. i - Len(file) = Len(t) => i = Len(file')
      BY <1>5, <2>1
    <3> QED
      BY <1>4, <3>1, <3>2, <3>3
  <2> QED
    BY <2>2, <2>3
<1> QED
  BY <1>1, <1>2, <1>4, <1>5, <1>6, <1>7, <1>8

-----------------------------------------------------------------------------
(* The invariant, part by part.                                             *)

\* What the writer holds is an event of the session.
LEMMA HandIsEvent ==
  ASSUME Shape, Lifecycle, Offers, Queued, writer = "Writing"
  PROVE  hand \in Event /\ Ours(hand)
<1>1. Ours(hand)
  BY DEF Lifecycle, Queued
<1>2. DOMAIN offered = 1..Len(offered) /\ Len(offered) \in Nat
  BY LenProperties DEF Shape
<1> QED
  BY <1>1, <1>2, LogAssumption DEF Ours, Offers, Event

\* Everything begins empty.
LEMMA LogInit == Init => LogInv
<1> SUFFICES ASSUME Init PROVE LogInv
  OBVIOUS
<1>1. DOMAIN << >> = {} /\ Len(<< >>) = 0 /\ \A S : << >> \in Seq(S)
  OBVIOUS
<1>2. Stream = << >>
  <2>1. << >> \in Seq(Piece) /\ << >> \o << >> = << >>
    BY <1>1, ConcatEmptySeq
  <2> QED
    BY <2>1 DEF Init, Stream
<1>3. Shape /\ Lifecycle
  BY <1>1, LogAssumption DEF Init, Shape, Lifecycle
<1>4. Offers /\ Queued /\ Complete /\ Metas
  BY <1>1, LogAssumption DEF Init, Offers, Queued, Complete, Metas
<1>5. Known /\ Linked /\ Ordered
  BY <1>1, <1>2 DEF Init, Known, Linked, Ordered
<1>6. Losses
  BY DEF Init, Losses
<1> QED
  BY <1>3, <1>4, <1>5, <1>6 DEF LogInv, FileInv

\* Sequences stay sequences.
LEMMA ShapeStep == FileInv /\ [Next]_vars => Shape' /\ Begins(file, file')
<1> SUFFICES ASSUME FileInv, [Next]_vars PROVE Shape' /\ Begins(file, file')
  OBVIOUS
<1> USE DEF FileInv
<1>1. /\ offered \in Seq(Session) /\ channel \in Seq(Event)
      /\ buffer \in Seq(Piece) /\ file \in Seq(Piece)
      /\ seq \in Nat /\ written \in Nat /\ session \in 0..MaxSessions
      /\ Len(offered) \in Nat /\ MaxOffers \in Nat /\ MaxSessions \in Nat
  BY LenProperties, LogAssumption DEF Shape
<1>2. Begins(file, file) /\ \A S : << >> \in Seq(S)
  BY <1>1, LenProperties DEF Begins
<1>3. CASE Start
  BY <1>1, <1>2, <1>3 DEF Start, Shape, offerVars, faultVars
<1>4. CASE TryPersist
  <2> DEFINE id == Len(offered) + 1
  <2>1. id \in Event /\ session \in Session
    BY <1>1, <1>4 DEF TryPersist, Event, Session, Shape, Lifecycle
  <2>2. offered' \in Seq(Session) /\ channel' \in Seq(Event)
    <3>1. offered' = Append(offered, session) /\ (channel' = channel \/ channel' = Append(channel, id))
      BY <1>4 DEF TryPersist
    <3>2. Append(offered, session) \in Seq(Session) /\ Append(channel, id) \in Seq(Event)
      BY <1>1, <2>1, AppendProperties
    <3> QED
      BY <1>1, <3>1, <3>2
  <2> QED
    BY <1>1, <1>2, <1>4, <2>2 DEF TryPersist, Shape, procVars
<1>5. CASE Close
  BY <1>1, <1>2, <1>5 DEF Close, Shape, writerVars
<1>6. CASE Open
  BY <1>1, <1>2, <1>6 DEF Open, Shape, procVars, offerVars, OpenedFile
<1>7. CASE OpenFails
  BY <1>1, <1>2, <1>7 DEF OpenFails, Shape, offerVars
<1>8. CASE Receive
  <2>1. channel' \in Seq(Event)
    BY <1>1, <1>8 DEF Receive, MayReceive
  <2> QED
    BY <1>1, <1>2, <1>8, <2>1 DEF Receive, Shape, procVars, offerVars
<1>9. CASE WriteEvent
  <2>1. hand \in Event
    BY <1>9, HandIsEvent DEF WriteEvent
  <2>2. file' \in Seq(Piece) /\ buffer' \in Seq(Piece) /\ Begins(file, file')
    BY <1>9, <2>1, WriteAdds
  <2>3. UNCHANGED <<procVars, offerVars, channel>> /\ AfterWrite
    BY <1>9, Zenon DEF WriteEvent
  <2> QED
    BY <1>1, <2>2, <2>3 DEF AfterWrite, Shape, procVars, offerVars
<1>10. CASE WriteFails
  <2>1. hand \in Event
    BY <1>10, HandIsEvent DEF WriteFails
  <2>2. buffer' \in Seq(Piece)
    BY <1>10, <2>1, FailAdds
  <2> QED
    BY <1>1, <1>2, <1>10, <2>2 DEF WriteFails, AfterWrite, Shape, procVars, offerVars
<1>11. CASE EndOfInput
  BY <1>1, <1>2, <1>11 DEF EndOfInput, Shape, procVars, offerVars
<1>12. CASE Flush
  <2>1. file' \in Seq(Piece) /\ buffer' \in Seq(Piece) /\ Begins(file, file')
    BY <1>12, FlushMoves
  <2> QED
    BY <1>1, <1>12, <2>1 DEF Flush, AfterFlush, Shape, offerVars
<1>13. CASE FlushFails
  <2>1. file' \in Seq(Piece) /\ Begins(file, file') /\ buffer' \in Seq(Piece)
    BY <1>2, <1>13, FlushMoves, CutShort DEF FlushFails
  <2> QED
    BY <1>1, <1>13, <2>1 DEF FlushFails, AfterFlush, Shape, offerVars
<1>14. CASE Crash
  <2>1. file' \in Seq(Piece) /\ Begins(file, file') /\ buffer' \in Seq(Piece)
    BY <1>2, <1>14, CutShort
  <2> QED
    BY <1>1, <1>2, <1>14, <2>1 DEF Crash, Shape, offerVars
<1>15. CASE UNCHANGED vars
  BY <1>2, <1>15 DEF vars, procVars, offerVars, writerVars, faultVars, Shape
<1> QED
  BY <1>3, <1>4, <1>5, <1>6, <1>7, <1>8, <1>9, <1>10, <1>11, <1>12, <1>13, <1>14, <1>15
     DEF Next, Operate, Write

\* The process and its writer go through their states together.
LEMMA LifecycleStep == FileInv /\ [Next]_vars => Lifecycle'
<1> SUFFICES ASSUME FileInv, [Next]_vars PROVE Lifecycle'
  OBVIOUS
<1>1. Shape' /\ Lifecycle /\ Shape
  BY ShapeStep DEF FileInv
<1>2. channel \in Seq(Event) /\ Len(channel) \in Nat /\ BufferSize \in Nat /\ session \in Nat
      /\ DOMAIN << >> = {} /\ Len(<< >>) = 0
  BY <1>1, LenProperties, LogAssumption DEF Shape
<1> USE <1>1, <1>2
<1>3. CASE Start
  BY <1>3 DEF Start, Lifecycle, faultVars, Nothing
<1>4. CASE TryPersist
  <2>1. channel' = channel \/ (HasRoom /\ channel' = Append(channel, Len(offered) + 1) /\ writer # "Gone")
    BY <1>4 DEF TryPersist
  <2>2. Len(channel') <= BufferSize
    <3>1. Len(Append(channel, Len(offered) + 1)) = Len(channel) + 1
      BY AppendProperties
    <3> QED
      BY <2>1, <3>1 DEF HasRoom, Lifecycle
  <2> QED
    BY <1>4, <2>1, <2>2 DEF TryPersist, Lifecycle, faultVars, procVars
<1>5. CASE Close
  BY <1>5 DEF Close, Lifecycle, faultVars, writerVars
<1>6. CASE Open
  BY <1>6 DEF Open, Lifecycle, faultVars, procVars
<1>7. CASE OpenFails
  BY <1>7 DEF OpenFails, Lifecycle
<1>8. CASE Receive
  <2>1. Len(Tail(channel)) <= BufferSize /\ Head(channel) \in Event
    BY <1>8, HeadTailProperties DEF Receive, MayReceive, Lifecycle
  <2> QED
    BY <1>8, <2>1 DEF Receive, Lifecycle, faultVars, procVars, Nothing, Event
<1>9. CASE WriteEvent
  BY <1>9 DEF WriteEvent, AfterWrite, Lifecycle, faultVars, procVars
<1>10. CASE WriteFails
  BY <1>10 DEF WriteFails, AfterWrite, Lifecycle, procVars
<1>11. CASE EndOfInput
  BY <1>11 DEF EndOfInput, Lifecycle, faultVars, procVars
<1>12. CASE Flush
  BY <1>12 DEF Flush, AfterFlush, Lifecycle, faultVars
<1>13. CASE FlushFails
  BY <1>13 DEF FlushFails, AfterFlush, Lifecycle
<1>14. CASE Crash
  BY <1>14 DEF Crash, Lifecycle, Nothing
<1>15. CASE UNCHANGED vars
  BY <1>15 DEF vars, procVars, offerVars, writerVars, faultVars, Lifecycle
<1> QED
  BY <1>3, <1>4, <1>5, <1>6, <1>7, <1>8, <1>9, <1>10, <1>11, <1>12, <1>13, <1>14, <1>15
     DEF Next, Operate, Write

\* Only an offer changes what was offered, and adds one event to it.
LEMMA OfferSide ==
  ASSUME FileInv, [Next]_vars
  PROVE  /\ Len(offered) \in Nat /\ DOMAIN offered = 1..Len(offered)
         /\ \/ ~TryPersist /\ UNCHANGED <<offered, accepted, reported>>
            \/ /\ TryPersist /\ offered' = Append(offered, session)
               /\ DOMAIN offered' = 1..Len(offered) + 1
               /\ offered'[Len(offered) + 1] = session
               /\ \A i \in DOMAIN offered : offered'[i] = offered[i]
<1>1. Len(offered) \in Nat /\ DOMAIN offered = 1..Len(offered) /\ offered \in Seq(Session)
  BY LenProperties DEF FileInv, Shape
<1>2. CASE TryPersist
  <2>1. offered' = Append(offered, session) /\ session \in Session
    BY <1>2 DEF TryPersist, FileInv, Shape, Lifecycle, Session
  <2>2. /\ Append(offered, session) \in Seq(Session) /\ Len(Append(offered, session)) = Len(offered) + 1
        /\ Append(offered, session)[Len(offered) + 1] = session
        /\ \A i \in 1..Len(offered) : Append(offered, session)[i] = offered[i]
    BY <1>1, <2>1, AppendProperties
  <2>3. DOMAIN offered' = 1..Len(offered) + 1
    BY <2>1, <2>2, LenProperties
  <2> QED
    BY <1>1, <1>2, <2>1, <2>2, <2>3
<1>3. CASE ~TryPersist
  <2>1. Start \/ Close \/ Open \/ OpenFails \/ Receive \/ EndOfInput \/ Flush \/ FlushFails \/ Crash
          \/ UNCHANGED vars => UNCHANGED <<offered, accepted, reported>>
    BY DEF Start, Close, Open, OpenFails, Receive, EndOfInput, Flush, FlushFails, Crash, vars, offerVars
  <2>2. WriteEvent \/ WriteFails => UNCHANGED <<offered, accepted, reported>>
    <3>1. WriteEvent \/ WriteFails => UNCHANGED offerVars
      BY Zenon DEF WriteEvent, WriteFails
    <3> QED
      BY <3>1 DEF offerVars
  <2> QED
    BY <1>1, <1>3, <2>1, <2>2 DEF Next, Operate, Write
<1> QED
  BY <1>2, <1>3

\* Faults are remembered, sessions are counted up one by one, and the next
\* one begins when the process is down.
LEMMA SessionSide ==
  ASSUME [Next]_vars
  PROVE  /\ failed \subseteq failed' /\ crashed \subseteq crashed'
         /\ session' = session \/ (Start /\ session' = session + 1)
<1>1. Start \/ TryPersist \/ Close \/ Open \/ OpenFails \/ Receive \/ EndOfInput \/ Flush \/ FlushFails
        \/ Crash \/ UNCHANGED vars =>
        failed \subseteq failed' /\ crashed \subseteq crashed'
  BY DEF Start, TryPersist, Close, Open, OpenFails, Receive, EndOfInput, Flush, FlushFails, Crash,
         vars, faultVars
<1>2. WriteEvent \/ WriteFails =>
        /\ failed \subseteq failed' /\ crashed \subseteq crashed' /\ UNCHANGED session
  <2>1. WriteEvent => UNCHANGED faultVars /\ UNCHANGED procVars
    BY Zenon DEF WriteEvent
  <2>2. WriteFails => failed' = failed \cup {session} /\ UNCHANGED crashed /\ UNCHANGED procVars
    BY DEF WriteFails
  <2> QED
    BY <2>1, <2>2 DEF faultVars, procVars
<1>3. TryPersist \/ Close \/ Open \/ OpenFails \/ Receive \/ EndOfInput \/ Flush \/ FlushFails
        \/ Crash \/ UNCHANGED vars =>
        session' = session
  BY DEF TryPersist, Close, Open, OpenFails, Receive, EndOfInput, Flush, FlushFails, Crash, vars, procVars
<1>4. Start => session' = session + 1
  BY DEF Start
<1> QED
  BY <1>1, <1>2, <1>3, <1>4 DEF Next, Operate, Write

\* Every event offered is accounted for when it is refused.
LEMMA OffersStep == FileInv /\ [Next]_vars => Offers'
<1> SUFFICES ASSUME FileInv, [Next]_vars PROVE Offers'
  OBVIOUS
<1>1. Offers /\ Shape' /\ session \in Nat
  BY ShapeStep DEF FileInv, Shape
<1>2. session' = session \/ session' = session + 1
  BY SessionSide
<1>3. CASE UNCHANGED <<offered, accepted, reported>>
  BY <1>1, <1>2, <1>3 DEF Offers
<1>4. CASE TryPersist /\ offered' = Append(offered, session)
  <2> DEFINE id == Len(offered) + 1
  <2>1. /\ Len(offered) \in Nat /\ DOMAIN offered = 1..Len(offered)
        /\ DOMAIN offered' = 1..id /\ offered'[id] = session
        /\ \A i \in DOMAIN offered : offered'[i] = offered[i]
    BY <1>4, OfferSide DEF TryPersist
  <2>2. session' = session /\ session > 0
    BY <1>4 DEF TryPersist, procVars, FileInv, Lifecycle
  <2>3. Len(offered') <= MaxOffers
    <3>1. Len(offered') = id
      BY <1>1, <2>1, LenProperties DEF Shape
    <3> QED
      BY <1>4, <2>1, <3>1, LogAssumption DEF TryPersist
  <2>4. \/ accepted' = accepted \cup {id} /\ reported' = reported
        \/ /\ accepted' = accepted
           /\ reported' = IF LoggedAsError(id) THEN reported \cup {id} ELSE reported
    BY <1>4 DEF TryPersist
  <2>5. id \notin accepted \cup reported
    BY <1>1, <2>1 DEF Offers
  <2>6. /\ accepted' \cup reported' \subseteq DOMAIN offered' /\ accepted' \cap reported' = {}
        /\ Critical \cap DOMAIN offered' \subseteq accepted' \cup reported'
    BY <1>1, <2>1, <2>4, <2>5 DEF Offers, LoggedAsError
  <2>7. ASSUME NEW i \in DOMAIN offered'
        PROVE  offered'[i] \in 1..session /\ offered'[i] <= session /\ (i # id => i \in DOMAIN offered)
    <3>1. CASE i = id
      BY <1>1, <2>1, <2>2, <3>1
    <3>2. CASE i # id
      <4>1. i \in DOMAIN offered
        BY <2>1, <3>2
      <4> QED
        BY <1>1, <2>1, <4>1 DEF Offers
    <3> QED
      BY <3>1, <3>2
  <2>8. ASSUME NEW i \in DOMAIN offered', NEW j \in DOMAIN offered', i < j
        PROVE  offered'[i] <= offered'[j]
    <3>1. i # id /\ i \in DOMAIN offered
      BY <2>1, <2>8
    <3>2. CASE j = id
      BY <2>1, <2>7, <3>2
    <3>3. CASE j # id
      <4>1. j \in DOMAIN offered
        BY <2>7, <3>3
      <4> QED
        BY <1>1, <2>1, <2>8, <3>1, <4>1 DEF Offers
    <3> QED
      BY <3>2, <3>3
  <2> QED
    BY <2>2, <2>3, <2>6, <2>7, <2>8 DEF Offers
<1> QED
  BY <1>3, <1>4, OfferSide

\* An event of the session that runs after the step.
OursNext(id) == id \in accepted' /\ offered'[id] = session'

\* An event of the session stays one while the session lasts.
LEMMA OursStays ==
  ASSUME FileInv, [Next]_vars, session' = session, NEW id, Ours(id)
  PROVE  OursNext(id)
<1>1. accepted \subseteq DOMAIN offered
  BY DEF FileInv, Offers
<1> QED
  BY <1>1, OfferSide DEF Ours, OursNext, TryPersist

\* The channel stays in order.
LEMMA QueuedStep == FileInv /\ [Next]_vars => Queued'
<1> SUFFICES ASSUME FileInv, [Next]_vars PROVE Queued'
  OBVIOUS
<1>1. /\ Queued /\ Lifecycle /\ Shape /\ Offers /\ Shape'
      /\ channel \in Seq(Event) /\ Len(channel) \in Nat /\ DOMAIN channel = 1..Len(channel)
      /\ DOMAIN << >> = {}
  BY ShapeStep, LenProperties DEF FileInv, Shape
<1>2. ASSUME session' = session, UNCHANGED <<channel, hand>> PROVE Queued'
  <2>1. \A i \in DOMAIN channel : OursNext(channel[i])
    BY <1>1, <1>2, OursStays DEF Queued
  <2>2. hand = Nothing \/ OursNext(hand)
    BY <1>1, <1>2, OursStays DEF Queued
  <2>3. \A i \in DOMAIN channel : OursNext(channel'[i])
    BY <1>2, <2>1
  <2>4. hand' = Nothing \/ OursNext(hand')
    BY <1>2, <2>2
  <2> QED
    BY <1>1, <1>2, <2>3, <2>4 DEF Queued, Ours, OursNext
<1>3. ASSUME session' = session, channel' = channel, hand' = Nothing PROVE Queued'
  <2>1. \A i \in DOMAIN channel : OursNext(channel[i])
    BY <1>1, <1>3, OursStays DEF Queued
  <2>2. \A i \in DOMAIN channel : OursNext(channel'[i]) /\ channel'[i] = channel[i]
    BY <1>3, <2>1
  <2>3. \A i \in DOMAIN channel : channel[i] \in Event /\ Nothing < channel[i]
    BY <1>1, LogAssumption DEF Event, Nothing
  <2> QED
    BY <1>1, <1>3, <2>2, <2>3 DEF Queued, Ours, OursNext
<1>4. ASSUME channel' = << >>, hand' = Nothing PROVE Queued'
  BY <1>1, <1>4 DEF Queued
<1>5. CASE Start
  <2>1. hand = Nothing
    BY <1>1, <1>5 DEF Start, Lifecycle
  <2> QED
    BY <1>4, <1>5, <2>1 DEF Start
<1>6. CASE TryPersist
  <2> DEFINE id == Len(offered) + 1
  <2>1. session' = session /\ hand' = hand
    BY <1>6 DEF TryPersist, procVars
  <2>2. CASE channel' = channel
    BY <1>2, <2>1, <2>2
  <2>3. CASE channel' = Append(channel, id) /\ accepted' = accepted \cup {id}
    <3>1. /\ Len(offered) \in Nat /\ DOMAIN offered = 1..Len(offered) /\ offered'[id] = session
          /\ accepted \subseteq DOMAIN offered
      BY <1>1, <1>6, OfferSide DEF Offers
    <3>2. id \in Event
      BY <1>6, <3>1, LogAssumption DEF TryPersist, Event
    <3>3. /\ DOMAIN channel' = 1..Len(channel) + 1 /\ channel'[Len(channel) + 1] = id
          /\ \A i \in DOMAIN channel : channel'[i] = channel[i]
      <4>1. /\ Append(channel, id) \in Seq(Event) /\ Len(Append(channel, id)) = Len(channel) + 1
            /\ Append(channel, id)[Len(channel) + 1] = id
            /\ \A i \in 1..Len(channel) : Append(channel, id)[i] = channel[i]
        BY <1>1, <3>2, AppendProperties
      <4> QED
        BY <1>1, <2>3, <4>1, LenProperties
    <3>4. \A i \in DOMAIN channel : OursNext(channel[i]) /\ channel[i] < id /\ hand < channel[i]
      <4>1. \A i \in DOMAIN channel : Ours(channel[i]) /\ hand < channel[i]
        BY <1>1 DEF Queued
      <4>2. \A i \in DOMAIN channel : channel[i] < id
        BY <3>1, <4>1 DEF Ours
      <4> QED
        BY <2>1, <4>1, <4>2, OursStays
    <3>5. hand < id
      <4>1. hand = 0 \/ hand \in DOMAIN offered
        BY <1>1, <3>1 DEF Queued, Ours, Nothing
      <4> QED
        BY <3>1, <4>1
    <3>6. hand' = Nothing \/ OursNext(hand')
      <4>1. hand = Nothing \/ OursNext(hand)
        BY <1>1, <2>1, OursStays DEF Queued
      <4> QED
        BY <2>1, <4>1
    <3>7. ASSUME NEW i \in DOMAIN channel'
          PROVE  /\ OursNext(channel'[i]) /\ hand < channel'[i]
                 /\ \A j \in DOMAIN channel' : i < j => channel'[i] < channel'[j]
      <4>1. CASE i = Len(channel) + 1
        <5>1. OursNext(channel'[i])
          BY <2>1, <2>3, <3>1, <3>3, <4>1 DEF OursNext
        <5>2. \A j \in DOMAIN channel' : ~(i < j)
          BY <1>1, <3>3, <4>1
        <5> QED
          BY <3>3, <3>5, <4>1, <5>1, <5>2
      <4>2. CASE i # Len(channel) + 1
        <5>1. i \in DOMAIN channel
          BY <1>1, <3>3, <4>2
        <5>2. OursNext(channel'[i]) /\ hand < channel'[i]
          BY <3>3, <3>4, <5>1
        <5>3. ASSUME NEW j \in DOMAIN channel', i < j
              PROVE  channel'[i] < channel'[j]
          <6>1. CASE j = Len(channel) + 1
            BY <3>3, <3>4, <5>1, <6>1
          <6>2. CASE j # Len(channel) + 1
            <7>1. j \in DOMAIN channel
              BY <1>1, <3>3, <6>2
            <7> QED
              BY <1>1, <3>3, <5>1, <5>3, <7>1 DEF Queued
          <6> QED
            BY <6>1, <6>2
        <5> QED
          BY <5>2, <5>3
      <4> QED
        BY <4>1, <4>2
    <3> QED
      BY <2>1, <3>6, <3>7 DEF Queued, Ours, OursNext
  <2> QED
    BY <1>6, <2>2, <2>3 DEF TryPersist
<1>7. CASE Receive
  <2>1. channel # << >> /\ hand' = Head(channel) /\ channel' = Tail(channel) /\ session' = session
        /\ hand = Nothing
    BY <1>1, <1>7 DEF Receive, MayReceive, procVars, Lifecycle
  <2>2. /\ Len(channel) > 0 /\ hand' = channel[1]
        /\ channel' \in Seq(Event) /\ Len(channel') = Len(channel) - 1
        /\ DOMAIN channel' = 1..Len(channel) - 1
        /\ \A i \in 1..Len(channel) - 1 : channel'[i] = channel[i + 1]
    <3>1. Len(channel) > 0
      BY <1>1, <2>1, EmptySeq
    <3>2. Tail(channel) \in Seq(Event) /\ Len(Tail(channel)) = Len(channel) - 1
          /\ \A i \in 1..Len(Tail(channel)) : Tail(channel)[i] = channel[i + 1]
      BY <1>1, <2>1, HeadTailProperties
    <3>3. Head(channel) = channel[1]
      BY <1>1
    <3> QED
      BY <2>1, <3>1, <3>2, <3>3, LenProperties
  <2>3. \A i \in 1..Len(channel) - 1 : i + 1 \in DOMAIN channel /\ 1 \in DOMAIN channel /\ 1 < i + 1
    BY <1>1
  <2>4. \A i \in DOMAIN channel : OursNext(channel[i])
    BY <1>1, <2>1, OursStays DEF Queued
  <2>5. OursNext(hand')
    <3>1. 1 \in DOMAIN channel
      BY <1>1, <2>2
    <3> QED
      BY <2>2, <2>4, <3>1
  <2>6. \A i \in DOMAIN channel' : OursNext(channel'[i]) /\ hand' < channel'[i]
    BY <1>1, <2>2, <2>3, <2>4 DEF Queued
  <2>7. ASSUME NEW i \in DOMAIN channel', NEW j \in DOMAIN channel', i < j
        PROVE  channel'[i] < channel'[j]
    <3>1. i + 1 \in DOMAIN channel /\ j + 1 \in DOMAIN channel /\ i + 1 < j + 1
      BY <2>2, <2>3, <2>7
    <3>2. channel[i + 1] < channel[j + 1]
      BY <1>1, <3>1 DEF Queued
    <3> QED
      BY <2>2, <3>2
  <2> QED
    BY <2>5, <2>6, <2>7 DEF Queued, Ours, OursNext
<1>8. CASE Close \/ Open \/ EndOfInput \/ Flush \/ FlushFails \/ UNCHANGED vars
  BY <1>2, <1>8 DEF Close, Open, EndOfInput, Flush, FlushFails, vars, procVars, writerVars
<1>9. CASE OpenFails \/ Crash
  <2>1. OpenFails => hand' = Nothing
    BY <1>1 DEF OpenFails, Lifecycle
  <2> QED
    BY <1>4, <1>9, <2>1 DEF OpenFails, Crash
<1>10. CASE WriteEvent \/ WriteFails
  <2>1. WriteEvent => AfterWrite /\ UNCHANGED channel /\ UNCHANGED procVars
    BY Zenon DEF WriteEvent
  <2>2. session' = session /\ channel' = channel /\ hand' = Nothing
    BY <1>10, <2>1 DEF WriteFails, AfterWrite, procVars
  <2> QED
    BY <1>3, <2>2
<1> QED
  BY <1>5, <1>6, <1>7, <1>8, <1>9, <1>10 DEF Next, Operate, Write

-----------------------------------------------------------------------------
(* What a step does to the stream, piece by piece.                          *)

\* A piece of the event in the writer's hand.
Written(part) == [id |-> hand, seq |-> seq + 1, at |-> written + 1, part |-> part]

\* Nothing is written and nothing lost; what waits may be offered or taken.
Untouched ==
  /\ Stream' = Stream /\ written' = written
  /\ \A i \in DOMAIN buffer' : \E j \in DOMAIN buffer : buffer'[i] = buffer[j]
  /\ \A x \in Waiting' : x = Nothing \/ x \in Waiting \/ x = Len(offered) + 1
  /\ session \in failed' \/ Waiting \subseteq Waiting' \cup {Nothing}
  /\ TryPersist => accepted' \subseteq accepted \cup Waiting'
  /\ seq' = seq \/ writer = "Opening"
  /\ session' # session \/ writer' # "Opening" \/ writer = "Opening"

\* The hand's event is written: all of it, or its body, or nothing.
Lengthened ==
  /\ writer = "Writing" /\ AfterWrite /\ UNCHANGED <<session, phase, channel, offered, accepted, reported>>
  /\ Begins(Stream, Stream')
  /\ \A i \in DOMAIN Stream' : i > Len(Stream) =>
       \/ i = Len(Stream) + 1 /\ Stream'[i] = Written("body")
       \/ i = Len(Stream) + 2 /\ Stream'[i] = Written("end")
  /\ \A i \in DOMAIN buffer' : buffer'[i].id = hand \/ \E j \in DOMAIN buffer : buffer[j].id = buffer'[i].id
  /\ session \in failed' \/ Len(Stream') = Len(Stream) + 2

\* The end of the stream is lost, and the last body may be torn.
Shortened ==
  /\ session \in failed' \cup crashed' /\ buffer' = << >> /\ hand' = Nothing /\ channel' = << >>
  /\ UNCHANGED <<session, offered, accepted, reported, seq, written>> /\ writer' = "Gone"
  /\ Stream' = file' /\ Begins(file, file') /\ Len(Stream') <= Len(Stream)
  /\ \A i \in DOMAIN Stream' :
       \/ Stream'[i] = Stream[i]
       \/ /\ session \in crashed' /\ i = Len(Stream') /\ Len(file) < i /\ Stream[i].part = "body"
          /\ Stream'[i] = [Stream[i] EXCEPT !.part = "torn"]

\* The stream is a sequence of pieces, the file's and then the buffer's.
LEMMA StreamShape ==
  ASSUME Shape
  PROVE  /\ Stream \in Seq(Piece) /\ Len(Stream) = Len(file) + Len(buffer)
         /\ Len(Stream) \in Nat /\ Len(file) \in Nat /\ Len(buffer) \in Nat
         /\ DOMAIN Stream = 1..Len(Stream) /\ DOMAIN file = 1..Len(file)
         /\ DOMAIN buffer = 1..Len(buffer)
         /\ \A i \in DOMAIN file : i \in DOMAIN Stream /\ Stream[i] = file[i]
         /\ \A i \in DOMAIN buffer : Len(file) + i \in DOMAIN Stream /\ Stream[Len(file) + i] = buffer[i]
         /\ \A i \in DOMAIN Stream : i \notin DOMAIN file =>
              i - Len(file) \in DOMAIN buffer /\ Stream[i] = buffer[i - Len(file)]
<1>1. file \in Seq(Piece) /\ buffer \in Seq(Piece)
  BY DEF Shape
<1>2. /\ Stream \in Seq(Piece) /\ Len(Stream) = Len(file) + Len(buffer)
      /\ Len(file) \in Nat /\ Len(buffer) \in Nat
      /\ DOMAIN Stream = 1..Len(file) + Len(buffer)
      /\ DOMAIN file = 1..Len(file) /\ DOMAIN buffer = 1..Len(buffer)
      /\ \A i \in 1..Len(file) + Len(buffer) :
           Stream[i] = IF i <= Len(file) THEN file[i] ELSE buffer[i - Len(file)]
  <2>1. Joins(file, buffer, Stream) /\ DOMAIN file = 1..Len(file) /\ DOMAIN buffer = 1..Len(buffer)
    BY <1>1, LenProperties DEF Joins, Stream
  <2> QED
    BY <1>1, <2>1, JoinedAs
<1>3. \A i \in DOMAIN file : i \in DOMAIN Stream /\ Stream[i] = file[i]
  BY <1>2
<1>4. \A i \in DOMAIN buffer : Len(file) + i \in DOMAIN Stream /\ Stream[Len(file) + i] = buffer[i]
  BY <1>2
<1>5. \A i \in DOMAIN Stream : i \notin DOMAIN file =>
        i - Len(file) \in DOMAIN buffer /\ Stream[i] = buffer[i - Len(file)]
  BY <1>2
<1> QED
  BY <1>2, <1>3, <1>4, <1>5

\* What waits when the channel takes an event, or the writer does.
LEMMA RangeMoves ==
  ASSUME NEW S, NEW s \in Seq(S), NEW e \in S
  PROVE  /\ Range(Append(s, e)) = Range(s) \cup {e}
         /\ s # << >> => Range(s) = Range(Tail(s)) \cup {Head(s)}
         /\ Range(<< >>) = {}
<1>1. Len(s) \in Nat /\ DOMAIN s = 1..Len(s)
  BY LenProperties
<1>2. Range(Append(s, e)) = Range(s) \cup {e}
  <2> DEFINE t == Append(s, e)
  <2>1. /\ t \in Seq(S) /\ Len(t) = Len(s) + 1 /\ t[Len(s) + 1] = e
        /\ \A i \in 1..Len(s) : t[i] = s[i]
    BY AppendProperties
  <2> HIDE DEF t
  <2>2. DOMAIN t = DOMAIN s \cup {Len(s) + 1}
    BY <1>1, <2>1, LenProperties
  <2>3. Range(t) = Range(s) \cup {e}
    BY <1>1, <2>1, <2>2 DEF Range
  <2> QED
    BY <2>3 DEF t
<1>3. ASSUME s # << >> PROVE Range(s) = Range(Tail(s)) \cup {Head(s)}
  <2> DEFINE t == Tail(s)
  <2>1. t \in Seq(S) /\ Len(t) = Len(s) - 1 /\ \A i \in 1..Len(t) : t[i] = s[i + 1]
    BY <1>3, HeadTailProperties
  <2>2. Head(s) = s[1] /\ Len(s) > 0
    BY <1>1, <1>3, EmptySeq
  <2> HIDE DEF t
  <2>3. DOMAIN t = 1..Len(s) - 1
    BY <2>1, LenProperties
  <2>4. Range(t) \cup {s[1]} \subseteq Range(s)
    BY <1>1, <2>1, <2>2, <2>3 DEF Range
  <2>5. ASSUME NEW i \in DOMAIN s PROVE s[i] \in Range(t) \cup {s[1]}
    <3>1. CASE i = 1
      BY <3>1
    <3>2. CASE i # 1
      <4>1. i - 1 \in DOMAIN t /\ t[i - 1] = s[i]
        BY <1>1, <2>1, <2>3, <3>2
      <4> QED
        BY <4>1 DEF Range
    <3> QED
      BY <3>1, <3>2
  <2>6. Range(s) \subseteq Range(t) \cup {s[1]}
    BY <2>5 DEF Range
  <2> QED
    BY <2>2, <2>4, <2>6 DEF t
<1>4. Range(<< >>) = {}
  BY DEF Range
<1> QED
  BY <1>2, <1>3, <1>4

\* A step leaves the stream, lengthens it or shortens it.
LEMMA StreamMoves ==
  ASSUME FileInv, [Next]_vars
  PROVE  Untouched \/ Lengthened \/ Shortened
<1>1. Shape /\ Lifecycle /\ Offers /\ Queued
  BY DEF FileInv
<1>2. /\ Stream \in Seq(Piece) /\ Len(Stream) \in Nat /\ DOMAIN Stream = 1..Len(Stream)
      /\ DOMAIN buffer = 1..Len(buffer)
  BY <1>1, StreamShape
<1>3. CASE WriteEvent
  <2>1. writer = "Writing" /\ AfterWrite /\ UNCHANGED <<procVars, offerVars, channel, faultVars>>
    BY <1>3, Zenon DEF WriteEvent
  <2>2. hand \in Event
    BY <1>1, <2>1, HandIsEvent
  <2>3. /\ Stream' = Stream \o Line
        /\ \A i \in DOMAIN buffer' : buffer'[i].id = hand \/ \E j \in DOMAIN buffer : buffer[j].id = buffer'[i].id
    BY <1>1, <1>3, <2>2, WriteAdds
  <2>4. Line \in Seq(Piece) /\ Len(Line) = 2 /\ Line[1] = Written("body") /\ Line[2] = Written("end")
    BY <1>1, <2>2, LineShape DEF Written
  <2>5. Joins(Stream, Line, Stream')
    BY <2>3 DEF Joins
  <2> HIDE DEF Line
  <2>6. /\ Len(Stream') = Len(Stream) + 2 /\ DOMAIN Stream' = 1..Len(Stream) + 2 /\ Begins(Stream, Stream')
        /\ \A i \in 1..Len(Stream) + 2 : Stream'[i] = IF i <= Len(Stream) THEN Stream[i] ELSE Line[i - Len(Stream)]
    <3>1. /\ Len(Stream') = Len(Stream) + Len(Line) /\ DOMAIN Stream' = 1..Len(Stream) + Len(Line)
          /\ Begins(Stream, Stream')
          /\ \A i \in 1..Len(Stream) + Len(Line) :
               Stream'[i] = IF i <= Len(Stream) THEN Stream[i] ELSE Line[i - Len(Stream)]
      <4>1. Stream \in Seq(Piece) /\ Line \in Seq(Piece) /\ Joins(Stream, Line, Stream')
        BY <1>2, <2>4, <2>5
      <4> QED
        BY <4>1, JoinedAs
    <3> QED
      BY <2>4, <3>1
  <2>7. ASSUME NEW i \in DOMAIN Stream', i > Len(Stream)
        PROVE  \/ i = Len(Stream) + 1 /\ Stream'[i] = Written("body")
               \/ i = Len(Stream) + 2 /\ Stream'[i] = Written("end")
    <3>1. i \in Int /\ i \in 1..Len(Stream) + 2 /\ Stream'[i] = Line[i - Len(Stream)]
      BY <1>2, <2>6, <2>7
    <3>2. i = Len(Stream) + 1 \/ i = Len(Stream) + 2
      BY <1>2, <2>7, <3>1
    <3> QED
      BY <1>2, <2>4, <3>1, <3>2
  <2> QED
    BY <2>1, <2>3, <2>6, <2>7 DEF Lengthened, procVars, offerVars
<1>4. CASE WriteFails
  <2>1. /\ writer = "Writing" /\ AfterWrite /\ UNCHANGED <<procVars, offerVars, channel>>
        /\ session \in failed'
    BY <1>4 DEF WriteFails
  <2>2. hand \in Event
    BY <1>1, <2>1, HandIsEvent
  <2>3. Line[1] = Written("body") /\ Written("body").id = hand /\ Line[1] \in Piece
    <3>1. Line[1] = Written("body") /\ Line \in Seq(Piece) /\ Len(Line) = 2
      BY <1>1, <2>2, LineShape DEF Written
    <3>2. Written("body").id = hand
      BY DEF Written
    <3> HIDE DEF Line
    <3> QED
      BY <3>1, <3>2
  <2>4. CASE buffer' = buffer /\ Stream' = Stream
    <3>1. Begins(Stream, Stream') /\ \A i \in DOMAIN Stream' : ~(i > Len(Stream))
      BY <1>2, <2>4 DEF Begins
    <3>2. \A i \in DOMAIN buffer' : \E j \in DOMAIN buffer : buffer[j].id = buffer'[i].id
      BY <2>4
    <3> QED
      BY <2>1, <3>1, <3>2 DEF Lengthened, procVars, offerVars
  <2>5. CASE buffer' = Append(buffer, Line[1]) /\ Stream' = Append(Stream, Line[1])
    <3> DEFINE e == Line[1]
    <3>1. e \in Piece /\ e = Written("body") /\ e.id = hand /\ buffer \in Seq(Piece)
      BY <1>1, <2>3 DEF Shape
    <3>2. buffer' = Append(buffer, e) /\ Stream' = Append(Stream, e)
      BY <2>5
    <3> HIDE DEF e
    <3>3. /\ DOMAIN Stream' = 1..Len(Stream) + 1 /\ Stream'[Len(Stream) + 1] = e /\ Begins(Stream, Stream')
      <4>1. /\ Append(Stream, e) \in Seq(Piece) /\ Len(Append(Stream, e)) = Len(Stream) + 1
            /\ Append(Stream, e)[Len(Stream) + 1] = e
            /\ \A i \in 1..Len(Stream) : Append(Stream, e)[i] = Stream[i]
        BY <1>2, <3>1, AppendProperties
      <4> QED
        BY <1>2, <3>2, <4>1, LenProperties DEF Begins
    <3>4. \A i \in DOMAIN buffer' : buffer'[i].id = hand \/ \E j \in DOMAIN buffer : buffer[j].id = buffer'[i].id
      <4>1. /\ Append(buffer, e) \in Seq(Piece) /\ Len(Append(buffer, e)) = Len(buffer) + 1
            /\ Append(buffer, e)[Len(buffer) + 1] = e /\ Len(buffer) \in Nat
            /\ \A i \in 1..Len(buffer) : Append(buffer, e)[i] = buffer[i]
        BY <1>2, <3>1, AppendProperties, LenProperties
      <4>2. DOMAIN buffer' = 1..Len(buffer) + 1
        BY <3>2, <4>1, LenProperties
      <4> QED
        BY <1>2, <3>1, <3>2, <4>1, <4>2
    <3>5. \A i \in DOMAIN Stream' : i > Len(Stream) => i = Len(Stream) + 1 /\ Stream'[i] = Written("body")
      BY <1>2, <3>1, <3>3
    <3> QED
      BY <2>1, <3>3, <3>4, <3>5 DEF Lengthened, procVars, offerVars
  <2> QED
    BY <1>1, <1>4, <2>2, <2>4, <2>5, FailAdds
<1>5. CASE Crash \/ (FlushFails /\ writer = "Closing")
  <2>1. /\ buffer' = << >> /\ Stream' = file' /\ Begins(file, file') /\ Len(file') <= Len(Stream)
        /\ \A i \in DOMAIN file' :
              \/ file'[i] = Stream[i]
              \/ /\ Crash /\ i = Len(file') /\ Len(file) < i /\ Stream[i].part = "body"
                 /\ file'[i] = [Stream[i] EXCEPT !.part = "torn"]
    BY <1>1, <1>5, CutShort
  <2>2. Crash => session \in crashed'
    BY DEF Crash
  <2>3. CASE Crash
    <3>1. /\ hand' = Nothing /\ channel' = << >> /\ UNCHANGED <<session, offerVars, seq, written>>
          /\ writer' = "Gone"
      BY <2>3 DEF Crash
    <3> QED
      BY <2>1, <2>2, <2>3, <3>1 DEF Shortened, offerVars
  <2>4. CASE FlushFails /\ writer = "Closing"
    <3>1. /\ UNCHANGED <<session, offerVars, channel, hand, seq, written>> /\ AfterFlush
          /\ session \in failed'
      BY <2>4 DEF FlushFails
    <3>2. hand = Nothing /\ channel = << >>
      BY <1>1, <2>4 DEF Lifecycle
    <3> QED
      BY <2>1, <2>2, <2>4, <3>1, <3>2 DEF Shortened, offerVars, AfterFlush
  <2> QED
    BY <1>5, <2>3, <2>4
<1>6. CASE Flush \/ (FlushFails /\ writer = "Flushing")
  <2>1. Stream' = Stream /\ \A i \in DOMAIN buffer' : \E j \in DOMAIN buffer : buffer'[i] = buffer[j]
    BY <1>1, <1>6, FlushMoves
  <2>2. UNCHANGED <<channel, hand, seq, written, offerVars, session>> /\ writer' # "Opening"
    BY <1>6 DEF Flush, FlushFails, AfterFlush
  <2>3. ~TryPersist \/ accepted' = accepted
    BY <2>2 DEF offerVars
  <2> QED
    BY <2>1, <2>2, <2>3 DEF Untouched, Waiting
<1>7. ASSUME UNCHANGED <<file, buffer>> PROVE Stream' = Stream /\ UNCHANGED buffer
  BY <1>7 DEF Stream
<1>8. CASE Close \/ Open \/ EndOfInput \/ UNCHANGED vars
  <2>1. /\ UNCHANGED <<file, buffer, channel, hand, written, session, accepted>>
        /\ writer' # "Opening" \/ writer = "Opening"
        /\ seq' = seq \/ writer = "Opening"
    BY <1>8 DEF Close, Open, EndOfInput, vars, writerVars, procVars, offerVars, OpenedFile
  <2> QED
    BY <1>7, <2>1 DEF Untouched, Waiting
<1>9. hand = Nothing \/ writer = "Writing"
  BY <1>1 DEF Lifecycle
<1>10. channel \in Seq(Event)
  BY <1>1 DEF Shape
<1>11. CASE Start
  <2>1. /\ UNCHANGED <<file, buffer, hand, written, accepted, seq>> /\ channel' = << >>
        /\ hand = Nothing /\ channel = << >> /\ session' = session + 1 /\ session \in Nat
    BY <1>1, <1>9, <1>11 DEF Start, Lifecycle, offerVars, Shape
  <2> QED
    BY <1>7, <2>1 DEF Untouched, Waiting
<1>12. CASE TryPersist
  <2> DEFINE id == Len(offered) + 1
  <2>1. /\ UNCHANGED <<file, buffer, hand, written, seq, writer, session>>
        /\ \/ channel' = channel /\ accepted' = accepted
           \/ channel' = Append(channel, id) /\ accepted' = accepted \cup {id}
    BY <1>12 DEF TryPersist, procVars
  <2>2. id \in Event
    BY <1>12, OfferSide, LogAssumption DEF TryPersist, Event
  <2>3. Range(Append(channel, id)) = Range(channel) \cup {id}
    BY <1>10, <2>2, RangeMoves
  <2> HIDE DEF id
  <2>4. Range(channel') \subseteq Range(channel) \cup {id} /\ Range(channel) \subseteq Range(channel')
        /\ accepted' \subseteq accepted \cup Range(channel')
    BY <2>1, <2>3
  <2> QED
    BY <1>7, <2>1, <2>4 DEF Untouched, Waiting, id
<1>13. CASE OpenFails
  <2>1. /\ UNCHANGED <<file, buffer, hand, written, accepted, seq, session>> /\ channel' = << >>
        /\ session \in failed' /\ writer' # "Opening"
    BY <1>13 DEF OpenFails, offerVars
  <2>2. Range(channel') = {}
    BY <2>1 DEF Range
  <2> QED
    BY <1>7, <2>1, <2>2 DEF Untouched, Waiting
<1>14. CASE Receive
  <2>1. /\ UNCHANGED <<file, buffer, written, accepted, seq, session>>
        /\ channel' = Tail(channel) /\ hand' = Head(channel) /\ channel # << >>
        /\ writer' # "Opening" /\ hand = Nothing
    BY <1>9, <1>14 DEF Receive, MayReceive, procVars, offerVars
  <2>2. Range(channel) = Range(channel') \cup {hand'}
    <3>1. Head(channel) \in Event
      BY <1>10, <2>1, HeadTailProperties
    <3>2. Range(channel) = Range(Tail(channel)) \cup {Head(channel)}
      BY <1>10, <2>1, <3>1, RangeMoves
    <3> QED
      BY <2>1, <3>2
  <2>3. Waiting' = Range(channel) /\ Waiting = Range(channel) \cup {Nothing}
    BY <2>1, <2>2 DEF Waiting
  <2> QED
    BY <1>7, <2>1, <2>3 DEF Untouched
<1> QED
  BY <1>3, <1>4, <1>5, <1>6, <1>8, <1>11, <1>12, <1>13, <1>14 DEF Next, Operate, Write, FlushFails

-----------------------------------------------------------------------------
(* The stream's part of the invariant.                                      *)

\* What was accepted stays accepted, in the session it was offered in.
LEMMA AcceptedStays ==
  ASSUME FileInv, [Next]_vars
  PROVE  /\ \A id \in accepted : /\ id \in accepted' /\ offered'[id] = offered[id]
                                 /\ id \in Nat /\ id < Len(offered) + 1
                                 /\ offered[id] \in Nat /\ offered[id] <= session
         /\ session \in Nat /\ Len(offered) \in Nat
         /\ session' = session \/ session' = session + 1
<1>1. /\ accepted \subseteq DOMAIN offered /\ session \in Nat
      /\ \A i \in DOMAIN offered : offered[i] \in 1..session
  BY DEF FileInv, Offers, Shape
<1>2. Len(offered) \in Nat /\ DOMAIN offered = 1..Len(offered)
  BY OfferSide
<1>3. \A id \in accepted : id \in accepted' /\ offered'[id] = offered[id]
  BY <1>1, OfferSide DEF TryPersist
<1>4. \A id \in accepted : id \in Nat /\ id < Len(offered) + 1 /\ offered[id] \in Nat /\ offered[id] <= session
  BY <1>1, <1>2
<1> QED
  BY <1>1, <1>2, <1>3, <1>4, SessionSide

\* A session that begins finds no buffer.
LEMMA StartsEmpty ==
  ASSUME FileInv, [Next]_vars, session' # session
  PROVE  buffer = << >> /\ Untouched /\ session' = session + 1 /\ phase = "Down"
<1>1. Start /\ session' = session + 1
  BY SessionSide
<1>2. phase = "Down" /\ writer = "Gone" /\ buffer = << >>
  BY <1>1 DEF Start, FileInv, Lifecycle
<1>3. ~Lengthened /\ ~Shortened
  BY <1>1, SessionSide DEF Lengthened, Shortened
<1> QED
  BY <1>1, <1>2, <1>3, StreamMoves

\* What is written was accepted and is before what is to come.
LEMMA KnownStep == FileInv /\ [Next]_vars => Known'
<1> SUFFICES ASSUME FileInv, [Next]_vars PROVE Known'
  OBVIOUS
<1>1. /\ \A id \in accepted : /\ id \in accepted' /\ offered'[id] = offered[id]
                              /\ id \in Nat /\ id < Len(offered) + 1
                              /\ offered[id] \in Nat /\ offered[id] <= session
      /\ session \in Nat /\ (session' = session \/ session' = session + 1)
  BY AcceptedStays
<1>2. Shape /\ Known /\ Queued
  BY DEF FileInv
<1>3. /\ Stream \in Seq(Piece) /\ Len(Stream) \in Nat /\ DOMAIN Stream = 1..Len(Stream)
      /\ DOMAIN buffer = 1..Len(buffer)
      /\ \A i \in DOMAIN buffer : Len(file) + i \in DOMAIN Stream /\ Stream[Len(file) + i] = buffer[i]
  BY <1>2, StreamShape
<1>4. \A i \in DOMAIN Stream : Stream[i] \in Piece
  BY <1>3
<1>5. seq \in Nat /\ written \in Nat
  BY <1>2 DEF Shape
<1>6. Shape' /\ DOMAIN Stream' = 1..Len(Stream') /\ Len(Stream') \in Nat
  BY ShapeStep, StreamShape
<1>7. \A i \in DOMAIN buffer : buffer[i].id \in accepted /\ offered[buffer[i].id] = session
  BY <1>2, <1>3 DEF Known
<1>8. \A x \in Waiting : x # Nothing => Ours(x)
  BY <1>2 DEF Waiting, Queued, Range
<1>9. CASE Untouched
  <2>1. ASSUME NEW i \in DOMAIN Stream'
        PROVE  LET p == Stream'[i] IN
               /\ p.id \in accepted' /\ p.at \in 1..written'
               /\ offered'[p.id] = session' => writer' # "Opening" /\ p.seq <= seq'
               /\ \A x \in Waiting' : x # Nothing => p.id < x
    <3>1. i \in DOMAIN Stream /\ Stream'[i] = Stream[i] /\ written' = written
      BY <1>9, <2>1 DEF Untouched
    <3> DEFINE p == Stream[i]
    <3>2. /\ p.id \in accepted /\ p.at \in 1..written
          /\ offered[p.id] = session => writer # "Opening" /\ p.seq <= seq
          /\ \A x \in Waiting : x # Nothing => p.id < x
      BY <1>2, <3>1 DEF Known
    <3> HIDE DEF p
    <3>3. p.id \in accepted' /\ offered'[p.id] = offered[p.id]
      BY <1>1, <3>2
    <3>4. \A x \in Waiting' : x # Nothing => p.id < x
      BY <1>1, <1>9, <3>2 DEF Untouched
    <3>5. offered'[p.id] = session' => writer' # "Opening" /\ p.seq <= seq'
      BY <1>1, <1>9, <3>2, <3>3 DEF Untouched
    <3> QED
      BY <3>1, <3>2, <3>3, <3>4, <3>5 DEF p
  <2>2. ASSUME NEW i \in DOMAIN buffer' PROVE offered'[buffer'[i].id] = session'
    <3>1. PICK j \in DOMAIN buffer : buffer'[i] = buffer[j]
      BY <1>9, <2>2 DEF Untouched
    <3>2. session' = session
      <4>1. DOMAIN << >> = {}
        OBVIOUS
      <4> QED
        BY <3>1, <4>1, StartsEmpty
    <3> QED
      BY <1>1, <1>7, <3>1, <3>2
  <2> QED
    BY <2>1, <2>2 DEF Known
<1>10. CASE Lengthened
  <2>1. /\ writer = "Writing" /\ hand' = Nothing /\ channel' = channel /\ session' = session
        /\ seq' = seq + 1 /\ written' = written + 1 /\ writer' # "Opening"
        /\ accepted' = accepted /\ offered' = offered
    BY <1>10 DEF Lengthened, AfterWrite
  <2>2. Ours(hand) /\ hand \in Waiting /\ hand # Nothing /\ hand \in Nat
    <3>1. Ours(hand) /\ hand # Nothing
      BY <2>1, HandIsEvent DEF FileInv, Lifecycle
    <3> QED
      BY <1>1, <3>1 DEF Ours, Waiting
  <2>3. \A x \in Waiting' : x # Nothing => x \in Waiting /\ hand < x
    BY <1>2, <2>1 DEF Waiting, Queued, Range
  <2>4. ASSUME NEW i \in DOMAIN Stream'
        PROVE  LET p == Stream'[i] IN
               /\ p.id \in accepted' /\ p.at \in 1..written'
               /\ offered'[p.id] = session' => writer' # "Opening" /\ p.seq <= seq'
               /\ \A x \in Waiting' : x # Nothing => p.id < x
    <3>1. CASE i \in DOMAIN Stream
      <4>1. Stream'[i] = Stream[i]
        BY <1>10, <3>1 DEF Lengthened, Begins
      <4> DEFINE p == Stream[i]
      <4>2. /\ p.id \in accepted /\ p.at \in 1..written
            /\ offered[p.id] = session => p.seq <= seq
            /\ \A x \in Waiting : x # Nothing => p.id < x
        BY <1>2, <3>1 DEF Known
      <4>3. p.seq \in Nat
        BY <1>4, <3>1 DEF Piece
      <4> HIDE DEF p
      <4>4. p.at \in 1..written' /\ (offered[p.id] = session => p.seq <= seq')
        BY <1>5, <2>1, <4>2, <4>3
      <4> QED
        BY <2>1, <2>3, <4>1, <4>2, <4>4 DEF p
    <3>2. CASE i \notin DOMAIN Stream
      <4>1. PICK part \in {"body", "end"} : Stream'[i] = Written(part)
        <5>1. i \in Nat /\ i > Len(Stream)
          BY <1>3, <1>6, <3>2
        <5> QED
          BY <1>10, <5>1 DEF Lengthened
      <4>2. Stream'[i].id = hand /\ Stream'[i].seq = seq + 1 /\ Stream'[i].at = written + 1
        BY <4>1 DEF Written
      <4>3. hand \in accepted /\ written + 1 \in 1..written + 1 /\ seq + 1 <= seq + 1
        BY <1>5, <2>2 DEF Ours
      <4> QED
        BY <2>1, <2>3, <4>2, <4>3
    <3> QED
      BY <3>1, <3>2
  <2>5. ASSUME NEW i \in DOMAIN buffer' PROVE offered'[buffer'[i].id] = session'
    <3>1. buffer'[i].id = hand \/ \E j \in DOMAIN buffer : buffer[j].id = buffer'[i].id
      BY <1>10, <2>5 DEF Lengthened
    <3> QED
      BY <1>7, <2>1, <2>2, <3>1 DEF Ours
  <2> QED
    BY <2>4, <2>5 DEF Known
<1>11. CASE Shortened
  <2>1. /\ channel' = << >> /\ hand' = Nothing /\ buffer' = << >> /\ session' = session
        /\ seq' = seq /\ written' = written /\ writer' = "Gone" /\ offered' = offered /\ accepted' = accepted
        /\ Len(Stream') <= Len(Stream)
        /\ \A i \in DOMAIN Stream' : Stream'[i] = Stream[i] \/ Stream'[i] = [Stream[i] EXCEPT !.part = "torn"]
    BY <1>11 DEF Shortened
  <2>2. Waiting' = {Nothing}
    BY <2>1 DEF Waiting, Range
  <2>3. ASSUME NEW i \in DOMAIN Stream'
        PROVE  LET p == Stream'[i] IN
               /\ p.id \in accepted' /\ p.at \in 1..written'
               /\ offered'[p.id] = session' => writer' # "Opening" /\ p.seq <= seq'
               /\ \A x \in Waiting' : x # Nothing => p.id < x
    <3>1. i \in DOMAIN Stream
      BY <1>3, <1>6, <2>1
    <3>2. /\ Stream'[i].id = Stream[i].id /\ Stream'[i].at = Stream[i].at /\ Stream'[i].seq = Stream[i].seq
      BY <1>4, <2>1, <3>1 DEF Piece
    <3>3. /\ Stream[i].id \in accepted /\ Stream[i].at \in 1..written
          /\ offered[Stream[i].id] = session => Stream[i].seq <= seq
      BY <1>2, <3>1 DEF Known
    <3> QED
      BY <2>1, <2>2, <3>2, <3>3
  <2> QED
    BY <2>1, <2>3 DEF Known
<1> QED
  BY <1>9, <1>10, <1>11, StreamMoves

\* A session that has met no fault after the step.
WholeNext(s) == s \notin failed' \cup crashed'

\* A newline stays behind its body.
LEMMA LinkedStep == FileInv /\ [Next]_vars => Linked'
<1> SUFFICES ASSUME FileInv, [Next]_vars, NEW i \in DOMAIN Stream'
             PROVE  LET p == Stream'[i] IN
                    /\ p.part = "end" => i > 1 /\ Stream'[i - 1].part = "body" /\ Stream'[i - 1].id = p.id
                    /\ p.part = "torn" => offered'[p.id] \in crashed'
                    /\ p.part = "body" /\ WholeNext(offered'[p.id]) =>
                         i + 1 \in DOMAIN Stream' /\ Stream'[i + 1].part = "end"
  BY DEF Linked, Whole, WholeNext
<1> DEFINE p == Stream'[i]
<1>1. /\ \A id \in accepted : id \in accepted' /\ offered'[id] = offered[id]
      /\ failed \subseteq failed' /\ crashed \subseteq crashed'
  BY AcceptedStays, SessionSide
<1>2. Shape /\ Known /\ Linked
  BY DEF FileInv
<1>3. /\ Stream \in Seq(Piece) /\ Len(Stream) \in Nat /\ DOMAIN Stream = 1..Len(Stream)
      /\ Len(file) \in Nat /\ DOMAIN file = 1..Len(file)
      /\ \A k \in DOMAIN file : Stream[k] = file[k]
      /\ \A k \in DOMAIN Stream : k \notin DOMAIN file =>
           k - Len(file) \in DOMAIN buffer /\ Stream[k] = buffer[k - Len(file)]
  BY <1>2, StreamShape
<1>4. DOMAIN Stream' = 1..Len(Stream') /\ Len(Stream') \in Nat
  BY ShapeStep, StreamShape
<1>5. \A k \in DOMAIN Stream : Stream[k] \in Piece /\ Stream[k].id \in accepted
  BY <1>2, <1>3 DEF Known
<1>6. \A k \in DOMAIN Stream : LET q == Stream[k] IN
        /\ q.part = "end" => k > 1 /\ Stream[k - 1].part = "body" /\ Stream[k - 1].id = q.id
        /\ q.part = "torn" => offered[q.id] \in crashed
        /\ q.part = "body" /\ Whole(offered[q.id]) =>
             k + 1 \in DOMAIN Stream /\ Stream[k + 1].part = "end"
  BY <1>2 DEF Linked
<1>7. \A k \in DOMAIN Stream : offered'[Stream[k].id] = offered[Stream[k].id]
  BY <1>1, <1>5
<1>8. \A k \in DOMAIN Stream : k \notin DOMAIN file => offered[Stream[k].id] = session
  BY <1>2, <1>3 DEF Known
<1>9. CASE Untouched
  <2>1. Stream' = Stream
    BY <1>9 DEF Untouched
  <2> QED
    BY <1>1, <1>6, <1>7, <2>1 DEF Whole, WholeNext
<1>10. CASE Lengthened
  <2>1. /\ Begins(Stream, Stream') /\ writer = "Writing" /\ offered' = offered /\ session' = session
        /\ session \in failed' \/ Len(Stream') = Len(Stream) + 2
        /\ \A k \in DOMAIN Stream' : k > Len(Stream) =>
             \/ k = Len(Stream) + 1 /\ Stream'[k] = Written("body")
             \/ k = Len(Stream) + 2 /\ Stream'[k] = Written("end")
    BY <1>10 DEF Lengthened
  <2>2. \A part : Written(part).id = hand /\ Written(part).part = part
    BY DEF Written
  <2>3. offered[hand] = session
    BY <2>1, HandIsEvent DEF FileInv, Ours
  <2>4. \A k \in DOMAIN Stream : k \in DOMAIN Stream' /\ Stream'[k] = Stream[k]
    <3>1. Len(Stream) <= Len(Stream') /\ \A k \in DOMAIN Stream : Stream'[k] = Stream[k]
      BY <2>1 DEF Begins
    <3>2. \A k \in DOMAIN Stream : k \in DOMAIN Stream'
      BY <1>3, <1>4, <3>1
    <3> QED
      BY <3>1, <3>2
  <2>5. CASE i \in DOMAIN Stream
    <3>1. p = Stream[i]
      BY <2>4, <2>5
    <3>2. i > 1 => i - 1 \in DOMAIN Stream
      BY <1>3, <2>5
    <3>3. p.part = "end" => i > 1 /\ Stream'[i - 1].part = "body" /\ Stream'[i - 1].id = p.id
      BY <1>6, <2>4, <2>5, <3>1, <3>2
    <3>4. p.part = "torn" => offered'[p.id] \in crashed'
      BY <1>1, <1>6, <1>7, <2>5, <3>1
    <3>5. p.part = "body" /\ WholeNext(offered'[p.id]) => i + 1 \in DOMAIN Stream' /\ Stream'[i + 1].part = "end"
      BY <1>1, <1>6, <1>7, <2>4, <2>5, <3>1 DEF Whole, WholeNext
    <3> QED
      BY <3>3, <3>4, <3>5
  <2>6. CASE i \notin DOMAIN Stream
    <3>1. i > Len(Stream) /\ i \in Nat
      BY <1>3, <1>4, <2>6
    <3>2. CASE i = Len(Stream) + 1 /\ p = Written("body")
      <4>1. p.part = "body" /\ p.id = hand
        BY <2>2, <3>2
      <4>2. ASSUME WholeNext(offered'[p.id]) PROVE i + 1 \in DOMAIN Stream' /\ Stream'[i + 1].part = "end"
        <5>1. session \notin failed'
          BY <2>1, <2>3, <4>1, <4>2 DEF Whole, WholeNext
        <5>2. Len(Stream') = Len(Stream) + 2
          BY <2>1, <5>1
        <5>3. i + 1 \in DOMAIN Stream' /\ i + 1 > Len(Stream) /\ i + 1 # Len(Stream) + 1
          BY <1>3, <1>4, <3>2, <5>2
        <5>4. Stream'[i + 1] = Written("end")
          BY <2>1, <5>3
        <5> QED
          BY <2>2, <5>3, <5>4
      <4> QED
        BY <4>1, <4>2
    <3>3. CASE i = Len(Stream) + 2 /\ p = Written("end")
      <4>1. p.part = "end" /\ p.id = hand
        BY <2>2, <3>3
      <4>2. i - 1 \in DOMAIN Stream' /\ i - 1 > Len(Stream) /\ i - 1 # Len(Stream) + 2 /\ i > 1
        BY <1>3, <1>4, <3>3
      <4>3. Stream'[i - 1] = Written("body")
        BY <2>1, <4>2
      <4> QED
        BY <2>2, <4>1, <4>2, <4>3
    <3> QED
      BY <2>1, <3>1, <3>2, <3>3
  <2> QED
    BY <2>5, <2>6
<1>11. CASE Shortened
  <2>1. /\ session \in failed' \cup crashed' /\ offered' = offered
        /\ Stream' = file' /\ Begins(file, file') /\ Len(Stream') <= Len(Stream)
        /\ \A k \in DOMAIN Stream' :
             \/ Stream'[k] = Stream[k]
             \/ /\ session \in crashed' /\ k = Len(Stream') /\ Len(file) < k /\ Stream[k].part = "body"
                /\ Stream'[k] = [Stream[k] EXCEPT !.part = "torn"]
    BY <1>11 DEF Shortened
  <2>2. i \in DOMAIN Stream
    BY <1>3, <1>4, <2>1
  <2>3. CASE p = Stream[i]
    <3>1. ASSUME p.part = "end" PROVE i > 1 /\ Stream'[i - 1].part = "body" /\ Stream'[i - 1].id = p.id
      <4>1. i > 1 /\ Stream[i - 1].part = "body" /\ Stream[i - 1].id = p.id
        BY <1>6, <2>2, <2>3, <3>1
      <4>2. i - 1 \in DOMAIN Stream' /\ i - 1 # Len(Stream')
        BY <1>4, <4>1
      <4> QED
        BY <2>1, <4>1, <4>2
    <3>2. p.part = "torn" => offered'[p.id] \in crashed'
      BY <1>1, <1>6, <1>7, <2>2, <2>3
    <3>3. ASSUME p.part = "body", WholeNext(offered'[p.id])
          PROVE  i + 1 \in DOMAIN Stream' /\ Stream'[i + 1].part = "end"
      <4>1. offered[p.id] # session /\ Whole(offered[p.id])
        BY <1>1, <1>7, <2>1, <2>2, <2>3, <3>3 DEF Whole, WholeNext
      <4>2. i + 1 \in DOMAIN Stream /\ Stream[i + 1].part = "end"
        BY <1>6, <2>2, <2>3, <3>3, <4>1
      <4>3. Stream[i + 1].id = p.id
        <5>1. Stream[(i + 1) - 1].id = Stream[i + 1].id
          BY <1>6, <4>2
        <5>2. (i + 1) - 1 = i
          BY <1>4
        <5> QED
          BY <2>3, <5>1, <5>2
      <4>4. i + 1 \in DOMAIN file
        BY <1>8, <4>1, <4>2, <4>3
      <4>5. i + 1 \in DOMAIN Stream' /\ Stream'[i + 1] = file[i + 1]
        BY <1>3, <1>4, <2>1, <4>4 DEF Begins
      <4> QED
        BY <1>3, <4>2, <4>4, <4>5
    <3> QED
      BY <3>1, <3>2, <3>3
  <2>4. CASE session \in crashed' /\ Len(file) < i /\ p = [Stream[i] EXCEPT !.part = "torn"]
    <3>1. p.part = "torn" /\ p.id = Stream[i].id
      BY <1>5, <2>2, <2>4 DEF Piece
    <3>2. i \notin DOMAIN file
      BY <1>3, <1>4, <2>4
    <3>3. offered'[p.id] \in crashed'
      BY <1>8, <2>1, <2>2, <2>4, <3>1, <3>2
    <3> QED
      BY <3>1, <3>3
  <2> QED
    BY <2>1, <2>3, <2>4
<1> QED
  BY <1>9, <1>10, <1>11, StreamMoves

\* Bodies stay in order.
LEMMA OrderedStep == FileInv /\ [Next]_vars => Ordered'
<1> SUFFICES ASSUME FileInv, [Next]_vars, NEW i \in DOMAIN Stream', NEW j \in DOMAIN Stream',
                    j < i, Stream'[i].part # "end"
             PROVE  LET p == Stream'[i]  q == Stream'[j] IN
                    /\ q.id < p.id /\ q.at < p.at
                    /\ offered'[q.id] = offered'[p.id] => q.seq < p.seq
  BY DEF Ordered
<1>1. \A id \in accepted : id \in accepted' /\ offered'[id] = offered[id]
  BY AcceptedStays
<1>2. Shape /\ Known /\ Ordered /\ seq \in Nat /\ written \in Nat
  BY DEF FileInv, Shape
<1>3. /\ Stream \in Seq(Piece) /\ Len(Stream) \in Nat /\ DOMAIN Stream = 1..Len(Stream)
      /\ \A k \in DOMAIN Stream : Stream[k] \in Piece
  BY <1>2, StreamShape
<1>4. DOMAIN Stream' = 1..Len(Stream') /\ Len(Stream') \in Nat
  BY ShapeStep, StreamShape
<1>5. \A k \in DOMAIN Stream : Stream[k].id \in accepted /\ offered'[Stream[k].id] = offered[Stream[k].id]
  BY <1>1, <1>2 DEF Known
<1>6. ASSUME i \in DOMAIN Stream, j \in DOMAIN Stream, Stream[i].part # "end"
      PROVE  /\ Stream[j].id < Stream[i].id /\ Stream[j].at < Stream[i].at
             /\ offered'[Stream[j].id] = offered'[Stream[i].id] => Stream[j].seq < Stream[i].seq
  <2>1. /\ Stream[j].id < Stream[i].id /\ Stream[j].at < Stream[i].at
        /\ offered[Stream[j].id] = offered[Stream[i].id] => Stream[j].seq < Stream[i].seq
    BY <1>2, <1>6 DEF Ordered
  <2> QED
    BY <1>5, <1>6, <2>1
<1>7. CASE Untouched
  BY <1>6, <1>7 DEF Untouched
<1>8. CASE Lengthened
  <2>1. /\ Begins(Stream, Stream') /\ writer = "Writing" /\ offered' = offered
        /\ \A k \in DOMAIN Stream' : k > Len(Stream) =>
             \/ k = Len(Stream) + 1 /\ Stream'[k] = Written("body")
             \/ k = Len(Stream) + 2 /\ Stream'[k] = Written("end")
    BY <1>8 DEF Lengthened
  <2>2. Written("end").part = "end"
    BY DEF Written
  <2>3. \A k \in DOMAIN Stream : Stream'[k] = Stream[k]
    BY <1>3, <1>4, <2>1 DEF Begins
  <2>4. CASE i \in DOMAIN Stream
    <3>1. j \in DOMAIN Stream
      BY <1>3, <1>4, <2>4
    <3> QED
      BY <1>6, <2>3, <2>4, <3>1
  <2>5. CASE i \notin DOMAIN Stream
    <3>1. i > Len(Stream)
      BY <1>3, <1>4, <2>5
    <3>2. i = Len(Stream) + 1 /\ Stream'[i] = Written("body")
      BY <2>1, <2>2, <3>1
    <3>3. j \in DOMAIN Stream
      BY <1>3, <1>4, <3>2
    <3>4. Ours(hand) /\ hand # Nothing /\ hand \in Waiting
      BY <2>1, HandIsEvent DEF FileInv, Lifecycle, Waiting
    <3>5. /\ Stream[j].id < hand /\ Stream[j].at \in 1..written
          /\ offered[Stream[j].id] = session => Stream[j].seq <= seq
      BY <1>2, <3>3, <3>4 DEF Known
    <3>6. Stream[j].seq \in Nat
      BY <1>3, <3>3 DEF Piece
    <3>7. Stream'[i].id = hand /\ Stream'[i].at = written + 1 /\ Stream'[i].seq = seq + 1
      BY <3>2 DEF Written
    <3>8. Stream[j].at < written + 1 /\ (offered[Stream[j].id] = session => Stream[j].seq < seq + 1)
      BY <1>2, <3>5, <3>6
    <3> QED
      BY <2>1, <2>3, <3>3, <3>4, <3>5, <3>7, <3>8 DEF Ours
  <2> QED
    BY <2>4, <2>5
<1>9. CASE Shortened
  <2>1. /\ offered' = offered /\ Len(Stream') <= Len(Stream)
        /\ \A k \in DOMAIN Stream' :
             \/ Stream'[k] = Stream[k]
             \/ Stream[k].part = "body" /\ Stream'[k] = [Stream[k] EXCEPT !.part = "torn"]
    BY <1>9 DEF Shortened
  <2>2. i \in DOMAIN Stream /\ j \in DOMAIN Stream
    BY <1>3, <1>4, <2>1
  <2>3. \A k \in {i, j} : /\ Stream'[k].id = Stream[k].id /\ Stream'[k].at = Stream[k].at
                          /\ Stream'[k].seq = Stream[k].seq
    <3>1. ASSUME NEW k \in {i, j}
          PROVE  /\ Stream[k] \in Piece
                 /\ Stream'[k] = Stream[k] \/ Stream'[k] = [Stream[k] EXCEPT !.part = "torn"]
      BY <1>3, <2>1, <2>2
    <3> QED
      BY <3>1 DEF Piece
  <2>4. Stream[i].part # "end"
    BY <2>1, <2>2
  <2> QED
    BY <1>6, <2>2, <2>3, <2>4
<1> QED
  BY <1>7, <1>8, <1>9, StreamMoves

\* An accepted event is somewhere, as long as no fault meets its session.
LEMMA CompleteStep == FileInv /\ [Next]_vars => Complete'
<1> SUFFICES ASSUME FileInv, [Next]_vars, NEW id \in accepted', WholeNext(offered'[id])
             PROVE  \/ id \in Waiting'
                    \/ \E i \in DOMAIN Stream' : Stream'[i].id = id /\ Stream'[i].part = "body"
  BY DEF Complete, Whole, WholeNext
<1>1. /\ \A x \in accepted : x \in accepted' /\ offered'[x] = offered[x] /\ x \in Nat
      /\ failed \subseteq failed' /\ crashed \subseteq crashed'
  BY AcceptedStays, SessionSide
<1>2. Shape /\ Known /\ Complete /\ Offers
  BY DEF FileInv
<1>3. /\ Len(Stream) \in Nat /\ DOMAIN Stream = 1..Len(Stream)
      /\ Len(file) \in Nat /\ DOMAIN file = 1..Len(file)
      /\ \A k \in DOMAIN file : Stream[k] = file[k]
      /\ \A k \in DOMAIN Stream : k \notin DOMAIN file =>
           k - Len(file) \in DOMAIN buffer /\ Stream[k] = buffer[k - Len(file)]
  BY <1>2, StreamShape
<1>4. DOMAIN Stream' = 1..Len(Stream') /\ Len(Stream') \in Nat
  BY ShapeStep, StreamShape
<1>5. \A k \in DOMAIN Stream : k \notin DOMAIN file => offered[Stream[k].id] = session
  BY <1>2, <1>3 DEF Known
<1>6. \A x \in Waiting : x # Nothing => Ours(x)
  BY DEF FileInv, Waiting, Queued, Range
<1>7. ASSUME id \in accepted
      PROVE  /\ id # Nothing /\ offered'[id] = offered[id] /\ WholeNext(offered[id])
             /\ \/ id \in Waiting /\ offered[id] = session
                \/ \E i \in DOMAIN Stream : Stream[i].id = id /\ Stream[i].part = "body"
  <2>1. offered'[id] = offered[id] /\ WholeNext(offered[id])
    BY <1>1, <1>7
  <2>2. Whole(offered[id])
    BY <1>1, <2>1 DEF Whole, WholeNext
  <2>3. id # Nothing
    <3>1. DOMAIN offered = 1..Len(offered) /\ id \in DOMAIN offered
      BY <1>2, <1>7, OfferSide DEF Offers
    <3> QED
      BY <3>1, OfferSide DEF Nothing
  <2> QED
    BY <1>2, <1>6, <1>7, <2>1, <2>2, <2>3 DEF Complete, Ours
<1>8. CASE Untouched
  <2>1. /\ Stream' = Stream
        /\ session \in failed' \/ Waiting \subseteq Waiting' \cup {Nothing}
        /\ TryPersist => accepted' \subseteq accepted \cup Waiting'
    BY <1>8 DEF Untouched
  <2>2. CASE id \in accepted
    BY <1>7, <1>8, <2>2 DEF Untouched, WholeNext
  <2>3. CASE id \notin accepted
    <3>1. TryPersist
      BY <2>3, OfferSide
    <3> QED
      BY <2>3, <3>1, <1>8 DEF Untouched
  <2> QED
    BY <2>2, <2>3
<1>9. CASE Lengthened
  <2>1. /\ Begins(Stream, Stream') /\ accepted' = accepted /\ channel' = channel /\ writer = "Writing"
        /\ session \in failed' \/ Len(Stream') = Len(Stream) + 2
        /\ \A k \in DOMAIN Stream' : k > Len(Stream) =>
             \/ k = Len(Stream) + 1 /\ Stream'[k] = Written("body")
             \/ k = Len(Stream) + 2 /\ Stream'[k] = Written("end")
    BY <1>9 DEF Lengthened
  <2>2. id \in accepted
    BY <2>1
  <2>3. CASE \E i \in DOMAIN Stream : Stream[i].id = id /\ Stream[i].part = "body"
    <3>1. PICK i \in DOMAIN Stream : Stream[i].id = id /\ Stream[i].part = "body"
      BY <2>3
    <3>2. Stream'[i] = Stream[i] /\ Len(Stream) <= Len(Stream')
      BY <2>1, <3>1 DEF Begins
    <3>3. i \in DOMAIN Stream'
      BY <1>3, <1>4, <3>1, <3>2
    <3> QED
      BY <3>1, <3>2, <3>3
  <2>4. CASE id \in Range(channel)
    BY <2>1, <2>4 DEF Waiting
  <2>5. CASE id = hand /\ offered[id] = session
    <3>1. session \notin failed'
      BY <1>7, <2>2, <2>5 DEF WholeNext
    <3>2. Len(Stream) + 1 \in DOMAIN Stream' /\ Len(Stream) + 1 > Len(Stream)
          /\ Len(Stream) + 1 # Len(Stream) + 2
      <4>1. Len(Stream') = Len(Stream) + 2
        BY <2>1, <3>1
      <4> QED
        BY <1>3, <1>4, <4>1
    <3>3. Stream'[Len(Stream) + 1] = Written("body")
      BY <2>1, <3>2
    <3> QED
      BY <2>5, <3>2, <3>3 DEF Written
  <2> QED
    BY <1>7, <2>2, <2>3, <2>4, <2>5 DEF Waiting
<1>10. CASE Shortened
  <2>1. /\ session \in failed' \cup crashed' /\ accepted' = accepted
        /\ Stream' = file' /\ Begins(file, file')
    BY <1>10 DEF Shortened
  <2>2. offered[id] # session
    BY <1>7, <2>1 DEF WholeNext
  <2>3. PICK i \in DOMAIN Stream : Stream[i].id = id /\ Stream[i].part = "body"
    BY <1>7, <2>1, <2>2
  <2>4. i \in DOMAIN file
    BY <1>5, <2>2, <2>3
  <2>5. file'[i] = file[i] /\ Len(file) <= Len(file')
    BY <2>1, <2>4 DEF Begins
  <2>6. i \in DOMAIN Stream'
    BY <1>3, <1>4, <2>1, <2>4, <2>5
  <2> QED
    BY <1>3, <2>1, <2>3, <2>4, <2>5, <2>6
<1> QED
  BY <1>8, <1>9, <1>10, StreamMoves

\* The events of a session are settled once another one runs, or no offer is made.
LEMMA AcceptedInStays ==
  ASSUME FileInv, [Next]_vars, NEW s, s # session \/ ~TryPersist
  PROVE  AcceptedIn(s)' = AcceptedIn(s)
<1>1. /\ \A id \in accepted : id \in accepted' /\ offered'[id] = offered[id]
  BY AcceptedStays
<1>2. CASE ~TryPersist
  BY <1>2, OfferSide DEF AcceptedIn
<1>3. CASE TryPersist /\ s # session
  <2>1. accepted' \subseteq accepted \cup {Len(offered) + 1} /\ offered'[Len(offered) + 1] = session
    BY <1>3, OfferSide DEF TryPersist
  <2> QED
    BY <1>1, <1>3, <2>1 DEF AcceptedIn
<1> QED
  BY <1>2, <1>3

\* A sidecar's count is final.
LEMMA MetasStep == FileInv /\ [Next]_vars => Metas'
<1> SUFFICES ASSUME FileInv, [Next]_vars, NEW s \in DOMAIN meta'
             PROVE  /\ s \in 1..session' /\ meta'[s] = Cardinality(AcceptedIn(s))'
                    /\ s = session' => phase' # "Up"
  BY DEF Metas
<1>1. Metas /\ session \in Nat /\ (session' = session \/ (Start /\ session' = session + 1))
  BY SessionSide DEF FileInv, Shape
<1>2. CASE Close
  <2>1. /\ meta' = WithMeta /\ session' = session /\ phase' # "Up" /\ session > 0
        /\ UNCHANGED <<offered, accepted>>
    BY <1>2 DEF Close, FileInv, Lifecycle
  <2>2. s \in DOMAIN meta \cup {session} /\ AcceptedIn(s)' = AcceptedIn(s)
    BY <2>1 DEF WithMeta, AcceptedIn
  <2>3. meta'[s] = IF s = session THEN Cardinality(AcceptedIn(s)) ELSE meta[s]
    BY <2>1, <2>2 DEF WithMeta
  <2> QED
    BY <1>1, <2>1, <2>2, <2>3 DEF Metas
<1>3. CASE ~Close
  <2>1. meta' = meta
    <3>1. WriteEvent \/ WriteFails => UNCHANGED offerVars
      BY Zenon DEF WriteEvent, WriteFails
    <3>2. Start \/ TryPersist \/ Open \/ OpenFails \/ Receive \/ EndOfInput \/ Flush \/ FlushFails \/ Crash
            \/ UNCHANGED vars => UNCHANGED meta
      BY DEF Start, TryPersist, Open, OpenFails, Receive, EndOfInput, Flush, FlushFails, Crash,
             vars, offerVars
    <3> QED
      BY <1>3, <3>1, <3>2 DEF Next, Operate, Write, offerVars
  <2>2. /\ s \in 1..session /\ meta[s] = Cardinality(AcceptedIn(s)) /\ (s = session => phase # "Up")
    BY <1>1, <2>1 DEF Metas
  <2>3. s # session \/ ~TryPersist
    BY <2>2 DEF TryPersist
  <2>4. AcceptedIn(s)' = AcceptedIn(s)
    BY <2>3, AcceptedInStays
  <2>5. session' = session => phase' = phase \/ phase' # "Up"
    <3>1. WriteEvent \/ WriteFails => UNCHANGED procVars
      BY Zenon DEF WriteEvent, WriteFails
    <3>2. TryPersist \/ Open \/ OpenFails \/ Receive \/ EndOfInput \/ Flush \/ FlushFails \/ Crash
            \/ UNCHANGED vars => phase' = phase \/ phase' # "Up"
      BY DEF TryPersist, Open, OpenFails, Receive, EndOfInput, Flush, FlushFails, AfterFlush, Crash,
             vars, procVars
    <3>3. Start => session' # session
      BY <1>1 DEF Start
    <3> QED
      BY <1>3, <3>1, <3>2, <3>3 DEF Next, Operate, Write, procVars
  <2> QED
    BY <1>1, <2>1, <2>2, <2>4, <2>5
<1> QED
  BY <1>2, <1>3

\* Every step keeps the invariant about the file.
LEMMA FileStep == FileInv /\ [Next]_vars => FileInv'
  BY ShapeStep, LifecycleStep, OffersStep, QueuedStep, KnownStep, LinkedStep, OrderedStep,
     CompleteStep, MetasStep DEF FileInv

\* The invariant holds in every run.
LEMMA FileAlways == Spec => []FileInv
<1>1. Init => FileInv
  BY LogInit DEF LogInv
<1> QED
  BY <1>1, FileStep, PTL DEF Spec

-----------------------------------------------------------------------------
(* What an orderly session leaves.                                          *)

\* A session that is over has nothing waiting and nothing in the buffer.
LEMMA OverAndOut ==
  ASSUME FileInv, NEW s \in 1..session, s < session \/ phase = "Down"
  PROVE  /\ \A id \in AcceptedIn(s) : id \notin Waiting
         /\ \A i \in DOMAIN Stream : offered[Stream[i].id] = s => i \in DOMAIN file
<1>1. Shape /\ Lifecycle /\ Queued /\ Known /\ Offers /\ session \in Nat
  BY DEF FileInv, Shape
<1>2. \A x \in Waiting : x # Nothing => offered[x] = session
  BY <1>1 DEF Waiting, Queued, Ours, Range
<1>3. \A i \in DOMAIN Stream : i \notin DOMAIN file =>
        i - Len(file) \in DOMAIN buffer /\ Stream[i] = buffer[i - Len(file)]
  BY <1>1, StreamShape
<1>4. \A id \in accepted : id # Nothing
  <2>1. DOMAIN offered = 1..Len(offered)
    BY <1>1, LenProperties DEF Shape
  <2> QED
    BY <1>1, <2>1 DEF Offers, Nothing
<1>5. CASE s < session
  <2>1. s # session
    BY <1>1, <1>5
  <2> QED
    BY <1>1, <1>2, <1>3, <1>4, <2>1 DEF Known, AcceptedIn
<1>6. CASE phase = "Down"
  <2>1. buffer = << >> /\ channel = << >> /\ hand = Nothing
    BY <1>1, <1>6 DEF Lifecycle
  <2>2. Waiting = {Nothing} /\ DOMAIN buffer = {}
    BY <2>1 DEF Waiting, Range
  <2> QED
    BY <1>3, <1>4, <2>2 DEF AcceptedIn
<1> QED
  BY <1>5, <1>6

\* A body of a session that met no fault starts a line, unless it is the one
\* that goes on behind what another session left.
LEMMA BodyStarts ==
  ASSUME FileInv, NEW s, Whole(s), NEW i \in DOMAIN file,
         file[i].part = "body", file[i].id \in AcceptedIn(s)
  PROVE  \/ Starts(i)
         \/ i > 1 /\ file[i - 1].part # "end" /\ file[i - 1].id \notin AcceptedIn(s)
<1>1. Shape /\ Linked
  BY DEF FileInv
<1>2. /\ Len(file) \in Nat /\ DOMAIN file = 1..Len(file)
      /\ \A k \in DOMAIN file : k \in DOMAIN Stream /\ Stream[k] = file[k] /\ Stream[k] \in Piece
  BY <1>1, StreamShape
<1> SUFFICES ASSUME i > 1, file[i - 1].part # "end", file[i - 1].id \in AcceptedIn(s)
             PROVE  FALSE
  BY DEF Starts
<1>3. i - 1 \in DOMAIN file /\ (i - 1) + 1 = i
  BY <1>2
<1> DEFINE q == Stream[i - 1]
<1>4. q = file[i - 1] /\ q.part \in {"body", "torn"} /\ offered[q.id] = s
  BY <1>2, <1>3 DEF Piece, AcceptedIn
<1>5. /\ q.part = "torn" => offered[q.id] \in crashed
      /\ q.part = "body" /\ Whole(offered[q.id]) => Stream[(i - 1) + 1].part = "end"
  BY <1>1, <1>2, <1>3 DEF Linked
<1> HIDE DEF q
<1>6. Stream[i].part = "end" \/ s \in crashed
  BY <1>3, <1>4, <1>5
<1> QED
  BY <1>2, <1>6 DEF Whole

\* The line of an event that was accepted in a clean session is in the file.
LEMMA CleanLine ==
  ASSUME FileInv, NEW s \in Clean, NEW id \in AcceptedIn(s)
  PROVE  \E i \in DOMAIN file : Readable(i) /\ file[i].id = id
<1>1. Shape /\ Linked /\ Complete
  BY DEF FileInv
<1>2. /\ Len(file) \in Nat /\ DOMAIN file = 1..Len(file)
      /\ \A k \in DOMAIN file : k \in DOMAIN Stream /\ Stream[k] = file[k]
  BY <1>1, StreamShape
<1>3. /\ s \in 1..session /\ Whole(s) /\ ~OpenedMidLine(s) /\ (s < session \/ phase = "Down")
      /\ id \in accepted /\ offered[id] = s
  BY DEF Clean, Whole, AcceptedIn
<1>4. PICK i \in DOMAIN Stream : Stream[i].id = id /\ Stream[i].part = "body"
  BY <1>1, <1>3, OverAndOut DEF Complete
<1>5. i \in DOMAIN file /\ file[i] = Stream[i]
  BY <1>2, <1>3, <1>4, OverAndOut
<1>6. Starts(i)
  <2>1. ~(i > 1 /\ file[i - 1].part # "end" /\ file[i - 1].id \notin AcceptedIn(s))
    BY <1>3, <1>4, <1>5 DEF OpenedMidLine
  <2> QED
    BY <1>3, <1>4, <1>5, <2>1, BodyStarts
<1>7. ASSUME i < Len(file) PROVE file[i + 1].part = "end"
  <2>1. Stream[i + 1].part = "end" /\ i + 1 \in DOMAIN file
    BY <1>1, <1>2, <1>3, <1>4, <1>5, <1>7 DEF Linked
  <2> QED
    BY <1>2, <2>1
<1> QED
  BY <1>4, <1>5, <1>6, <1>7 DEF Readable

\* Its event can be read.
LEMMA CleanRead ==
  ASSUME FileInv, NEW s \in Clean
  PROVE  AcceptedIn(s) \subseteq ReadIds
<1> SUFFICES ASSUME NEW id \in AcceptedIn(s) PROVE id \in ReadIds
  OBVIOUS
<1>1. PICK i \in DOMAIN file : Readable(i) /\ file[i].id = id
  BY CleanLine
<1>2. i \in 1..Len(file)
  BY LenProperties DEF FileInv, Shape
<1> QED
  BY <1>1, <1>2 DEF ReadIds, ReadAll, ReadableUpTo

\* After an orderly session every accepted event is in the file, and a critical
\* one that is not was reported (persistence.rs 46-75, 154-199).
THEOREM NothingLostInOrder == Spec => []OrderlySessionAccounted
<1>1. ASSUME FileInv PROVE OrderlySessionAccounted
  <2> SUFFICES ASSUME NEW s \in Clean, NEW id \in DOMAIN offered, offered[id] = s
               PROVE  /\ id \in accepted => id \in ReadIds
                      /\ id \in Critical => id \in ReadIds \cup reported
    BY DEF OrderlySessionAccounted
  <2>1. id \in accepted => id \in ReadIds
    BY <1>1, CleanRead DEF AcceptedIn
  <2>2. id \in Critical => id \in accepted \cup reported
    BY <1>1 DEF FileInv, Offers
  <2> QED
    BY <2>1, <2>2
<1> QED
  BY <1>1, FileAlways, PTL

-----------------------------------------------------------------------------
(* How much a crash can cost.                                               *)

\* The remainder of the next number, unless it is a multiple.
LEMMA NextRemainder ==
  ASSUME NEW n \in Nat, NEW F \in Nat \ {0}
  PROVE  /\ n % F \in 0..F - 1 /\ 0 % F = 0
         /\ (n + 1) % F # 0 => (n + 1) % F = (n % F) + 1
<1> DEFINE r == n % F
           t == (n + 1) % F
           q == n \div F
           u == (n + 1) \div F
<1>1. /\ r \in 0..F - 1 /\ t \in 0..F - 1 /\ 0 % F = 0 /\ q \in Int /\ u \in Int
      /\ n = F * q + r /\ n + 1 = F * u + t
  OBVIOUS
<1> HIDE DEF r, t, q, u
<1>2. F * (u - q) = r + 1 - t
  <2>1. F * (u - q) = F * u - F * q
    BY <1>1
  <2>2. F * u \in Int /\ F * q \in Int
    BY <1>1
  <2> QED
    BY <1>1, <2>1, <2>2
<1>3. ASSUME t # 0 PROVE u - q = 0
  <2>1. r + 1 - t < F /\ r + 1 - t > 0 - F
    BY <1>1, <1>3
  <2>2. u - q >= 1 => F * (u - q) >= F
    BY <1>1
  <2>3. u - q <= 0 - 1 => F * (u - q) <= 0 - F
    BY <1>1
  <2> QED
    BY <1>1, <1>2, <2>1, <2>2, <2>3
<1>4. ASSUME t # 0 PROVE t = r + 1
  <2>1. F * (u - q) = 0
    BY <1>3, <1>4
  <2> QED
    BY <1>1, <1>2, <2>1
<1> QED
  BY <1>1, <1>4 DEF r, t

\* A session's events are finitely many, and so is what it may lose.
LEMMA FewLost ==
  ASSUME FileInv, NEW s
  PROVE  /\ IsFiniteSet(AcceptedIn(s)) /\ IsFiniteSet(Lost(s)) /\ IsFiniteSet(Lost(s) \ Waiting)
         /\ \A id \in AcceptedIn(s) : id # Nothing
         /\ BufferSize \in Nat /\ FlushInterval \in Nat \ {0} /\ Mid(s) \in {0, 1}
         /\ Unflushed \in 0..FlushInterval
         /\ writer # "Flushing" => Unflushed \in 0..FlushInterval - 1
<1>1. DOMAIN offered = 1..Len(offered) /\ Len(offered) \in Nat
  BY LenProperties DEF FileInv, Shape
<1>2. AcceptedIn(s) \subseteq 1..Len(offered)
  BY <1>1 DEF FileInv, Offers, AcceptedIn
<1>3. IsFiniteSet(1..Len(offered))
  BY <1>1, FS_Interval
<1>4. IsFiniteSet(AcceptedIn(s))
  BY <1>2, <1>3, FS_Subset
<1>5. Lost(s) \subseteq AcceptedIn(s) /\ Lost(s) \ Waiting \subseteq AcceptedIn(s)
  BY DEF Lost
<1>6. IsFiniteSet(Lost(s)) /\ IsFiniteSet(Lost(s) \ Waiting)
  BY <1>4, <1>5, FS_Subset
<1>7. \A id \in AcceptedIn(s) : id # Nothing
  BY <1>1, <1>2 DEF Nothing
<1>8. seq \in Nat /\ FlushInterval \in Nat \ {0} /\ BufferSize \in Nat
  BY LogAssumption DEF FileInv, Shape
<1>9. seq % FlushInterval \in 0..FlushInterval - 1
  BY <1>8, NextRemainder
<1> QED
  BY <1>4, <1>6, <1>7, <1>8, <1>9 DEF Unflushed, Mid

\* What is in the file for good stays there.
LEMMA SettledGrows ==
  ASSUME FileInv, [Next]_vars
  PROVE  /\ SettledIds \subseteq SettledIds'
         /\ \A s : OpenedMidLine(s) => OpenedMidLine(s)'
<1>1. Shape /\ Shape' /\ Begins(file, file') /\ Known
  BY ShapeStep DEF FileInv
<1>2. Len(file) \in Nat /\ DOMAIN file = 1..Len(file) /\ Len(file') \in Nat /\ DOMAIN file' = 1..Len(file')
  BY <1>1, LenProperties DEF Shape
<1>3. Len(file) <= Len(file') /\ \A i \in DOMAIN file : i \in DOMAIN file' /\ file'[i] = file[i]
  BY <1>1, <1>2 DEF Begins
<1>4. ASSUME NEW i \in Settled PROVE i \in Settled' /\ file'[i] = file[i]
  <2>1. i \in 1..Len(file) - 1 /\ Starts(i) /\ (i < Len(file) => file[i + 1].part = "end")
    BY <1>4 DEF Settled, ReadableUpTo, Readable
  <2>2. i \in DOMAIN file /\ i + 1 \in DOMAIN file /\ (i > 1 => i - 1 \in DOMAIN file) /\ i < Len(file)
    BY <1>2, <2>1
  <2>3. /\ file'[i].part = "body" /\ (i > 1 => file'[i - 1].part = "end") /\ file'[i + 1].part = "end"
    BY <1>3, <2>1, <2>2 DEF Starts
  <2>4. i \in 1..Len(file') - 1
    BY <1>2, <1>3, <2>1
  <2>5. i \in {k \in 1..Len(file') - 1 : /\ file'[k].part = "body" /\ (k > 1 => file'[k - 1].part = "end")
                                         /\ k < Len(file') => file'[k + 1].part = "end"}
    BY <2>3, <2>4
  <2> QED
    BY <1>3, <2>2, <2>5 DEF Settled, ReadableUpTo, Readable, Starts
<1>5. SettledIds \subseteq SettledIds'
  BY <1>4 DEF SettledIds
<1>6. ASSUME NEW s, OpenedMidLine(s) PROVE OpenedMidLine(s)'
  <2>1. PICK i \in DOMAIN file : /\ i > 1 /\ file[i].id \in AcceptedIn(s)
                                 /\ file[i - 1].part # "end" /\ file[i - 1].id \notin AcceptedIn(s)
    BY <1>6 DEF OpenedMidLine
  <2>2. i - 1 \in DOMAIN file
    BY <1>2, <2>1
  <2>3. file[i].id \in accepted /\ file[i - 1].id \in accepted
    BY <1>1, <2>1, <2>2, StreamShape DEF Known
  <2>4. \A id \in accepted : id \in accepted' /\ offered'[id] = offered[id]
    BY AcceptedStays
  <2>5. file'[i].id \in AcceptedIn(s)' /\ file'[i - 1].id \notin AcceptedIn(s)'
    BY <1>3, <2>1, <2>2, <2>3, <2>4 DEF AcceptedIn
  <2> QED
    BY <1>3, <2>1, <2>2, <2>5 DEF OpenedMidLine
<1> QED
  BY <1>5, <1>6

\* Once everything written is in the file, only the event whose line goes on
\* behind another session's is not there for good.
LEMMA FlushedLoss ==
  \A x : FileInv /\ buffer = << >> /\ Whole(x) => Cardinality(Lost(x) \ Waiting) <= Mid(x)
<1> SUFFICES ASSUME NEW s, FileInv, buffer = << >>, Whole(s)
             PROVE  Cardinality(Lost(s) \ Waiting) <= Mid(s)
  OBVIOUS
<1> DEFINE D == Lost(s) \ Waiting
<1>1. Shape /\ Linked /\ Complete /\ Known /\ Ordered /\ Offers
  BY DEF FileInv
<1>2. /\ Len(file) \in Nat /\ DOMAIN file = 1..Len(file) /\ DOMAIN Stream = DOMAIN file
      /\ \A k \in DOMAIN file : Stream[k] = file[k] /\ file[k].id \in accepted
  <2>1. /\ Len(file) \in Nat /\ DOMAIN file = 1..Len(file) /\ DOMAIN Stream = 1..Len(file) + Len(buffer)
        /\ \A k \in DOMAIN file : Stream[k] = file[k]
    BY <1>1, StreamShape
  <2>2. Len(buffer) = 0
    OBVIOUS
  <2>3. DOMAIN Stream = DOMAIN file
    BY <2>1, <2>2
  <2> QED
    BY <1>1, <2>1, <2>3 DEF Known
<1>3. ASSUME NEW id \in D
      PROVE  \E i \in DOMAIN file :
               /\ i > 1 /\ file[i].part = "body" /\ file[i].id = id /\ id \in AcceptedIn(s)
               /\ file[i - 1].part # "end" /\ file[i - 1].id \notin AcceptedIn(s)
  <2>1. id \in AcceptedIn(s) /\ id \notin SettledIds /\ id \notin Waiting
    BY DEF Lost
  <2>2. PICK i \in DOMAIN Stream : Stream[i].id = id /\ Stream[i].part = "body"
    BY <1>1, <2>1 DEF Complete, AcceptedIn
  <2>3. i + 1 \in DOMAIN Stream /\ Stream[i + 1].part = "end"
    BY <1>1, <2>1, <2>2 DEF Linked, AcceptedIn
  <2>4. i \in DOMAIN file /\ file[i].id = id /\ file[i].part = "body" /\ file[i + 1].part = "end"
        /\ i \in 1..Len(file) - 1
    BY <1>2, <2>2, <2>3
  <2>5. ~Starts(i)
    <3>1. Starts(i) => i \in Settled
      BY <2>4 DEF Settled, ReadableUpTo, Readable
    <3> QED
      BY <2>1, <2>4, <3>1 DEF SettledIds
  <2> QED
    BY <2>1, <2>4, <2>5, BodyStarts
<1>4. ASSUME NEW i \in DOMAIN file, NEW j \in DOMAIN file, i < j,
             file[i].id \in AcceptedIn(s), file[j].id \in AcceptedIn(s),
             file[j].part = "body", file[j - 1].part # "end"
      PROVE  file[j - 1].id \in AcceptedIn(s)
  <2>1. j - 1 \in DOMAIN file /\ j - 1 < j
    BY <1>2, <1>4
  <2>2. file[j - 1].id < file[j].id
    BY <1>1, <1>2, <1>4, <2>1 DEF Ordered
  <2>3. i = j - 1 \/ file[i].id < file[j - 1].id
    <3>1. i = j - 1 \/ i < j - 1
      BY <1>2, <1>4
    <3> QED
      BY <1>1, <1>2, <1>4, <2>1, <3>1 DEF Ordered
  <2>4. \A k \in {i, j - 1, j} : file[k].id \in DOMAIN offered /\ file[k].id \in accepted
    BY <1>1, <1>2, <2>1 DEF Offers
  <2>5. offered[file[j - 1].id] <= s /\ (i = j - 1 \/ s <= offered[file[j - 1].id])
    BY <1>1, <1>4, <2>2, <2>3, <2>4 DEF Offers, AcceptedIn
  <2>6. offered[file[j - 1].id] \in Int /\ s \in Int
    BY <1>1, <1>4, <2>4 DEF Offers, AcceptedIn
  <2>7. offered[file[j - 1].id] = s
    <3>1. i = j - 1 => offered[file[j - 1].id] = s
      BY <1>4 DEF AcceptedIn
    <3> QED
      BY <2>5, <2>6, <3>1
  <2> QED
    BY <2>4, <2>7 DEF AcceptedIn
<1>5. \A x, y \in D : x = y
  <2> SUFFICES ASSUME NEW x \in D, NEW y \in D PROVE x = y
    OBVIOUS
  <2> HIDE DEF D
  <2>1. PICK i \in DOMAIN file :
               /\ i > 1 /\ file[i].part = "body" /\ file[i].id = x /\ x \in AcceptedIn(s)
               /\ file[i - 1].part # "end" /\ file[i - 1].id \notin AcceptedIn(s)
    BY <1>3
  <2>2. PICK j \in DOMAIN file :
               /\ j > 1 /\ file[j].part = "body" /\ file[j].id = y /\ y \in AcceptedIn(s)
               /\ file[j - 1].part # "end" /\ file[j - 1].id \notin AcceptedIn(s)
    BY <1>3
  <2>3. ~(i < j) /\ ~(j < i)
    BY <1>4, <2>1, <2>2
  <2>4. i = j
    BY <1>2, <2>3
  <2> QED
    BY <2>1, <2>2, <2>4
<1>6. CASE D = {}
  <2>1. Cardinality(D) = 0
    BY <1>6, FS_EmptySet
  <2>2. 0 <= Mid(s)
    BY DEF Mid
  <2>3. D = Lost(s) \ Waiting
    OBVIOUS
  <2> HIDE DEF D
  <2> QED
    BY <2>1, <2>2, <2>3
<1>7. CASE D # {}
  <2>1. PICK x : x \in D
    BY <1>7
  <2>2. D = {x}
    BY <1>5, <2>1
  <2>3. Cardinality(D) = 1
    BY <2>2, FS_Singleton
  <2>4. OpenedMidLine(s)
    BY <1>3, <2>1 DEF OpenedMidLine
  <2> QED
    BY <2>3, <2>4 DEF Mid
<1> QED
  BY <1>6, <1>7

\* A channel holds no more different events than it is long.
LEMMA FewInSequence ==
  ASSUME NEW S, NEW s \in Seq(S)
  PROVE  IsFiniteSet(Range(s)) /\ Cardinality(Range(s)) \in Nat /\ Cardinality(Range(s)) <= Len(s)
<1>1. Len(s) \in Nat /\ DOMAIN s = 1..Len(s) /\ s \in [1..Len(s) -> S]
  BY LenProperties
<1>2. Range(s) = {s[i] : i \in 1..Len(s)}
  BY <1>1 DEF Range
<1>3. s \in Surjection(1..Len(s), Range(s))
  <2>1. s \in [1..Len(s) -> Range(s)]
    BY <1>1, <1>2
  <2>2. \A x \in Range(s) : \E i \in 1..Len(s) : s[i] = x
    BY <1>2
  <2> QED
    BY <2>1, <2>2 DEF Surjection
<1>4. IsFiniteSet(1..Len(s))
  BY <1>1, FS_Interval
<1>5. IsFiniteSet(Range(s))
  BY <1>3, <1>4, FS_Surjection
<1>6. Cardinality(Range(s)) <= Len(s)
  BY <1>1, <1>3, FS_SurjCardinalityBound DEF ExistsSurjection
<1> QED
  BY <1>5, <1>6, FS_CardinalityType

\* A process that ends now loses at most what waits and what is unflushed.
LEMMA EndsWith ==
  ASSUME LogInv, session > 0, phase # "Down", session \notin failed
  PROVE  Cardinality(Lost(session)) <= BufferSize + FlushInterval + Mid(session)
<1> DEFINE L == Lost(session)
           D == L \ Waiting
           E == L \cap Range(channel)
<1>1. FileInv /\ Losses /\ session \in 1..session
  BY DEF LogInv, FileInv, Shape
<1>2. /\ IsFiniteSet(L) /\ IsFiniteSet(D) /\ \A id \in L : id # Nothing
      /\ BufferSize \in Nat /\ FlushInterval \in Nat \ {0} /\ Mid(session) \in {0, 1}
      /\ Unflushed \in 0..FlushInterval
      /\ writer # "Flushing" => Unflushed \in 0..FlushInterval - 1
  BY <1>1, FewLost DEF Lost
<1>3. Cardinality(D) <= Unflushed + Mid(session)
  <2>1. ~(session < session)
    BY <1>1
  <2> QED
    BY <1>1, <2>1 DEF Losses
<1>4. channel \in Seq(Event) /\ Len(channel) \in Nat /\ Len(channel) <= BufferSize
      /\ (writer = "Writing" <=> hand # Nothing)
  BY <1>1, LenProperties DEF FileInv, Shape, Lifecycle
<1>5. L \subseteq (D \cup E) \cup ({hand} \ {Nothing})
  BY <1>2 DEF Waiting
<1> HIDE DEF L
<1>6. IsFiniteSet(E) /\ Cardinality(E) \in Nat /\ Cardinality(E) <= BufferSize
  <2>1. /\ IsFiniteSet(Range(channel)) /\ Cardinality(Range(channel)) \in Nat
        /\ Cardinality(Range(channel)) <= Len(channel)
    BY <1>4, FewInSequence, Zenon
  <2>2. IsFiniteSet(E) /\ Cardinality(E) <= Cardinality(Range(channel))
    BY <2>1, FS_Subset
  <2>3. Cardinality(E) \in Nat
    BY <2>2, FS_CardinalityType
  <2> HIDE DEF E
  <2> QED
    BY <1>2, <1>4, <2>1, <2>2, <2>3
<1>7. IsFiniteSet(D \cup E) /\ Cardinality(D \cup E) \in Nat
      /\ Cardinality(D \cup E) <= Unflushed + Mid(session) + BufferSize
  <2>1. Cardinality(D) \in Nat
    BY <1>2, FS_CardinalityType
  <2> HIDE DEF D, E
  <2>2. IsFiniteSet(D \cup E) /\ Cardinality(D \cup E) = Cardinality(D) + Cardinality(E) - Cardinality(D \cap E)
    BY <1>2, <1>6, FS_Union
  <2>3. IsFiniteSet(D \cap E)
    BY <1>6, FS_Intersection
  <2>4. Cardinality(D \cap E) \in Nat /\ Cardinality(D \cup E) \in Nat
    BY <2>2, <2>3, FS_CardinalityType
  <2> QED
    BY <1>2, <1>3, <1>6, <2>1, <2>2, <2>4
<1> HIDE DEF D, E
<1>8. Cardinality(L) \in Nat
  BY <1>2, FS_CardinalityType
<1>9. CASE hand = Nothing
  <2>1. L \in SUBSET (D \cup E)
    BY <1>5, <1>9
  <2>2. Cardinality(L) <= Cardinality(D \cup E)
    BY <1>7, <2>1, FS_Subset
  <2> QED
    BY <1>2, <1>7, <1>8, <2>2 DEF L
<1>10. CASE hand # Nothing
  <2>1. Unflushed <= FlushInterval - 1 /\ Unflushed \in Nat
    BY <1>2, <1>4, <1>10
  <2>2. L \in SUBSET ((D \cup E) \cup {hand})
    BY <1>5
  <2>3. IsFiniteSet((D \cup E) \cup {hand})
        /\ Cardinality((D \cup E) \cup {hand}) <= Cardinality(D \cup E) + 1
        /\ Cardinality((D \cup E) \cup {hand}) \in Nat
    <3>1. /\ IsFiniteSet((D \cup E) \cup {hand})
          /\ Cardinality((D \cup E) \cup {hand}) =
               IF hand \in D \cup E THEN Cardinality(D \cup E) ELSE Cardinality(D \cup E) + 1
      BY <1>7, FS_AddElement
    <3> QED
      BY <1>7, <3>1
  <2>4. Cardinality(L) <= Cardinality((D \cup E) \cup {hand})
    BY <2>2, <2>3, FS_Subset
  <2> QED
    BY <1>2, <1>7, <1>8, <2>1, <2>3, <2>4 DEF L
<1> QED
  BY <1>9, <1>10

\* A session that is over loses nothing more.
LEMMA LossStays ==
  ASSUME FileInv, [Next]_vars, NEW s, ~TryPersist \/ s # session
  PROVE  /\ Lost(s)' \subseteq Lost(s) /\ Cardinality(Lost(s)') <= Cardinality(Lost(s))
         /\ Mid(s) <= Mid(s)' /\ Cardinality(Lost(s)) \in Nat /\ Cardinality(Lost(s)') \in Nat
<1>1. AcceptedIn(s)' = AcceptedIn(s) /\ SettledIds \subseteq SettledIds'
      /\ (OpenedMidLine(s) => OpenedMidLine(s)')
  BY AcceptedInStays, SettledGrows
<1>2. Lost(s)' \subseteq Lost(s)
  BY <1>1 DEF Lost
<1>3. IsFiniteSet(Lost(s))
  BY FewLost
<1>4. IsFiniteSet(Lost(s)') /\ Cardinality(Lost(s)') <= Cardinality(Lost(s))
  BY <1>2, <1>3, FS_Subset
<1>5. Cardinality(Lost(s)) \in Nat /\ Cardinality(Lost(s)') \in Nat
  BY <1>3, <1>4, FS_CardinalityType
<1>6. Mid(s) <= Mid(s)'
  BY <1>1 DEF Mid
<1> QED
  BY <1>2, <1>4, <1>5, <1>6

\* While a session runs, a step flushes or opens, or writes the hand's event,
\* or leaves what is written alone.
LEMMA RunningStep ==
  ASSUME FileInv, [Next]_vars, phase # "Down", phase' # "Down", session \notin failed', session \notin crashed'
  PROVE  \/ buffer' = << >>
         \/ Lengthened
         \/ Untouched /\ seq' = seq /\ (writer' = "Flushing" <=> writer = "Flushing")
<1>1. Untouched \/ Lengthened \/ Shortened
  BY StreamMoves
<1>2. ~Shortened
  BY DEF Shortened
<1>3. ASSUME Untouched, buffer' # << >>
      PROVE  seq' = seq /\ (writer' = "Flushing" <=> writer = "Flushing")
  <2>1. CASE UNCHANGED vars
    BY <2>1 DEF vars, procVars, offerVars, writerVars, faultVars
  <2>2. CASE Operate
    BY <2>2 DEF Operate, Start, TryPersist, Close, writerVars
  <2>3. CASE Open
    <3>1. buffer' = << >>
      BY <2>3 DEF Open, FileInv, Lifecycle
    <3> QED
      BY <1>3, <3>1
  <2>4. CASE Receive \/ EndOfInput
    BY <2>4 DEF Receive, EndOfInput
  <2>5. CASE Flush
    BY <1>3, <2>5 DEF Flush
  <2>6. CASE WriteEvent \/ WriteFails
    <3>1. written' = written + 1 /\ written \in Nat
      BY <2>6 DEF WriteEvent, WriteFails, AfterWrite, FileInv, Shape
    <3> QED
      BY <1>3, <3>1 DEF Untouched
  <2>7. CASE OpenFails \/ FlushFails
    BY <2>7 DEF OpenFails, FlushFails
  <2>8. CASE Crash
    BY <2>8 DEF Crash
  <2> QED
    BY <2>1, <2>2, <2>3, <2>4, <2>5, <2>6, <2>7, <2>8 DEF Next, Write
<1> QED
  BY <1>1, <1>2, <1>3

\* Writing an event adds one to what is unflushed and to what may be lost.
LEMMA OneMore ==
  ASSUME FileInv, [Next]_vars, Lengthened,
         Cardinality(Lost(session) \ Waiting) <= Unflushed + Mid(session)
  PROVE  Cardinality(Lost(session)' \ Waiting') <= Unflushed' + Mid(session)'
<1> DEFINE D == Lost(session) \ Waiting
           E == Lost(session)' \ Waiting'
<1>1. /\ writer = "Writing" /\ AfterWrite /\ session' = session /\ channel' = channel
      /\ offered' = offered /\ accepted' = accepted
  BY DEF Lengthened
<1>2. AcceptedIn(session)' = AcceptedIn(session)
  BY <1>1 DEF AcceptedIn
<1>3. SettledIds \subseteq SettledIds' /\ (OpenedMidLine(session) => OpenedMidLine(session)')
  <2>1. \A s : OpenedMidLine(s) => OpenedMidLine(s)'
    BY SettledGrows
  <2> QED
    BY <1>1, <2>1, SettledGrows
<1>4. \A id \in AcceptedIn(session) : id # Nothing
  BY FewLost
<1>5. E \subseteq D \cup {hand}
  <2> SUFFICES ASSUME NEW id \in E PROVE id \in D \cup {hand}
    OBVIOUS
  <2>1. id \in AcceptedIn(session) /\ id \notin SettledIds /\ id \notin Waiting'
    BY <1>2, <1>3 DEF Lost
  <2>2. id \notin Range(channel)
    BY <1>1, <2>1 DEF Waiting
  <2> QED
    BY <2>1, <2>2 DEF Lost, Waiting
<1>6. IsFiniteSet(D) /\ Mid(session) \in {0, 1} /\ FlushInterval \in Nat \ {0} /\ seq \in Nat
  BY FewLost DEF FileInv, Shape
<1>7. Mid(session) <= Mid(session)'  /\ Mid(session)' \in {0, 1}
  BY <1>3 DEF Mid
<1>8. Unflushed' >= Unflushed + 1 /\ Unflushed \in Nat /\ Unflushed' \in Nat
  <2>1. /\ seq % FlushInterval \in 0..FlushInterval - 1
        /\ (seq + 1) % FlushInterval # 0 => (seq + 1) % FlushInterval = (seq % FlushInterval) + 1
    BY <1>6, NextRemainder
  <2>2. Unflushed = seq % FlushInterval
    BY <1>1 DEF Unflushed
  <2>3. (seq + 1) % FlushInterval = 0 => Unflushed' = FlushInterval
    BY <1>1 DEF AfterWrite, FlushDue, Unflushed
  <2>4. (seq + 1) % FlushInterval # 0 => Unflushed' = (seq + 1) % FlushInterval
    BY <1>1 DEF AfterWrite, FlushDue, Unflushed
  <2> DEFINE r == seq % FlushInterval
             t == (seq + 1) % FlushInterval
             u == Unflushed
             v == Unflushed'
  <2>5. /\ r \in 0..FlushInterval - 1 /\ u = r /\ (t = 0 => v = FlushInterval)
        /\ (t # 0 => v = t /\ t = r + 1)
    BY <2>1, <2>2, <2>3, <2>4
  <2> HIDE DEF r, t, u, v
  <2>6. v >= u + 1 /\ u \in Nat /\ v \in Nat
    BY <1>6, <2>5
  <2> QED
    BY <2>6 DEF u, v
<1> HIDE DEF D, E
<1>9. /\ IsFiniteSet(D \cup {hand}) /\ Cardinality(D) \in Nat
      /\ Cardinality(D \cup {hand}) \in Nat /\ Cardinality(D \cup {hand}) <= Cardinality(D) + 1
  <2>1. /\ IsFiniteSet(D \cup {hand})
        /\ Cardinality(D \cup {hand}) = IF hand \in D THEN Cardinality(D) ELSE Cardinality(D) + 1
    BY <1>6, FS_AddElement
  <2>2. Cardinality(D) \in Nat
    BY <1>6, FS_CardinalityType
  <2> QED
    BY <2>1, <2>2
<1>10. IsFiniteSet(E) /\ Cardinality(E) <= Cardinality(D \cup {hand})
  BY <1>5, <1>9, FS_Subset
<1>11. Cardinality(E) \in Nat
  BY <1>10, FS_CardinalityType
<1>12. Cardinality(D) <= Unflushed + Mid(session)
  BY DEF D
<1>13. Cardinality(E) <= Unflushed' + Mid(session)'
  BY <1>6, <1>7, <1>8, <1>9, <1>10, <1>11, <1>12
<1> QED
  BY <1>1, <1>13 DEF E

\* The same of the state after a step.
LEMMA NextFlushedLoss ==
  /\ (\A x : FileInv /\ buffer = << >> /\ Whole(x) => Cardinality(Lost(x) \ Waiting) <= Mid(x))'
  /\ (\A x : FileInv => IsFiniteSet(Lost(x) \ Waiting))'
<1>1. \A x : FileInv => IsFiniteSet(Lost(x) \ Waiting)
  BY FewLost
<1>2. (\A x : FileInv => IsFiniteSet(Lost(x) \ Waiting))'
  BY <1>1, PTL
<1>3. (\A x : FileInv /\ buffer = << >> /\ Whole(x) => Cardinality(Lost(x) \ Waiting) <= Mid(x))'
  BY FlushedLoss, PTL
<1> QED
  BY <1>2, <1>3

\* The bound on what a session may lose holds after every step.
LEMMA LossesStep == LogInv /\ [Next]_vars => Losses'
<1> SUFFICES ASSUME LogInv, [Next]_vars, NEW s \in 1..session', s \notin failed'
             PROVE  IF s < session' \/ phase' = "Down"
                    THEN Cardinality(Lost(s)') <= BufferSize + FlushInterval + Mid(s)'
                    ELSE Cardinality(Lost(s)' \ Waiting') <= Unflushed' + Mid(s)'
  BY DEF Losses
<1>1. FileInv /\ FileInv' /\ Losses
  BY FileStep DEF LogInv
<1>2. /\ session \in Nat /\ session' \in Nat /\ (session' = session \/ session' = session + 1)
      /\ s \in Nat /\ s >= 1 /\ s <= session' /\ s \notin failed
  BY <1>1, AcceptedStays, SessionSide DEF FileInv, Shape
<1>3. /\ BufferSize \in Nat /\ FlushInterval \in Nat \ {0} /\ Mid(s) \in {0, 1} /\ Mid(s)' \in {0, 1}
      /\ Unflushed' \in Nat
  <2>1. /\ BufferSize \in Nat /\ FlushInterval \in Nat \ {0} /\ Mid(s) \in {0, 1}
    BY <1>1, FewLost
  <2>2. Mid(s)' \in {0, 1}
    BY DEF Mid
  <2>3. seq' \in Nat
    BY <1>1 DEF FileInv, Shape
  <2>4. seq' % FlushInterval \in 0..FlushInterval - 1
    BY <2>1, <2>3, NextRemainder
  <2>5. Unflushed' \in Nat
    BY <2>1, <2>4 DEF Unflushed
  <2> QED
    BY <2>1, <2>2, <2>5
<1>4. CASE s > session
  <2>1. session' # session /\ s = session' /\ s = session + 1
    BY <1>2, <1>4
  <2>2. Start /\ offered' = offered /\ accepted' = accepted /\ phase' = "Up"
    BY <1>1, <2>1, SessionSide DEF Start, offerVars
  <2>3. \A id \in accepted : offered[id] <= session /\ offered[id] \in Nat
    BY <1>1, AcceptedStays
  <2>4. AcceptedIn(s)' = {}
    BY <1>2, <2>1, <2>2, <2>3 DEF AcceptedIn
  <2>5. Lost(s)' \ Waiting' = {}
    BY <2>4 DEF Lost
  <2>6. Cardinality(Lost(s)' \ Waiting') = 0
    BY <2>5, FS_EmptySet
  <2> QED
    BY <1>2, <1>3, <2>1, <2>2, <2>6
<1>5. CASE s <= session /\ (s < session \/ phase = "Down")
  <2>1. ~TryPersist \/ s # session
    BY <1>2, <1>5 DEF TryPersist
  <2>2. /\ Cardinality(Lost(s)') <= Cardinality(Lost(s)) /\ Mid(s) <= Mid(s)'
        /\ Cardinality(Lost(s)) \in Nat /\ Cardinality(Lost(s)') \in Nat
    BY <1>1, <2>1, LossStays, Zenon
  <2>3. Cardinality(Lost(s)) <= BufferSize + FlushInterval + Mid(s)
    <3>1. s \in 1..session
      BY <1>2, <1>5
    <3> QED
      BY <1>1, <1>2, <1>5, <3>1 DEF Losses
  <2>4. s < session' \/ phase' = "Down"
    <3>1. CASE session' # session
      BY <1>2, <1>5, <3>1
    <3>2. CASE s < session
      BY <1>2, <3>2
    <3>3. CASE session' = session /\ phase = "Down"
      <4>1. writer = "Gone"
        BY <1>1, <3>3 DEF FileInv, Lifecycle
      <4> QED
        BY <1>2, <3>3, <4>1 DEF Next, Operate, Write, Start, TryPersist, Close, Open, Receive, WriteEvent,
           EndOfInput, Flush, OpenFails, WriteFails, FlushFails, Crash, vars, procVars
    <3> QED
      BY <1>5, <3>1, <3>2, <3>3
  <2> QED
    BY <1>3, <2>2, <2>3, <2>4
<1>6. CASE s = session /\ phase # "Down" /\ phase' = "Down"
  <2>1. session' = session /\ ~TryPersist
    <3>1. session' # session => phase' = "Up"
      BY SessionSide DEF Start
    <3> QED
      BY <1>6, <3>1 DEF TryPersist, procVars
  <2>2. /\ Cardinality(Lost(s)') <= Cardinality(Lost(s)) /\ Mid(s) <= Mid(s)'
        /\ Cardinality(Lost(s)) \in Nat /\ Cardinality(Lost(s)') \in Nat
    BY <1>1, <2>1, LossStays, Zenon
  <2>3. Cardinality(Lost(s)) <= BufferSize + FlushInterval + Mid(s)
    BY <1>2, <1>6, EndsWith
  <2> QED
    BY <1>3, <1>6, <2>2, <2>3
<1>7. CASE s = session /\ phase # "Down" /\ phase' # "Down"
  <2>1. session' = session
    BY <1>1, <1>7, StartsEmpty
  <2>2. session \notin failed' /\ session \notin crashed'
    BY <1>1, <1>7, <2>1 DEF FileInv, Lifecycle
  <2>3. \/ buffer' = << >>
        \/ Lengthened
        \/ Untouched /\ seq' = seq /\ (writer' = "Flushing" <=> writer = "Flushing")
    BY <1>1, <1>7, <2>2, RunningStep
  <2>4. Cardinality(Lost(session) \ Waiting) <= Unflushed + Mid(session)
    <3>1. session \in 1..session /\ ~(session < session) /\ session \notin failed
      BY <1>2, <1>7
    <3> QED
      BY <1>1, <1>7, <3>1 DEF Losses
  <2>5. SUFFICES Cardinality(Lost(s)' \ Waiting') <= Unflushed' + Mid(s)'
    BY <1>2, <1>7, <2>1
  <2>6. CASE buffer' = << >>
    <3>1. (\A x : FileInv /\ buffer = << >> /\ Whole(x) => Cardinality(Lost(x) \ Waiting) <= Mid(x))'
      BY NextFlushedLoss
    <3>2. Whole(s)'
      BY <1>7, <2>2 DEF Whole
    <3>3. Cardinality(Lost(s)' \ Waiting') <= Mid(s)'
      BY <1>1, <2>6, <3>1, <3>2
    <3>4. Cardinality(Lost(s)' \ Waiting') \in Nat
      <4>1. IsFiniteSet(Lost(s)' \ Waiting')
        BY <1>1, NextFlushedLoss
      <4> QED
        BY <4>1, FS_CardinalityType
    <3> QED
      BY <1>3, <3>3, <3>4
  <2>7. CASE Lengthened
    <3>1. Cardinality(Lost(session)' \ Waiting') <= Unflushed' + Mid(session)'
      BY <1>1, <2>4, <2>7, OneMore, Zenon
    <3> QED
      BY <1>7, <2>1, <3>1
  <2>8. CASE Untouched /\ seq' = seq /\ (writer' = "Flushing" <=> writer = "Flushing")
    <3> DEFINE D == Lost(s) \ Waiting
               E == Lost(s)' \ Waiting'
    <3>1. Unflushed' = Unflushed
      BY <2>8 DEF Unflushed
    <3>2. E \subseteq D
      <4> SUFFICES ASSUME NEW id \in E PROVE id \in D
        OBVIOUS
      <4>1. id \in AcceptedIn(s)' /\ id \notin SettledIds /\ id \notin Waiting'
        BY <1>1, SettledGrows DEF Lost
      <4>2. id \in accepted /\ offered[id] = s
        <5>1. CASE TryPersist
          <6>1. accepted' \subseteq accepted \cup Waiting'
            BY <2>8, <5>1 DEF Untouched
          <6>2. id \in accepted
            BY <4>1, <6>1 DEF AcceptedIn
          <6>3. offered'[id] = offered[id]
            BY <1>1, <6>2, AcceptedStays
          <6> QED
            BY <4>1, <6>2, <6>3 DEF AcceptedIn
        <5>2. CASE ~TryPersist
          <6>1. AcceptedIn(s)' = AcceptedIn(s)
            BY <1>1, <5>2, AcceptedInStays, Zenon
          <6> QED
            BY <4>1, <6>1 DEF AcceptedIn
        <5> QED
          BY <5>1, <5>2
      <4>3. id # Nothing
        BY <1>1, <4>2, FewLost DEF AcceptedIn
      <4>4. id \notin Waiting
        BY <2>2, <2>8, <4>1, <4>3 DEF Untouched
      <4> QED
        BY <4>1, <4>2, <4>4 DEF Lost, AcceptedIn
    <3>3. IsFiniteSet(D)
      BY <1>1, FewLost
    <3>4. Cardinality(D) <= Unflushed + Mid(s)
      BY <1>7, <2>4
    <3> HIDE DEF D, E
    <3>5. IsFiniteSet(E) /\ Cardinality(E) <= Cardinality(D)
      BY <3>2, <3>3, FS_Subset
    <3>6. Cardinality(D) \in Nat /\ Cardinality(E) \in Nat
      BY <3>3, <3>5, FS_CardinalityType
    <3>7. Mid(s) <= Mid(s)'
      <4>1. OpenedMidLine(s) => OpenedMidLine(s)'
        BY <1>1, SettledGrows
      <4> QED
        BY <4>1 DEF Mid
    <3>8. Cardinality(E) <= Unflushed' + Mid(s)'
      BY <1>3, <3>1, <3>4, <3>5, <3>6, <3>7
    <3> QED
      BY <3>8 DEF E
  <2> QED
    BY <2>3, <2>6, <2>7, <2>8
<1> QED
  BY <1>2, <1>4, <1>5, <1>6, <1>7

\* Every step keeps the whole invariant.
LEMMA LogStep == LogInv /\ [Next]_vars => LogInv'
  BY FileStep, LossesStep DEF LogInv

\* The whole invariant holds in every run.
LEMMA LogAlways == Spec => []LogInv
<1>1. LogInv /\ [Next]_vars => LogInv'
  BY LogStep
<1> QED
  BY <1>1, LogInit, PTL DEF Spec

\* A crash costs at most a channel and a flush interval of events, and one
\* more if the crash before it left half a line (persistence.rs 165-181).
THEOREM LossIsBounded == Spec => []LossBounded
<1>1. ASSUME LogInv PROVE LossBounded
  <2> SUFFICES ASSUME NEW s \in 1..session, s \notin failed
               PROVE  Cardinality(AcceptedIn(s) \ ReadIds) <= BufferSize + FlushInterval + Mid(s)
    BY DEF LossBounded, Mid
  <2>1. FileInv /\ Losses /\ session \in Nat
    BY <1>1 DEF LogInv, FileInv, Shape
  <2>2. Cardinality(Lost(s)) <= BufferSize + FlushInterval + Mid(s)
    <3>1. CASE s < session \/ phase = "Down"
      BY <2>1, <3>1 DEF Losses
    <3>2. CASE s = session /\ phase # "Down"
      <4>1. session > 0
        BY <2>1
      <4> QED
        BY <1>1, <3>2, <4>1, EndsWith
    <3> QED
      BY <2>1, <3>1, <3>2
  <2>3. AcceptedIn(s) \ ReadIds \subseteq Lost(s)
    <3>1. SettledIds \subseteq ReadIds
      <4>1. Settled \subseteq ReadableUpTo(Len(file))
        <5>1. Len(file) \in Nat
          BY <2>1, LenProperties DEF FileInv, Shape
        <5> QED
          BY <5>1 DEF Settled, ReadableUpTo
      <4> QED
        BY <4>1 DEF SettledIds, ReadIds, ReadAll
    <3> QED
      BY <3>1 DEF Lost
  <2>4. IsFiniteSet(Lost(s)) /\ BufferSize \in Nat /\ FlushInterval \in Nat /\ Mid(s) \in {0, 1}
    BY <2>1, FewLost
  <2>5. IsFiniteSet(AcceptedIn(s) \ ReadIds) /\ Cardinality(AcceptedIn(s) \ ReadIds) <= Cardinality(Lost(s))
    BY <2>3, <2>4, FS_Subset
  <2>6. Cardinality(Lost(s)) \in Nat /\ Cardinality(AcceptedIn(s) \ ReadIds) \in Nat
    BY <2>4, <2>5, FS_CardinalityType
  <2> QED
    BY <2>2, <2>4, <2>5, <2>6
<1> QED
  BY <1>1, LogAlways, PTL

-----------------------------------------------------------------------------
(* Putting a finite set in order.                                           *)

\* R is a strict total order on S.
Orders(R, S) ==
  /\ \A x \in S : <<x, x>> \notin R
  /\ \A x, y \in S : x # y => <<x, y>> \in R \/ <<y, x>> \in R
  /\ \A x, y, z \in S : <<x, y>> \in R /\ <<y, z>> \in R => <<x, z>> \in R

\* The elements of S before x, and S in the order R: InOrder with the order
\* given as a set of pairs.
Below(S, R, x) == {y \in S : <<y, x>> \in R}
Rank(S, R, x) == Cardinality(Below(S, R, x))
Sorted(S, R) == [k \in 1..Cardinality(S) |-> CHOOSE x \in S : Rank(S, R, x) = k - 1]

\* An element has fewer elements before it than one that comes later.
LEMMA RankGrows ==
  ASSUME NEW S, IsFiniteSet(S), NEW R, Orders(R, S)
  PROVE  /\ Cardinality(S) \in Nat
         /\ \A x \in S : Rank(S, R, x) \in 0..Cardinality(S) - 1
         /\ \A x, y \in S : <<x, y>> \in R => Rank(S, R, x) < Rank(S, R, y)
<1>1. Cardinality(S) \in Nat
  BY FS_CardinalityType
<1>2. ASSUME NEW x \in S
      PROVE  /\ IsFiniteSet(Below(S, R, x)) /\ Rank(S, R, x) \in Nat
             /\ Rank(S, R, x) <= Cardinality(S) - 1
  <2>1. Below(S, R, x) \subseteq S \ {x}
    BY DEF Below, Orders
  <2>2. IsFiniteSet(S \ {x}) /\ Cardinality(S \ {x}) = Cardinality(S) - 1
    <3>1. /\ IsFiniteSet(S \ {x})
          /\ Cardinality(S \ {x}) = IF x \in S THEN Cardinality(S) - 1 ELSE Cardinality(S)
      BY FS_RemoveElement
    <3> QED
      BY <3>1
  <2>3. IsFiniteSet(Below(S, R, x)) /\ Cardinality(Below(S, R, x)) <= Cardinality(S \ {x})
    BY <2>1, <2>2, FS_Subset
  <2> QED
    BY <2>2, <2>3, FS_CardinalityType DEF Rank
<1>3. ASSUME NEW x \in S, NEW y \in S, <<x, y>> \in R
      PROVE  Rank(S, R, x) < Rank(S, R, y)
  <2>1. Below(S, R, x) \cup {x} \subseteq Below(S, R, y) /\ x \notin Below(S, R, x)
    BY <1>3 DEF Below, Orders
  <2>2. /\ IsFiniteSet(Below(S, R, x) \cup {x})
        /\ Cardinality(Below(S, R, x) \cup {x}) = Rank(S, R, x) + 1
    BY <1>2, <2>1, FS_AddElement DEF Rank
  <2>3. Cardinality(Below(S, R, x) \cup {x}) <= Rank(S, R, y)
    BY <1>2, <2>1, FS_Subset DEF Rank
  <2>4. Rank(S, R, x) \in Nat /\ Rank(S, R, y) \in Nat
    BY <1>2
  <2> QED
    BY <2>2, <2>3, <2>4
<1> QED
  BY <1>1, <1>2, <1>3

\* f has every element of S at the place of its rank, and at no other place.
Arranges(f, S, R) ==
  /\ Cardinality(S) \in Nat /\ f \in [1..Cardinality(S) -> S]
  /\ \A k \in 1..Cardinality(S) : Rank(S, R, f[k]) = k - 1
  /\ \A x \in S : Rank(S, R, x) + 1 \in 1..Cardinality(S) /\ f[Rank(S, R, x) + 1] = x
  /\ \A j, k \in 1..Cardinality(S) : j < k => <<f[j], f[k]>> \in R

\* That is what sorting does.
LEMMA SortedIsOrder ==
  ASSUME NEW S, IsFiniteSet(S), NEW R, Orders(R, S)
  PROVE  Arranges(Sorted(S, R), S, R)
<1> DEFINE n == Cardinality(S)
           rank == [x \in S |-> Rank(S, R, x) + 1]
<1>1. /\ n \in Nat /\ \A x \in S : Rank(S, R, x) \in 0..n - 1
      /\ \A x, y \in S : <<x, y>> \in R => Rank(S, R, x) < Rank(S, R, y)
  BY RankGrows
<1>2. ASSUME NEW x \in S, NEW y \in S, Rank(S, R, x) = Rank(S, R, y) PROVE x = y
  <2>1. Rank(S, R, x) \in Int /\ Rank(S, R, y) \in Int
    BY <1>1
  <2>2. ~(<<x, y>> \in R) /\ ~(<<y, x>> \in R)
    BY <1>1, <1>2, <2>1
  <2> QED
    BY <2>2 DEF Orders
<1>3. \A k \in 1..n : \E x \in S : Rank(S, R, x) = k - 1
  <2>1. rank \in [S -> 1..n]
    BY <1>1
  <2>2. rank \in Injection(S, 1..n)
    BY <1>1, <1>2, <2>1 DEF Injection, IsInjective
  <2>3. IsFiniteSet(1..n) /\ Cardinality(1..n) = n
    <3>1. 1 \in Int /\ n \in Int
      BY <1>1
    <3>2. IsFiniteSet(1..n) /\ Cardinality(1..n) = IF 1 > n THEN 0 ELSE n - 1 + 1
      BY <3>1, FS_Interval
    <3> QED
      BY <1>1, <3>2
  <2>4. rank \in Surjection(S, 1..n)
    <3> HIDE DEF rank
    <3> QED
      BY <2>2, <2>3, FS_Injection
  <2>5. \A k \in 1..n : \E x \in S : rank[x] = k
    BY <2>4 DEF Surjection
  <2> QED
    BY <1>1, <2>5
<1>4. ASSUME NEW k \in 1..n
      PROVE  Sorted(S, R)[k] \in S /\ Rank(S, R, Sorted(S, R)[k]) = k - 1
  <2>1. Sorted(S, R)[k] = CHOOSE x \in S : Rank(S, R, x) = k - 1
    BY DEF Sorted
  <2> QED
    BY <1>3, <2>1
<1>5. Sorted(S, R) \in [1..n -> S]
  BY <1>4 DEF Sorted
<1>6. \A x \in S : Rank(S, R, x) + 1 \in 1..n /\ Sorted(S, R)[Rank(S, R, x) + 1] = x
  <2> SUFFICES ASSUME NEW x \in S
               PROVE  Rank(S, R, x) + 1 \in 1..n /\ Sorted(S, R)[Rank(S, R, x) + 1] = x
    OBVIOUS
  <2>1. Rank(S, R, x) + 1 \in 1..n /\ Rank(S, R, x) \in Nat
    BY <1>1
  <2>2. /\ Sorted(S, R)[Rank(S, R, x) + 1] \in S
        /\ Rank(S, R, Sorted(S, R)[Rank(S, R, x) + 1]) = Rank(S, R, x) + 1 - 1
    BY <1>4, <2>1
  <2>3. Rank(S, R, Sorted(S, R)[Rank(S, R, x) + 1]) = Rank(S, R, x)
    BY <2>1, <2>2
  <2> QED
    BY <1>2, <2>1, <2>2, <2>3
<1>7. ASSUME NEW j \in 1..n, NEW k \in 1..n, j < k
      PROVE  <<Sorted(S, R)[j], Sorted(S, R)[k]>> \in R
  <2> DEFINE x == Sorted(S, R)[j]
             y == Sorted(S, R)[k]
  <2>1. x \in S /\ y \in S /\ Rank(S, R, x) = j - 1 /\ Rank(S, R, y) = k - 1
    BY <1>4
  <2> HIDE DEF x, y
  <2>2. Rank(S, R, x) < Rank(S, R, y) /\ x # y
    BY <1>1, <1>7, <2>1
  <2>3. ~(<<y, x>> \in R)
    <3>1. <<y, x>> \in R => Rank(S, R, y) < Rank(S, R, x)
      BY <1>1, <2>1
    <3> QED
      BY <1>1, <1>7, <2>1, <3>1
  <2>4. <<x, y>> \in R
    BY <2>1, <2>2, <2>3 DEF Orders
  <2> QED
    BY <2>4 DEF x, y
<1> QED
  BY <1>1, <1>4, <1>5, <1>6, <1>7 DEF Arranges

\* The positions of the settled lines, smallest first.
LessThan(S) == {p \in S \X S : p[1] < p[2]}

LEMMA InOrderByPlace ==
  ASSUME NEW S \in SUBSET Int
  PROVE  Orders(LessThan(S), S) /\ InOrder(S, <) = Sorted(S, LessThan(S))
<1>1. \A x, y \in S : <<x, y>> \in LessThan(S) <=> x < y
  BY DEF LessThan
<1>2. Orders(LessThan(S), S)
  BY <1>1 DEF Orders
<1>3. \A x \in S : {y \in S : y < x} = Below(S, LessThan(S), x)
  BY <1>1 DEF Below
<1>4. \A k : (CHOOSE x \in S : Cardinality({y \in S : y < x}) = k - 1)
               = CHOOSE x \in S : Rank(S, LessThan(S), x) = k - 1
  BY <1>3 DEF Rank
<1>5. InOrder(S, <) = Sorted(S, LessThan(S))
  <2> DEFINE f(k) == CHOOSE x \in S : Cardinality({y \in S : y < x}) = k - 1
             g(k) == CHOOSE x \in S : Rank(S, LessThan(S), x) = k - 1
  <2>1. InOrder(S, <) = [k \in 1..Cardinality(S) |-> f(k)]
    BY DEF InOrder
  <2>2. Sorted(S, LessThan(S)) = [k \in 1..Cardinality(S) |-> g(k)]
    BY DEF Sorted
  <2>3. \A k : f(k) = g(k)
    BY <1>4
  <2> HIDE DEF f, g
  <2> QED
    BY <2>1, <2>2, <2>3
<1> QED
  BY <1>2, <1>5

\* The records of S in the order of a replay.
Replayed(S) == {p \in S \X S : ReplayOrder(p[1], p[2])}

LEMMA InOrderByReplay ==
  ASSUME NEW S \in SUBSET Piece, \A r, s \in S : r # s => r.at # s.at
  PROVE  Orders(Replayed(S), S) /\ InOrder(S, ReplayOrder) = Sorted(S, Replayed(S))
<1>1. \A x, y \in S : <<x, y>> \in Replayed(S) <=> ReplayOrder(x, y)
  BY DEF Replayed
<1>2. Orders(Replayed(S), S)
  <2>1. \A x \in S : x.seq \in Nat /\ x.at \in Nat
    BY DEF Piece
  <2>2. \A x, y \in S : ReplayOrder(x, y) <=> x.seq < y.seq \/ (x.seq = y.seq /\ x.at < y.at)
    BY DEF ReplayOrder
  <2>3. \A x \in S : ~ReplayOrder(x, x)
    BY <2>1, <2>2
  <2>4. \A x, y \in S : x # y => ReplayOrder(x, y) \/ ReplayOrder(y, x)
    BY <2>1, <2>2
  <2>5. \A x, y, z \in S : ReplayOrder(x, y) /\ ReplayOrder(y, z) => ReplayOrder(x, z)
    BY <2>1, <2>2
  <2> QED
    BY <1>1, <2>3, <2>4, <2>5 DEF Orders
<1>3. \A x \in S : {y \in S : ReplayOrder(y, x)} = Below(S, Replayed(S), x)
  BY <1>1 DEF Below
<1>4. \A k : (CHOOSE x \in S : Cardinality({y \in S : ReplayOrder(y, x)}) = k - 1)
               = CHOOSE x \in S : Rank(S, Replayed(S), x) = k - 1
  BY <1>3 DEF Rank
<1>5. InOrder(S, ReplayOrder) = Sorted(S, Replayed(S))
  <2> DEFINE f(k) == CHOOSE x \in S : Cardinality({y \in S : ReplayOrder(y, x)}) = k - 1
             g(k) == CHOOSE x \in S : Rank(S, Replayed(S), x) = k - 1
  <2>1. InOrder(S, ReplayOrder) = [k \in 1..Cardinality(S) |-> f(k)]
    BY DEF InOrder
  <2>2. Sorted(S, Replayed(S)) = [k \in 1..Cardinality(S) |-> g(k)]
    BY DEF Sorted
  <2>3. \A k : f(k) = g(k)
    BY <1>4
  <2> HIDE DEF f, g
  <2> QED
    BY <2>1, <2>2, <2>3
<1> QED
  BY <1>2, <1>5

-----------------------------------------------------------------------------
(* What a replay hands out.                                                 *)

\* r was written before s.
Earlier(r, s) == /\ r.at < s.at /\ r.id < s.id
                 /\ offered[r.id] = offered[s.id] => r.seq < s.seq

\* The records read are bodies of accepted events, each written once.
LEMMA RecordsRead ==
  ASSUME FileInv
  PROVE  /\ ReadAll \subseteq Piece /\ IsFiniteSet(ReadAll)
         /\ \A r \in ReadAll : r.id \in accepted /\ r.at \in 1..written
         /\ \A r, s \in ReadAll : r = s \/ Earlier(r, s) \/ Earlier(s, r)
<1>1. Shape /\ Known /\ Ordered
  BY DEF FileInv
<1>2. /\ Len(file) \in Nat /\ DOMAIN file = 1..Len(file) /\ file \in Seq(Piece)
      /\ \A i \in DOMAIN file : i \in DOMAIN Stream /\ Stream[i] = file[i]
  BY <1>1, StreamShape DEF Shape
<1>3. \A i \in DOMAIN file : file[i] \in Piece
  BY <1>2
<1>4. \A r \in ReadAll : \E i \in DOMAIN file : r = file[i] /\ file[i].part = "body"
  BY <1>2 DEF ReadAll, ReadableUpTo, Readable, Starts
<1>5. \A r \in ReadAll : r \in Piece /\ r \in Range(file)
  BY <1>3, <1>4 DEF Range
<1>6. IsFiniteSet(ReadAll)
  <2>1. IsFiniteSet(Range(file))
    BY <1>2, FewInSequence, Zenon
  <2> QED
    BY <1>5, <2>1, FS_Subset
<1>7. \A r \in ReadAll : r.id \in accepted /\ r.at \in 1..written
  BY <1>1, <1>2, <1>4 DEF Known
<1>8. ASSUME NEW i \in DOMAIN file, NEW j \in DOMAIN file, i < j, file[j].part = "body"
      PROVE  Earlier(file[i], file[j])
  <2>1. i \in DOMAIN Stream /\ j \in DOMAIN Stream /\ Stream[i] = file[i] /\ Stream[j] = file[j]
    BY <1>2
  <2> QED
    BY <1>1, <1>8, <2>1 DEF Ordered, Earlier
<1>9. ASSUME NEW r \in ReadAll, NEW s \in ReadAll
      PROVE  r = s \/ Earlier(r, s) \/ Earlier(s, r)
  <2>1. PICK i \in DOMAIN file : r = file[i] /\ file[i].part = "body"
    BY <1>4
  <2>2. PICK j \in DOMAIN file : s = file[j] /\ file[j].part = "body"
    BY <1>4
  <2>3. i = j \/ i < j \/ j < i
    BY <1>2
  <2> QED
    BY <1>8, <2>1, <2>2, <2>3
<1> QED
  BY <1>5, <1>6, <1>7, <1>9

\* The records of S, each once, in the order of the replay.
Loads(records, S) ==
  /\ IsFiniteSet(S) /\ Cardinality(S) \in Nat /\ records \in [1..Cardinality(S) -> S]
  /\ \A r \in S : \E k \in 1..Cardinality(S) : records[k] = r
  /\ \A j, k \in 1..Cardinality(S) :
       j < k => records[j] # records[k] /\ ReplayOrder(records[j], records[k])

\* The loaded records are those of the stretch.
LEMMA RecordsLoaded ==
  ASSUME FileInv, NEW start, NEW end
  PROVE  Loads(LoadEvents(start, end), {r \in ReadAll : r.at >= start /\ r.at <= end})
<1> DEFINE S == {r \in ReadAll : r.at >= start /\ r.at <= end}
           records == LoadEvents(start, end)
<1>1. /\ S \subseteq ReadAll /\ ReadAll \subseteq Piece /\ IsFiniteSet(S)
      /\ \A r, s \in S : r = s \/ Earlier(r, s) \/ Earlier(s, r)
  <2>1. /\ ReadAll \subseteq Piece /\ IsFiniteSet(ReadAll) /\ S \subseteq ReadAll
        /\ \A r, s \in ReadAll : r = s \/ Earlier(r, s) \/ Earlier(s, r)
    BY RecordsRead
  <2>2. IsFiniteSet(S)
    BY <2>1, FS_Subset
  <2> QED
    BY <2>1, <2>2
<1>2. \A r, s \in S : r # s => r.at # s.at
  <2>1. \A r \in S : r.at \in Nat
    BY <1>1 DEF Piece
  <2> QED
    BY <1>1, <2>1 DEF Earlier
<1>3. S \in SUBSET Piece
  BY <1>1
<1>4. Orders(Replayed(S), S) /\ InOrder(S, ReplayOrder) = Sorted(S, Replayed(S))
  BY <1>2, <1>3, InOrderByReplay
<1>5. records = Sorted(S, Replayed(S))
  BY <1>4 DEF LoadEvents
<1> HIDE DEF S, records
<1>6. /\ Cardinality(S) \in Nat /\ records \in [1..Cardinality(S) -> S]
      /\ \A x \in S : /\ Rank(S, Replayed(S), x) + 1 \in 1..Cardinality(S)
                      /\ records[Rank(S, Replayed(S), x) + 1] = x
      /\ \A j, k \in 1..Cardinality(S) : j < k => <<records[j], records[k]>> \in Replayed(S)
  <2>1. Arranges(Sorted(S, Replayed(S)), S, Replayed(S))
    BY <1>1, <1>4, SortedIsOrder, Zenon
  <2>2. Arranges(records, S, Replayed(S))
    BY <1>5, <2>1
  <2> QED
    BY <2>2 DEF Arranges
<1>7. \A r \in S : \E k \in 1..Cardinality(S) : records[k] = r
  BY <1>6
<1>8. \A j, k \in 1..Cardinality(S) :
         j < k => records[j] # records[k] /\ ReplayOrder(records[j], records[k])
  BY <1>4, <1>6 DEF Replayed, Orders
<1>9. Loads(records, S)
  BY <1>1, <1>6, <1>7, <1>8 DEF Loads
<1> QED
  BY <1>9 DEF records, S

\* A replay of a stretch of one session hands its events to the handler in the
\* order they were offered in (runner.rs 72-95).
THEOREM ReplayKeepsOrder == Spec => []ReplayInOrder
<1>1. ASSUME FileInv PROVE ReplayInOrder
  <2> SUFFICES ASSUME NEW start \in 1..written, NEW end \in 1..written,
                      NEW records, records = LoadEvents(start, end),
                      \A j, k \in DOMAIN records :
                         offered[records[j].id] = offered[records[k].id],
                      NEW j \in DOMAIN records, NEW k \in DOMAIN records, j < k
               PROVE  records[j].id < records[k].id
    BY DEF ReplayInOrder
  <2> DEFINE S == {r \in ReadAll : r.at >= start /\ r.at <= end}
  <2>0. S = {r \in ReadAll : r.at >= start /\ r.at <= end}
    OBVIOUS
  <2> HIDE DEF S
  <2>1. /\ records \in [1..Cardinality(S) -> S] /\ S \subseteq ReadAll
        /\ \A i, l \in 1..Cardinality(S) :
              i < l => records[i] # records[l] /\ ReplayOrder(records[i], records[l])
    <3>1. Loads(LoadEvents(start, end), S)
      BY <1>1, RecordsLoaded DEF S
    <3> QED
      BY <2>0, <3>1 DEF Loads
  <2>2. records[j] \in ReadAll /\ records[k] \in ReadAll /\ records[j] # records[k]
        /\ ReplayOrder(records[j], records[k])
    BY <2>1
  <2>3. Earlier(records[j], records[k]) \/ Earlier(records[k], records[j])
    BY <1>1, <2>2, RecordsRead
  <2>4. records[j] \in Piece /\ records[k] \in Piece
    BY <1>1, <2>2, RecordsRead
  <2>5. ~Earlier(records[k], records[j])
    <3>1. offered[records[k].id] = offered[records[j].id]
      OBVIOUS
    <3>2. \A r, s \in Piece : ReplayOrder(r, s) => ~(s.seq < r.seq)
      BY DEF ReplayOrder, Piece
    <3> QED
      BY <2>2, <2>4, <3>1, <3>2 DEF Earlier
  <2> QED
    BY <2>3, <2>5 DEF Earlier
<1> QED
  BY <1>1, FileAlways, PTL

\* The sidecar's event_count, taken at the end of an orderly session, is the
\* number of records a replay of that session hands out (recorder.rs 70-91).
THEOREM SidecarCounts == Spec => []CountMatchesReplay
<1>1. ASSUME FileInv PROVE CountMatchesReplay
  <2> SUFFICES ASSUME NEW s \in Clean \cap DOMAIN meta,
                      NEW records, records = LoadEvents(1, written),
                      NEW K, K = {k \in DOMAIN records : records[k].id \in AcceptedIn(s)}
               PROVE  Cardinality(K) = meta[s]
    BY DEF CountMatchesReplay, RunSync
  <2> DEFINE S == {r \in ReadAll : r.at >= 1 /\ r.at <= written}
             ids == [k \in K |-> records[k].id]
  <2>0. S = {r \in ReadAll : r.at >= 1 /\ r.at <= written}
    OBVIOUS
  <2> HIDE DEF S
  <2>1. /\ IsFiniteSet(S) /\ Cardinality(S) \in Nat /\ records \in [1..Cardinality(S) -> S]
        /\ \A r \in S : \E k \in 1..Cardinality(S) : records[k] = r
        /\ \A j, k \in 1..Cardinality(S) :
             j < k => records[j] # records[k] /\ ReplayOrder(records[j], records[k])
    <3>1. Loads(LoadEvents(1, written), S)
      BY <1>1, RecordsLoaded DEF S
    <3> QED
      BY <2>0, <3>1 DEF Loads
  <2>2. /\ S = ReadAll /\ \A r \in S : r.id \in Nat
        /\ \A r, t \in S : r = t \/ Earlier(r, t) \/ Earlier(t, r)
    <3>1. \A r \in ReadAll : r \in Piece /\ r.at \in 1..written
      BY <1>1, RecordsRead
    <3>2. \A r \in Piece : r.id \in Nat
      BY DEF Piece, Event
    <3>3. \A r, t \in ReadAll : r = t \/ Earlier(r, t) \/ Earlier(t, r)
      BY <1>1, RecordsRead
    <3>4. written \in Nat
      BY <1>1 DEF FileInv, Shape
    <3> QED
      BY <2>0, <3>1, <3>2, <3>3, <3>4
  <2>3. IsFiniteSet(K) /\ K \subseteq 1..Cardinality(S)
    <3>1. K \subseteq 1..Cardinality(S)
      BY <2>1
    <3>2. IsFiniteSet(1..Cardinality(S))
      BY <2>1, FS_Interval
    <3> QED
      BY <3>1, <3>2, FS_Subset
  <2>4. ids \in [K -> AcceptedIn(s)]
    OBVIOUS
  <2>5. \A j, k \in K : ids[j] = ids[k] => j = k
    <3> SUFFICES ASSUME NEW j \in K, NEW k \in K, records[j].id = records[k].id
                 PROVE  j = k
      OBVIOUS
    <3>1. j \in 1..Cardinality(S) /\ k \in 1..Cardinality(S) /\ records[j] \in S /\ records[k] \in S
      BY <2>1, <2>3
    <3>2. ~Earlier(records[j], records[k]) /\ ~Earlier(records[k], records[j])
      BY <2>2, <3>1 DEF Earlier
    <3>3. records[j] = records[k]
      BY <2>2, <3>1, <3>2
    <3> QED
      BY <2>1, <3>1, <3>3
  <2>6. \A id \in AcceptedIn(s) : \E k \in K : ids[k] = id
    <3> SUFFICES ASSUME NEW id \in AcceptedIn(s) PROVE \E k \in K : records[k].id = id
      OBVIOUS
    <3>1. id \in ReadIds
      BY <1>1, CleanRead
    <3>2. PICK r \in S : r.id = id
      BY <2>2, <3>1 DEF ReadIds
    <3>3. PICK k \in 1..Cardinality(S) : records[k] = r
      BY <2>1
    <3> QED
      BY <2>1, <3>2, <3>3
  <2> HIDE DEF ids
  <2>7. ids \in Bijection(K, AcceptedIn(s))
    BY <2>4, <2>5, <2>6 DEF Bijection, Injection, Surjection, IsInjective
  <2>8. Cardinality(AcceptedIn(s)) = Cardinality(K)
    BY <2>3, <2>7, FS_Bijection DEF ExistsBijection
  <2> QED
    BY <1>1, <2>8 DEF FileInv, Metas
<1> QED
  BY <1>1, FileAlways, PTL

-----------------------------------------------------------------------------
(* The log implements LossyLog.                                             *)

\* The numbers of S, smallest first.
Ascending(S) == Sorted(S, LessThan(S))

\* T is S and integers that are larger than all of S.
Extends(S, T) == S \subseteq T /\ \A x \in S, y \in T \ S : x < y

\* g puts T in order: f, which puts S in order, and then the rest.
Continues(g, T, f, S) ==
  LET n == Cardinality(S)
      m == Cardinality(T)
  IN /\ IsFiniteSet(S) /\ n \in Nat /\ m \in Nat /\ n <= m /\ Cardinality(T \ S) = m - n
     /\ f \in [1..n -> S] /\ g \in [1..m -> T]
     /\ \A k \in 1..n : g[k] = f[k]
     /\ \A k \in n + 1..m : g[k] \in T \ S
     /\ \A x \in S : \E k \in 1..n : f[k] = x
     /\ \A y \in T : \E k \in 1..m : g[k] = y
     /\ \A j, k \in 1..m : j < k => g[j] < g[k]

\* In order, such a T begins with S and goes on with what is new.
LEMMA OrderedOn ==
  ASSUME NEW S \in SUBSET Int, NEW T \in SUBSET Int, IsFiniteSet(T), Extends(S, T),
         NEW f, f = Ascending(S), NEW g, g = Ascending(T)
  PROVE  Continues(g, T, f, S)
<1> DEFINE n == Cardinality(S)
           m == Cardinality(T)
           R == LessThan(S)
           Q == LessThan(T)
<1>1. IsFiniteSet(S) /\ n \in Nat /\ m \in Nat /\ n <= m
  <2>1. S \subseteq T
    BY DEF Extends
  <2>2. IsFiniteSet(S) /\ Cardinality(S) <= Cardinality(T)
    BY <2>1, FS_Subset
  <2> QED
    BY <2>2, FS_CardinalityType
<1>2. Orders(R, S) /\ Orders(Q, T) /\ f = Sorted(S, R) /\ g = Sorted(T, Q)
  <2>1. Orders(R, S) /\ Orders(Q, T)
    BY InOrderByPlace
  <2> QED
    BY <2>1 DEF Ascending
<1>3. /\ \A x, y \in S : <<x, y>> \in R <=> x < y
      /\ \A x, y \in T : <<x, y>> \in Q <=> x < y
  BY DEF LessThan
<1> HIDE DEF R, Q
<1>4. Arranges(f, S, R) /\ Arranges(g, T, Q)
  <2>1. Arranges(Sorted(S, R), S, R) /\ Arranges(Sorted(T, Q), T, Q)
    BY <1>1, <1>2, SortedIsOrder, Zenon
  <2> QED
    BY <1>2, <2>1
<1>5. f \in [1..n -> S] /\ g \in [1..m -> T] /\ \A j, k \in 1..m : j < k => <<g[j], g[k]>> \in Q
  BY <1>4 DEF Arranges
<1>6. \A j, k \in 1..m : j < k => g[j] < g[k]
  BY <1>3, <1>5
<1>7. ASSUME NEW x \in S PROVE Rank(T, Q, x) = Rank(S, R, x)
  <2>1. \A y \in T : y < x => y \in S
    <3> SUFFICES ASSUME NEW y \in T, y < x, y \notin S PROVE FALSE
      OBVIOUS
    <3>1. x < y /\ x \in Int /\ y \in Int
      BY DEF Extends
    <3> QED
      BY <3>1
  <2>2. Below(T, Q, x) = Below(S, R, x)
    BY <1>3, <2>1 DEF Below, Extends
  <2> QED
    BY <2>2 DEF Rank
<1>8. ASSUME NEW k \in 1..n PROVE g[k] = f[k]
  <2>1. f[k] \in S /\ f[k] \in T /\ Rank(S, R, f[k]) = k - 1
    BY <1>4, <1>5 DEF Arranges, Extends
  <2>2. Rank(T, Q, f[k]) = k - 1
    BY <1>7, <2>1
  <2>3. g[Rank(T, Q, f[k]) + 1] = f[k]
    BY <1>4, <2>1 DEF Arranges
  <2>4. k - 1 + 1 = k
    BY <1>1
  <2> QED
    BY <2>2, <2>3, <2>4
<1>9. ASSUME NEW k \in n + 1..m PROVE g[k] \in T \ S
  <2>1. k \in 1..m /\ k \in Int
    BY <1>1
  <2>2. g[k] \in T /\ Rank(T, Q, g[k]) = k - 1
    BY <1>4, <2>1 DEF Arranges
  <2>3. g[k] \in S => Rank(T, Q, g[k]) + 1 \in 1..n
    <3>1. ASSUME g[k] \in S PROVE Rank(S, R, g[k]) + 1 \in 1..n
      BY <1>4, <3>1 DEF Arranges
    <3> QED
      BY <1>7, <3>1
  <2> QED
    BY <1>1, <2>1, <2>2, <2>3
<1>10. /\ \A x \in S : \E k \in 1..n : f[k] = x
       /\ \A y \in T : \E k \in 1..m : g[k] = y
  BY <1>4 DEF Arranges
<1>11. Cardinality(T \ S) = m - n
  <2>1. IsFiniteSet(T \ S) /\ T = S \cup (T \ S) /\ S \cap (T \ S) = {}
    BY FS_Subset DEF Extends
  <2>2. Cardinality(S \cup (T \ S)) = Cardinality(S) + Cardinality(T \ S) - Cardinality(S \cap (T \ S))
    BY <1>1, <2>1, FS_Union
  <2>3. Cardinality(S \cap (T \ S)) = 0 /\ Cardinality(T \ S) \in Nat
    BY <2>1, FS_EmptySet, FS_CardinalityType
  <2>4. Cardinality(T) = Cardinality(S \cup (T \ S))
    BY <2>1
  <2> DEFINE d == Cardinality(T \ S)
  <2>5. m = n + d /\ d \in Nat
    BY <2>2, <2>3, <2>4, <1>1
  <2> HIDE DEF d
  <2>6. d = m - n
    BY <1>1, <2>5
  <2> QED
    BY <2>6 DEF d
<1> QED
  BY <1>1, <1>5, <1>6, <1>8, <1>9, <1>10, <1>11 DEF Continues

\* The events of the lines of f that are named by at.
EventsAt(f, at) == [k \in DOMAIN at |-> f[at[k]].id]

\* What is kept, said with Ascending.
LEMMA KeptIs ==
  /\ Settled \in SUBSET Int => Kept = EventsAt(file, Ascending(Settled))
  /\ Settled' \in SUBSET Int => Kept' = EventsAt(file', Ascending(Settled'))
<1> DEFINE a(S) == [k \in 1..Cardinality(S) |->
                      CHOOSE x \in S : Cardinality({y \in S : y < x}) = k - 1]
<1>1. ASSUME NEW S \in SUBSET Int PROVE a(S) = Ascending(S)
  <2>1. InOrder(S, <) = Ascending(S)
    BY InOrderByPlace DEF Ascending
  <2>2. InOrder(S, <) = a(S)
    BY DEF InOrder
  <2> QED
    BY <2>1, <2>2 DEF InOrder
<1>2. Kept = EventsAt(file, a(Settled)) /\ Kept' = EventsAt(file', a(Settled'))
  BY DEF Kept, EventsAt, InOrder
<1> HIDE DEF a
<1> QED
  BY <1>1, <1>2

\* t is s and then the numbers of I, smallest first.
Adds(s, I, t) ==
  \E new \in [1..Cardinality(I) -> I] :
    /\ \A j, k \in DOMAIN new : j < k => new[j] < new[k]
    /\ t = s \o new

\* The lines T of g are the lines S of f and more behind them.
Longer(g, T, f, S) ==
  /\ S \in SUBSET Int /\ T \in SUBSET Int /\ IsFiniteSet(T) /\ Extends(S, T)
  /\ \A i \in S : g[i] = f[i]
  /\ \A i \in T : g[i].id \in Event
  /\ \A i, j \in T : i < j => g[i].id < g[j].id

\* Lines that are added behind S add their events, in order, to those of S.
LEMMA EventsAdded ==
  ASSUME NEW S, NEW T, NEW f, NEW g, Longer(g, T, f, S)
  PROVE  /\ Range(EventsAt(f, Ascending(S))) = {f[i].id : i \in S}
         /\ Range(EventsAt(g, Ascending(T))) =
              Range(EventsAt(f, Ascending(S))) \cup {g[i].id : i \in T \ S}
         /\ Adds(EventsAt(f, Ascending(S)), {g[i].id : i \in T \ S}, EventsAt(g, Ascending(T)))
<1> DEFINE s == EventsAt(f, Ascending(S))
           t == EventsAt(g, Ascending(T))
           I == {g[i].id : i \in T \ S}
<1>a. /\ S \in SUBSET Int /\ T \in SUBSET Int /\ IsFiniteSet(T) /\ Extends(S, T)
      /\ \A i \in S : g[i] = f[i]
      /\ \A i \in T : g[i].id \in Event
      /\ \A i, j \in T : i < j => g[i].id < g[j].id
  BY DEF Longer
<1>b. /\ s = EventsAt(f, Ascending(S)) /\ t = EventsAt(g, Ascending(T))
      /\ I = {g[i].id : i \in T \ S}
  OBVIOUS
<1> HIDE DEF s, t, I
<1> USE <1>a, <1>b
<1> DEFINE n == Cardinality(S)
           m == Cardinality(T)
           p == Ascending(S)
           q == Ascending(T)
           d == m - n
           new == [k \in 1..d |-> t[n + k]]
<1>1. /\ IsFiniteSet(S) /\ n \in Nat /\ m \in Nat /\ n <= m /\ Cardinality(T \ S) = m - n
      /\ p \in [1..n -> S] /\ q \in [1..m -> T]
      /\ \A k \in 1..n : q[k] = p[k]
      /\ \A k \in n + 1..m : q[k] \in T \ S
      /\ \A x \in S : \E k \in 1..n : p[k] = x
      /\ \A y \in T : \E k \in 1..m : q[k] = y
      /\ \A j, k \in 1..m : j < k => q[j] < q[k]
  <2>1. Continues(q, T, p, S)
    <3>1. S \in SUBSET Int /\ T \in SUBSET Int /\ IsFiniteSet(T) /\ Extends(S, T)
      OBVIOUS
    <3>2. p = Ascending(S) /\ q = Ascending(T)
      OBVIOUS
    <3> HIDE DEF p, q
    <3> QED
      BY <3>1, <3>2, OrderedOn, Zenon
  <2> QED
    BY <2>1 DEF Continues
<1>2. /\ DOMAIN s = 1..n /\ DOMAIN t = 1..m
      /\ \A k \in 1..n : s[k] = f[p[k]].id
      /\ \A k \in 1..m : t[k] = g[q[k]].id
  BY <1>1 DEF EventsAt
<1> HIDE DEF n, m, p, q
<1>3. S \subseteq T /\ d \in Nat /\ n + d = m /\ d \in Int
  BY <1>1 DEF Extends
<1>4. /\ \A k \in 1..n : s[k] = t[k] /\ s[k] \in Event
      /\ \A k \in 1..m : t[k] \in Event
      /\ \A j, k \in 1..m : j < k => t[j] < t[k]
  <2>1. \A k \in 1..m : q[k] \in T /\ t[k] = g[q[k]].id
    BY <1>1, <1>2
  <2>2. \A k \in 1..m : t[k] \in Event
    BY <2>1
  <2>3. ASSUME NEW j \in 1..m, NEW k \in 1..m, j < k PROVE t[j] < t[k]
    <3>1. q[j] \in T /\ q[k] \in T /\ q[j] < q[k]
      BY <1>1, <2>1, <2>3
    <3>2. g[q[j]].id < g[q[k]].id
      BY <3>1
    <3> QED
      BY <2>1, <3>2
  <2>4. ASSUME NEW k \in 1..n PROVE s[k] = t[k] /\ k \in 1..m
    <3>1. k \in 1..m
      BY <1>1
    <3>2. p[k] \in S /\ q[k] = p[k] /\ g[p[k]] = f[p[k]]
      BY <1>1
    <3> QED
      BY <1>2, <3>1, <3>2
  <2> QED
    BY <2>2, <2>3, <2>4
<1>5. Range(s) = {f[i].id : i \in S}
  <2>1. Range(s) = {f[p[k]].id : k \in 1..n}
    BY <1>2 DEF Range
  <2>2. {f[p[k]].id : k \in 1..n} = {f[i].id : i \in S}
    <3>1. /\ \A k \in 1..n : p[k] \in S
          /\ \A x \in S : \E k \in 1..n : p[k] = x
      BY <1>1
    <3> QED
      BY <3>1
  <2> QED
    BY <2>1, <2>2
<1>6. \A k \in 1..d : n + k \in n + 1..m /\ n + k \in 1..m /\ new[k] = t[n + k]
  BY <1>1, <1>3
<1>7. \A y \in T \ S : \E k \in 1..d : q[n + k] = y
  <2> SUFFICES ASSUME NEW y \in T \ S PROVE \E k \in 1..d : q[n + k] = y
    OBVIOUS
  <2>1. PICK k \in 1..m : q[k] = y
    BY <1>1
  <2>2. ~(k \in 1..n)
    BY <1>1, <2>1
  <2>3. k - n \in 1..d /\ n + (k - n) = k
    BY <1>1, <2>2
  <2> QED
    BY <2>1, <2>3
<1> HIDE DEF d
<1>8. \A k \in 1..d : new[k] \in I
  <2> SUFFICES ASSUME NEW k \in 1..d PROVE new[k] \in I
    OBVIOUS
  <2>1. n + k \in 1..m /\ q[n + k] \in T \ S /\ new[k] = t[n + k]
    BY <1>1, <1>6
  <2>2. new[k] = g[q[n + k]].id
    BY <1>2, <2>1
  <2> HIDE DEF new
  <2> QED
    BY <2>1, <2>2
<1>9. \A id \in I : \E k \in 1..d : new[k] = id
  BY <1>2, <1>6, <1>7
<1>10. \A j, k \in 1..d : j < k => new[j] < new[k]
  <2> SUFFICES ASSUME NEW j \in 1..d, NEW k \in 1..d, j < k PROVE new[j] < new[k]
    OBVIOUS
  <2>1. n + j < n + k
    BY <1>1, <1>3
  <2> QED
    BY <1>4, <1>6, <2>1
<1>11. DOMAIN new = 1..d /\ new \in [1..d -> I]
  BY <1>8
<1> HIDE DEF new
<1>12. \A k \in 1..d : new[k] \in Int
  BY <1>4, <1>6 DEF Event
<1>13. Cardinality(I) = d
  <2>1. new \in Bijection(1..d, I)
    <3>1. \A j, k \in 1..d : new[j] = new[k] => j = k
      BY <1>3, <1>10, <1>12
    <3> QED
      BY <1>9, <1>11, <3>1 DEF Bijection, Injection, Surjection, IsInjective
  <2>2. IsFiniteSet(1..d) /\ Cardinality(1..d) = d
    <3>1. 1 \in Int /\ d \in Int
      BY <1>3
    <3>2. IsFiniteSet(1..d) /\ Cardinality(1..d) = IF 1 > d THEN 0 ELSE d - 1 + 1
      BY <3>1, FS_Interval
    <3> QED
      BY <1>3, <3>2
  <2> QED
    BY <2>1, <2>2, FS_Bijection DEF ExistsBijection
<1>14. t = s \o new
  <2>1. s \in [1..n -> Event] /\ t \in [1..m -> Event] /\ new \in [1..d -> Event]
    <3>1. \A k \in 1..d : new[k] \in Event
      BY <1>4, <1>6
    <3>2. s = [k \in 1..n |-> s[k]] /\ t = [k \in 1..m |-> t[k]]
      BY <1>1, <1>2 DEF EventsAt
    <3> QED
      BY <1>4, <1>11, <3>1, <3>2
  <2>2. s \in Seq(Event) /\ t \in Seq(Event) /\ new \in Seq(Event)
    <3>1. \A l \in Nat : \A x : x \in [1..l -> Event] => x \in Seq(Event)
      BY SeqDef
    <3> QED
      BY <1>1, <1>3, <2>1, <3>1
  <2>3. Len(s) = n /\ Len(t) = m /\ Len(new) = d
    BY <1>1, <1>2, <1>3, <1>11, <2>2, LenProperties
  <2>4. \A i \in 1..Len(s) : t[i] = s[i]
    BY <1>4, <2>3
  <2>5. \A i \in 1..Len(new) : t[Len(s) + i] = new[i]
    BY <1>6, <2>3
  <2>6. Len(t) = Len(s) + Len(new)
    BY <1>3, <2>3
  <2>7. Joins(s, new, t)
    BY <2>2, <2>4, <2>5, <2>6, JoinedBy, Zenon
  <2> QED
    BY <2>7 DEF Joins
<1>15. Range(t) = Range(s) \cup I
  <2>1. \A x \in Range(t) : x \in Range(s) \cup I
    <3> SUFFICES ASSUME NEW k \in 1..m PROVE t[k] \in Range(s) \cup I
      BY <1>2 DEF Range
    <3>1. q[k] \in T /\ t[k] = g[q[k]].id
      BY <1>1, <1>2
    <3>2. q[k] \in S => t[k] \in Range(s)
      BY <1>5, <3>1
    <3> QED
      BY <3>1, <3>2
  <2>2. \A x \in Range(s) : x \in Range(t)
    <3>1. \A k \in 1..n : k \in 1..m
      BY <1>1
    <3> QED
      BY <1>2, <1>4, <3>1 DEF Range
  <2>3. \A x \in I : x \in Range(t)
    <3>1. \A k \in 1..d : new[k] \in Range(t)
      BY <1>2, <1>6 DEF Range
    <3>2. \A x \in I : \E k \in 1..d : new[k] = x
      BY <1>9
    <3> QED
      BY <3>1, <3>2
  <2> QED
    BY <2>1, <2>2, <2>3
<1> QED
  BY <1>5, <1>10, <1>11, <1>13, <1>14, <1>15 DEF Adds, s, t, I

\* The settled lines are finitely many, of one event each, and in order.
SettledLines ==
  /\ Settled \in SUBSET Int /\ IsFiniteSet(Settled)
  /\ \A i \in Settled : /\ i \in DOMAIN file /\ i + 1 \in DOMAIN file /\ i < Len(file) /\ i > 0
                        /\ file[i].part = "body" /\ file[i + 1].part = "end" /\ file[i + 1].id = file[i].id
                        /\ file[i].id \in Event /\ file[i].id \in accepted
  /\ \A i, j \in Settled : i < j => file[i].id < file[j].id

\* That holds in every state.
LEMMA SettledShape == FileInv => SettledLines
<1> SUFFICES ASSUME FileInv PROVE SettledLines
  OBVIOUS
<1>1. Shape /\ Known /\ Ordered
  BY DEF FileInv
<1>2. /\ Len(file) \in Nat /\ DOMAIN file = 1..Len(file) /\ file \in Seq(Piece)
      /\ \A i \in DOMAIN file : i \in DOMAIN Stream /\ Stream[i] = file[i]
  BY <1>1, StreamShape DEF Shape
<1>3. Settled \subseteq 1..Len(file) - 1 /\ \A i \in Settled : Readable(i)
  BY DEF Settled, ReadableUpTo
<1>4. Settled \in SUBSET Int /\ IsFiniteSet(Settled)
  <2>1. Len(file) - 1 \in Int /\ 1 \in Int
    BY <1>2
  <2>2. IsFiniteSet(1..Len(file) - 1)
    BY <2>1, FS_Interval
  <2>3. Settled \in SUBSET (1..Len(file) - 1) /\ Settled \in SUBSET Int
    BY <1>3
  <2>4. IsFiniteSet(Settled)
    BY <2>2, <2>3, FS_Subset
  <2> QED
    BY <2>3, <2>4
<1>5. \A i \in Settled : /\ i \in DOMAIN file /\ i + 1 \in DOMAIN file /\ i < Len(file) /\ i > 0
                         /\ file[i].part = "body" /\ file[i + 1].part = "end"
  BY <1>2, <1>3 DEF Readable, Starts
<1>6. \A i \in Settled : file[i].id \in Event /\ file[i].id \in accepted
  <2>1. \A i \in DOMAIN file : file[i] \in Piece
    BY <1>2
  <2> QED
    BY <1>1, <1>2, <1>5, <2>1 DEF Piece, Known
<1>7. \A i, j \in Settled : i < j => file[i].id < file[j].id
  <2> SUFFICES ASSUME NEW i \in Settled, NEW j \in Settled, i < j PROVE file[i].id < file[j].id
    OBVIOUS
  <2>1. i \in DOMAIN Stream /\ j \in DOMAIN Stream /\ Stream[i] = file[i] /\ Stream[j] = file[j]
        /\ file[j].part = "body"
    BY <1>2, <1>5
  <2> QED
    BY <1>1, <2>1 DEF Ordered
<1>8. ASSUME NEW i \in Settled PROVE file[i + 1].id = file[i].id
  <2>1. i \in Int /\ i + 1 \in DOMAIN Stream /\ Stream[i + 1] = file[i + 1] /\ Stream[i] = file[i]
        /\ file[i + 1].part = "end"
    BY <1>2, <1>5
  <2>2. Linked
    BY DEF FileInv
  <2>3. Stream[i + 1 - 1].id = Stream[i + 1].id /\ i + 1 - 1 = i
    BY <2>1, <2>2 DEF Linked
  <2> QED
    BY <2>1, <2>3
<1> QED
  BY <1>4, <1>5, <1>6, <1>7, <1>8 DEF SettledLines

\* The file is the first part of the stream.
Leads == /\ DOMAIN Stream = 1..Len(Stream) /\ Len(Stream) \in Nat
         /\ \A k \in DOMAIN file : k \in DOMAIN Stream /\ Stream[k] = file[k]

\* The same of the state after a step.
LEMMA NextShapes ==
  /\ FileInv' => SettledLines'
  /\ Shape' => Leads'
<1>1. FileInv' => SettledLines'
  BY SettledShape, PTL
<1>2. Shape => Leads
  BY StreamShape DEF Leads
<1>3. Shape' => Leads'
  BY <1>2, PTL
<1> QED
  BY <1>1, <1>3

\* A piece that gets into the file is of the session that runs, unless it is
\* torn.
LEMMA NewPieces ==
  ASSUME FileInv, [Next]_vars, NEW i \in DOMAIN file', i \notin DOMAIN file, file'[i].part # "torn"
  PROVE  Ours(file'[i].id) /\ phase # "Down"
<1>1. Shape /\ Known /\ Lifecycle /\ Shape' /\ Offers /\ Queued
  BY ShapeStep DEF FileInv
<1>2. /\ DOMAIN Stream = 1..Len(Stream) /\ Len(Stream) \in Nat
      /\ \A k \in DOMAIN Stream : k \notin DOMAIN file =>
           k - Len(file) \in DOMAIN buffer /\ Stream[k] = buffer[k - Len(file)]
  BY <1>1, StreamShape
<1>3. /\ i \in DOMAIN Stream' /\ Stream'[i] = file'[i] /\ DOMAIN Stream' = 1..Len(Stream')
      /\ Len(Stream') \in Nat
  BY <1>1, NextShapes DEF Leads
<1>4. ASSUME NEW k \in DOMAIN Stream, k \notin DOMAIN file
      PROVE  Ours(Stream[k].id) /\ phase # "Down"
  <2>1. k - Len(file) \in DOMAIN buffer /\ Stream[k] = buffer[k - Len(file)]
    BY <1>2, <1>4
  <2>2. Stream[k].id \in accepted /\ offered[Stream[k].id] = session
    BY <1>1, <2>1 DEF Known
  <2>3. buffer # << >>
    BY <2>1
  <2> QED
    BY <1>1, <2>2, <2>3 DEF Lifecycle, Ours
<1>5. CASE Untouched
  BY <1>3, <1>4, <1>5 DEF Untouched
<1>6. CASE Lengthened
  <2>1. CASE i \in DOMAIN Stream
    <3>1. Stream'[i] = Stream[i]
      BY <1>6, <2>1 DEF Lengthened, Begins
    <3> QED
      BY <1>3, <1>4, <2>1, <3>1
  <2>2. CASE i \notin DOMAIN Stream
    <3>1. i > Len(Stream)
      BY <1>2, <1>3, <2>2
    <3>2. Stream'[i].id = hand
      <4>1. Stream'[i] = Written("body") \/ Stream'[i] = Written("end")
        BY <1>3, <1>6, <3>1 DEF Lengthened
      <4>2. Written("body").id = hand /\ Written("end").id = hand
        BY DEF Written
      <4> QED
        BY <4>1, <4>2
    <3>3. writer = "Writing"
      BY <1>6 DEF Lengthened
    <3>4. Ours(hand) /\ phase # "Down"
      BY <1>1, <3>3, HandIsEvent DEF Lifecycle
    <3> QED
      BY <1>3, <3>2, <3>4
  <2> QED
    BY <2>1, <2>2
<1>7. CASE Shortened
  <2>1. Len(Stream') <= Len(Stream) /\ (Stream'[i] = Stream[i] \/ Stream'[i] = [Stream[i] EXCEPT !.part = "torn"])
    BY <1>3, <1>7 DEF Shortened
  <2>2. i \in DOMAIN Stream
    BY <1>2, <1>3, <2>1
  <2>3. Stream[i] \in Piece
    BY <1>1, <2>2, StreamShape
  <2>4. Stream'[i] = Stream[i]
    BY <1>3, <2>1, <2>3 DEF Piece
  <2> QED
    BY <1>3, <1>4, <2>2, <2>4
<1> QED
  BY <1>5, <1>6, <1>7, StreamMoves

\* New settled lines lie behind the old ones and are of the session that runs.
LEMMA SettledOn ==
  ASSUME FileInv, [Next]_vars
  PROVE  /\ Extends(Settled, Settled') /\ \A i \in Settled : file'[i] = file[i]
         /\ \A i \in Settled' \ Settled : Ours(file'[i].id) /\ phase # "Down"
<1>1. FileInv' /\ Shape /\ Begins(file, file')
  BY FileStep, ShapeStep DEF FileInv
<1>2. Len(file) \in Nat /\ DOMAIN file = 1..Len(file)
  BY <1>1, LenProperties DEF Shape
<1>3. \A i \in Settled : i \in DOMAIN file /\ i + 1 \in DOMAIN file /\ i < Len(file) /\ i \in Int
  BY SettledShape DEF SettledLines
<1>4. \A i \in Settled : file'[i] = file[i]
  BY <1>1, <1>3 DEF Begins
<1>5. ASSUME NEW i \in Settled PROVE i \in Settled'
  <2>1. i \in 1..Len(file) - 1 /\ Starts(i) /\ (i < Len(file) => file[i + 1].part = "end")
    BY <1>5 DEF Settled, ReadableUpTo, Readable
  <2>2. i \in DOMAIN file /\ i + 1 \in DOMAIN file /\ (i > 1 => i - 1 \in DOMAIN file) /\ i < Len(file)
    BY <1>2, <2>1
  <2>3. /\ file'[i].part = "body" /\ (i > 1 => file'[i - 1].part = "end") /\ file'[i + 1].part = "end"
    BY <1>1, <2>1, <2>2 DEF Starts, Begins
  <2>4. i \in 1..Len(file') - 1
    <3>1. Len(file') \in Nat /\ Len(file) <= Len(file')
      BY <1>1, LenProperties DEF Begins, FileInv, Shape
    <3> QED
      BY <1>2, <2>1, <3>1
  <2> QED
    BY <2>3, <2>4 DEF Settled, ReadableUpTo, Readable, Starts
<1>6. ASSUME NEW i \in Settled', i + 1 \in DOMAIN file PROVE i \in Settled
  <2>1. i \in 1..Len(file') - 1 /\ file'[i].part = "body" /\ (i > 1 => file'[i - 1].part = "end")
        /\ file'[i + 1].part = "end" /\ i \in Int
    BY <1>1, NextShapes DEF SettledLines, Settled, ReadableUpTo, Readable, Starts
  <2>2. i \in 1..Len(file) - 1 /\ i \in DOMAIN file /\ (i > 1 => i - 1 \in DOMAIN file)
    BY <1>2, <1>6, <2>1
  <2>3. /\ file[i].part = "body" /\ (i > 1 => file[i - 1].part = "end") /\ file[i + 1].part = "end"
    BY <1>1, <1>6, <2>1, <2>2 DEF Begins
  <2> QED
    BY <2>2, <2>3 DEF Settled, ReadableUpTo, Readable, Starts
<1>7. ASSUME NEW i \in Settled' \ Settled
      PROVE  i + 1 \in DOMAIN file' /\ i + 1 \notin DOMAIN file /\ file'[i + 1].part = "end"
             /\ i \in Int /\ i > 0 /\ i >= Len(file)
  <2>1. i + 1 \in DOMAIN file' /\ file'[i + 1].part = "end" /\ i \in Int /\ i > 0
    BY <1>1, NextShapes DEF SettledLines
  <2>2. i + 1 \notin DOMAIN file
    BY <1>6
  <2> QED
    BY <1>2, <2>1, <2>2
<1>8. Extends(Settled, Settled')
  <2>1. ASSUME NEW x \in Settled, NEW y \in Settled' \ Settled PROVE x < y
    BY <1>2, <1>3, <1>7
  <2> QED
    BY <1>5, <2>1 DEF Extends
<1>9. ASSUME NEW i \in Settled' \ Settled PROVE Ours(file'[i].id) /\ phase # "Down"
  <2>1. i + 1 \in DOMAIN file' /\ i + 1 \notin DOMAIN file /\ file'[i + 1].part = "end" /\ i \in Int
        /\ i \in DOMAIN file'
    BY <1>1, <1>7, NextShapes DEF SettledLines
  <2>2. Ours(file'[i + 1].id) /\ phase # "Down"
    <3>1. file'[i + 1].part # "torn"
      BY <2>1
    <3> QED
      BY <2>1, <3>1, NewPieces
  <2>3. file'[i + 1].id = file'[i].id
    BY <1>1, NextShapes DEF SettledLines
  <2> QED
    BY <2>2, <2>3
<1> QED
  BY <1>4, <1>8, <1>9

\* What is kept is what the settled lines say; a step adds the new lines.
LEMMA KeptGrows ==
  ASSUME FileInv, [Next]_vars, NEW I, I = {file'[i].id : i \in Settled' \ Settled}
  PROVE  /\ Range(Kept) = SettledIds /\ Range(Kept') = Range(Kept) \cup I
         /\ Adds(Kept, I, Kept')
         /\ \A id \in I : Ours(id) /\ phase # "Down" /\ \A k \in Range(Kept) : k < id
<1>1. FileInv' /\ SettledLines /\ SettledLines' /\ Extends(Settled, Settled')
      /\ (\A i \in Settled : file'[i] = file[i])
      /\ (\A i \in Settled' \ Settled : Ours(file'[i].id) /\ phase # "Down")
  BY FileStep, SettledShape, NextShapes, SettledOn
<1>2. Kept = EventsAt(file, Ascending(Settled)) /\ Kept' = EventsAt(file', Ascending(Settled'))
  BY <1>1, KeptIs DEF SettledLines
<1> DEFINE S == Settled
           T == Settled'
           g == file'
           s == Kept
           t == Kept'
<1>3. /\ Longer(g, T, file, S) /\ T \in SUBSET Int /\ S \in SUBSET T
      /\ \A i \in S : g[i] = file[i]
      /\ \A x \in S, y \in T \ S : x < y
      /\ \A i, j \in T : i < j => g[i].id < g[j].id
      /\ I = {g[i].id : i \in T \ S}
      /\ s = EventsAt(file, Ascending(S)) /\ t = EventsAt(g, Ascending(T))
  BY <1>1, <1>2 DEF SettledLines, Longer, Extends
<1>4. \A id \in I : Ours(id) /\ phase # "Down"
  BY <1>1
<1>5. {file[i].id : i \in S} = SettledIds
  BY DEF SettledIds
<1> HIDE DEF S, T, g, s, t
<1>6. /\ Range(s) = {file[i].id : i \in S} /\ Range(t) = Range(s) \cup I
      /\ Adds(s, I, t)
  <2>1. Longer(g, T, file, S)
    BY <1>3
  <2>2. /\ Range(EventsAt(file, Ascending(S))) = {file[i].id : i \in S}
        /\ Range(EventsAt(g, Ascending(T))) =
             Range(EventsAt(file, Ascending(S))) \cup {g[i].id : i \in T \ S}
        /\ Adds(EventsAt(file, Ascending(S)), {g[i].id : i \in T \ S}, EventsAt(g, Ascending(T)))
    BY <2>1, EventsAdded, Zenon
  <2> QED
    BY <1>3, <2>2
<1>7. \A id \in I, k \in Range(s) : k < id
  <2>a. I = {g[i].id : i \in T \ S} /\ Range(s) = {file[j].id : j \in S}
    BY <1>3, <1>6
  <2> SUFFICES ASSUME NEW i \in T \ S, NEW j \in S PROVE file[j].id < g[i].id
    BY <2>a
  <2>1. j < i /\ j \in T /\ g[j] = file[j]
    BY <1>3
  <2> QED
    BY <1>3, <2>1
<1> QED
  BY <1>4, <1>5, <1>6, <1>7 DEF s, t

\* What the operators of the library that LossyLog uses are.
LEMMA PromiseOperators ==
  /\ \A f : Promise!Range(f) = Range(f)
  /\ \A S : Promise!Cardinality(S) = Cardinality(S)
<1>1. \A f : Promise!Range(f) = Range(f)
  BY DEF Promise!Range, Range
<1>2. \A S : Promise!Cardinality(S) = Cardinality(S)
  BY DEF Promise!Cardinality, Cardinality
<1> QED
  BY <1>1, <1>2

\* Every step of the log is one of LossyLog, or none.
LEMMA PromiseStep ==
  ASSUME FileInv, [Next]_vars
  PROVE  Promise!Accept \/ Promise!Keep
<1> DEFINE I == {file'[i].id : i \in Settled' \ Settled}
<1>1. /\ Range(Kept) = SettledIds /\ Range(Kept') = Range(Kept) \cup I
      /\ Adds(Kept, I, Kept')
      /\ \A id \in I : Ours(id) /\ phase # "Down" /\ \A k \in Range(Kept) : k < id
  BY KeptGrows
<1>2. \A id \in accepted : /\ id \in accepted' /\ offered'[id] = offered[id]
                           /\ id \in Nat /\ id < Len(offered) + 1
                           /\ offered[id] \in Nat /\ offered[id] <= session
  BY AcceptedStays
<1>3. session' = session \/ (Start /\ session' = session + 1)
  BY SessionSide
<1>4. SettledIds \subseteq accepted
  BY SettledShape DEF SettledLines, SettledIds
<1> HIDE DEF I
<1>5. I \subseteq Pending
  <2> SUFFICES ASSUME NEW id \in I PROVE id \in Pending
    OBVIOUS
  <2>1. Ours(id) /\ phase # "Down" /\ \A k \in Range(Kept) : k < id
    BY <1>1
  <2>2. id \in Nat
    BY <1>2, <2>1 DEF Ours
  <2>3. id \notin Range(Kept)
    BY <2>1, <2>2
  <2> QED
    BY <2>1, <2>3 DEF Pending, Ours, AcceptedIn
<1>6. CASE ~TryPersist
  <2>1. Pending' \subseteq Pending \ I
    <3> SUFFICES ASSUME NEW id \in Pending' PROVE id \in Pending \ I
      OBVIOUS
    <3>1. phase' # "Down" /\ id \in accepted' /\ offered'[id] = session' /\ id \notin Range(Kept')
      BY DEF Pending, AcceptedIn
    <3>2. id \in accepted /\ offered[id] = session'
      <4>1. accepted' = accepted /\ offered' = offered
        BY <1>6, OfferSide
      <4> QED
        BY <3>1, <4>1
    <3>3. session' = session
      <4>1. offered[id] <= session /\ session \in Nat
        BY <1>2, <3>2 DEF FileInv, Shape
      <4> QED
        BY <1>3, <3>2, <4>1
    <3>4. phase # "Down"
      <4> SUFFICES ASSUME phase = "Down" PROVE FALSE
        OBVIOUS
      <4>1. writer = "Gone"
        BY DEF FileInv, Lifecycle
      <4>2. ~Start
        <5>1. session \in Nat
          BY DEF FileInv, Shape
        <5> QED
          BY <3>3, <5>1 DEF Start
      <4> QED
        BY <1>6, <3>1, <4>1, <4>2 DEF Next, Operate, Write, Close, Open, Receive, WriteEvent,
           EndOfInput, Flush, OpenFails, WriteFails, FlushFails, Crash, vars, procVars
    <3> QED
      BY <1>1, <3>1, <3>2, <3>3, <3>4 DEF Pending, AcceptedIn
  <2>2. \A k \in Range(Kept), id \in I : k < id
    BY <1>1
  <2>3. I \in SUBSET Pending
    BY <1>5
  <2> QED
    BY <1>1, <2>1, <2>2, <2>3, PromiseOperators DEF Promise!Keep, Adds
<1>7. CASE TryPersist
  <2>1. file' = file /\ phase' = phase /\ session' = session /\ phase = "Up"
    BY <1>7 DEF TryPersist, procVars
  <2>2. Kept' = Kept
    BY <2>1 DEF Kept, Settled, ReadableUpTo, Readable, Starts, InOrder
  <2> DEFINE new == Len(offered) + 1
  <2>3. /\ accepted' = accepted \/ accepted' = accepted \cup {new}
        /\ new \in Event /\ offered'[new] = session
    <3>1. Len(offered) \in Nat /\ Len(offered) < MaxOffers /\ MaxOffers \in Nat
      BY <1>7, OfferSide, LogAssumption DEF TryPersist
    <3>2. offered'[new] = session
      BY <1>7, OfferSide
    <3> QED
      BY <1>7, <3>1, <3>2 DEF TryPersist, Event
  <2> HIDE DEF new
  <2>4. AcceptedIn(session)' = AcceptedIn(session) \/ AcceptedIn(session)' = AcceptedIn(session) \cup {new}
    BY <1>2, <2>1, <2>3 DEF AcceptedIn
  <2>5. new \notin Range(Kept)
    BY <1>1, <1>2, <1>4 DEF new
  <2>6. Pending' = Pending \/ Pending' = Pending \cup {new}
    BY <2>1, <2>2, <2>4, <2>5 DEF Pending
  <2>7. CASE Pending' = Pending \cup {new}
    <3>1. \A k \in Pending \cup Range(Kept) : k < new
      BY <1>1, <1>2, <1>4 DEF Pending, AcceptedIn, new
    <3> QED
      BY <2>2, <2>3, <2>7, <3>1, PromiseOperators DEF Promise!Accept
  <2>8. CASE Pending' = Pending
    <3>1. I = {}
      BY <2>1 DEF I, Settled, ReadableUpTo, Readable, Starts
    <3> QED
      BY <1>1, <2>8, <3>1, PromiseOperators DEF Promise!Keep, Adds
  <2> QED
    BY <2>6, <2>7, <2>8
<1> QED
  BY <1>6, <1>7

\* The log keeps accepted events in order, each once, and for ever: nothing a
\* crash, a failing write or a restart does reaches back behind the last
\* newline (persistence.rs 46-75, 154-199).
THEOREM LogKeepsItsPromise == Spec => ImplementsLossyLog
<1>1. Init => Promise!LogInit
  <2> SUFFICES ASSUME Init PROVE Pending = {} /\ Kept = << >>
    BY DEF Promise!LogInit
  <2>1. Pending = {}
    BY DEF Init, Pending
  <2>2. Settled = {}
    <3>1. Len(file) = 0
      BY DEF Init
    <3> QED
      BY <3>1 DEF Settled, ReadableUpTo
  <2>3. Kept = EventsAt(file, Ascending({}))
    BY <2>2, KeptIs
  <2>4. Cardinality({}) = 0
    BY FS_EmptySet
  <2>5. DOMAIN Ascending({}) = {}
    BY <2>4 DEF Ascending, Sorted
  <2>6. Kept = << >>
    BY <2>3, <2>5 DEF EventsAt
  <2> QED
    BY <2>1, <2>6
<1>2. FileInv /\ [Next]_vars => Promise!Accept \/ Promise!Keep
  BY PromiseStep
<1> QED
  BY <1>1, <1>2, FileAlways, PTL DEF Spec, ImplementsLossyLog, Promise!LogSpec

-----------------------------------------------------------------------------
(* The types of the variables.                                              *)

\* Every variable keeps its type: in particular no event is both accepted and
\* reported, and the channel never holds more than its capacity.
THEOREM TypesHold == Spec => []TypeOK
<1>1. ASSUME FileInv PROVE TypeOK
  <2>1. Shape /\ Lifecycle /\ Offers /\ Queued /\ Metas
    BY <1>1 DEF FileInv
  <2>2. Len(offered) \in Nat /\ DOMAIN offered = 1..Len(offered) /\ session \in 0..MaxSessions /\ MaxSessions \in Nat
    BY <2>1, LenProperties, LogAssumption DEF Shape
  <2>3. Range(offered) \subseteq Session
    BY <2>1, <2>2 DEF Shape, Range, Session
  <2>4. Range(channel) \subseteq accepted
    BY <2>1 DEF Queued, Ours, Range
  <2>5. hand \in accepted \cup {Nothing}
    BY <2>1 DEF Queued, Ours
  <2>6. Range(buffer \o file) \subseteq Piece
    <3>1. buffer \in Seq(Piece) /\ file \in Seq(Piece)
      BY <2>1 DEF Shape
    <3>2. buffer \o file \in Seq(Piece)
      BY <3>1, Joined
    <3> DEFINE u == buffer \o file
    <3>3. u \in Seq(Piece)
      BY <3>2
    <3> HIDE DEF u
    <3>4. Range(u) \subseteq Piece
      BY <3>3, LenProperties DEF Range
    <3> QED
      BY <3>4 DEF u
  <2>7. DOMAIN meta \subseteq Session /\ \A s \in DOMAIN meta : meta[s] \in Nat
    <3> SUFFICES ASSUME NEW s \in DOMAIN meta PROVE s \in Session /\ meta[s] \in Nat
      OBVIOUS
    <3>1. s \in 1..session /\ meta[s] = Cardinality(AcceptedIn(s))
      BY <2>1 DEF Metas
    <3>2. Cardinality(AcceptedIn(s)) \in Nat
      BY <1>1, FewLost, FS_CardinalityType
    <3> QED
      BY <2>2, <3>1, <3>2 DEF Session
  <2>8. failed \cup crashed \subseteq Session
    BY <2>1, <2>2 DEF Lifecycle, Session
  <2> QED
    BY <2>1, <2>3, <2>4, <2>5, <2>6, <2>7, <2>8 DEF TypeOK, Shape, Lifecycle, Offers
<1> QED
  BY <1>1, FileAlways, PTL
=============================================================================
