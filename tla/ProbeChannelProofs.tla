-------------------------- MODULE ProbeChannelProofs --------------------------
(***************************************************************************)
(* Proofs about ProbeChannel, for any threads of the game, buffer sizes    *)
(* and bound of the pipes.                                                 *)
(***************************************************************************)
EXTENDS ProbeChannel, SequenceRecursion

-----------------------------------------------------------------------------
(* The frames of a pipe. *)

LEMMA CompletedType ==
  ASSUME NEW p \in Piece
  PROVE  Completed(p) \in Seq(Frames)
BY DEF Completed, Piece

\* The equation of the recursive function Whole.
LEMMA WholeDef ==
  /\ Whole \in [Seq(Piece) -> Seq(Frames)]
  /\ \A s \in Seq(Piece) :
       Whole[s] = IF s = <<>> THEN <<>>
                  ELSE Completed(Head(s)) \o Whole[Tail(s)]
<1> DEFINE Body(W) == [s \in Seq(Piece) |->
             IF s = <<>> THEN <<>> ELSE Completed(Head(s)) \o W[Tail(s)]]
<1>1. PICK step : step = [x \in Piece \X Seq(Frames) |-> Completed(x[1]) \o x[2]]
  OBVIOUS
<1>2. step \in [Piece \X Seq(Frames) -> Seq(Frames)]
  BY <1>1, CompletedType, ConcatProperties
<1>3. PICK f \in [Seq(Piece) -> Seq(Frames)] : \A s \in Seq(Piece) :
        f[s] = IF s = <<>> THEN <<>> ELSE step[<<Head(s), f[Tail(s)]>>]
  <2>1. PICK base \in Seq(Frames) : base = <<>>
    BY EmptySeq
  <2>2. \E f \in [Seq(Piece) -> Seq(Frames)] : IsRecursive(f, Piece, base, step)
    BY <1>2, SeqRecursion
  <2> QED
    BY <2>1, <2>2 DEF IsRecursive
<1>4. f = Body(f)
  <2>1. ASSUME NEW s \in Seq(Piece), s # <<>>
        PROVE  f[s] = Completed(Head(s)) \o f[Tail(s)]
    BY <1>1, <1>3, <2>1, HeadTailProperties
  <2> QED
    BY <1>3, <2>1
<1>5. Whole = Body(Whole)
  <2> HIDE DEF Body
  <2>1. Whole = CHOOSE W : W = Body(W)
    BY DEF Whole, Body
  <2> QED
    BY <1>4, <2>1
<1>6. ASSUME NEW s \in Seq(Piece)
      PROVE  Whole[s] = IF s = <<>> THEN <<>> ELSE Completed(Head(s)) \o Whole[Tail(s)]
  BY <1>5
<1> DEFINE T == {s \in Seq(Piece) : Whole[s] \in Seq(Frames)}
<1>7. <<>> \in T
  BY <1>6, EmptySeq
<1>8. ASSUME NEW s \in Seq(Piece), s # <<>>, Tail(s) \in T PROVE s \in T
  <2>1. Head(s) \in Piece /\ Whole[Tail(s)] \in Seq(Frames)
    BY <1>8, HeadTailProperties
  <2>2. Whole[s] = Completed(Head(s)) \o Whole[Tail(s)]
    BY <1>6, <1>8
  <2> QED
    BY <2>1, <2>2, CompletedType, ConcatProperties
<1>9. Seq(Piece) \subseteq T
  <2> HIDE DEF T
  <2> QED
    BY <1>7, <1>8, SeqSetInduction
<1>10. Whole \in [Seq(Piece) -> Seq(Frames)]
  <2>1. Whole = [s \in Seq(Piece) |-> Whole[s]]
    BY <1>5
  <2> QED
    BY <1>9, <2>1
<1> QED
  BY <1>6, <1>10

LEMMA QueueAppend ==
  ASSUME NEW a \in Seq(Frames), NEW b \in Seq(Frames), NEW f \in Frames
  PROVE  a \o (b \o <<f>>) = Append(a \o b, f)
<1>1. <<f>> \in Seq(Frames) /\ a \o b \in Seq(Frames)
  BY ConcatProperties
<1>2. Append(a \o b, f) = (a \o b) \o <<f>>
  BY <1>1, AppendIsConcat
<1>3. (a \o b) \o <<f>> = a \o (b \o <<f>>)
  BY <1>1, ConcatAssociative
<1> QED
  BY <1>2, <1>3

\* A piece that enters the pipe adds the frame that it completes, at the end.
LEMMA WholeAppend ==
  ASSUME NEW p \in Seq(Piece), NEW x \in Piece
  PROVE  Whole[Append(p, x)] = Whole[p] \o Completed(x)
<1> DEFINE T == {s \in Seq(Piece) : Whole[Append(s, x)] = Whole[s] \o Completed(x)}
<1>1. \A s \in Seq(Piece) : /\ Append(s, x) \in Seq(Piece) /\ Append(s, x) # <<>>
                            /\ Whole[s] \in Seq(Frames)
  BY AppendProperties, WholeDef
<1>2. Completed(x) \in Seq(Frames)
  BY CompletedType
<1>3. \A s \in Seq(Piece) : Whole[Append(s, x)] =
         Completed(Head(Append(s, x))) \o Whole[Tail(Append(s, x))]
  BY <1>1, WholeDef
<1>4. <<>> \in T
  <2>1. <<>> \in Seq(Piece) /\ Whole[<<>>] = <<>>
    BY WholeDef, EmptySeq
  <2>2. Head(Append(<<>>, x)) = x /\ Tail(Append(<<>>, x)) = <<>>
    BY <2>1, HeadTailAppend
  <2>3. Completed(x) \o <<>> = Completed(x) /\ <<>> \o Completed(x) = Completed(x)
    BY <1>2, ConcatEmptySeq
  <2> QED
    BY <1>3, <2>1, <2>2, <2>3
<1>5. ASSUME NEW s \in Seq(Piece), s # <<>>, Tail(s) \in T PROVE s \in T
  <2>1. Head(Append(s, x)) = Head(s) /\ Tail(Append(s, x)) = Append(Tail(s), x)
    BY <1>5, HeadTailAppend
  <2>2. Whole[Append(s, x)] = Completed(Head(s)) \o (Whole[Tail(s)] \o Completed(x))
    BY <1>3, <1>5, <2>1
  <2>3. Whole[s] = Completed(Head(s)) \o Whole[Tail(s)]
    BY <1>5, WholeDef
  <2>4. Completed(Head(s)) \in Seq(Frames) /\ Whole[Tail(s)] \in Seq(Frames)
    BY <1>1, <1>5, HeadTailProperties, CompletedType
  <2>5. (Completed(Head(s)) \o Whole[Tail(s)]) \o Completed(x) =
          Completed(Head(s)) \o (Whole[Tail(s)] \o Completed(x))
    <3>1. PICK a, b, c \in Seq(Frames) :
            a = Completed(Head(s)) /\ b = Whole[Tail(s)] /\ c = Completed(x)
      BY <1>2, <2>4
    <3>2. (a \o b) \o c = a \o (b \o c)
      BY ConcatAssociative
    <3> QED
      BY <3>1, <3>2
  <2> QED
    BY <2>2, <2>3, <2>5
<1>6. Seq(Piece) \subseteq T
  <2> HIDE DEF T
  <2> QED
    BY <1>4, <1>5, SeqSetInduction
<1> QED
  BY <1>6

-----------------------------------------------------------------------------
(* One direction of the channel as a stream of pieces: those that the       *)
(* receiver has read of its frame, those in the pipe, and those that the    *)
(* sender has yet to write.                                                 *)

Stream(got, pipe, left) == (got \o pipe) \o left

\* q may come after p.
Follows(p, q) ==
  IF Last(p) THEN q.part = "header" ELSE q.part = "payload" /\ q.frame = p.frame

\* The pieces are those of whole frames, one after the other; the last of them
\* may lack its payload unless the stream is complete.
Framed(s) ==
  /\ s # <<>> => s[1].part = "header"
  /\ \A i \in 1..Len(s) - 1 : Follows(s[i], s[i + 1])
Complete(s) == s # <<>> => Last(s[Len(s)])

\* What a receiver holds between two pieces of a frame.
Unfinished(s) == \A i \in 1..Len(s) : ~Last(s[i])

LEMMA MovePiece ==
  ASSUME NEW s \in Seq(Piece), NEW t \in Seq(Piece), t # <<>>
  PROVE  Append(s, Head(t)) \o Tail(t) = s \o t
<1>1. /\ Head(t) \in Piece /\ Tail(t) \in Seq(Piece) /\ Len(Tail(t)) = Len(t) - 1
      /\ \A i \in 1..Len(Tail(t)) : Tail(t)[i] = t[i + 1]
  BY HeadTailProperties
<1>2. Append(s, Head(t)) = s \o <<Head(t)>> /\ <<Head(t)>> \in Seq(Piece)
  BY <1>1, AppendIsConcat
<1>3. t = <<Head(t)>> \o Tail(t)
  BY <1>1, EmptySeq, LenProperties
<1> QED
  BY <1>1, <1>2, <1>3, ConcatAssociative

LEMMA StreamParts ==
  ASSUME NEW got \in Seq(Piece), NEW pipe \in Seq(Piece), NEW left \in Seq(Piece)
  PROVE  Stream(got, pipe, left) = got \o (pipe \o left)
BY ConcatAssociative DEF Stream

\* Writing a piece leaves the stream as it is.
LEMMA StreamWrite ==
  ASSUME NEW got \in Seq(Piece), NEW pipe \in Seq(Piece), NEW left \in Seq(Piece),
         left # <<>>
  PROVE  /\ Stream(got, Append(pipe, Head(left)), Tail(left)) = Stream(got, pipe, left)
         /\ Append(pipe, Head(left)) \in Seq(Piece) /\ Tail(left) \in Seq(Piece)
<1>1. /\ Head(left) \in Piece /\ Tail(left) \in Seq(Piece)
      /\ Append(pipe, Head(left)) \in Seq(Piece)
  BY HeadTailProperties, AppendProperties
<1>2. Append(pipe, Head(left)) \o Tail(left) = pipe \o left
  BY MovePiece
<1>3. Stream(got, pipe, left) = got \o (pipe \o left)
  BY StreamParts
<1>4. Stream(got, Append(pipe, Head(left)), Tail(left)) =
        got \o (Append(pipe, Head(left)) \o Tail(left))
  BY <1>1, StreamParts
<1> QED
  BY <1>1, <1>2, <1>3, <1>4

\* And so does reading one that does not complete a frame.
LEMMA StreamRead ==
  ASSUME NEW got \in Seq(Piece), NEW pipe \in Seq(Piece), NEW left,
         pipe # <<>>
  PROVE  /\ Stream(Append(got, Head(pipe)), Tail(pipe), left) = Stream(got, pipe, left)
         /\ Append(got, Head(pipe)) \in Seq(Piece) /\ Tail(pipe) \in Seq(Piece)
  BY MovePiece, HeadTailProperties, AppendProperties DEF Stream

-----------------------------------------------------------------------------
(* Frames in a stream. *)

Header(f) == [frame |-> f, part |-> "header"]
Payload(f) == [frame |-> f, part |-> "payload"]

\* The pieces of a frame: those before the last are not Last.
LEMMA PiecesOf ==
  ASSUME NEW f \in Frames
  PROVE  /\ Pieces(f) \in Seq(Piece) /\ Pieces(f) # <<>>
         /\ Header(f) \in Piece /\ Payload(f) \in Piece /\ Last(Payload(f))
         /\ Len(Pieces(f)) = IF Last(Header(f)) THEN 1 ELSE 2
         /\ Pieces(f)[1] = Header(f) /\ Head(Pieces(f)) = Header(f)
         /\ Len(Pieces(f)) = 2 => Pieces(f)[2] = Payload(f)
<1>1. Header(f) \in Piece /\ Payload(f) \in Piece /\ Last(Payload(f))
  BY DEF Header, Payload, Piece, Last
<1>2. CASE Last(Header(f))
  <2>1. Pieces(f) = <<Header(f)>> \o <<>>
    BY <1>2 DEF Header, Last, Pieces
  <2>2. Pieces(f) = <<Header(f)>>
    BY <2>1
  <2> QED
    BY <1>1, <1>2, <2>2
<1>3. CASE ~Last(Header(f))
  <2>1. Pieces(f) = <<Header(f)>> \o <<Payload(f)>>
    BY <1>3 DEF Header, Payload, Last, Pieces
  <2>2. <<Header(f)>> \in Seq(Piece) /\ <<Payload(f)>> \in Seq(Piece)
    BY <1>1
  <2>3. /\ Pieces(f) \in Seq(Piece) /\ Len(Pieces(f)) = 2
        /\ Pieces(f)[1] = Header(f) /\ Pieces(f)[2] = Payload(f)
    BY <2>1, <2>2, ConcatProperties
  <2> QED
    BY <1>1, <1>3, <2>3
<1> QED
  BY <1>2, <1>3

\* read_frame makes of the pieces of a frame that frame.
LEMMA ParsedPieces ==
  ASSUME NEW f \in Frames
  PROVE  Parsed(Pieces(f)) = f
<1>1. Head(Pieces(f)).frame = f
  <2>1. Head(Pieces(f)) = Header(f)
    BY PiecesOf
  <2> QED
    BY <2>1 DEF Header
<1> QED
  BY <1>1 DEF Parsed

\* A sender that has written whole frames starts the next one.
LEMMA StreamStart ==
  ASSUME NEW got \in Seq(Piece), NEW pipe \in Seq(Piece), NEW f \in Frames,
         Framed(Stream(got, pipe, <<>>)), Complete(Stream(got, pipe, <<>>))
  PROVE  /\ Framed(Stream(got, pipe, Pieces(f)))
         /\ Complete(Stream(got, pipe, Pieces(f)))
<1> DEFINE s == got \o pipe
           t == Pieces(f)
<1>1. s \in Seq(Piece) /\ t \in Seq(Piece) /\ t # <<>>
  BY ConcatProperties, PiecesOf
<1>2. Framed(s) /\ Complete(s)
  BY <1>1, ConcatEmptySeq DEF Stream
<1>3. /\ Len(t) \in {1, 2} /\ t[1].part = "header" /\ Last(t[Len(t)])
      /\ Len(t) = 2 => Follows(t[1], t[2])
  <2>1. Header(f).part = "header" /\ Header(f).frame = f
    BY DEF Header
  <2>2. Payload(f).part = "payload" /\ Payload(f).frame = f
    BY DEF Payload
  <2> QED
    BY <2>1, <2>2, PiecesOf DEF Follows
<1> HIDE DEF s, t
<1>4. /\ Len(s) \in Nat /\ Len(s \o t) = Len(s) + Len(t)
      /\ \A i \in 1..Len(s) : (s \o t)[i] = s[i]
      /\ \A i \in 1..Len(t) : (s \o t)[Len(s) + i] = t[i]
  BY <1>1, <1>3, ConcatProperties, LenProperties
<1>5. Complete(s \o t)
  BY <1>1, <1>3, <1>4 DEF Complete
<1>6. s \o t # <<>> => (s \o t)[1].part = "header"
  BY <1>1, <1>2, <1>3, <1>4, EmptySeq DEF Framed
<1>7. ASSUME NEW i \in 1..Len(s \o t) - 1
      PROVE  Follows((s \o t)[i], (s \o t)[i + 1])
  <2>1. CASE i < Len(s)
    BY <1>2, <1>4, <2>1 DEF Framed
  <2>2. CASE i = Len(s)
    BY <1>1, <1>2, <1>3, <1>4, <2>2, EmptySeq DEF Complete, Follows
  <2>3. CASE i > Len(s)
    BY <1>3, <1>4, <2>3
  <2> QED
    BY <1>4, <2>1, <2>2, <2>3
<1> QED
  BY <1>5, <1>6, <1>7 DEF Framed, Stream, s, t

\* What a sender has not written may be left out.
LEMMA FramedPrefix ==
  ASSUME NEW s \in Seq(Piece), NEW t \in Seq(Piece), Framed(s \o t)
  PROVE  Framed(s)
<1>1. /\ Len(s) \in Nat /\ Len(t) \in Nat /\ Len(s \o t) = Len(s) + Len(t)
      /\ \A i \in 1..Len(s) : (s \o t)[i] = s[i]
  BY ConcatProperties, LenProperties
<1>2. s # <<>> => Len(s) > 0 /\ s \o t # <<>>
  BY <1>1, EmptySeq, ConcatEqualIffEmpty
<1> QED
  BY <1>1, <1>2 DEF Framed

\* The pieces of a stream, by their place.
LEMMA StreamPlaces ==
  ASSUME NEW got \in Seq(Piece), NEW pipe \in Seq(Piece), NEW left \in Seq(Piece)
  PROVE  /\ Stream(got, pipe, left) \in Seq(Piece)
         /\ Len(got) \in Nat /\ Len(pipe) \in Nat /\ Len(left) \in Nat
         /\ Len(Stream(got, pipe, left)) = Len(got) + Len(pipe) + Len(left)
         /\ \A i \in 1..Len(got) : Stream(got, pipe, left)[i] = got[i]
         /\ \A i \in 1..Len(pipe) : Stream(got, pipe, left)[Len(got) + i] = pipe[i]
         /\ \A i \in 1..Len(left) :
              Stream(got, pipe, left)[Len(got) + Len(pipe) + i] = left[i]
<1>0. PICK s \in Seq(Piece) : s = got \o pipe
  BY ConcatProperties
<1>1. /\ s \in Seq(Piece) /\ Len(got) \in Nat /\ Len(pipe) \in Nat /\ Len(left) \in Nat
      /\ Len(s) = Len(got) + Len(pipe)
      /\ \A i \in 1..Len(got) + Len(pipe) :
           s[i] = IF i <= Len(got) THEN got[i] ELSE pipe[i - Len(got)]
  BY <1>0, ConcatProperties, LenProperties
<1>2. /\ s \o left \in Seq(Piece) /\ Len(s \o left) = Len(s) + Len(left)
      /\ \A i \in 1..Len(s) + Len(left) :
           (s \o left)[i] = IF i <= Len(s) THEN s[i] ELSE left[i - Len(s)]
  BY ConcatProperties, LenProperties
<1>3. Stream(got, pipe, left) = s \o left
  BY <1>0 DEF Stream
<1>4. ASSUME NEW i \in 1..Len(pipe) PROVE (s \o left)[Len(got) + i] = pipe[i]
  <2>1. Len(got) + i \in 1..Len(s) /\ ~(Len(got) + i <= Len(got))
    BY <1>1
  <2> QED
    BY <1>1, <1>2, <2>1
<1>5. ASSUME NEW i \in 1..Len(left) PROVE (s \o left)[Len(s) + i] = left[i]
  BY <1>1, <1>2
<1> QED
  BY <1>1, <1>2, <1>3, <1>4, <1>5

LEMMA FreshStreamPlaces ==
  ASSUME NEW pipe \in Seq(Piece), NEW left \in Seq(Piece)
  PROVE  /\ Stream(<<>>, pipe, left) \in Seq(Piece)
         /\ Len(Stream(<<>>, pipe, left)) = Len(pipe) + Len(left)
         /\ \A i \in 1..Len(pipe) : Stream(<<>>, pipe, left)[i] = pipe[i]
         /\ \A i \in 1..Len(left) :
              Stream(<<>>, pipe, left)[Len(pipe) + i] = left[i]
<1>1. <<>> \o pipe = pipe
  BY ConcatEmptySeq
<1> QED
  BY <1>1, ConcatProperties, LenProperties DEF Stream

\* Reading the last piece of a frame yields that frame, and leaves a stream that
\* begins with the next one.
LEMMA StreamFrame ==
  ASSUME NEW got \in Seq(Piece), NEW pipe \in Seq(Piece), NEW left \in Seq(Piece),
         pipe # <<>>, Unfinished(got), Framed(Stream(got, pipe, left)), Last(Head(pipe))
  PROVE  /\ Parsed(Append(got, Head(pipe))) = Head(pipe).frame
         /\ Framed(Stream(<<>>, Tail(pipe), left))
         /\ Complete(Stream(got, pipe, left)) => Complete(Stream(<<>>, Tail(pipe), left))
<1> DEFINE s == Stream(got, pipe, left)
           u == Stream(<<>>, Tail(pipe), left)
           h == Head(pipe)
           f == h.frame
           g == Len(got)
<1>1. /\ h \in Piece /\ Tail(pipe) \in Seq(Piece) /\ Len(Tail(pipe)) = Len(pipe) - 1
      /\ h = pipe[1] /\ Len(pipe) \in Nat \ {0}
      /\ \A i \in 1..Len(pipe) - 1 : Tail(pipe)[i] = pipe[i + 1]
  BY HeadTailProperties, LenProperties, EmptySeq
<1>2. /\ s \in Seq(Piece) /\ g \in Nat /\ Len(left) \in Nat
      /\ Len(s) = g + Len(pipe) + Len(left)
      /\ \A i \in 1..g : s[i] = got[i]
      /\ \A i \in 1..Len(pipe) : s[g + i] = pipe[i]
      /\ \A i \in 1..Len(left) : s[g + Len(pipe) + i] = left[i]
  BY StreamPlaces
<1>3. /\ u \in Seq(Piece) /\ Len(u) = Len(pipe) - 1 + Len(left)
      /\ \A i \in 1..Len(pipe) - 1 : u[i] = Tail(pipe)[i]
      /\ \A i \in 1..Len(left) : u[Len(pipe) - 1 + i] = left[i]
  <2>1. PICK b \in Seq(Piece) : b = Tail(pipe)
    BY <1>1
  <2>2. /\ Stream(<<>>, b, left) \in Seq(Piece)
        /\ Len(Stream(<<>>, b, left)) = Len(b) + Len(left)
        /\ \A i \in 1..Len(b) : Stream(<<>>, b, left)[i] = b[i]
        /\ \A i \in 1..Len(left) : Stream(<<>>, b, left)[Len(b) + i] = left[i]
    BY FreshStreamPlaces
  <2> QED
    BY <1>1, <2>1, <2>2
<1>4. \A i \in 1..Len(got) : got[i] \in Piece
  BY ElementOfSeq
<1> HIDE DEF s, u, h, g
<1>5. \A i \in 1..Len(u) : u[i] = s[g + 1 + i]
  <2> SUFFICES ASSUME NEW i \in 1..Len(u) PROVE u[i] = s[g + 1 + i]
    OBVIOUS
  <2>1. CASE i <= Len(pipe) - 1
    <3>1. u[i] = pipe[i + 1] /\ i + 1 \in 1..Len(pipe)
      BY <1>1, <1>3, <2>1
    <3>2. s[g + (i + 1)] = pipe[i + 1]
      BY <1>2, <3>1
    <3> QED
      BY <1>2, <3>1, <3>2
  <2>2. CASE i > Len(pipe) - 1
    <3> DEFINE j == i - (Len(pipe) - 1)
    <3>1. j \in 1..Len(left) /\ i = Len(pipe) - 1 + j
      BY <1>1, <1>2, <1>3, <2>2
    <3> HIDE DEF j
    <3>2. u[i] = left[j] /\ s[g + Len(pipe) + j] = left[j]
      BY <1>2, <1>3, <3>1
    <3> QED
      BY <1>1, <1>2, <3>1, <3>2
  <2> QED
    BY <1>1, <2>1, <2>2
<1>6. /\ Framed(s) /\ Last(h) /\ s[g + 1] = h /\ s # <<>> /\ g + 1 \in 1..Len(s)
      /\ \A i \in 1..g : ~Last(s[i])
  BY <1>1, <1>2, EmptySeq DEF s, h, g, Unfinished
<1>7. g \in {0, 1} /\ (g = 0 => h.part = "header")
      /\ (g = 1 => s[1].part = "header" /\ h.part = "payload" /\ h.frame = s[1].frame)
  <2>1. CASE g = 0
    BY <1>6, <2>1 DEF Framed
  <2>2. CASE g >= 1
    <3>1. s[1].part = "header" /\ ~Last(s[1]) /\ Follows(s[1], s[2])
      BY <1>2, <1>6, <2>2 DEF Framed
    <3>2. s[2].part = "payload" /\ s[2].frame = s[1].frame /\ Last(s[2])
      BY <3>1 DEF Follows, Last
    <3>3. g = 1
      BY <1>2, <1>6, <2>2, <3>2
    <3> QED
      BY <1>6, <3>1, <3>2, <3>3
  <2> QED
    BY <1>2, <2>1, <2>2
<1>8. Framed(u)
  <2>1. u # <<>> => u[1].part = "header"
    BY <1>2, <1>3, <1>5, <1>6, EmptySeq DEF Framed, Follows
  <2>2. ASSUME NEW i \in 1..Len(u) - 1 PROVE Follows(u[i], u[i + 1])
    <3>1. g + 1 + i \in 1..Len(s) - 1
      BY <1>1, <1>2, <1>3
    <3>2. Follows(s[g + 1 + i], s[(g + 1 + i) + 1])
      BY <1>6, <3>1 DEF Framed
    <3>3. u[i] = s[g + 1 + i] /\ u[i + 1] = s[g + 1 + (i + 1)]
      BY <1>1, <1>2, <1>3, <1>5
    <3>4. g + 1 + (i + 1) = (g + 1 + i) + 1
      BY <1>2
    <3> QED
      BY <3>2, <3>3, <3>4
  <2> QED
    BY <2>1, <2>2 DEF Framed
<1>9. Complete(s) => Complete(u)
  <2> SUFFICES ASSUME Complete(s), u # <<>> PROVE Last(u[Len(u)])
    BY DEF Complete
  <2>1. Len(u) \in 1..Len(u) /\ g + 1 + Len(u) = Len(s)
    BY <1>1, <1>2, <1>3, EmptySeq
  <2> QED
    BY <1>5, <1>6, <2>1 DEF Complete
<1>10. Append(got, h) = Pieces(f)
  <2>1. /\ Append(got, h) \in Seq(Piece) /\ Len(Append(got, h)) = g + 1
        /\ \A i \in 1..g : Append(got, h)[i] = got[i]
        /\ Append(got, h)[g + 1] = h
    BY <1>1, AppendProperties DEF g
  <2>2. /\ f \in Frames
        /\ Header(f).part = "header" /\ Header(f).frame = f
        /\ Payload(f).part = "payload" /\ Payload(f).frame = f
    BY <1>1 DEF Piece, Header, Payload
  <2>3. \A p \in Piece : p.frame = f => (p.part = "header" => p = Header(f))
                                       /\ (p.part = "payload" => p = Payload(f))
    BY DEF Piece, Header, Payload
  <2>4. CASE g = 0
    <3>1. h = Header(f)
      BY <1>1, <1>7, <2>3, <2>4
    <3>2. Len(Pieces(f)) = 1 /\ Pieces(f)[1] = Header(f) /\ Pieces(f) \in Seq(Piece)
      BY <1>6, <2>2, <3>1, PiecesOf
    <3>3. Len(Append(got, h)) = 1 /\ Append(got, h)[1] = h
      BY <2>1, <2>4
    <3>4. \A i \in 1..1 : Append(got, h)[i] = Pieces(f)[i]
      BY <3>1, <3>2, <3>3
    <3> QED
      BY <2>1, <3>2, <3>3, <3>4, SeqEqual
  <2>5. CASE g = 1
    <3>1. got[1] \in Piece /\ s[1] = got[1] /\ ~Last(s[1])
      BY <1>2, <1>4, <1>6, <2>5 DEF g
    <3>2. got[1] = Header(f) /\ h = Payload(f)
      BY <1>1, <1>7, <2>3, <2>5, <3>1
    <3>3. /\ Len(Pieces(f)) = 2 /\ Pieces(f)[1] = Header(f) /\ Pieces(f)[2] = Payload(f)
          /\ Pieces(f) \in Seq(Piece)
      BY <2>2, <3>1, <3>2, PiecesOf
    <3>4. /\ Len(Append(got, h)) = 2 /\ Append(got, h)[1] = got[1]
          /\ Append(got, h)[2] = h
      BY <2>1, <2>5
    <3>5. \A i \in 1..2 : Append(got, h)[i] = Pieces(f)[i]
      BY <3>2, <3>3, <3>4
    <3> QED
      BY <2>1, <3>3, <3>4, <3>5, SeqEqual
  <2> QED
    BY <1>7, <2>4, <2>5
<1>11. Parsed(Append(got, h)) = f
  <2>1. f \in Frames
    BY <1>1 DEF Piece
  <2> QED
    BY <1>10, <2>1, ParsedPieces
<1> QED
  BY <1>8, <1>9, <1>11 DEF s, u, h

-----------------------------------------------------------------------------
(* The inductive invariant.                                                 *)
(*                                                                          *)
(* That a read returns whole frames does not follow from the types: one has *)
(* to know that in each direction what was read, what is in the pipe and    *)
(* what is left to write are the pieces of whole frames.                    *)

PieceTypes ==
  /\ rest \in [Threads -> Seq(Piece)]
  /\ partial \in Seq(Piece) /\ toGame \in Seq(Piece) /\ out \in Seq(Piece)
  /\ inbox \in Seq(Piece) /\ toAgent \in Seq(Piece)

\* What is left of the write in progress.  The mutex admits one.
Sending == IF owner # None /\ pc[owner] = "send" THEN rest[owner] ELSE <<>>

ToGameStream == Stream(partial, toGame, out)
ToAgentStream == Stream(inbox, toAgent, Sending)

\* Only an Agent that is gone leaves a frame without its payload.
ToGameInv ==
  /\ Unfinished(partial)
  /\ Framed(ToGameStream)
  /\ IF agent = "closed" THEN out = <<>> ELSE Complete(ToGameStream)

ToAgentInv ==
  /\ Unfinished(inbox)
  /\ IF agent = "closed" THEN inbox = <<>> /\ toAgent = <<>>
     ELSE Framed(ToAgentStream) /\ Complete(ToAgentStream)
  /\ \A t \in Threads : pc[t] = "write" => \E f \in Sent : rest[t] = Pieces(f)

ProbeInv == TypeOK /\ PieceTypes /\ HintIsPending /\ ToGameInv /\ ToAgentInv

LEMMA ProbeInit == Init => ProbeInv
<1> SUFFICES ASSUME Init PROVE ProbeInv
  OBVIOUS
<1> DEFINE p == Pieces("hello")
<1>1. /\ p \in Seq(Piece) /\ p # <<>> /\ <<>> \in Seq(Piece) /\ Len(<<>>) = 0
      /\ partial = <<>> /\ toGame = <<>> /\ inbox = <<>> /\ toAgent = <<>> /\ out = p
  BY PiecesOf, EmptySeq DEF Init, Frames
<1>2. TypeOK
  BY ProbeAssumption, <1>1 DEF Init, TypeOK
<1>3. PieceTypes
  BY <1>1 DEF Init, PieceTypes
<1>4. HintIsPending
  BY DEF Init, HintIsPending
<1>5. Unfinished(<<>>)
  BY <1>1 DEF Unfinished
<1>6. /\ Stream(<<>>, <<>>, <<>>) = <<>> /\ Framed(<<>>) /\ Complete(<<>>)
  BY <1>1 DEF Stream, Framed, Complete
<1>7. Framed(Stream(<<>>, <<>>, p)) /\ Complete(Stream(<<>>, <<>>, p))
  BY <1>1, <1>6, StreamStart DEF Frames
<1>8. ToGameInv
  BY <1>1, <1>5, <1>7 DEF Init, ToGameInv, ToGameStream
<1>9. ToAgentInv
  <2>1. Sending = <<>> /\ \A t \in Threads : pc[t] # "write"
    BY DEF Init, Sending
  <2> QED
    BY <1>1, <1>5, <1>6, <2>1 DEF Init, ToAgentInv, ToAgentStream
<1> QED
  BY <1>2, <1>3, <1>4, <1>8, <1>9 DEF ProbeInv

\* A read that completes a frame makes a frame of the pieces it has read.
LEMMA FetchMakesFrame ==
  ASSUME PieceTypes, ToGameInv, toGame # <<>>, Last(Head(toGame))
  PROVE  /\ Parsed(Append(partial, Head(toGame))) = Head(toGame).frame
         /\ Head(toGame) \in Piece /\ Head(toGame).frame \in Frames
         /\ Framed(Stream(<<>>, Tail(toGame), out))
         /\ agent # "closed" => Complete(Stream(<<>>, Tail(toGame), out))
<1>1. Head(toGame) \in Piece
  BY HeadTailProperties DEF PieceTypes
<1>2. Head(toGame).frame \in Frames
  BY <1>1 DEF Piece
<1> QED
  BY <1>1, <1>2, StreamFrame DEF PieceTypes, ToGameInv, ToGameStream

LEMMA AgentMakesFrame ==
  ASSUME PieceTypes, ToAgentInv, Sending \in Seq(Piece), toAgent # <<>>,
         Last(Head(toAgent)), agent # "closed"
  PROVE  /\ Parsed(Append(inbox, Head(toAgent))) = Head(toAgent).frame
         /\ Head(toAgent) \in Piece /\ Head(toAgent).frame \in Frames
         /\ Framed(Stream(<<>>, Tail(toAgent), Sending))
         /\ Complete(Stream(<<>>, Tail(toAgent), Sending))
<1>1. Head(toAgent) \in Piece
  BY HeadTailProperties DEF PieceTypes
<1>2. Head(toAgent).frame \in Frames
  BY <1>1 DEF Piece
<1> QED
  BY <1>1, <1>2, StreamFrame DEF PieceTypes, ToAgentInv, ToAgentStream

LEMMA TailIsEmpty ==
  ASSUME NEW s \in Seq(Piece), s # <<>>
  PROVE  /\ Head(s) \in Piece /\ Tail(s) \in Seq(Piece) /\ Len(s) \in Nat
         /\ Len(Tail(s)) = Len(s) - 1
         /\ Tail(s) = <<>> <=> Len(s) = 1
<1>1. /\ Head(s) \in Piece /\ Tail(s) \in Seq(Piece) /\ Len(s) \in Nat
      /\ Len(Tail(s)) = Len(s) - 1
  BY HeadTailProperties, LenProperties
<1>2. Tail(s) = <<>> <=> Len(Tail(s)) = 0
  BY <1>1, EmptySeq
<1> QED
  BY <1>1, <1>2

LEMMA UnfinishedAppend ==
  ASSUME NEW s \in Seq(Piece), Unfinished(s), NEW p \in Piece, ~Last(p)
  PROVE  Unfinished(Append(s, p))
BY AppendProperties, LenProperties DEF Unfinished

LEMMA SendingType ==
  ASSUME TypeOK, PieceTypes
  PROVE  Sending \in Seq(Piece)
BY EmptySeq DEF TypeOK, PieceTypes, Sending

-----------------------------------------------------------------------------
(* The types, one action at a time. *)

LEMMA ReadCallTypes ==
  ASSUME ProbeInv, NEW t \in Threads,
         CallRead(t) \/ Lock(t) \/ Fetch(t) \/ FetchFails(t) \/ BufferTooSmall(t) \/ Copy(t)
  PROVE  TypeOK' /\ PieceTypes'
<1> USE ProbeAssumption DEF ProbeInv, TypeOK, PieceTypes
<1>1. CASE CallRead(t)
  BY <1>1 DEF CallRead, reading, serving
<1>2. CASE Lock(t)
  BY <1>2 DEF Lock, reading, serving
<1>3. CASE Fetch(t)
  <2>1. Head(toGame) \in Piece /\ toGame' \in Seq(Piece) /\ Len(toGame') <= PipeCapacity
    BY <1>3, TailIsEmpty DEF Fetch
  <2>2. CASE Last(Head(toGame))
    <3>1. pending' \in Frames
      BY <1>3, <2>2, FetchMakesFrame DEF Fetch
    <3>2. pc' = [pc EXCEPT ![t] = "copy"] /\ partial' = <<>>
      BY <1>3, <2>2 DEF Fetch
    <3> QED
      BY <1>3, <2>1, <3>1, <3>2, EmptySeq DEF Fetch, serving
  <2>3. CASE ~Last(Head(toGame))
    <3>1. /\ partial' = Append(partial, Head(toGame))
          /\ pending' = pending /\ pc' = pc
      BY <1>3, <2>3 DEF Fetch
    <3>2. partial' \in Seq(Piece)
      BY <2>1, <3>1, AppendProperties
    <3> QED
      BY <1>3, <2>1, <3>1, <3>2 DEF Fetch, serving
  <2> QED
    BY <2>2, <2>3
<1>4. CASE FetchFails(t)
  BY <1>4, EmptySeq DEF FetchFails, Return, serving
<1>5. CASE BufferTooSmall(t)
  <2>1. Size(pending) \in Sizes
    BY DEF Size, Sizes
  <2> QED
    BY <1>5, <2>1 DEF BufferTooSmall, Return, serving
<1>6. CASE Copy(t)
  BY <1>6 DEF Copy, Return, serving
<1> QED
  BY <1>1, <1>2, <1>3, <1>4, <1>5, <1>6

LEMMA WriteCallTypes ==
  ASSUME ProbeInv, NEW t \in Threads, CallWrite(t) \/ Send(t) \/ SendFails(t)
  PROVE  TypeOK' /\ PieceTypes'
<1> USE ProbeAssumption DEF ProbeInv, TypeOK, PieceTypes
<1>1. CASE CallWrite(t)
  <2>1. PICK f \in Sent : rest' = [rest EXCEPT ![t] = Pieces(f)]
    BY <1>1 DEF CallWrite
  <2>2. Pieces(f) \in Seq(Piece) /\ Pieces(f) # <<>>
    BY PiecesOf DEF Sent, Frames
  <2> QED
    BY <1>1, <2>1, <2>2 DEF CallWrite, reading, serving
<1>2. CASE Send(t)
  <2>1. rest[t] \in Seq(Piece) /\ rest[t] # <<>>
    BY <1>2 DEF Send
  <2>2. /\ Head(rest[t]) \in Piece /\ Tail(rest[t]) \in Seq(Piece)
        /\ Tail(rest[t]) = <<>> <=> Len(rest[t]) = 1
    BY <2>1, TailIsEmpty
  <2>3. /\ toAgent' \in Seq(Piece) /\ Len(toAgent') = Len(toAgent) + 1
        /\ Len(toAgent) \in Nat
    BY <1>2, <2>2, AppendProperties, LenProperties DEF Send
  <2>4. Len(toAgent') <= PipeCapacity
    BY <1>2, <2>3 DEF Send, Full
  <2> QED
    BY <1>2, <2>1, <2>2, <2>3, <2>4 DEF Send, Return, reading, serving
<1>3. CASE SendFails(t)
  BY <1>3, EmptySeq DEF SendFails, Return, reading, serving
<1> QED
  BY <1>1, <1>2, <1>3

LEMMA AgentTypes ==
  ASSUME ProbeInv, AgentStep \/ Crash
  PROVE  TypeOK' /\ PieceTypes'
<1> USE ProbeAssumption DEF ProbeInv, TypeOK, PieceTypes, calls, reading
<1>1. CASE AgentWrites
  <2>1. Head(out) \in Piece /\ out' \in Seq(Piece)
    BY <1>1, TailIsEmpty DEF AgentWrites
  <2>2. toGame' = Append(toGame, Head(out)) /\ ~(Len(toGame) >= PipeCapacity)
    BY <1>1 DEF AgentWrites, Full
  <2>3. toGame' \in Seq(Piece) /\ Len(toGame') = Len(toGame) + 1 /\ Len(toGame) \in Nat
    BY <2>1, <2>2, AppendProperties, LenProperties
  <2>4. Len(toGame') <= PipeCapacity
    BY <2>2, <2>3
  <2> QED
    BY <1>1, <2>1, <2>3, <2>4 DEF AgentWrites
<1>2. CASE AgentReads
  <2>1. Head(toAgent) \in Piece /\ toAgent' \in Seq(Piece) /\ Len(toAgent') <= PipeCapacity
    BY <1>2, TailIsEmpty DEF AgentReads
  <2>2. CASE Last(Head(toAgent))
    <3>1. PICK f : taken' = f /\ inbox' = <<>> /\ React(f)
                   /\ f = Parsed(Append(inbox, Head(toAgent)))
      BY <1>2, <2>2 DEF AgentReads
    <3>2. f \in Frames
      <4>1. agent # "closed" /\ toAgent # <<>>
        BY <1>2 DEF AgentReads
      <4>2. Sending \in Seq(Piece)
        BY SendingType
      <4> QED
        BY <2>2, <3>1, <4>1, <4>2, AgentMakesFrame
    <3>3. /\ agent' \in {"await", "session", "leaving", "late", "closed"}
          /\ out' \in Seq(Piece)
      BY <3>1, PiecesOf DEF React, Frames
    <3> QED
      BY <1>2, <2>1, <3>1, <3>2, <3>3, EmptySeq DEF AgentReads
  <2>3. CASE ~Last(Head(toAgent))
    <3>1. inbox' = Append(inbox, Head(toAgent)) /\ UNCHANGED <<agent, out, taken>>
      BY <1>2, <2>3 DEF AgentReads
    <3>2. inbox' \in Seq(Piece)
      BY <2>1, <3>1, AppendProperties
    <3> QED
      BY <1>2, <2>1, <3>1, <3>2 DEF AgentReads
  <2> QED
    BY <2>2, <2>3
<1>3. Pieces("health") \in Seq(Piece) /\ <<>> \in Seq(Piece) /\ Len(<<>>) = 0
  BY PiecesOf, EmptySeq DEF Frames
<1>4. CASE Heartbeat
  BY <1>3, <1>4 DEF Heartbeat
<1>5. CASE GiveUp
  BY <1>3, <1>5 DEF GiveUp
<1>6. CASE Leave
  BY <1>3, <1>6 DEF Leave
<1>7. CASE Crash
  BY <1>3, <1>7 DEF Crash
<1> QED
  BY <1>1, <1>2, <1>4, <1>5, <1>6, <1>7 DEF AgentStep

-----------------------------------------------------------------------------
(* The hint. *)

\* A frame becomes pending only when no hint is out, and ceases to be pending
\* with every hint.
LEMMA HintStep == ProbeInv /\ [Next]_vars => HintIsPending'
<1> SUFFICES ASSUME ProbeInv, [Next]_vars PROVE HintIsPending'
  OBVIOUS
<1> USE DEF ProbeInv, TypeOK, HintIsPending
<1>1. ASSUME NEW t \in Threads, BufferTooSmall(t) PROVE HintIsPending'
  BY <1>1 DEF BufferTooSmall
<1>2. ASSUME NEW t \in Threads, Copy(t) PROVE HintIsPending'
  BY <1>2 DEF Copy
<1>3. ASSUME NEW t \in Threads, Fetch(t) PROVE HintIsPending'
  <2>1. \A u \in Threads : hint[u] = None
    BY <1>3 DEF Fetch
  <2> QED
    BY <1>3, <2>1 DEF Fetch
<1>4. ASSUME UNCHANGED <<pending, hint>> PROVE HintIsPending'
  BY <1>4
<1>5. CASE AgentStep \/ Crash \/ UNCHANGED vars
  BY <1>4, <1>5 DEF AgentStep, AgentWrites, AgentReads, Heartbeat, GiveUp, Leave,
     Crash, vars, reading
<1>6. ASSUME NEW t \in Threads,
             \/ CallRead(t) \/ CallWrite(t) \/ Lock(t) \/ FetchFails(t)
             \/ Send(t) \/ SendFails(t)
      PROVE  HintIsPending'
  BY <1>4, <1>6 DEF CallRead, CallWrite, Lock, FetchFails, Send, SendFails, reading
<1> QED
  BY <1>1, <1>2, <1>3, <1>5, <1>6 DEF Next, ThreadStep, Proceed

-----------------------------------------------------------------------------
(* The Agent's frames, on their way to the game. *)

LEMMA ToGameStep == ProbeInv /\ [Next]_vars => ToGameInv'
<1> SUFFICES ASSUME ProbeInv, [Next]_vars PROVE ToGameInv'
  OBVIOUS
<1> USE DEF ProbeInv, PieceTypes, ToGameInv, ToGameStream
<1>1. ASSUME NEW t \in Threads, Fetch(t) PROVE ToGameInv'
  <2>1. CASE Last(Head(toGame))
    <3>1. partial' = <<>> /\ toGame' = Tail(toGame) /\ toGame # <<>>
      BY <1>1, <2>1 DEF Fetch
    <3>2. Unfinished(<<>>)
      BY EmptySeq DEF Unfinished
    <3> QED
      BY <1>1, <2>1, <3>1, <3>2, FetchMakesFrame DEF Fetch, serving
  <2>2. CASE ~Last(Head(toGame))
    <3>1. /\ partial' = Append(partial, Head(toGame)) /\ toGame' = Tail(toGame)
          /\ toGame # <<>>
      BY <1>1, <2>2 DEF Fetch
    <3>2. Unfinished(partial')
      BY <2>2, <3>1, UnfinishedAppend, TailIsEmpty
    <3>3. Stream(partial', toGame', out) = Stream(partial, toGame, out)
      BY <3>1, StreamRead
    <3> QED
      BY <1>1, <3>2, <3>3 DEF Fetch, serving
  <2> QED
    BY <2>1, <2>2
<1>2. ASSUME NEW t \in Threads, FetchFails(t) PROVE ToGameInv'
  <2>1. Framed(<<>>) /\ Unfinished(<<>>) /\ Stream(<<>>, <<>>, <<>>) = <<>>
    BY EmptySeq DEF Framed, Unfinished, Stream
  <2> QED
    BY <1>2, <2>1 DEF FetchFails, serving
<1>3. CASE AgentWrites
  BY <1>3, StreamWrite DEF AgentWrites, reading
<1>4. ASSUME NEW f \in Frames, agent' # "closed", out = <<>>, out' = Pieces(f),
             agent # "closed", UNCHANGED <<partial, toGame>>
      PROVE  ToGameInv'
  BY <1>4, StreamStart
<1>5. CASE AgentReads
  <2>1. agent' # "closed" /\ agent # "closed" /\ out = <<>> /\ UNCHANGED <<partial, toGame>>
    BY <1>5 DEF AgentReads, React, reading
  <2>2. CASE UNCHANGED out
    BY <2>1, <2>2
  <2>3. CASE \E f \in Frames : out' = Pieces(f)
    BY <1>4, <2>1, <2>3
  <2> QED
    BY <1>5, <2>2, <2>3 DEF AgentReads, React, Frames
<1>6. CASE Heartbeat \/ GiveUp
  BY <1>4, <1>6 DEF Heartbeat, GiveUp, Frames, reading
<1>7. CASE Leave
  BY <1>7 DEF Leave, reading
<1>8. CASE Crash
  <2>1. Framed(partial \o toGame)
    BY ConcatProperties, FramedPrefix DEF Stream
  <2>2. Stream(partial, toGame, <<>>) = partial \o toGame
    BY ConcatProperties, ConcatEmptySeq DEF Stream
  <2> QED
    BY <1>8, <2>1, <2>2 DEF Crash, reading
<1>9. ASSUME UNCHANGED <<partial, toGame, out, agent>> PROVE ToGameInv'
  BY <1>9
<1>10. ASSUME NEW t \in Threads,
              \/ CallRead(t) \/ CallWrite(t) \/ Lock(t) \/ BufferTooSmall(t)
              \/ Copy(t) \/ Send(t) \/ SendFails(t)
       PROVE  ToGameInv'
  BY <1>9, <1>10 DEF CallRead, CallWrite, Lock, BufferTooSmall, Copy, Send, SendFails,
     reading, serving
<1>11. CASE UNCHANGED vars
  BY <1>9, <1>11 DEF vars, reading, serving
<1> QED
  BY <1>1, <1>2, <1>3, <1>5, <1>6, <1>7, <1>8, <1>10, <1>11
  DEF Next, ThreadStep, Proceed, AgentStep

-----------------------------------------------------------------------------
(* The game's frames, on their way to the Agent. *)

\* Calls that write nothing leave what is being sent as it is.
LEMMA SendingStays ==
  ASSUME ProbeInv, NEW t \in Threads,
         \/ CallRead(t) \/ CallWrite(t) \/ Fetch(t) \/ FetchFails(t)
         \/ BufferTooSmall(t) \/ Copy(t) \/ (Lock(t) /\ pc[t] = "read")
  PROVE  /\ Sending' = Sending
         /\ UNCHANGED <<inbox, toAgent, agent>>
         /\ \A u \in Threads : pc'[u] = "write" => \E f \in Sent : rest'[u] = Pieces(f)
<1> USE ProbeAssumption DEF ProbeInv, TypeOK, ToAgentInv, Sending, serving, reading, Return
<1>1. CASE CallRead(t)
  BY <1>1 DEF CallRead
<1>2. CASE CallWrite(t)
  <2>1. PICK f \in Sent : rest' = [rest EXCEPT ![t] = Pieces(f)]
    BY <1>2 DEF CallWrite
  <2>2. rest'[t] = Pieces(f) /\ \A u \in Threads \ {t} : rest'[u] = rest[u] /\ pc'[u] = pc[u]
    BY <1>2, <2>1 DEF CallWrite, PieceTypes
  <2> QED
    BY <1>2, <2>2 DEF CallWrite
<1>3. CASE Fetch(t)
  <2>1. pc' = pc \/ pc' = [pc EXCEPT ![t] = "copy"]
    BY <1>3 DEF Fetch
  <2> QED
    BY <1>3, <2>1 DEF Fetch
<1>4. CASE FetchFails(t)
  BY <1>4 DEF FetchFails
<1>5. CASE BufferTooSmall(t)
  BY <1>5 DEF BufferTooSmall
<1>6. CASE Copy(t)
  BY <1>6 DEF Copy
<1>7. CASE Lock(t) /\ pc[t] = "read"
  BY <1>7 DEF Lock
<1> QED
  BY <1>1, <1>2, <1>3, <1>4, <1>5, <1>6, <1>7

LEMMA ToAgentStep == ProbeInv /\ [Next]_vars => ToAgentInv'
<1> SUFFICES ASSUME ProbeInv, [Next]_vars PROVE ToAgentInv'
  OBVIOUS
<1>0. Sending \in Seq(Piece)
  BY SendingType DEF ProbeInv
<1> USE DEF ProbeInv, PieceTypes, ToAgentInv, ToAgentStream
<1>1. ASSUME NEW t \in Threads,
             \/ CallRead(t) \/ CallWrite(t) \/ Fetch(t) \/ FetchFails(t)
             \/ BufferTooSmall(t) \/ Copy(t) \/ (Lock(t) /\ pc[t] = "read")
      PROVE  ToAgentInv'
  BY <1>1, SendingStays
<1>2. ASSUME NEW t \in Threads, Lock(t), pc[t] = "write" PROVE ToAgentInv'
  <2>1. /\ owner = None /\ owner' = t /\ pc' = [pc EXCEPT ![t] = "send"]
        /\ UNCHANGED <<rest, inbox, toAgent, agent>>
    BY <1>2 DEF Lock, serving
  <2>2. PICK f \in Sent : rest[t] = Pieces(f)
    BY <1>2
  <2>3. Sending = <<>> /\ Sending' = Pieces(f)
    BY ProbeAssumption, <2>1, <2>2 DEF Sending, TypeOK
  <2>4. \A u \in Threads : pc'[u] = "write" => pc[u] = "write"
    BY <2>1 DEF TypeOK
  <2>5. agent # "closed" => /\ Framed(Stream(inbox, toAgent, Sending'))
                            /\ Complete(Stream(inbox, toAgent, Sending'))
    BY <2>3, StreamStart DEF Sent, Frames
  <2> QED
    BY <2>1, <2>4, <2>5
<1>3. ASSUME NEW t \in Threads, Send(t) PROVE ToAgentInv'
  <2>1. /\ agent # "closed" /\ UNCHANGED <<inbox, agent>>
        /\ toAgent' = Append(toAgent, Head(rest[t]))
        /\ rest' = [rest EXCEPT ![t] = Tail(rest[t])]
    BY <1>3 DEF Send, serving
  <2>2. owner = t /\ pc[t] = "send" /\ Sending = rest[t] /\ rest[t] # <<>>
    BY ProbeAssumption, <1>3 DEF Send, Sending, TypeOK
  <2>3. Sending' = Tail(rest[t])
    <3>1. rest'[t] = Tail(rest[t]) /\ rest[t] \in Seq(Piece)
      BY <2>1
    <3>2. CASE Len(rest[t]) = 1
      <4>1. owner' = None /\ Tail(rest[t]) = <<>>
        BY <1>3, <2>2, <3>1, <3>2, TailIsEmpty DEF Send, Return
      <4> QED
        BY <4>1 DEF Sending
    <3>3. CASE Len(rest[t]) # 1
      <4>1. UNCHANGED <<pc, owner>>
        BY <1>3, <3>3 DEF Send
      <4> QED
        BY ProbeAssumption, <2>2, <3>1, <4>1 DEF Sending
    <3> QED
      BY <3>2, <3>3
  <2>4. Stream(inbox, toAgent', Sending') = Stream(inbox, toAgent, Sending)
    BY <2>1, <2>2, <2>3, StreamWrite
  <2>5. \A u \in Threads : pc'[u] = "write" => u # t /\ pc[u] = "write"
    <3>1. pc' = pc \/ pc' = [pc EXCEPT ![t] = "idle"]
      BY <1>3 DEF Send, Return
    <3> QED
      BY <2>2, <3>1 DEF TypeOK
  <2> QED
    BY <2>1, <2>4, <2>5
<1>4. ASSUME NEW t \in Threads, SendFails(t) PROVE ToAgentInv'
  <2>1. \A u \in Threads : pc'[u] = "write" => pc[u] = "write" /\ rest'[u] = rest[u]
    BY <1>4 DEF SendFails, Return, TypeOK
  <2> QED
    BY <1>4, <2>1 DEF SendFails, serving
<1>5. UNCHANGED calls => Sending' = Sending /\ pc' = pc /\ rest' = rest
  BY DEF calls, Sending
<1>6. CASE AgentReads
  <2>1. /\ agent # "closed" /\ agent' # "closed" /\ toAgent # <<>> /\ UNCHANGED calls
        /\ toAgent' = Tail(toAgent)
    BY <1>6 DEF AgentReads, React
  <2>2. CASE Last(Head(toAgent))
    <3>1. inbox' = <<>> /\ Unfinished(<<>>)
      BY <1>6, <2>2, EmptySeq DEF AgentReads, Unfinished
    <3>2. Framed(Stream(<<>>, toAgent', Sending)) /\ Complete(Stream(<<>>, toAgent', Sending))
      BY <1>0, <2>1, <2>2, AgentMakesFrame
    <3> QED
      BY <1>5, <2>1, <3>1, <3>2
  <2>3. CASE ~Last(Head(toAgent))
    <3>1. inbox' = Append(inbox, Head(toAgent))
      BY <1>6, <2>3 DEF AgentReads
    <3>2. Unfinished(inbox')
      BY <2>1, <2>3, <3>1, UnfinishedAppend, TailIsEmpty
    <3>3. Stream(inbox', toAgent', Sending) = Stream(inbox, toAgent, Sending)
      BY <2>1, <3>1, StreamRead
    <3> QED
      BY <1>5, <2>1, <3>2, <3>3
  <2> QED
    BY <2>2, <2>3
<1>7. CASE Leave \/ Crash
  <2>1. Unfinished(<<>>)
    BY EmptySeq DEF Unfinished
  <2> QED
    BY <1>5, <1>7, <2>1 DEF Leave, Crash
<1>8. CASE AgentWrites \/ Heartbeat \/ GiveUp
  <2>1. /\ UNCHANGED <<inbox, toAgent>> /\ UNCHANGED calls
        /\ agent = "closed" <=> agent' = "closed"
    BY <1>8 DEF AgentWrites, Heartbeat, GiveUp
  <2> QED
    BY <1>5, <2>1
<1>9. CASE UNCHANGED vars
  BY <1>5, <1>9 DEF vars, serving
<1>10. ASSUME NEW t \in Threads, Lock(t)
       PROVE  pc[t] \in {"read", "write"}
  BY <1>10 DEF Lock
<1> QED
  BY <1>1, <1>2, <1>3, <1>4, <1>6, <1>7, <1>8, <1>9, <1>10
  DEF Next, ThreadStep, Proceed, AgentStep

-----------------------------------------------------------------------------
(* The theorems. *)

LEMMA ProbeStep == ProbeInv /\ [Next]_vars => ProbeInv'
<1> SUFFICES ASSUME ProbeInv, [Next]_vars PROVE ProbeInv'
  OBVIOUS
<1>1. TypeOK' /\ PieceTypes'
  <2>1. CASE UNCHANGED vars
    BY <2>1 DEF vars, calls, reading, serving, ProbeInv, TypeOK, PieceTypes
  <2>2. CASE AgentStep \/ Crash
    BY <2>2, AgentTypes
  <2>3. ASSUME NEW t \in Threads, ThreadStep(t) PROVE TypeOK' /\ PieceTypes'
    BY <2>3, ReadCallTypes, WriteCallTypes DEF ThreadStep, Proceed
  <2> QED
    BY <2>1, <2>2, <2>3 DEF Next
<1> QED
  BY <1>1, HintStep, ToGameStep, ToAgentStep DEF ProbeInv

\* The types, and what makes them inductive, hold throughout.
THEOREM ProbeInvariant == Spec => []ProbeInv
BY ProbeInit, ProbeStep, PTL DEF Spec

\* The types hold; in particular one thread at a time is inside a call that
\* uses the channel, and a frame half read belongs to the thread that reads it.
THEOREM ProbeTypes == Spec => []TypeOK
<1>1. ProbeInv => TypeOK
  BY DEF ProbeInv
<1> QED
  BY <1>1, ProbeInvariant, PTL

\* The length reported for a small buffer is that of the next frame until a
\* read returns it, with any number of threads and sizes of buffers.
THEOREM HintIsPendingHolds == Spec => []HintIsPending
<1>1. ProbeInv => HintIsPending
  BY DEF ProbeInv
<1> QED
  BY <1>1, ProbeInvariant, PTL

\* A piece completes its frame or no frame.
LEMMA CompletedCases ==
  ASSUME NEW p \in Piece
  PROVE  /\ p.frame \in Frames
         /\ Last(p) => Completed(p) = <<p.frame>>
         /\ ~Last(p) => Completed(p) = <<>>
BY DEF Completed, Piece

\* Writing a piece sends a frame or does nothing that the frames tell.
LEMMA WholeWrite ==
  ASSUME NEW pipe \in Seq(Piece), NEW p \in Piece
  PROVE  \/ \E f \in Frames : /\ Whole[Append(pipe, p)] = Append(Whole[pipe], f)
                              /\ Whole[Append(pipe, p)] = Whole[pipe] \o <<f>>
         \/ Whole[Append(pipe, p)] = Whole[pipe]
<1>1. Whole[pipe] \in Seq(Frames)
  BY WholeDef
<1>2. Whole[Append(pipe, p)] = Whole[pipe] \o Completed(p)
  BY WholeAppend
<1>3. CASE Last(p)
  <2>1. p.frame \in Frames /\ Completed(p) = <<p.frame>>
    BY <1>3, CompletedCases
  <2>2. Append(Whole[pipe], p.frame) = Whole[pipe] \o <<p.frame>>
    BY <1>1, <2>1, AppendIsConcat
  <2> QED
    BY <1>2, <2>1, <2>2
<1>4. CASE ~Last(p)
  <2>1. Completed(p) = <<>>
    BY <1>4, CompletedCases
  <2>2. Whole[pipe] \o <<>> = Whole[pipe]
    BY <1>1, ConcatEmptySeq
  <2> QED
    BY <1>2, <2>1, <2>2
<1> QED
  BY <1>3, <1>4

\* Reading a piece takes the first frame if it completes it.
LEMMA WholeRead ==
  ASSUME NEW pipe \in Seq(Piece), pipe # <<>>
  PROVE  /\ Whole[Tail(pipe)] \in Seq(Frames) /\ Head(pipe) \in Piece
         /\ IF Last(Head(pipe)) THEN Whole[pipe] = <<Head(pipe).frame>> \o Whole[Tail(pipe)]
            ELSE Whole[pipe] = Whole[Tail(pipe)]
<1>1. Head(pipe) \in Piece /\ Tail(pipe) \in Seq(Piece)
  BY HeadTailProperties
<1>2. Whole[Tail(pipe)] \in Seq(Frames) /\ Whole[pipe] = Completed(Head(pipe)) \o Whole[Tail(pipe)]
  BY <1>1, WholeDef
<1>3. <<>> \o Whole[Tail(pipe)] = Whole[Tail(pipe)]
  BY <1>2, ConcatEmptySeq
<1> QED
  BY <1>1, <1>2, <1>3, CompletedCases

LEMMA FirstFrame ==
  ASSUME NEW f \in Frames, NEW q \in Seq(Frames)
  PROVE  /\ <<f>> \o q # <<>>
         /\ Head(<<f>> \o q) = f /\ Tail(<<f>> \o q) = q
<1>1. <<f>> \in Seq(Frames) /\ Len(<<f>>) = 1 /\ <<f>>[1] = f
  OBVIOUS
<1>2. PICK s \in Seq(Frames) : s = <<f>> \o q
  BY <1>1, ConcatProperties
<1>3. /\ Len(q) \in Nat /\ Len(s) = 1 + Len(q) /\ s[1] = f
      /\ \A i \in 1..Len(q) : s[i + 1] = q[i]
  BY <1>1, <1>2, ConcatProperties, LenProperties
<1>4. s # <<>>
  BY <1>3, EmptySeq
<1>5. /\ Head(s) = f /\ Tail(s) \in Seq(Frames) /\ Len(Tail(s)) = Len(q)
      /\ \A i \in 1..Len(q) : Tail(s)[i] = q[i]
  BY <1>3, <1>4, HeadTailProperties
<1>6. Tail(s) = q
  BY <1>5, SeqEqual
<1> QED
  BY <1>2, <1>4, <1>5, <1>6

\* The frames between the Agent and the game's next read.
GameQueue == (IF pending = None THEN <<>> ELSE <<pending>>) \o Whole[toGame]

LEMMA GameQueueStep ==
  ASSUME ProbeInv, [Next]_vars
  PROVE  \/ \E f \in Frames : GameQueue' = Append(GameQueue, f) /\ UNCHANGED delivered
         \/ /\ GameQueue # <<>> /\ delivered' = Head(GameQueue)
            /\ GameQueue' = Tail(GameQueue)
         \/ UNCHANGED <<GameQueue, delivered>>
<1> DEFINE Goal ==
      \/ \E f \in Frames : GameQueue' = Append(GameQueue, f) /\ UNCHANGED delivered
      \/ /\ GameQueue # <<>> /\ delivered' = Head(GameQueue)
         /\ GameQueue' = Tail(GameQueue)
      \/ UNCHANGED <<GameQueue, delivered>>
<1> USE DEF ProbeInv, PieceTypes
<1>1. /\ Whole[toGame] \in Seq(Frames)
      /\ pending # None => pending \in Frames
      /\ (IF pending = None THEN <<>> ELSE <<pending>>) \in Seq(Frames)
  <2>1. Whole[toGame] \in Seq(Frames) /\ (pending # None => pending \in Frames)
    BY WholeDef DEF TypeOK
  <2> QED
    BY <2>1, EmptySeq
<1>2. CASE AgentWrites
  <2>1. Head(out) \in Piece /\ toGame' = Append(toGame, Head(out)) /\ UNCHANGED reading
    BY <1>2, TailIsEmpty DEF AgentWrites
  <2>2. CASE Whole[toGame'] = Whole[toGame]
    BY <2>1, <2>2 DEF GameQueue, reading
  <2>3. CASE \E f \in Frames : Whole[toGame'] = Whole[toGame] \o <<f>>
    <3>1. PICK f \in Frames : Whole[toGame'] = Whole[toGame] \o <<f>>
      BY <2>3
    <3>2. PICK first \in Seq(Frames), all \in Seq(Frames) :
            /\ first = IF pending = None THEN <<>> ELSE <<pending>>
            /\ all = Whole[toGame]
      BY <1>1
    <3>3. GameQueue = first \o all /\ GameQueue' = first \o (all \o <<f>>)
      BY <2>1, <3>1, <3>2 DEF GameQueue, reading
    <3>4. first \o (all \o <<f>>) = Append(first \o all, f)
      BY QueueAppend
    <3> QED
      BY <2>1, <3>3, <3>4 DEF reading
  <2> QED
    BY <2>1, <2>2, <2>3, WholeWrite
<1>3. ASSUME NEW t \in Threads, Fetch(t) PROVE Goal
  <2>1. /\ pending = None /\ toGame # <<>> /\ toGame' = Tail(toGame)
        /\ delivered' = delivered /\ GameQueue = Whole[toGame]
    BY <1>1, <1>3, ConcatEmptySeq DEF Fetch, TypeOK, GameQueue
  <2>2. CASE Last(Head(toGame))
    <3>1. pending' = Head(toGame).frame /\ pending' # None
      BY ProbeAssumption, <1>3, <2>1, <2>2, FetchMakesFrame DEF Fetch
    <3>2. GameQueue' = <<Head(toGame).frame>> \o Whole[Tail(toGame)]
      BY <2>1, <3>1 DEF GameQueue
    <3> QED
      BY <2>1, <2>2, <3>2, WholeRead
  <2>3. CASE ~Last(Head(toGame))
    <3>1. pending' = None
      BY <1>3, <2>1, <2>3 DEF Fetch
    <3>2. GameQueue' = <<>> \o Whole[Tail(toGame)]
      BY <2>1, <3>1 DEF GameQueue
    <3>3. /\ Whole[Tail(toGame)] \in Seq(Frames)
          /\ Whole[toGame] = Whole[Tail(toGame)]
      BY <2>1, <2>3, WholeRead
    <3>4. GameQueue' = Whole[toGame]
      BY <3>2, <3>3, ConcatEmptySeq
    <3> QED
      BY <2>1, <3>4
  <2> QED
    BY <2>2, <2>3
<1>4. ASSUME NEW t \in Threads, Copy(t) PROVE Goal
  <2>1. /\ pending \in Frames /\ pending # None /\ pending' = None
        /\ delivered' = pending /\ toGame' = toGame
    BY <1>1, <1>4 DEF Copy, TypeOK
  <2>2. GameQueue = <<pending>> \o Whole[toGame] /\ GameQueue' = <<>> \o Whole[toGame]
    BY <2>1 DEF GameQueue
  <2>3. GameQueue' = Whole[toGame]
    BY <1>1, <2>2, ConcatEmptySeq
  <2> QED
    BY <1>1, <2>1, <2>2, <2>3, FirstFrame
<1>5. ASSUME UNCHANGED <<pending, delivered, toGame>> PROVE Goal
  BY <1>5 DEF GameQueue
<1>6. ASSUME NEW t \in Threads,
             \/ CallRead(t) \/ CallWrite(t) \/ Lock(t) \/ BufferTooSmall(t)
             \/ FetchFails(t) \/ Send(t) \/ SendFails(t)
      PROVE  Goal
  BY <1>5, <1>6 DEF CallRead, CallWrite, Lock, BufferTooSmall, FetchFails, Send,
     SendFails, reading
<1>7. CASE AgentReads \/ Heartbeat \/ GiveUp \/ Leave \/ Crash \/ UNCHANGED vars
  BY <1>5, <1>7 DEF AgentReads, Heartbeat, GiveUp, Leave, Crash, vars, reading
<1> QED
  BY <1>2, <1>3, <1>4, <1>6, <1>7 DEF Next, ThreadStep, Proceed, AgentStep

\* However many threads read, the Agent's frames are returned whole, each by
\* one read, in the Agent's order.
THEOREM ReadsInOrderHolds == Spec => ReadsInOrder
<1>1. Init => ToGame!Init
  <2> SUFFICES ASSUME Init PROVE ToGame!Init
    OBVIOUS
  <2>1. Whole[<<>>] = <<>>
    BY WholeDef, EmptySeq
  <2> QED
    BY <2>1 DEF Init, ToGame!Init
<1>2. ProbeInv /\ [Next]_vars => [ToGame!Next]_(ToGame!vars)
  <2> SUFFICES ASSUME ProbeInv, [Next]_vars PROVE [ToGame!Next]_(ToGame!vars)
    OBVIOUS
  <2> QED
    BY GameQueueStep
    DEF GameQueue, ToGame!Next, ToGame!Send, ToGame!Deliver, ToGame!vars
<1> QED
  BY <1>1, <1>2, ProbeInvariant, PTL DEF Spec, ReadsInOrder, ToGame!Spec

\* One step of the game's frames on their way to serve().
LEMMA AgentQueueStep ==
  ASSUME ProbeInv, [Next]_vars
  PROVE  \/ /\ \E f \in Frames : Whole[toAgent]' = Append(Whole[toAgent], f)
            /\ UNCHANGED <<taken, agent # "closed">>
         \/ /\ agent # "closed" /\ agent' # "closed" /\ Whole[toAgent] # <<>>
            /\ taken' = Head(Whole[toAgent])
            /\ Whole[toAgent]' = Tail(Whole[toAgent])
         \/ agent' = "closed" /\ Whole[toAgent]' = <<>> /\ UNCHANGED taken
         \/ UNCHANGED <<Whole[toAgent], taken, agent # "closed">>
<1> DEFINE Goal ==
      \/ /\ \E f \in Frames : Whole[toAgent]' = Append(Whole[toAgent], f)
         /\ UNCHANGED <<taken, agent # "closed">>
      \/ /\ agent # "closed" /\ agent' # "closed" /\ Whole[toAgent] # <<>>
         /\ taken' = Head(Whole[toAgent])
         /\ Whole[toAgent]' = Tail(Whole[toAgent])
      \/ agent' = "closed" /\ Whole[toAgent]' = <<>> /\ UNCHANGED taken
      \/ UNCHANGED <<Whole[toAgent], taken, agent # "closed">>
<1> USE DEF ProbeInv, PieceTypes
<1>1. Whole[<<>>] = <<>>
  BY WholeDef, EmptySeq
<1>2. ASSUME NEW t \in Threads, Send(t) PROVE Goal
  <2>1. rest[t] \in Seq(Piece) /\ rest[t] # <<>>
    BY <1>2 DEF Send, TypeOK
  <2>2. Head(rest[t]) \in Piece
    BY <2>1, TailIsEmpty
  <2>3. toAgent' = Append(toAgent, Head(rest[t])) /\ UNCHANGED <<taken, agent>>
    BY <1>2 DEF Send, serving
  <2>4. \/ \E f \in Frames : Whole[toAgent'] = Append(Whole[toAgent], f)
        \/ Whole[toAgent'] = Whole[toAgent]
    BY <2>2, <2>3, WholeWrite
  <2> QED
    BY <2>3, <2>4
<1>3. CASE AgentReads
  <2>1. /\ agent # "closed" /\ agent' # "closed"
        /\ toAgent # <<>> /\ toAgent' = Tail(toAgent)
    BY <1>3 DEF AgentReads, React
  <2>2. CASE Last(Head(toAgent))
    <3>1. Sending \in Seq(Piece)
      BY SendingType
    <3>2. taken' = Head(toAgent).frame /\ Head(toAgent).frame \in Frames
      BY <1>3, <2>1, <2>2, <3>1, AgentMakesFrame DEF AgentReads
    <3>3. PICK f \in Frames, q \in Seq(Frames) :
            f = Head(toAgent).frame /\ q = Whole[Tail(toAgent)]
      BY <2>1, <3>2, WholeRead
    <3>4. Whole[toAgent] = <<f>> \o q
      BY <2>1, <2>2, <3>3, WholeRead
    <3>5. <<f>> \o q # <<>> /\ Head(<<f>> \o q) = f /\ Tail(<<f>> \o q) = q
      BY FirstFrame
    <3> QED
      BY <2>1, <3>2, <3>3, <3>4, <3>5
  <2>3. CASE ~Last(Head(toAgent))
    <3>1. taken' = taken
      BY <1>3, <2>3 DEF AgentReads
    <3> QED
      BY <2>1, <2>3, <3>1, WholeRead
  <2> QED
    BY <2>2, <2>3
<1>4. CASE Leave \/ Crash
  BY <1>1, <1>4 DEF Leave, Crash
<1>5. ASSUME UNCHANGED <<toAgent, taken>>, agent' = "closed" <=> agent = "closed"
      PROVE  Goal
  BY <1>5
<1>6. ASSUME NEW t \in Threads,
             \/ CallRead(t) \/ CallWrite(t) \/ Lock(t) \/ Fetch(t) \/ FetchFails(t)
             \/ BufferTooSmall(t) \/ Copy(t) \/ SendFails(t)
      PROVE  Goal
  BY <1>5, <1>6 DEF CallRead, CallWrite, Lock, Fetch, FetchFails, BufferTooSmall,
     Copy, SendFails, serving
<1>7. CASE AgentWrites \/ Heartbeat \/ GiveUp \/ UNCHANGED vars
  <2>1. UNCHANGED <<toAgent, taken>> /\ (agent' = "closed" <=> agent = "closed")
    BY <1>7 DEF AgentWrites, Heartbeat, GiveUp, vars, serving
  <2> QED
    BY <1>5, <2>1
<1> QED
  BY <1>2, <1>3, <1>4, <1>6, <1>7 DEF Next, ThreadStep, Proceed, AgentStep

\* However many threads write, the Agent receives their frames whole, one
\* after the other, until it leaves; what was then on its way is lost, and
\* nothing is received afterwards.
THEOREM WritesWholeHolds == Spec => WritesWhole
<1>1. Init => ToAgent!Init
  <2> SUFFICES ASSUME Init PROVE ToAgent!Init
    OBVIOUS
  <2>1. Whole[<<>>] = <<>>
    BY WholeDef, EmptySeq
  <2> QED
    BY <2>1 DEF Init, ToAgent!Init
<1>2. ProbeInv /\ [Next]_vars => [ToAgent!Next]_(ToAgent!vars)
  <2> SUFFICES ASSUME ProbeInv, [Next]_vars PROVE [ToAgent!Next]_(ToAgent!vars)
    OBVIOUS
  <2> QED
    BY AgentQueueStep
    DEF ToAgent!Next, ToAgent!Send, ToAgent!Deliver, ToAgent!Close, ToAgent!vars
<1> QED
  BY <1>1, <1>2, ProbeInvariant, PTL DEF Spec, WritesWhole, ToAgent!Spec

-----------------------------------------------------------------------------
(* Who waits for whom. *)

\* The conditions under which a thread in a call, and the Agent, take a step
\* (not counting the calls that the game is free to make, and a crash).
ThreadMoves(t) ==
  \/ pc[t] \in {"read", "write"} /\ owner = None
  \/ pc[t] = "fetch" /\ (toGame # <<>> \/ agent = "closed")
  \/ pc[t] = "copy" /\ Capacities # {}
  \/ pc[t] = "send" /\ (agent = "closed" \/ ~Full(toAgent))

AgentMoves ==
  \/ out # <<>> /\ ~Full(toGame)
  \/ agent \in {"await", "session"} /\ out = <<>> /\ toAgent # <<>>
  \/ agent = "session" /\ out = <<>> /\ toAgent = <<>>
  \/ agent = "await" /\ out = <<>> /\ toAgent = <<>> /\ Waiting
  \/ agent \in {"leaving", "late"} /\ out = <<>>

\* A call of the game that cannot go on waits for a thread or an Agent that can,
\* unless the game has written until both pipes were full.
NobodyStuck ==
  (\E t \in Threads : pc[t] # "idle") =>
    MutualWait \/ AgentMoves \/ \E t \in Threads : ThreadMoves(t)

LEMMA EmptyIsNotFull ==
  /\ ~Full(<<>>)
  /\ \A pipe \in Seq(Piece) : Full(pipe) => pipe # <<>>
<1>1. Len(<<>>) = 0
  BY EmptySeq
<1> QED
  BY <1>1, ProbeAssumption DEF Full

\* What holds up the holder of the mutex is a pipe, and the Agent at the other
\* end of it is at work, unless both pipes are full.
LEMMA HolderMoves ==
  ASSUME ProbeInv, Capacities # {}, NEW t \in Threads, owner = t
  PROVE  MutualWait \/ AgentMoves \/ ThreadMoves(t)
<1> SUFFICES ASSUME ~ThreadMoves(t), ~MutualWait PROVE AgentMoves
  OBVIOUS
<1> USE DEF ProbeInv, TypeOK
<1>1. owner # None /\ agent # "closed" /\ pc[t] \in {"fetch", "send"}
  BY ProbeAssumption DEF ThreadMoves
<1>2. CASE pc[t] = "fetch"
  <2>1. toGame = <<>> /\ ~Full(toGame)
    BY <1>2, EmptyIsNotFull DEF ThreadMoves
  <2>2. Waiting
    <3>1. ASSUME NEW u \in Threads, u # t PROVE pc[u] \in {"idle", "read", "write"}
      BY <3>1
    <3> QED
      BY <1>1, <1>2, <2>1, <3>1 DEF Waiting
  <2> QED
    BY <1>1, <2>1, <2>2 DEF AgentMoves
<1>3. CASE pc[t] = "send"
  <2>1. Full(toAgent) /\ toAgent # <<>>
    BY <1>3, EmptyIsNotFull DEF ThreadMoves, PieceTypes
  <2>2. ~Full(toGame)
    BY <2>1 DEF MutualWait
  <2> QED
    BY <1>1, <2>1, <2>2 DEF AgentMoves
<1> QED
  BY <1>1, <1>2, <1>3

\* For any number of threads the full pipes are the only deadlock of the game's
\* calls: the mutex, the heartbeats and the Agent's timeout leave no other.
THEOREM NobodyStuckHolds == Capacities # {} /\ Spec => []NobodyStuck
<1>1. Capacities # {} /\ ProbeInv => NobodyStuck
  <2> SUFFICES ASSUME Capacities # {}, ProbeInv, NEW t \in Threads, pc[t] # "idle"
               PROVE  MutualWait \/ AgentMoves \/ \E u \in Threads : ThreadMoves(u)
    BY DEF NobodyStuck
  <2>1. CASE owner = None
    <3>1. pc[t] \in {"read", "write"}
      BY <2>1, ProbeAssumption DEF ProbeInv, TypeOK
    <3> QED
      BY <2>1, <3>1 DEF ThreadMoves
  <2>2. CASE owner # None
    BY <2>2, HolderMoves DEF ProbeInv, TypeOK
  <2> QED
    BY <2>1, <2>2
<1>2. CASE Capacities # {}
  <2>1. ProbeInv => NobodyStuck
    BY <1>1, <1>2
  <2> QED
    BY <2>1, ProbeInvariant, PTL
<1>3. CASE ~(Capacities # {})
  BY <1>3
<1> QED
  BY <1>2, <1>3
=============================================================================
