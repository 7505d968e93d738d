-------------------------- MODULE FrameChainProofs --------------------------
(***************************************************************************)
(* Proofs about FrameChain, for every file, directory, profile and answer  *)
(* of the model.  In this order:                                           *)
(*                                                                         *)
(*   lines       no valid line that a read delivers is left out when       *)
(*               windows overlap or adjoin;                                *)
(*               a column of the filter plane is copied from a column its  *)
(*               box is mapped back to                                     *)
(*   loops       what a loop over a sequence computes, from the least      *)
(*               number of rounds after which it would not                 *)
(*   detections  what the decoder, the sort, the two suppressions and the  *)
(*               list of the targets make of the model's answer            *)
(*   metadata    what a frame carries behind every element                 *)
(*   frames      reports, boxes, the order of the frames, and that the     *)
(*               elements fit together                                     *)
(***************************************************************************)
EXTENDS FrameChain, TileGridProofs, WellFoundedInduction, FiniteSetTheorems, TLAPS

\* The phases of a frame on its way.
Busy == {"geometry", "filter", "sink"}

\* A line is on its way or has been recorded.
Shown(line) ==
    \/ phase \in Busy /\ line \in buffer.window.rows
    \/ \E i \in DOMAIN delivered : line \in delivered[i].window.rows

\* What stands in a sequence.
Elements(s) == {s[i] : i \in DOMAIN s}

\* What create() has moved past has been shown, unless its read fell short.
LinesInv ==
    /\ profile \in Profiles
    /\ input \in Inputs
    /\ offset \in Nat
    /\ delivered \in Seq(Elements(delivered))
    /\ phase \in Busy => buffer = [window |-> buffer.window,
                                   columns |-> buffer.columns,
                                   metas |-> buffer.metas]
    /\ (profile.source = "line" /\ profile.stride <= profile.height
        /\ phase \in Busy \cup {"source", "eos"}) =>
            \A line \in 0 .. (Len(input.lines) - 1) :
                (line < offset /\ Valid_line_header(line)) => Shown(line) \/ line \in unread
    /\ (phase = "eos" /\ profile.source = "line" /\ profile.num_buffers = None) =>
            \A line \in 0 .. (Len(input.lines) - 1) : line < offset \/ line \in unread

\* Appending keeps the earlier elements and adds the new one.
LEMMA AppendElements ==
  ASSUME NEW s, s \in Seq(Elements(s)), NEW e
  PROVE  /\ Append(s, e) \in Seq(Elements(Append(s, e)))
         /\ DOMAIN Append(s, e) = 1 .. (Len(s) + 1)
         /\ \A i \in DOMAIN s : i \in DOMAIN Append(s, e) /\ Append(s, e)[i] = s[i]
         /\ Append(s, e)[Len(s) + 1] = e
  <1> DEFINE T == Elements(s) \cup {e}
             r == Append(s, e)
  <1>1. s \in Seq(T)
    OBVIOUS
  <1>2. e \in T
    OBVIOUS
  <1> HIDE DEF T
  <1>3. /\ r \in Seq(T)
        /\ Len(r) = Len(s) + 1
        /\ \A i \in 1 .. Len(s) : r[i] = s[i]
        /\ r[Len(s) + 1] = e
    BY <1>1, <1>2
  <1>4. DOMAIN s = 1 .. Len(s) /\ Len(s) \in Nat /\ DOMAIN r = 1 .. (Len(s) + 1)
    BY <1>1, <1>3
  <1> HIDE DEF r
  <1>5. r \in Seq(Elements(r))
    BY <1>3, <1>4 DEF Elements
  <1> USE DEF r
  <1> QED
    BY <1>3, <1>4, <1>5

\* What every profile and file of the run is.
LEMMA Given ==
  ASSUME profile \in Profiles, input \in Inputs
  PROVE  /\ profile.height \in Nat \ {0}
         /\ profile.stride \in Nat \ {0}
         /\ Len(input.lines) \in Nat
         /\ input.cut \in BOOLEAN
  <1>1. profile \in Profile /\ input \in Input
    BY ChainAssumption
  <1>2. input.lines \in Seq(LineKinds) /\ input.cut \in BOOLEAN
    BY <1>1 DEF Input
  <1> QED
    BY <1>1, <1>2 DEF Profile

\* The size of a file, counted in half lines.
LEMMA Size ==
  ASSUME profile \in Profiles, input \in Inputs
  PROVE  /\ FileSize \in Nat
         /\ FileSize \in {2 * Len(input.lines), 2 * Len(input.lines) + 1}
  <1> DEFINE half == IF input.cut THEN 1 ELSE 0
             n == Len(input.lines)
  <1>1. half \in {0, 1} /\ n \in Nat
    BY Given
  <1>2. FileSize = 2 * n + half
    BY DEF FileSize
  <1> HIDE DEF half, n
  <1>3. FileSize \in Nat /\ FileSize \in {2 * n, 2 * n + 1}
    BY <1>1, <1>2
  <1> QED
    BY <1>3 DEF n

\* Whole lines in what is read of a file of size s from line o on.
LEMMA WholeLines ==
  ASSUME NEW o \in Nat, NEW h \in Nat \ {0}, NEW n \in Nat,
         NEW s \in {2 * n, 2 * n + 1}, o < n
  PROVE  \/ Lesser(2 * h, s - 2 * o) \div 2 = h
         \/ Lesser(2 * h, s - 2 * o) \div 2 = n - o
  <1>1. CASE 2 * h < s - 2 * o
    <2>1. (2 * h) \div 2 = h
      OBVIOUS
    <2> QED
      BY <1>1, <2>1 DEF Lesser
  <1>2. CASE ~(2 * h < s - 2 * o)
    <2>1. CASE s = 2 * n
      <3>1. s - 2 * o = 2 * (n - o) /\ (2 * (n - o)) \div 2 = n - o
        BY <2>1
      <3> QED
        BY <1>2, <3>1 DEF Lesser
    <2>2. CASE s = 2 * n + 1
      <3>1. s - 2 * o = 2 * (n - o) + 1 /\ (2 * (n - o) + 1) \div 2 = n - o
        BY <2>2
      <3> QED
        BY <1>2, <3>1 DEF Lesser
    <2> QED
      BY <2>1, <2>2
  <1> QED
    BY <1>1, <1>2

\* The next window holds every valid line that create() moves past and its
\* read has delivered.
LEMMA WindowHoldsItsLines ==
  ASSUME profile \in Profiles, input \in Inputs, offset \in Nat,
         profile.stride <= profile.height, NEW read \in LinesRead(offset),
         NEW line \in 0 .. (Len(input.lines) - 1),
         offset <= line, line < offset + profile.stride, Valid_line_header(line)
  PROVE  \/ line \in Decode_window(offset, read).rows
         \/ line \in (offset + read) .. (offset + Available(offset) \div 2 - 1)
  <1> DEFINE count == Available(offset) \div 2
  <1>1. /\ profile.height \in Nat \ {0} /\ profile.stride \in Nat \ {0}
        /\ Len(input.lines) \in Nat
    BY Given
  <1>2. FileSize \in {2 * Len(input.lines), 2 * Len(input.lines) + 1}
    BY Size
  <1>3. offset < Len(input.lines)
    BY <1>1
  <1>4. count = profile.height \/ count = Len(input.lines) - offset
    BY <1>1, <1>2, <1>3, WholeLines DEF Available
  <1>5. read \in 1 .. count
    BY DEF LinesRead
  <1> HIDE DEF count
  <1>6. line \in offset .. (offset + read - 1) \/ line \in (offset + read) .. (offset + count - 1)
    BY <1>1, <1>3, <1>4, <1>5
  <1>7. Decode_window(offset, read).rows =
            {l \in offset .. (offset + read - 1) : Valid_line_header(l)}
    BY DEF Decode_window
  <1> QED
    BY <1>6, <1>7 DEF count

\* There is nothing to read only behind the last whole line.
LEMMA NothingLeft ==
  ASSUME profile \in Profiles, input \in Inputs, offset \in Nat,
         profile.source = "line", NothingToRead
  PROVE  offset >= Len(input.lines)
  <1>1. profile.height \in Nat \ {0} /\ Len(input.lines) \in Nat
    BY Given
  <1>2. FileSize \in {2 * Len(input.lines), 2 * Len(input.lines) + 1}
    BY Size
  <1>3. 2 * offset >= FileSize \/ Available(offset) < 2
    BY DEF NothingToRead
  <1>4. Available(offset) = 2 * profile.height \/ Available(offset) = FileSize - 2 * offset
    BY DEF Available, Lesser
  <1> QED
    BY <1>1, <1>2, <1>3, <1>4

-----------------------------------------------------------------------------
(* Every step keeps the invariant. *)

\* No line has been moved past yet.
LEMMA InitLines == Init => LinesInv
  BY DEF Init, LinesInv, Elements, Busy

\* Before the source has started nothing is claimed of the lines.
LEMMA StartsLines ==
  ASSUME LinesInv, StartLines \/ StartArea \/ StartImages \/ Fails \/ Stop
  PROVE  LinesInv'
  <1>1. /\ profile' = profile /\ input' = input /\ delivered' = delivered
        /\ offset' \in Nat /\ phase' \in {"source", "error", "stopped"}
        /\ phase' = "source" => (offset' = 0 \/ profile.source # "line")
    BY DEF LinesInv, StartLines, StartArea, StartImages, Fails, Stop, given, source
  <1>2. (profile.source = "line" /\ phase' = "source") =>
            \A line \in 0 .. (Len(input.lines) - 1) : ~(line < offset')
    BY <1>1, Given DEF LinesInv
  <1> QED
    BY <1>1, <1>2 DEF LinesInv, Busy

\* The window of a new buffer shows what the read has delivered of the lines
\* the offset has moved past.
LEMMA CreateLinesLines ==
  ASSUME LinesInv, CreateLines
  PROVE  LinesInv'
  <1>1. /\ profile' = profile /\ input' = input /\ delivered' = delivered
        /\ offset' = offset + profile.stride
        /\ phase = "source" /\ phase' \in {"geometry", "error"}
    BY DEF CreateLines, Creates, given
  <1>2. PICK count \in LinesRead(offset) :
          /\ unread' = unread \cup
                {line \in (offset + count) .. (offset + Available(offset) \div 2 - 1) :
                    line < offset'}
          /\ phase' = "geometry" =>
                \E info, value :
                    buffer' = Original(Decode_window(offset, count), info, value)
    BY <1>1 DEF CreateLines
  <1>3. profile.stride \in Nat \ {0} /\ Len(input.lines) \in Nat /\ offset \in Nat
    BY Given DEF LinesInv
  <1>4. phase' = "geometry" =>
          /\ buffer'.window = Decode_window(offset, count)
          /\ buffer' = [window |-> buffer'.window, columns |-> buffer'.columns,
                        metas |-> buffer'.metas]
    BY <1>2 DEF Original
  <1>5. ASSUME profile.source = "line", profile.stride <= profile.height,
               phase' = "geometry",
               NEW line \in 0 .. (Len(input.lines) - 1),
               line < offset', Valid_line_header(line)
        PROVE  Shown(line)' \/ line \in unread'
    <2>1. CASE line < offset
      <3>1. line \in unread \/ \E i \in DOMAIN delivered : line \in delivered[i].window.rows
        BY <1>1, <1>5, <2>1 DEF LinesInv, Shown, Busy
      <3> QED
        BY <1>1, <1>2, <3>1 DEF Shown
    <2>2. CASE ~(line < offset)
      <3>1. \/ line \in Decode_window(offset, count).rows
            \/ line \in (offset + count) .. (offset + Available(offset) \div 2 - 1)
        BY <1>1, <1>3, <1>5, <2>2, WindowHoldsItsLines DEF LinesInv
      <3>2. CASE line \in Decode_window(offset, count).rows
        BY <1>4, <1>5, <3>2 DEF Shown, Busy
      <3>3. CASE line \in (offset + count) .. (offset + Available(offset) \div 2 - 1)
        BY <1>2, <1>5, <3>3
      <3> QED
        BY <3>1, <3>2, <3>3
    <2> QED
      BY <2>1, <2>2
  <1>6. \A line : Valid_line_header(line)' <=> Valid_line_header(line)
    BY <1>1 DEF Valid_line_header, Kind
  <1> QED
    BY <1>1, <1>3, <1>4, <1>5, <1>6 DEF LinesInv, Busy

\* The other sources have no lines to account for.
LEMMA OtherSourcesLines ==
  ASSUME LinesInv, CreateArea \/ CreateImage
  PROVE  LinesInv'
  <1>1. /\ profile' = profile /\ input' = input /\ delivered' = delivered
        /\ offset' = offset /\ profile.source # "line" /\ unread' = unread
        /\ phase' \in {"geometry", "filter", "error"}
        /\ phase' \in Busy =>
              \E window, info, value : buffer' = Original(window, info, value)
    BY DEF CreateArea, CreateImage, Creates, given, Busy
  <1>2. phase' \in Busy =>
            buffer' = [window |-> buffer'.window, columns |-> buffer'.columns,
                       metas |-> buffer'.metas]
    BY <1>1 DEF Original
  <1> QED
    BY <1>1, <1>2 DEF LinesInv, Busy

\* Behind the source a frame keeps its lines.
LEMMA OnItsWay ==
  ASSUME LinesInv,
         TransformIp \/ Transform \/ MockDetect \/ MockTrack \/ LynxiDetect \/ FilterTest
  PROVE  LinesInv'
  <1>1. /\ profile' = profile /\ input' = input /\ delivered' = delivered
        /\ offset' = offset /\ unread' = unread
        /\ phase \in {"geometry", "filter"} /\ phase' \in {"filter", "sink"}
    BY DEF TransformIp, Transform, MockDetect, MockTrack, LynxiDetect, FilterTest,
           Decorate, given, source
  <1>2. buffer = [window |-> buffer.window, columns |-> buffer.columns,
                  metas |-> buffer.metas]
    BY <1>1 DEF LinesInv, Busy
  <1>3. /\ buffer'.window = buffer.window
        /\ buffer' = [window |-> buffer'.window, columns |-> buffer'.columns,
                      metas |-> buffer'.metas]
    <2>1. CASE TransformIp \/ Transform
      BY <2>1 DEF TransformIp, Transform, Attach
    <2>2. CASE MockDetect \/ MockTrack \/ LynxiDetect
      <3>1. \E info, role : buffer' = [buffer EXCEPT !.metas = Add(@, info, role)]
        BY <2>2 DEF MockDetect, MockTrack, LynxiDetect, Decorate
      <3>2. PICK metas : buffer' = [buffer EXCEPT !.metas = metas]
        BY <3>1
      <3>3. buffer' = [window |-> buffer.window, columns |-> buffer.columns,
                       metas |-> metas]
        BY <1>2, <3>2
      <3> QED
        BY <3>3
    <2>3. CASE FilterTest
      BY <1>2, <2>3 DEF FilterTest
    <2> QED
      BY <2>1, <2>2, <2>3
  <1>4. \A line : Shown(line)' <=> Shown(line)
    BY <1>1, <1>3 DEF Shown, Busy
  <1>5. \A line : Valid_line_header(line)' <=> Valid_line_header(line)
    BY <1>1 DEF Valid_line_header, Kind
  <1> QED
    BY <1>1, <1>3, <1>4, <1>5 DEF LinesInv, Busy

\* The sink records the frame; the sink or the geometry ends the stream.
LEMMA SinkLines ==
  ASSUME LinesInv, Record \/ Refuse \/ TransformOverruns
  PROVE  LinesInv'
  <1>1. CASE Record
    <2>1. /\ profile' = profile /\ input' = input /\ offset' = offset
          /\ unread' = unread
          /\ phase = "sink" /\ phase' = "source"
          /\ delivered' = Append(delivered, buffer)
      BY <1>1 DEF Record, given, source
    <2>2. /\ delivered' \in Seq(Elements(delivered'))
          /\ \A i \in DOMAIN delivered :
                i \in DOMAIN delivered' /\ delivered'[i] = delivered[i]
          /\ \E i \in DOMAIN delivered' : delivered'[i] = buffer
      <3>1. delivered \in Seq(Elements(delivered))
        BY DEF LinesInv
      <3>2. Len(delivered) + 1 \in 1 .. (Len(delivered) + 1)
        BY <3>1
      <3> QED
        BY <2>1, <3>1, <3>2, AppendElements
    <2>3. ASSUME NEW line, Shown(line) PROVE Shown(line)'
      BY <2>1, <2>2, <2>3 DEF Shown, Busy
    <2>4. \A line : Valid_line_header(line)' <=> Valid_line_header(line)
      BY <2>1 DEF Valid_line_header, Kind
    <2> QED
      BY <2>1, <2>2, <2>3, <2>4 DEF LinesInv, Busy
  <1>2. CASE Refuse \/ TransformOverruns
    BY <1>2 DEF LinesInv, Refuse, TransformOverruns, given, source, Busy
  <1> QED
    BY <1>1, <1>2

\* EOS of a line source without num-buffers comes behind the last line, or
\* with a read that leaves the rest unread.
LEMMA EosLines ==
  ASSUME LinesInv, Eos \/ ReadTooShort
  PROVE  LinesInv'
  <1>1. /\ profile' = profile /\ input' = input /\ delivered' = delivered
        /\ offset' = offset /\ phase = "source" /\ phase' = "eos"
        /\ unread \subseteq unread'
    BY DEF Eos, ReadTooShort, Creates, given, source
  <1>2. (profile.source = "line" /\ profile.num_buffers = None) =>
            \A line \in 0 .. (Len(input.lines) - 1) : line < offset \/ line \in unread'
    <2>1. offset \in Nat /\ Len(input.lines) \in Nat
      BY Given DEF LinesInv
    <2>2. CASE Eos
      <3>1. (profile.source = "line" /\ profile.num_buffers = None) =>
                offset >= Len(input.lines)
        BY <2>2, NothingLeft DEF Eos, LimitReached, LinesInv
      <3> QED
        BY <2>1, <3>1
    <2>3. CASE ReadTooShort
      <3>1. unread' = unread \cup (offset .. (Len(input.lines) - 1))
        BY <2>3 DEF ReadTooShort
      <3> QED
        BY <2>1, <3>1
    <2> QED
      BY <2>2, <2>3
  <1>3. \A line : Shown(line) => Shown(line)'
    BY <1>1 DEF Shown, Busy
  <1>4. \A line : Valid_line_header(line)' <=> Valid_line_header(line)
    BY <1>1 DEF Valid_line_header, Kind
  <1> QED
    BY <1>1, <1>2, <1>3, <1>4 DEF LinesInv, Busy

\* Every action.
LEMMA StepLines == LinesInv /\ [Next]_vars => LinesInv'
  <1> SUFFICES ASSUME LinesInv, [Next]_vars PROVE LinesInv'
    OBVIOUS
  <1>1. CASE UNCHANGED vars
    <2>1. /\ profile' = profile /\ input' = input /\ delivered' = delivered
          /\ offset' = offset /\ phase' = phase /\ buffer' = buffer
          /\ unread' = unread
      BY <1>1 DEF vars, given, source
    <2>2. \A line : Shown(line) <=> Shown(line)'
      BY <2>1 DEF Shown
    <2>3. \A line : Valid_line_header(line)' <=> Valid_line_header(line)
      BY <2>1 DEF Valid_line_header, Kind
    <2> QED
      BY <2>1, <2>2, <2>3 DEF LinesInv
  <1> QED
    BY <1>1, StartsLines, CreateLinesLines, OtherSourcesLines, OnItsWay, SinkLines,
       EosLines DEF Next

\* A stream that ended by itself has shown every valid line of its file that
\* no read has kept from it.
THEOREM EveryLineCorrect == Spec => []EveryLineShown
  <1>1. LinesInv => EveryLineShown
    <2> SUFFICES ASSUME LinesInv, phase = "eos", profile.source = "line",
                        profile.num_buffers = None, profile.stride <= profile.height,
                        NEW line \in 0 .. (Len(input.lines) - 1),
                        Valid_line_header(line), line \notin unread
                 PROVE  \E i \in DOMAIN delivered : line \in delivered[i].window.rows
      BY DEF EveryLineShown
    <2>1. line < offset
      BY DEF LinesInv
    <2>2. Shown(line)
      BY <2>1 DEF LinesInv
    <2> QED
      BY <2>2 DEF Shown, Busy
  <1> QED
    BY <1>1, InitLines, StepLines, PTL DEF Spec
-----------------------------------------------------------------------------
(* The map between the planes *)

\* The quotient of a division.
LEMMA Quotient ==
  ASSUME NEW n \in Nat, NEW b \in Nat \ {0}
  PROVE  n \div b \in Nat /\ (n \div b) * b <= n /\ n < ((n \div b) + 1) * b
  OBVIOUS

\* A column inside a box of the filter plane is copied from a column that the
\* box covers once it is mapped back.
THEOREM ColumnsFollowTheMap ==
  ASSUME profile \in Profiles, NEW x \in Int, NEW min \in Int, NEW max \in Int,
         min <= x, x < max, SourceColumn(x) # None
  PROVE  /\ SourceColumn(x) \in 0 .. (OriginalWidth - 1)
         /\ (SourceColumn(x) + 1) * profile.num > (min - profile.offset) * profile.den
         /\ SourceColumn(x) * profile.num < (max - profile.offset) * profile.den
  <1> DEFINE scaled == (x - profile.offset) * profile.den
             c == scaled \div profile.num
             low == (min - profile.offset) * profile.den
             high == (max - profile.offset) * profile.den
             end == OriginalWidth * profile.num
  <1>1. /\ profile.num \in Nat \ {0} /\ profile.den \in Nat \ {0}
        /\ profile.offset \in Int /\ OriginalWidth \in Nat \ {0}
    BY ChainAssumption DEF Profile
  <1>2. scaled \in Int /\ low \in Int /\ high \in Int /\ end \in Int
    BY <1>1
  <1>3. low <= scaled /\ scaled < high
    BY <1>1
  <1>4. SourceColumn(x) = c /\ 0 <= scaled /\ scaled < end
    BY <1>2 DEF SourceColumn
  <1> HIDE DEF scaled, low, high
  <1>5. c \in Nat /\ c * profile.num <= scaled /\ scaled < (c + 1) * profile.num
    <2>1. scaled \in Nat
      BY <1>2, <1>4
    <2>2. profile.num \in Nat \ {0}
      BY <1>1
    <2> QED
      BY <2>1, <2>2, Quotient, Zenon
  <1> HIDE DEF c
  <1>6. c < OriginalWidth
    <2>1. CASE c >= OriginalWidth
      <3>1. c * profile.num >= OriginalWidth * profile.num
        BY <1>1, <1>5, <2>1
      <3> QED
        BY <1>1, <1>2, <1>4, <1>5, <3>1
    <2> QED
      BY <1>1, <1>5, <2>1
  <1> HIDE DEF end
  <1>7. (c + 1) * profile.num > low /\ c * profile.num < high
    BY <1>1, <1>2, <1>3, <1>5
  <1> QED
    BY <1>1, <1>4, <1>5, <1>6, <1>7 DEF low, high
-----------------------------------------------------------------------------
(* Loops *)

\* Every set of naturals has a least element.
LEMMA LeastNat ==
  ASSUME NEW T, T \subseteq Nat, T # {}
  PROVE  \E m \in T : \A k \in T : m <= k
  <1> DEFINE R == OpToRel(<, Nat)
  <1>1. IsWellFoundedOn(R, Nat)
    BY NatLessThanWellFounded, Zenon
  <1>2. \A x, y \in Nat : y < x => <<y, x>> \in R
    BY DEF OpToRel
  <1> HIDE DEF R
  <1>3. PICK m \in T : \A k \in T : ~ (<<k, m>> \in R)
    BY <1>1, WFMin, Zenon
  <1>4. ASSUME NEW k \in T PROVE m <= k
    <2>1. m \in Nat /\ k \in Nat
      OBVIOUS
    <2>2. ~(k < m)
      BY <1>2, <1>3, <2>1
    <2> QED
      BY <2>1, <2>2
  <1> QED
    BY <1>4

\* Induction over an interval, about the set of numbers that have the property.
LEMMA SetInduction ==
  ASSUME NEW n \in Nat, NEW G, 0 \in G, \A m \in 1 .. n : m - 1 \in G => m \in G
  PROVE  \A m \in 0 .. n : m \in G
  <1> DEFINE T == (0 .. n) \ G
  <1> SUFFICES ASSUME T # {} PROVE FALSE
    OBVIOUS
  <1>1. T \subseteq Nat
    OBVIOUS
  <1>2. PICK m \in T : \A k \in T : m <= k
    BY <1>1, LeastNat
  <1>3. m \in 1 .. n /\ m - 1 \in 0 .. n
    BY <1>2
  <1>4. m - 1 \in G
    BY <1>2, <1>3
  <1> QED
    BY <1>2, <1>3, <1>4

\* f is what a loop over 1 .. n that starts with base has after each round.
Loop(f, base, step, n) ==
    f[0] = base /\ \A m \in 1 .. n : f[m] = step[<<f[m - 1], m>>]

\* Every loop has such a function, with values of the type that its rounds
\* keep.
LEMMA LoopExists ==
  ASSUME NEW V, NEW base \in V, NEW n \in Nat, NEW step \in [V \X (1 .. n) -> V]
  PROVE  \E f \in [0 .. n -> V] : Loop(f, base, step, n)
  <1> DEFINE G == {m \in 0 .. n : \E f \in [0 .. m -> V] : Loop(f, base, step, m)}
  <1>1. 0 \in G
    <2>1. /\ [k \in 0 .. 0 |-> base] \in [0 .. 0 -> V]
          /\ Loop([k \in 0 .. 0 |-> base], base, step, 0)
      BY DEF Loop
    <2> QED
      BY <2>1
  <1>2. ASSUME NEW m \in 1 .. n, m - 1 \in G
        PROVE  m \in G
    <2>1. PICK f \in [0 .. (m - 1) -> V] : Loop(f, base, step, m - 1)
      BY <1>2
    <2> DEFINE v == step[<<f[m - 1], m>>]
               g == [k \in 0 .. m |-> IF k = m THEN v ELSE f[k]]
    <2>2. v \in V
      BY <2>1
    <2> HIDE DEF v
    <2>3. g \in [0 .. m -> V]
      BY <2>1, <2>2
    <2>4. g[0] = base
      BY <2>1 DEF Loop
    <2>5. ASSUME NEW k \in 1 .. m PROVE g[k] = step[<<g[k - 1], k>>]
      <3>1. CASE k = m
        <4>1. g[k] = v /\ g[k - 1] = f[k - 1]
          BY <2>1, <3>1
        <4> QED
          BY <3>1, <4>1 DEF v
      <3>2. CASE k \in 1 .. (m - 1)
        <4>1. g[k] = f[k] /\ g[k - 1] = f[k - 1]
          BY <3>2, <2>1
        <4> QED
          BY <4>1, <2>1, <3>2 DEF Loop
      <3> QED
        BY <3>1, <3>2
    <2> HIDE DEF g
    <2>6. Loop(g, base, step, m)
      BY <2>4, <2>5 DEF Loop
    <2>7. m \in 0 .. n
      OBVIOUS
    <2> QED
      BY <2>3, <2>6, <2>7
  <1>3. n \in G
    <2> HIDE DEF G
    <2> QED
      BY <1>1, <1>2, SetInduction
  <1> QED
    BY <1>3

-----------------------------------------------------------------------------
(* What the model says of a tile *)

\* What the decoder makes of a prediction.
Detection == [id : Int, score : 0 .. 100, xmin : Int, xmax : Int]

\* A sequence over S holds members of S.
LEMMA ElementOf ==
  ASSUME NEW S, NEW s \in Seq(S)
  PROVE  /\ Len(s) \in Nat /\ DOMAIN s = 1 .. Len(s)
         /\ \A i \in DOMAIN s : s[i] \in S
  OBVIOUS

\* Every set of scores has a greatest one.
LEMMA GreatestScore ==
  ASSUME NEW T, T \subseteq 0 .. 100, T # {}
  PROVE  \E m \in T : \A k \in T : k <= m
  <1> DEFINE U == {100 - t : t \in T}
  <1>0. \A t \in T : t \in 0 .. 100
    OBVIOUS
  <1>1. U \subseteq Nat /\ U # {}
    <2>1. \A t \in T : 100 - t \in Nat
      BY <1>0
    <2> QED
      BY <2>1
  <1> HIDE DEF U
  <1>2. PICK u \in U : \A k \in U : u <= k
    BY <1>1, LeastNat
  <1>3. PICK m \in T : u = 100 - m
    BY <1>2 DEF U
  <1>4. ASSUME NEW k \in T PROVE k <= m
    <2>1. 100 - k \in U
      BY DEF U
    <2>2. 100 - m <= 100 - k /\ k \in 0 .. 100 /\ m \in 0 .. 100
      BY <1>2, <1>3, <2>1
    <2> QED
      BY <2>2
  <1> QED
    BY <1>4

\* The highest score of an anchor, and the class that has it.
LEMMA ScoreAndClass ==
  ASSUME NEW p \in Prediction
  PROVE  Max_conf(p) \in 0 .. 100 /\ Class_id(p) \in Int
  <1> DEFINE n == Len(p.scores)
             S == {0} \cup {p.scores[j] : j \in DOMAIN p.scores}
             best == Max_conf(p)
  <1>1. /\ p.scores \in Seq(0 .. 100) /\ n \in Nat /\ DOMAIN p.scores = 1 .. n
        /\ \A j \in DOMAIN p.scores : p.scores[j] \in 0 .. 100
    <2>1. p.scores \in Seq(0 .. 100)
      BY DEF Prediction
    <2> QED
      BY <2>1, ElementOf
  <1>2. S \subseteq 0 .. 100 /\ S # {}
    <2>1. 0 \in 0 .. 100
      OBVIOUS
    <2> QED
      BY <1>1, <2>1
  <1>3. \A j \in DOMAIN p.scores : p.scores[j] \in S
    OBVIOUS
  <1> HIDE DEF S
  <1>4. PICK m \in S : \A k \in S : k <= m
    BY <1>2, GreatestScore
  <1>5. \A j \in DOMAIN p.scores : p.scores[j] <= m
    BY <1>3, <1>4
  <1>6. best = CHOOSE b \in S : \A j \in DOMAIN p.scores : p.scores[j] <= b
    BY DEF Max_conf, S
  <1>7. best \in S /\ \A j \in DOMAIN p.scores : p.scores[j] <= best
    BY <1>4, <1>5, <1>6
  <1>8. best \in 0 .. 100
    BY <1>2, <1>7
  <1>9. ASSUME best # 0
        PROVE  Class_id(p) \in Int
    <2> DEFINE J == {j \in 1 .. n : p.scores[j] = best}
    <2>1. J \subseteq Nat /\ J # {}
      BY <1>1, <1>7, <1>9 DEF S
    <2> HIDE DEF J
    <2>2. PICK j \in J : \A k \in J : j <= k
      BY <2>1, LeastNat
    <2> USE DEF J
    <2>3. j \in 1 .. n /\ p.scores[j] = best
      BY <2>2
    <2>4. ASSUME NEW k \in 1 .. (j - 1) PROVE p.scores[k] < best
      <3>1. k \in 1 .. n /\ k \notin J
        BY <1>1, <2>2, <2>3, <2>4
      <3>2. p.scores[k] # best
        BY <3>1
      <3> HIDE DEF J, best
      <3>3. p.scores[k] \in 0 .. 100 /\ p.scores[k] <= best
        BY <1>1, <1>7, <3>1
      <3> QED
        BY <1>8, <3>2, <3>3
    <2> HIDE DEF J, best
    <2>5. j - 1 \in 0 .. (n - 1) /\ (j - 1) + 1 = j
      BY <1>1, <2>3
    <2>6. /\ p.scores[(j - 1) + 1] = best
          /\ \A i \in 1 .. (j - 1) : p.scores[i] < best
      BY <2>3, <2>4, <2>5
    <2> DEFINE P(id) == /\ p.scores[id + 1] = best
                        /\ \A i \in 1 .. id : p.scores[i] < best
    <2>7. \E id \in 0 .. (n - 1) : P(id)
      BY <2>5, <2>6
    <2> HIDE DEF P
    <2>8. (CHOOSE id \in 0 .. (n - 1) : P(id)) \in 0 .. (n - 1)
      BY <2>7
    <2>9. Class_id(p) = CHOOSE id \in 0 .. (n - 1) : P(id)
      BY <1>9 DEF Class_id, P, best
    <2>10. n \in Nat
      BY <1>1
    <2> HIDE DEF n
    <2> QED
      BY <2>8, <2>9, <2>10
  <1>10. CASE best = 0
    BY <1>10 DEF Class_id
  <1> QED
    BY <1>8, <1>9, <1>10

\* What is believed of a tile is a detection whose box lies inside it.
LEMMA DetectedInside ==
  ASSUME NEW p \in Prediction, Believed(p)
  PROVE  /\ Detected(p) \in Detection
         /\ 0 <= Detected(p).xmin /\ Detected(p).xmin <= Detected(p).xmax
         /\ Detected(p).xmax <= ModelWidth - 1
  <1>1. Max_conf(p) \in 0 .. 100 /\ Class_id(p) \in Int
    BY ScoreAndClass
  <1>2. p.center \in 0 .. (ModelWidth - 1) /\ p.half \in Int /\ ModelWidth \in Nat \ {0}
    BY ChainAssumption DEF Prediction
  <1>3. p.center + p.half > 0 /\ p.half >= 0
    BY DEF Believed
  <1> DEFINE low == Greater(p.center - p.half, 0)
             high == Lesser(p.center + p.half, ModelWidth - 1)
  <1>4. low \in Int /\ high \in Int /\ 0 <= low /\ low <= high /\ high <= ModelWidth - 1
    BY <1>2, <1>3 DEF Greater, Lesser
  <1>5. Detected(p) = [id |-> Class_id(p), score |-> Max_conf(p), xmin |-> low, xmax |-> high]
    BY DEF Detected
  <1> HIDE DEF low, high
  <1> QED
    BY <1>1, <1>4, <1>5 DEF Detection

-----------------------------------------------------------------------------
(* Sorting by rank *)

\* before[i]: what goes before i in a strict order of the whole of S.
StrictOrder(S, before) ==
    /\ before \in [S -> SUBSET S]
    /\ \A i \in S : i \notin before[i]
    /\ \A i, j \in S : i \in before[j] => before[i] \subseteq before[j]
    /\ \A i, j \in S : i # j => i \in before[j] \/ j \in before[i]

\* What stands at the k-th place has k - 1 before it; each has one place.
LEMMA Places ==
  ASSUME NEW S, IsFiniteSet(S), NEW before, StrictOrder(S, before)
  PROVE  LET n == Cardinality(S)
         IN  /\ n \in Nat
             /\ \A i \in S : Cardinality(before[i]) + 1 \in 1 .. n
             /\ \A i, j \in S : i \in before[j] =>
                    Cardinality(before[i]) < Cardinality(before[j])
             /\ \A i, j \in S : Cardinality(before[i]) = Cardinality(before[j]) => i = j
             /\ \A k \in 1 .. n : \E i \in S : Cardinality(before[i]) = k - 1
  <1> DEFINE n == Cardinality(S)
             rank(i) == Cardinality(before[i])
             T == 0 .. (n - 1)
             f == [i \in S |-> rank(i)]
  <1>1. n \in Nat
    BY FS_CardinalityType
  <1>2. ASSUME NEW i \in S
        PROVE  IsFiniteSet(before[i]) /\ rank(i) \in 0 .. (n - 1)
    <2>1. before[i] \in SUBSET S /\ i \notin before[i]
      BY DEF StrictOrder
    <2>2. /\ IsFiniteSet(before[i])
          /\ Cardinality(before[i]) <= n
          /\ Cardinality(before[i]) = n => S = before[i]
      BY <2>1, FS_Subset
    <2>3. Cardinality(before[i]) \in Nat
      BY <2>2, FS_CardinalityType
    <2> HIDE DEF n
    <2>4. Cardinality(before[i]) # n
      BY <2>1, <2>2 DEF n
    <2> QED
      BY <1>1, <2>2, <2>3, <2>4
  <1>3. ASSUME NEW i \in S, NEW j \in S, i \in before[j]
        PROVE  rank(i) < rank(j)
    <2>1. before[i] \in SUBSET before[j] /\ before[i] # before[j]
      BY <1>3 DEF StrictOrder
    <2>2. IsFiniteSet(before[j])
      BY <1>2
    <2>3. rank(i) <= rank(j) /\ rank(i) # rank(j)
      BY <2>1, <2>2, FS_Subset
    <2>4. rank(i) \in 0 .. (n - 1) /\ rank(j) \in 0 .. (n - 1)
      BY <1>2
    <2> HIDE DEF rank, n
    <2> QED
      BY <2>3, <2>4
  <1> HIDE DEF n, rank
  <1>4. ASSUME NEW i \in S, NEW j \in S, i # j
        PROVE  rank(i) # rank(j)
    <2>1. i \in before[j] \/ j \in before[i]
      BY <1>4 DEF StrictOrder
    <2>2. rank(i) \in 0 .. (n - 1) /\ rank(j) \in 0 .. (n - 1)
      BY <1>2
    <2> QED
      BY <1>1, <1>3, <2>1, <2>2
  <1>5. IsFiniteSet(T) /\ Cardinality(T) = n
    <2>1. 0 \in Int /\ n - 1 \in Int
      BY <1>1
    <2>2. /\ IsFiniteSet(0 .. (n - 1))
          /\ Cardinality(0 .. (n - 1)) = IF 0 > n - 1 THEN 0 ELSE n - 1 - 0 + 1
      BY <2>1, FS_Interval
    <2> QED
      BY <1>1, <2>2
  <1>6. f \in Surjection(S, T)
    <2>1. f \in Injection(S, T)
      BY <1>2, <1>4 DEF Injection, IsInjective
    <2> HIDE DEF f, T
    <2>2. IsFiniteSet(S) /\ IsFiniteSet(T) /\ Cardinality(S) = Cardinality(T)
      BY <1>5 DEF n
    <2> QED
      BY <2>1, <2>2, FS_Injection
  <1>7. ASSUME NEW k \in 1 .. n PROVE \E i \in S : rank(i) = k - 1
    <2>1. k - 1 \in T
      BY <1>1
    <2>2. \E i \in S : f[i] = k - 1
      BY <1>6, <2>1 DEF Surjection
    <2> QED
      BY <2>2
  <1>8. \A i \in S : rank(i) + 1 \in 1 .. n
    BY <1>1, <1>2
  <1> QED
    BY <1>1, <1>3, <1>4, <1>7, <1>8 DEF n, rank

-----------------------------------------------------------------------------
(* std::stable_sort() *)

\* Where the i-th detection does not yet stand when j goes before it.
Before(found, i) ==
    {j \in DOMAIN found : \/ Key(found[j]) > Key(found[i])
                          \/ Key(found[j]) = Key(found[i]) /\ j < i}

\* How many go before the i-th detection.
Rank(found, i) == Cardinality(Before(found, i))

\* The sort compares whole numbers.
LEMMA KeyType ==
  ASSUME NEW D, D \subseteq Detection, NEW found \in Seq(D)
  PROVE  \A i \in DOMAIN found : found[i] \in D /\ Key(found[i]) \in Int
  <1>1. ASSUME NEW d \in Detection PROVE Key(d) \in Int
    <2>1. d.id \in Int /\ d.score \in 0 .. 100
      BY DEF Detection
    <2>2. \A a \in 0 .. 100, b \in Int : a + 100 * b \in Int
      OBVIOUS
    <2>3. d.score + 100 * d.id \in Int
      BY <2>1, <2>2, Zenon
    <2> QED
      BY <2>3 DEF Key
  <1>2. \A i \in DOMAIN found : found[i] \in D
    BY ElementOf
  <1> QED
    BY <1>1, <1>2

\* The sort puts one detection at every place.
LEMMA RankGrows ==
  ASSUME NEW D, D \subseteq Detection, NEW found \in Seq(D)
  PROVE  /\ \A i \in DOMAIN found : Rank(found, i) \in 0 .. (Len(found) - 1)
         /\ \A i, j \in DOMAIN found :
                i \in Before(found, j) => Rank(found, i) < Rank(found, j)
         /\ \A i, j \in DOMAIN found : Rank(found, i) = Rank(found, j) => i = j
         /\ \A k \in 1 .. Len(found) : \E i \in DOMAIN found : Rank(found, i) = k - 1
  <1> DEFINE n == Len(found)
             S == 1 .. n
             K(i) == Key(found[i])
             before == [i \in S |-> Before(found, i)]
  <1>1. n \in Nat /\ DOMAIN found = S
    BY ElementOf
  <1>2. \A i \in S : K(i) \in Int
    BY <1>1, KeyType
  <1>3. \A i \in S : before[i] = {j \in S : K(j) > K(i) \/ (K(j) = K(i) /\ j < i)}
    BY <1>1 DEF Before
  <1>4. IsFiniteSet(S) /\ Cardinality(S) = n
    BY <1>1, FS_Interval
  <1>5. before \in [S -> SUBSET S]
    BY <1>1 DEF Before
  <1> HIDE DEF K, before
  <1>6. StrictOrder(S, before)
    <2>1. \A i \in S : i \notin before[i]
      BY <1>2, <1>3
    <2>2. ASSUME NEW i \in S, NEW j \in S, i \in before[j], NEW l \in before[i]
          PROVE  l \in before[j]
      <3>1. /\ l \in S /\ (K(l) > K(i) \/ (K(l) = K(i) /\ l < i))
            /\ K(i) > K(j) \/ (K(i) = K(j) /\ i < j)
        BY <1>3, <2>2
      <3>2. K(l) > K(j) \/ (K(l) = K(j) /\ l < j)
        BY <1>1, <1>2, <3>1
      <3> QED
        BY <1>3, <3>1, <3>2
    <2>3. ASSUME NEW i \in S, NEW j \in S, i # j
          PROVE  i \in before[j] \/ j \in before[i]
      <3>1. \/ K(i) > K(j) \/ (K(i) = K(j) /\ i < j)
            \/ K(j) > K(i) \/ (K(j) = K(i) /\ j < i)
        BY <1>1, <1>2, <2>3
      <3> QED
        BY <1>3, <3>1
    <2> QED
      BY <1>5, <2>1, <2>2, <2>3 DEF StrictOrder
  <1>7. \A i \in S : Cardinality(before[i]) = Rank(found, i) /\ before[i] = Before(found, i)
    BY DEF before, Rank
  <1> HIDE DEF S, n
  <1>8. /\ \A i \in S : Rank(found, i) + 1 \in 1 .. n
        /\ \A i, j \in S : i \in Before(found, j) => Rank(found, i) < Rank(found, j)
        /\ \A i, j \in S : Rank(found, i) = Rank(found, j) => i = j
        /\ \A k \in 1 .. n : \E i \in S : Rank(found, i) = k - 1
    <2>1. /\ \A i \in S : Cardinality(before[i]) + 1 \in 1 .. n
          /\ \A i, j \in S : i \in before[j] =>
                    Cardinality(before[i]) < Cardinality(before[j])
          /\ \A i, j \in S : Cardinality(before[i]) = Cardinality(before[j]) => i = j
          /\ \A k \in 1 .. n : \E i \in S : Cardinality(before[i]) = k - 1
      BY <1>4, <1>6, Places
    <2> QED
      BY <1>7, <2>1
  <1>9. \A i \in S : Rank(found, i) \in 0 .. (n - 1)
    <2> SUFFICES ASSUME NEW i \in S PROVE Rank(found, i) \in 0 .. (n - 1)
      OBVIOUS
    <2>1. IsFiniteSet(before[i])
      BY <1>4, <1>5, FS_Subset
    <2>2. Rank(found, i) \in Nat
      BY <1>7, <2>1, FS_CardinalityType
    <2> QED
      BY <1>1, <1>8, <2>2
  <1> QED
    BY <1>1, <1>8, <1>9 DEF n

\* Sorting neither adds nor drops a detection, and the key never grows.
LEMMA SortedOrder ==
  ASSUME NEW D, D \subseteq Detection, NEW found \in Seq(D)
  PROVE  /\ Sorted(found) \in Seq(D)
         /\ Len(Sorted(found)) = Len(found)
         /\ \A k \in DOMAIN Sorted(found) :
                \E i \in DOMAIN found : Sorted(found)[k] = found[i]
         /\ \A i \in DOMAIN found :
                \E k \in DOMAIN Sorted(found) : Sorted(found)[k] = found[i]
         /\ \A k, l \in DOMAIN Sorted(found) :
                k <= l => Key(Sorted(found)[k]) >= Key(Sorted(found)[l])
  <1> DEFINE n == Len(found)
             at(k) == CHOOSE i \in DOMAIN found : Rank(found, i) = k - 1
             s == Sorted(found)
  <1>1. n \in Nat /\ DOMAIN found = 1 .. n
    BY ElementOf
  <1>2. s = [k \in DOMAIN found |-> found[at(k)]]
    BY DEF Sorted, Rank, Before
  <1>3. ASSUME NEW k \in 1 .. n
        PROVE  at(k) \in 1 .. n /\ Rank(found, at(k)) = k - 1
    <2>1. \E i \in DOMAIN found : Rank(found, i) = k - 1
      BY <1>1, RankGrows
    <2> QED
      BY <1>1, <2>1
  <1>4. ASSUME NEW i \in 1 .. n
        PROVE  /\ Rank(found, i) + 1 \in 1 .. n
               /\ at(Rank(found, i) + 1) = i
    <2> DEFINE k == Rank(found, i) + 1
    <2>1. Rank(found, i) \in 0 .. (n - 1)
      BY <1>1, RankGrows
    <2>2. k \in 1 .. n /\ k - 1 = Rank(found, i)
      BY <1>1, <2>1
    <2> HIDE DEF k
    <2>3. at(k) \in 1 .. n /\ Rank(found, at(k)) = Rank(found, i)
      BY <1>3, <2>2
    <2> HIDE DEF at
    <2>4. at(k) = i
      BY <1>1, <2>3, RankGrows
    <2> QED
      BY <2>2, <2>4 DEF k
  <1> HIDE DEF at
  <1>5. \A k \in 1 .. n : s[k] = found[at(k)] /\ s[k] \in D
    BY <1>1, <1>2, <1>3, ElementOf
  <1>6. s \in Seq(D) /\ Len(s) = n /\ DOMAIN s = 1 .. n
    BY <1>1, <1>2, <1>5
  <1>7. \A i \in 1 .. n : \E k \in 1 .. n : s[k] = found[i]
    BY <1>4, <1>5
  <1>8. ASSUME NEW k \in 1 .. n, NEW l \in 1 .. n, k <= l
        PROVE  Key(s[k]) >= Key(s[l])
    <2> DEFINE i == at(k)
               j == at(l)
    <2>1. i \in 1 .. n /\ j \in 1 .. n /\ Rank(found, i) = k - 1 /\ Rank(found, j) = l - 1
      BY <1>3
    <2>2. s[k] = found[i] /\ s[l] = found[j]
      BY <1>5
    <2> HIDE DEF i, j
    <2>3. Key(found[i]) \in Int /\ Key(found[j]) \in Int
      BY <1>1, <2>1, KeyType
    <2>4. j \notin Before(found, i)
      <3>1. j \in Before(found, i) => Rank(found, j) < Rank(found, i)
        BY <1>1, <2>1, RankGrows
      <3> QED
        BY <1>1, <1>8, <2>1, <3>1
    <2>5. ~(Key(found[j]) > Key(found[i]))
      BY <1>1, <2>1, <2>4 DEF Before
    <2> QED
      BY <2>2, <2>3, <2>5
  <1> QED
    BY <1>1, <1>3, <1>5, <1>6, <1>7, <1>8

-----------------------------------------------------------------------------
(* yolo5Nms() *)

\* k is computed by a loop as long as it stays within V.
Follows(k, V, base, step, n) ==
    /\ k[0] = base
    /\ \A m \in 1 .. n : k[m - 1] \in V => k[m] = step[<<k[m - 1], m>>]

\* A list built by Follows has the values of its loop.
LEMMA LoopValues ==
  ASSUME NEW V, NEW base \in V, NEW n \in Nat, NEW step \in [V \X (1 .. n) -> V],
         NEW k, Follows(k, V, base, step, n)
  PROVE  \A m \in 0 .. n : k[m] \in V
  <1> DEFINE G == {m \in 0 .. n : k[m] \in V}
  <1>1. 0 \in G
    BY DEF Follows
  <1>2. ASSUME NEW m \in 1 .. n, m - 1 \in G PROVE m \in G
    <2>1. m \in 0 .. n /\ k[m - 1] \in V
      BY <1>2
    <2>2. k[m] = step[<<k[m - 1], m>>] /\ step[<<k[m - 1], m>>] \in V
      BY <2>1 DEF Follows
    <2> QED
      BY <2>1, <2>2
  <1> HIDE DEF G
  <1>3. \A m \in 0 .. n : m \in G
    BY <1>1, <1>2, SetInduction
  <1> QED
    BY <1>3 DEF G

\* The loop over the sorted detections.
LEMMA SuppressedLoop ==
  ASSUME NEW D, NEW found \in Seq(D)
  PROVE  \E f : /\ \A m \in 0 .. Len(found) : f[m] \in Seq(D)
                /\ f[0] = <<>> /\ Suppressed(found) = f[Len(found)]
                /\ \A m \in 1 .. Len(found) : f[m] = Keep(f[m - 1], found[m])
  <1> DEFINE n == Len(found)
             V == Seq(D)
             step == [x \in V \X (1 .. n) |-> Keep(x[1], found[x[2]])]
             Body(f) == [m \in 0 .. n |->
                            IF m = 0 THEN <<>> ELSE Keep(f[m - 1], found[m])]
             k == CHOOSE f : f = Body(f)
  <1>1. step \in [V \X (1 .. n) -> V]
    BY DEF Keep
  <1>2. n \in Nat /\ <<>> \in V
    OBVIOUS
  <1>3. Suppressed(found) = k[n]
    BY DEF Suppressed
  <1>4. \A v \in V, m \in 1 .. n : step[<<v, m>>] = Keep(v, found[m])
    OBVIOUS
  <1> HIDE DEF step, V, n
  <1>5. PICK f \in [0 .. n -> V] : Loop(f, <<>>, step, n)
    BY <1>1, <1>2, LoopExists
  <1>6. f = Body(f)
    <2>1. \A m \in 1 .. n : f[m] = Keep(f[m - 1], found[m])
      BY <1>2, <1>4, <1>5 DEF Loop
    <2> QED
      BY <1>2, <1>5, <2>1 DEF Loop
  <1> HIDE DEF Body
  <1>7. k = Body(k)
    BY <1>6
  <1> HIDE DEF k
  <1>8. k[0] = <<>> /\ \A m \in 1 .. n : k[m] = Keep(k[m - 1], found[m])
    BY <1>2, <1>7 DEF Body
  <1>9. Follows(k, V, <<>>, step, n)
    BY <1>4, <1>8 DEF Follows
  <1>10. \A m \in 0 .. n : k[m] \in V
    BY <1>1, <1>2, <1>9, LoopValues
  <1> QED
    BY <1>3, <1>8, <1>10 DEF V, n

\* Which of two boxes comes first makes no difference to their overlap.
LEMMA SameObjectSymmetric ==
  ASSUME NEW a \in Detection, NEW b \in Detection
  PROVE  SameObject(a, b) <=> SameObject(b, a)
  <1>1. /\ a.xmin \in Int /\ a.xmax \in Int /\ b.xmin \in Int /\ b.xmax \in Int
    BY DEF Detection
  <1>2. Overlap(a, b) = Overlap(b, a) /\ Overlap(a, b) \in Int
    BY <1>1 DEF Overlap, Lesser, Greater
  <1>3. (a.xmax - a.xmin) + (b.xmax - b.xmin) - Overlap(a, b)
            = (b.xmax - b.xmin) + (a.xmax - a.xmin) - Overlap(b, a)
    BY <1>1, <1>2
  <1> QED
    BY <1>2, <1>3 DEF SameObject

\* What stands for a detection once it has been suppressed, or kept.
StandsFor(r, d) == r = d \/ (SameObject(r, d) /\ Key(r) >= Key(d))

\* kept is what yolo5Nms() leaves of found: part of it, no object twice, and
\* something that stands for each detection.
Merged(kept, found, n) ==
    /\ \A i \in DOMAIN kept : \E l \in 1 .. n : kept[i] = found[l]
    /\ \A i, j \in DOMAIN kept : i # j => ~SameObject(kept[i], kept[j])
    /\ \A l \in 1 .. n : \E i \in DOMAIN kept : StandsFor(kept[i], found[l])

\* One round keeps what the earlier ones have established.
LEMMA KeepMerges ==
  ASSUME NEW D, D \subseteq Detection, NEW found \in Seq(D),
         \A k, l \in DOMAIN found : k <= l => Key(found[k]) >= Key(found[l]),
         NEW m \in 1 .. Len(found), NEW v \in Seq(D), Merged(v, found, m - 1)
  PROVE  Merged(Keep(v, found[m]), found, m)
  <1> DEFINE d == found[m]
             w == Keep(v, d)
  <1>1. /\ DOMAIN found = 1 .. Len(found) /\ Len(found) \in Nat
        /\ d \in D /\ Len(v) \in Nat /\ DOMAIN v = 1 .. Len(v)
        /\ \A i \in DOMAIN v : v[i] \in D
    BY ElementOf
  <1>2. \A l : l \in 1 .. m <=> (l \in 1 .. (m - 1) \/ l = m)
    OBVIOUS
  <1>3. CASE \E k \in DOMAIN v : SameObject(v[k], d)
    <2>1. w = v
      BY <1>3 DEF Keep
    <2>2. PICK k \in DOMAIN v : SameObject(v[k], d)
      BY <1>3
    <2>3. PICK l \in 1 .. (m - 1) : v[k] = found[l]
      BY DEF Merged
    <2>4. Key(v[k]) >= Key(d)
      <3>1. l \in DOMAIN found /\ m \in DOMAIN found /\ l <= m
        BY <1>1
      <3> QED
        BY <2>3, <3>1
    <2>5. StandsFor(v[k], d)
      BY <2>2, <2>4 DEF StandsFor
    <2> HIDE DEF w
    <2> QED
      BY <1>2, <2>1, <2>5 DEF Merged, w
  <1>4. CASE ~\E k \in DOMAIN v : SameObject(v[k], d)
    <2>1. w = Append(v, d)
      BY <1>4 DEF Keep
    <2>2. /\ DOMAIN w = 1 .. (Len(v) + 1) /\ w[Len(v) + 1] = d
          /\ \A i \in 1 .. Len(v) : w[i] = v[i]
      BY <1>1, <2>1
    <2> HIDE DEF w
    <2>3. \A i \in DOMAIN w : i \in DOMAIN v \/ i = Len(v) + 1
      BY <1>1, <2>2
    <2>4. \A i \in DOMAIN v : i \in DOMAIN w /\ w[i] = v[i]
      BY <1>1, <2>2
    <2>5. ASSUME NEW i \in DOMAIN w PROVE \E l \in 1 .. m : w[i] = found[l]
      <3>1. CASE i \in DOMAIN v
        BY <1>2, <2>4, <3>1 DEF Merged
      <3>2. CASE i = Len(v) + 1
        BY <2>2, <3>2
      <3> QED
        BY <2>3, <3>1, <3>2
    <2>6. ASSUME NEW i \in DOMAIN w, NEW j \in DOMAIN w, i # j
          PROVE  ~SameObject(w[i], w[j])
      <3>1. CASE i \in DOMAIN v /\ j \in DOMAIN v
        BY <2>4, <2>6, <3>1 DEF Merged
      <3>2. CASE i \in DOMAIN v /\ j = Len(v) + 1
        BY <1>4, <2>2, <2>4, <3>2
      <3>3. CASE i = Len(v) + 1 /\ j \in DOMAIN v
        <4>1. w[i] = d /\ w[j] = v[j] /\ v[j] \in Detection /\ d \in Detection
          BY <1>1, <2>2, <2>4, <3>3
        <4>2. ~SameObject(v[j], d)
          BY <1>4, <3>3
        <4> QED
          BY <4>1, <4>2, SameObjectSymmetric
      <3> QED
        BY <2>3, <2>6, <3>1, <3>2, <3>3
    <2>7. ASSUME NEW l \in 1 .. m PROVE \E i \in DOMAIN w : StandsFor(w[i], found[l])
      <3>1. CASE l \in 1 .. (m - 1)
        BY <2>4, <3>1 DEF Merged
      <3>2. CASE l = m
        <4>1. Len(v) + 1 \in DOMAIN w
          BY <1>1, <2>2
        <4> QED
          BY <2>2, <3>2, <4>1 DEF StandsFor
      <3> QED
        BY <1>2, <3>1, <3>2
    <2> QED
      BY <2>5, <2>6, <2>7 DEF Merged, w
  <1> QED
    BY <1>3, <1>4

\* What yolo5Nms() leaves of detections in any order.
LEMMA NmsMerges ==
  ASSUME NEW D, D \subseteq Detection, NEW found \in Seq(D)
  PROVE  /\ Yolo5Nms(found) \in Seq(D)
         /\ Merged(Yolo5Nms(found), found, Len(found))
  <1> DEFINE s == Sorted(found)
             n == Len(s)
             kept == Yolo5Nms(found)
  <1>1. /\ s \in Seq(D) /\ n = Len(found)
        /\ \A k \in DOMAIN s : \E i \in DOMAIN found : s[k] = found[i]
        /\ \A i \in DOMAIN found : \E k \in DOMAIN s : s[k] = found[i]
        /\ \A k, l \in DOMAIN s : k <= l => Key(s[k]) >= Key(s[l])
    BY SortedOrder
  <1> HIDE DEF s
  <1>2. n \in Nat /\ DOMAIN s = 1 .. n /\ DOMAIN found = 1 .. n
    BY <1>1
  <1>3. PICK f :
            /\ \A m \in 0 .. n : f[m] \in Seq(D)
            /\ f[0] = <<>> /\ Suppressed(s) = f[n]
            /\ \A m \in 1 .. n : f[m] = Keep(f[m - 1], s[m])
    <2>1. s \in Seq(D)
      BY <1>1
    <2>2. \E f : /\ \A m \in 0 .. Len(s) : f[m] \in Seq(D)
                 /\ f[0] = <<>> /\ Suppressed(s) = f[Len(s)]
                 /\ \A m \in 1 .. Len(s) : f[m] = Keep(f[m - 1], s[m])
      BY <2>1, SuppressedLoop, Zenon
    <2> QED
      BY <2>2, Zenon DEF n
  <1> DEFINE G == {m \in 0 .. n : Merged(f[m], s, m)}
  <1>4. 0 \in G
    <2>1. DOMAIN f[0] = {} /\ 0 \in 0 .. n /\ ~\E l : l \in 1 .. 0
      BY <1>2, <1>3
    <2> QED
      BY <2>1 DEF Merged
  <1>5. ASSUME NEW m \in 1 .. n, m - 1 \in G PROVE m \in G
    <2>1. f[m - 1] \in Seq(D) /\ m \in 0 .. n /\ m \in 1 .. Len(s)
      BY <1>2, <1>3
    <2>2. Merged(f[m - 1], s, m - 1)
      BY <1>5
    <2>3. Merged(Keep(f[m - 1], s[m]), s, m)
      BY <1>1, <2>1, <2>2, KeepMerges
    <2> QED
      BY <1>3, <2>1, <2>3
  <1>6. \A m \in 0 .. n : m \in G
    <2> HIDE DEF G, n
    <2> QED
      BY <1>2, <1>4, <1>5, SetInduction
  <1>7. kept = f[n] /\ Merged(f[n], s, n) /\ f[n] \in Seq(D)
    BY <1>2, <1>3, <1>6 DEF Yolo5Nms, s
  <1> HIDE DEF kept, G
  <1>8. Merged(kept, found, n)
    <2>1. ASSUME NEW i \in DOMAIN kept PROVE \E l \in 1 .. n : kept[i] = found[l]
      <3>1. PICK k \in 1 .. n : kept[i] = s[k]
        BY <1>7 DEF Merged
      <3> QED
        BY <1>1, <1>2, <3>1
    <2>2. ASSUME NEW l \in 1 .. n
          PROVE  \E i \in DOMAIN kept : StandsFor(kept[i], found[l])
      <3>1. PICK k \in 1 .. n : s[k] = found[l]
        BY <1>1, <1>2
      <3>2. PICK i \in DOMAIN kept : StandsFor(kept[i], s[k])
        BY <1>7 DEF Merged
      <3> QED
        BY <3>1, <3>2
    <2> QED
      BY <1>7, <2>1, <2>2 DEF Merged
  <1> QED
    BY <1>1, <1>7, <1>8 DEF kept

\* Who stands for a detection is of its class, no less certain, and has a box
\* if the other has.
LEMMA StandIn ==
  ASSUME NEW r \in Detection, NEW d \in Detection, StandsFor(r, d), d.xmin < d.xmax
  PROVE  r.id = d.id /\ r.score >= d.score /\ r.xmin < r.xmax
  <1>1. /\ r.id \in Int /\ r.score \in 0 .. 100 /\ r.xmin \in Int /\ r.xmax \in Int
        /\ d.id \in Int /\ d.score \in 0 .. 100 /\ d.xmin \in Int /\ d.xmax \in Int
    BY DEF Detection
  <1>2. CASE r = d
    BY <1>1, <1>2
  <1>3. CASE SameObject(r, d) /\ Key(r) >= Key(d)
    <2>1. r.id = d.id /\ Overlap(r, d) > 0
      BY <1>3 DEF SameObject
    <2>2. r.score + 100 * d.id >= d.score + 100 * d.id
      BY <1>3, <2>1 DEF Key
    <2>3. \A a, b \in 0 .. 100, c \in Int : a + 100 * c >= b + 100 * c => a >= b
      OBVIOUS
    <2>4. r.score >= d.score
      BY <1>1, <2>2, <2>3
    <2>5. r.xmin < r.xmax
      BY <1>1, <2>1 DEF Overlap, Lesser, Greater
    <2> QED
      BY <2>1, <2>4, <2>5
  <1> QED
    BY <1>2, <1>3 DEF StandsFor

-----------------------------------------------------------------------------
(* From the tiles to the frame *)

\* What the model sees in a tile.
SeenInTile(predictions) ==
    {Detected(predictions[k]) : k \in {k \in DOMAIN predictions : Believed(predictions[k])}}

\* What is seen in a tile is a detection.
LEMMA SeenInTileType ==
  ASSUME NEW predictions \in Seq(Prediction)
  PROVE  SeenInTile(predictions) \subseteq Detection
  <1>1. \A k \in DOMAIN predictions : predictions[k] \in Prediction
    BY ElementOf
  <1> QED
    BY <1>1, DetectedInside DEF SeenInTile

\* The decoder goes through the predictions one by one.
LEMMA DecodedLoop ==
  ASSUME NEW predictions \in Seq(Prediction)
  PROVE  \E f : /\ \A m \in 0 .. Len(predictions) : f[m] \in Seq(SeenInTile(predictions))
                /\ f[0] = <<>> /\ Decoded(predictions) = f[Len(predictions)]
                /\ \A m \in 1 .. Len(predictions) : f[m] = Believe(f[m - 1], predictions[m])
  <1> DEFINE n == Len(predictions)
             V == Seq(SeenInTile(predictions))
             step == [x \in V \X (1 .. n) |-> Believe(x[1], predictions[x[2]])]
             Body(f) == [m \in 0 .. n |->
                            IF m = 0 THEN <<>> ELSE Believe(f[m - 1], predictions[m])]
             k == CHOOSE f : f = Body(f)
  <1>1. step \in [V \X (1 .. n) -> V]
    <2>1. ASSUME NEW v \in V, NEW m \in 1 .. n PROVE Believe(v, predictions[m]) \in V
      <3>1. m \in DOMAIN predictions
        BY ElementOf
      <3>2. Believed(predictions[m]) => Detected(predictions[m]) \in SeenInTile(predictions)
        BY <3>1 DEF SeenInTile
      <3> QED
        BY <3>2 DEF Believe
    <2> QED
      BY <2>1
  <1>2. n \in Nat /\ <<>> \in V
    OBVIOUS
  <1>3. Decoded(predictions) = k[n]
    BY DEF Decoded
  <1>4. \A v \in V, m \in 1 .. n : step[<<v, m>>] = Believe(v, predictions[m])
    OBVIOUS
  <1> HIDE DEF step, V, n
  <1>5. PICK f \in [0 .. n -> V] : Loop(f, <<>>, step, n)
    BY <1>1, <1>2, LoopExists
  <1>6. f = Body(f)
    <2>1. \A m \in 1 .. n : f[m] = Believe(f[m - 1], predictions[m])
      BY <1>2, <1>4, <1>5 DEF Loop
    <2> QED
      BY <1>2, <1>5, <2>1 DEF Loop
  <1> HIDE DEF Body
  <1>7. k = Body(k)
    BY <1>6
  <1> HIDE DEF k
  <1>8. k[0] = <<>> /\ \A m \in 1 .. n : k[m] = Believe(k[m - 1], predictions[m])
    BY <1>2, <1>7 DEF Body
  <1>9. Follows(k, V, <<>>, step, n)
    BY <1>4, <1>8 DEF Follows
  <1>10. \A m \in 0 .. n : k[m] \in V
    BY <1>1, <1>2, <1>9, LoopValues
  <1> QED
    BY <1>3, <1>8, <1>10 DEF V, n

\* Decoding a tile lists what the model sees in it, and all of it.
LEMMA DecodedSees ==
  ASSUME NEW predictions \in Seq(Prediction)
  PROVE  /\ Decoded(predictions) \in Seq(SeenInTile(predictions))
         /\ \A d \in SeenInTile(predictions) :
                \E i \in DOMAIN Decoded(predictions) : Decoded(predictions)[i] = d
  <1> DEFINE n == Len(predictions)
             S == SeenInTile(predictions)
  <1>1. n \in Nat /\ DOMAIN predictions = 1 .. n
    OBVIOUS
  <1>2. PICK f : /\ \A m \in 0 .. n : f[m] \in Seq(S)
                 /\ f[0] = <<>> /\ Decoded(predictions) = f[n]
                 /\ \A m \in 1 .. n : f[m] = Believe(f[m - 1], predictions[m])
    BY DecodedLoop
  <1> HIDE DEF n, S
  <1> DEFINE Listed(v, m) == \A l \in 1 .. m : Believed(predictions[l]) =>
                                \E i \in DOMAIN v : v[i] = Detected(predictions[l])
             G == {m \in 0 .. n : Listed(f[m], m)}
  <1>3. 0 \in G
    <2>1. 0 \in 0 .. n /\ ~\E l : l \in 1 .. 0
      BY <1>1
    <2> QED
      BY <2>1
  <1>4. ASSUME NEW m \in 1 .. n, m - 1 \in G PROVE m \in G
    <2> DEFINE v == f[m - 1]
               p == predictions[m]
    <2>1. v \in Seq(S) /\ m \in 0 .. n /\ Listed(v, m - 1)
      BY <1>1, <1>2, <1>4
    <2>2. f[m] = Believe(v, p)
      BY <1>2
    <2>3. \A l \in 1 .. m : l \in 1 .. (m - 1) \/ l = m
      OBVIOUS
    <2> HIDE DEF v
    <2>4. CASE Believed(p)
      <3>1. f[m] = Append(v, Detected(p))
        BY <2>2, <2>4 DEF Believe
      <3>2. /\ Len(v) + 1 \in DOMAIN f[m] /\ f[m][Len(v) + 1] = Detected(p)
            /\ \A i \in DOMAIN v : i \in DOMAIN f[m] /\ f[m][i] = v[i]
        BY <2>1, <3>1
      <3>3. Listed(f[m], m)
        BY <2>1, <2>3, <3>2
      <3> QED
        BY <2>1, <3>3
    <2>5. CASE ~Believed(p)
      <3>1. f[m] = v
        BY <2>2, <2>5 DEF Believe
      <3>2. Listed(f[m], m)
        BY <2>1, <2>3, <2>5, <3>1
      <3> QED
        BY <2>1, <3>2
    <2> QED
      BY <2>4, <2>5
  <1>5. \A m \in 0 .. n : m \in G
    <2> HIDE DEF G
    <2> QED
      BY <1>1, <1>3, <1>4, SetInduction
  <1>6. n \in 0 .. n
    BY <1>1
  <1>7. Listed(Decoded(predictions), n) /\ Decoded(predictions) \in Seq(S)
    BY <1>2, <1>5, <1>6
  <1>8. \A d \in SeenInTile(predictions) :
            \E l \in 1 .. n : Believed(predictions[l]) /\ d = Detected(predictions[l])
    BY <1>1 DEF SeenInTile
  <1> QED
    BY <1>7, <1>8 DEF S

\* Where a detection lies in the frame.
LEMMA ShiftedType ==
  ASSUME NEW d \in Detection, NEW x \in Int
  PROVE  /\ Shifted(d, x) \in Detection
         /\ Shifted(d, x).id = d.id /\ Shifted(d, x).score = d.score
         /\ Shifted(d, x).xmin = d.xmin + x /\ Shifted(d, x).xmax = d.xmax + x
  <1>1. /\ d.id \in Int /\ d.score \in 0 .. 100
        /\ d.xmin + x \in Int /\ d.xmax + x \in Int
    BY DEF Detection
  <1>2. Shifted(d, x) = [id |-> d.id, score |-> d.score,
                         xmin |-> d.xmin + x, xmax |-> d.xmax + x]
    <2> DEFINE e == [d EXCEPT !.xmin = @ + x]
    <2>1. e = [id |-> d.id, score |-> d.score, xmin |-> d.xmin + x, xmax |-> d.xmax]
      BY DEF Detection
    <2>2. Shifted(d, x) = [e EXCEPT !.xmax = @ + x]
      BY DEF Shifted
    <2> HIDE DEF e
    <2> QED
      BY <2>1, <2>2
  <1> QED
    BY <1>1, <1>2 DEF Detection

\* What the model sees in the i-th tile, where it lies in the frame.
SeenAt(tiles, i, width) ==
    {Shifted(d, TileOffset(i - 1, width, ModelWidth)) :
        d \in SeenInTile(TilePredictions(tiles, i))}

\* What the model says of a tile.
LEMMA Predictions ==
  ASSUME NEW tiles \in Scene, NEW i
  PROVE  TilePredictions(tiles, i) \in Seq(Prediction)
  <1>1. tiles \in Seq(Seq(Prediction))
    BY DEF Scene
  <1>2. CASE i \in DOMAIN tiles
    BY <1>1, <1>2, ElementOf DEF TilePredictions
  <1>3. CASE i \notin DOMAIN tiles
    BY <1>3 DEF TilePredictions
  <1> QED
    BY <1>2, <1>3

\* A tile begins at a column.
LEMMA OffsetType ==
  ASSUME NEW width \in Nat, width >= ModelWidth, NEW i \in Nat \ {0}
  PROVE  TileOffset(i - 1, width, ModelWidth) \in 0 .. (width - ModelWidth)
  BY ChainAssumption, OffsetInside

\* What is inserted for a tile has been seen there, and something of the class,
\* no less certain and not empty, is inserted for everything seen.
LEMMA TileInserts ==
  ASSUME NEW tiles \in Scene, NEW width \in Nat, width >= ModelWidth, NEW i \in Nat \ {0}
  PROVE  /\ SeenAt(tiles, i, width) \subseteq Detection
         /\ TileDetections(tiles, i, width) \in Seq(SeenAt(tiles, i, width))
         /\ \A d \in SeenAt(tiles, i, width) : d.xmin < d.xmax =>
                \E k \in DOMAIN TileDetections(tiles, i, width) :
                    LET r == TileDetections(tiles, i, width)[k]
                    IN  r.id = d.id /\ r.score >= d.score /\ r.xmin < r.xmax
  <1> DEFINE P == TilePredictions(tiles, i)
             S == SeenInTile(P)
             x == TileOffset(i - 1, width, ModelWidth)
             found == Decoded(P)
             tile == Yolo5Nms(found)
             list == TileDetections(tiles, i, width)
  <1>1. P \in Seq(Prediction) /\ x \in Int
    BY Predictions, OffsetType, ChainAssumption
  <1>2. SeenAt(tiles, i, width) = {Shifted(d, x) : d \in S}
    BY DEF SeenAt
  <1>3. list = [k \in DOMAIN tile |-> Shifted(tile[k], x)]
    BY DEF TileDetections, Yolov8sPostProcess
  <1> HIDE DEF P, x, list
  <1>4. S \subseteq Detection /\ found \in Seq(S)
        /\ \A d \in S : \E l \in DOMAIN found : found[l] = d
    BY <1>1, SeenInTileType, DecodedSees
  <1> HIDE DEF S, found
  <1>5. tile \in Seq(S) /\ Merged(tile, found, Len(found))
    BY <1>4, NmsMerges
  <1> HIDE DEF tile
  <1>6. SeenAt(tiles, i, width) \subseteq Detection
    BY <1>1, <1>2, <1>4, ShiftedType
  <1>7. /\ Len(tile) \in Nat /\ DOMAIN tile = 1 .. Len(tile)
        /\ \A k \in DOMAIN tile : tile[k] \in S
    BY <1>5, ElementOf
  <1>8. list \in Seq(SeenAt(tiles, i, width)) /\ DOMAIN list = DOMAIN tile
    <2>1. \A k \in DOMAIN tile : Shifted(tile[k], x) \in SeenAt(tiles, i, width)
      BY <1>2, <1>7
    <2> QED
      BY <1>3, <1>7, <2>1
  <1>9. ASSUME NEW e \in SeenAt(tiles, i, width), e.xmin < e.xmax
        PROVE  \E k \in DOMAIN list :
                  /\ list[k].id = e.id /\ list[k].score >= e.score
                  /\ list[k].xmin < list[k].xmax
    <2>1. PICK d \in S : e = Shifted(d, x)
      BY <1>2
    <2>2. d \in Detection /\ e.id = d.id /\ e.score = d.score
          /\ e.xmin = d.xmin + x /\ e.xmax = d.xmax + x
      BY <1>1, <1>4, <2>1, ShiftedType
    <2>3. d.xmin < d.xmax
      <3>1. d.xmin \in Int /\ d.xmax \in Int
        BY <2>2 DEF Detection
      <3> QED
        BY <1>1, <1>9, <2>2, <3>1
    <2>4. PICK l \in DOMAIN found : found[l] = d
      BY <1>4
    <2>5. PICK k \in DOMAIN tile : StandsFor(tile[k], d)
      <3>1. l \in 1 .. Len(found)
        BY <1>4, ElementOf
      <3> QED
        BY <1>5, <2>4, <3>1 DEF Merged
    <2>6. tile[k] \in Detection
      BY <1>4, <1>7
    <2>7. tile[k].id = d.id /\ tile[k].score >= d.score /\ tile[k].xmin < tile[k].xmax
      BY <2>2, <2>3, <2>5, <2>6, StandIn
    <2>8. /\ list[k].id = tile[k].id /\ list[k].score = tile[k].score
          /\ list[k].xmin = tile[k].xmin + x /\ list[k].xmax = tile[k].xmax + x
      BY <1>1, <1>3, <2>6, ShiftedType
    <2>9. list[k].xmin < list[k].xmax
      <3>1. tile[k].xmin \in Int /\ tile[k].xmax \in Int
        BY <2>6 DEF Detection
      <3> QED
        BY <1>1, <2>7, <2>8, <3>1
    <2> QED
      BY <1>8, <2>2, <2>7, <2>8, <2>9
  <1> QED
    BY <1>6, <1>8, <1>9 DEF list

\* Concatenation, element by element.
LEMMA Joined ==
  ASSUME NEW D, NEW s \in Seq(D), NEW t \in Seq(D)
  PROVE  /\ s \o t \in Seq(D)
         /\ \A i \in DOMAIN s : i \in DOMAIN (s \o t) /\ (s \o t)[i] = s[i]
         /\ \A i \in DOMAIN t : /\ Len(s) + i \in DOMAIN (s \o t)
                                /\ (s \o t)[Len(s) + i] = t[i]
         /\ \A i \in DOMAIN (s \o t) : \/ \E k \in DOMAIN s : (s \o t)[i] = s[k]
                                       \/ \E k \in DOMAIN t : (s \o t)[i] = t[k]
  <1>1. /\ Len(s) \in Nat /\ DOMAIN s = 1 .. Len(s)
        /\ Len(t) \in Nat /\ DOMAIN t = 1 .. Len(t)
    OBVIOUS
  <1>2. /\ s \o t \in Seq(D) /\ Len(s \o t) = Len(s) + Len(t)
        /\ \A i \in 1 .. (Len(s) + Len(t)) :
            (s \o t)[i] = IF i <= Len(s) THEN s[i] ELSE t[i - Len(s)]
    OBVIOUS
  <1>3. DOMAIN (s \o t) = 1 .. (Len(s) + Len(t))
    BY <1>1, <1>2
  <1>4. ASSUME NEW i \in DOMAIN t
        PROVE  Len(s) + i \in DOMAIN (s \o t) /\ (s \o t)[Len(s) + i] = t[i]
    <2>1. Len(s) + i \in 1 .. (Len(s) + Len(t)) /\ ~(Len(s) + i <= Len(s))
          /\ (Len(s) + i) - Len(s) = i
      BY <1>1
    <2> QED
      BY <1>2, <1>3, <2>1
  <1>5. ASSUME NEW i \in DOMAIN (s \o t)
        PROVE  \/ \E k \in DOMAIN s : (s \o t)[i] = s[k]
               \/ \E k \in DOMAIN t : (s \o t)[i] = t[k]
    <2>1. i <= Len(s) => i \in DOMAIN s
      BY <1>1, <1>3
    <2>2. ~(i <= Len(s)) => i - Len(s) \in DOMAIN t
      BY <1>1, <1>3
    <2> QED
      BY <1>2, <1>3, <2>1, <2>2
  <1>6. ASSUME NEW i \in DOMAIN s
        PROVE  i \in DOMAIN (s \o t) /\ (s \o t)[i] = s[i]
    <2>1. i \in 1 .. (Len(s) + Len(t)) /\ i <= Len(s)
      BY <1>1
    <2> QED
      BY <1>2, <1>3, <2>1
  <1> QED
    BY <1>2, <1>4, <1>5, <1>6

\* Everything the model sees in a frame of n tiles.
SeenIn(tiles, n, width) == UNION {SeenAt(tiles, i, width) : i \in 1 .. n}

\* infer_gray8() goes through the tiles one by one.
LEMMA InsertedLoop ==
  ASSUME NEW tiles \in Scene, NEW width \in Nat, width >= ModelWidth,
         TilesAlong(width, ModelWidth) \in Nat
  PROVE  LET n == TilesAlong(width, ModelWidth)
         IN  \E f : /\ \A m \in 0 .. n : f[m] \in Seq(SeenIn(tiles, n, width))
                    /\ f[0] = <<>> /\ Inserted(tiles, width) = f[n]
                    /\ \A m \in 1 .. n :
                            f[m] = f[m - 1] \o TileDetections(tiles, m, width)
  <1> DEFINE n == TilesAlong(width, ModelWidth)
             V == Seq(SeenIn(tiles, n, width))
             next(v, m) == v \o TileDetections(tiles, m, width)
             step == [x \in V \X (1 .. n) |-> next(x[1], x[2])]
             Body(f) == [m \in 0 .. n |->
                            IF m = 0 THEN <<>>
                            ELSE next(f[m - 1], m)]
             k == CHOOSE f : f = Body(f)
  <1>1. step \in [V \X (1 .. n) -> V]
    <2> HIDE DEF n
    <2>1. ASSUME NEW v \in V, NEW m \in 1 .. n
          PROVE  next(v, m) \in V
      <3>1. SeenAt(tiles, m, width) \subseteq SeenIn(tiles, n, width)
        BY DEF SeenIn
      <3>2. TileDetections(tiles, m, width) \in Seq(SeenAt(tiles, m, width))
        BY TileInserts
      <3>3. TileDetections(tiles, m, width) \in V
        BY <3>1, <3>2
      <3> QED
        BY <3>3
    <2> QED
      BY <2>1
  <1>2. n \in Nat /\ <<>> \in V
    OBVIOUS
  <1>3. Inserted(tiles, width) = k[n]
    BY DEF Inserted
  <1>4. \A v \in V, m \in 1 .. n : step[<<v, m>>] = next(v, m)
    OBVIOUS
  <1> HIDE DEF step, V, n, next
  <1>5. PICK f \in [0 .. n -> V] : Loop(f, <<>>, step, n)
    BY <1>1, <1>2, LoopExists
  <1>6. f = Body(f)
    <2>1. \A m \in 1 .. n : f[m] = next(f[m - 1], m)
      <3>1. \A m \in 1 .. n : f[m - 1] \in V /\ f[m] = step[<<f[m - 1], m>>]
        BY <1>2, <1>5 DEF Loop
      <3> QED
        BY <1>4, <3>1
    <2> QED
      BY <1>2, <1>5, <2>1 DEF Loop
  <1> HIDE DEF Body
  <1>7. k = Body(k)
    BY <1>6
  <1> HIDE DEF k
  <1>8. /\ k[0] = <<>>
        /\ \A m \in 1 .. n : k[m] = next(k[m - 1], m)
    BY <1>2, <1>7 DEF Body
  <1>9. Follows(k, V, <<>>, step, n)
    BY <1>4, <1>8 DEF Follows
  <1>10. \A m \in 0 .. n : k[m] \in V
    BY <1>1, <1>2, <1>9, LoopValues
  <1> QED
    BY <1>3, <1>8, <1>10 DEF V, n, next

\* The detections inserted for a frame are those inserted for its tiles.
LEMMA InsertedTiles ==
  ASSUME NEW tiles \in Scene, NEW width \in Nat, width >= ModelWidth,
         TilesAlong(width, ModelWidth) \in Nat
  PROVE  LET n == TilesAlong(width, ModelWidth)
         IN  /\ Inserted(tiles, width) \in Seq(SeenIn(tiles, n, width))
             /\ \A i \in 1 .. n : \A l \in DOMAIN TileDetections(tiles, i, width) :
                    \E k \in DOMAIN Inserted(tiles, width) :
                        Inserted(tiles, width)[k] = TileDetections(tiles, i, width)[l]
  <1> DEFINE n == TilesAlong(width, ModelWidth)
             T(i) == TileDetections(tiles, i, width)
             S == SeenIn(tiles, n, width)
  <1>1. PICK f : /\ \A m \in 0 .. n : f[m] \in Seq(S)
                 /\ f[0] = <<>> /\ Inserted(tiles, width) = f[n]
                 /\ \A m \in 1 .. n : f[m] = f[m - 1] \o T(m)
    BY InsertedLoop
  <1>2. \A i \in 1 .. n : T(i) \in Seq(S)
    <2> HIDE DEF n
    <2> TAKE i \in 1 .. n
    <2>1. SeenAt(tiles, i, width) \subseteq S
      BY DEF SeenIn
    <2>2. T(i) \in Seq(SeenAt(tiles, i, width))
      BY TileInserts
    <2> QED
      BY <2>1, <2>2
  <1>3. n \in Nat
    OBVIOUS
  <1> HIDE DEF n, T, S
  <1> DEFINE Listed(v, m) == \A i \in 1 .. m : \A l \in DOMAIN T(i) :
                                \E k \in DOMAIN v : v[k] = T(i)[l]
             G == {m \in 0 .. n : Listed(f[m], m)}
  <1>4. 0 \in G
    <2>1. 0 \in 0 .. n /\ ~\E l : l \in 1 .. 0
      BY <1>3
    <2> QED
      BY <2>1
  <1>5. ASSUME NEW m \in 1 .. n, m - 1 \in G PROVE m \in G
    <2> DEFINE v == f[m - 1]
               w == f[m]
    <2>1. v \in Seq(S) /\ T(m) \in Seq(S) /\ w = v \o T(m) /\ m \in 0 .. n
      BY <1>1, <1>2, <1>3
    <2>2. Listed(v, m - 1)
      BY <1>5
    <2> HIDE DEF v, w
    <2>3. ASSUME NEW i \in 1 .. m, NEW l \in DOMAIN T(i)
          PROVE  \E k \in DOMAIN w : w[k] = T(i)[l]
      <3>1. CASE i = m
        <4>1. \A k \in DOMAIN T(m) : Len(v) + k \in DOMAIN w /\ w[Len(v) + k] = T(m)[k]
          BY <2>1, Joined
        <4> QED
          BY <3>1, <4>1
      <3>2. CASE i \in 1 .. (m - 1)
        <4>1. PICK k \in DOMAIN v : v[k] = T(i)[l]
          BY <2>2, <3>2
        <4> QED
          BY <2>1, <4>1, Joined
      <3> QED
        BY <3>1, <3>2
    <2>4. Listed(w, m)
      BY <2>3
    <2> QED
      BY <2>1, <2>4 DEF w
  <1>6. \A m \in 0 .. n : m \in G
    <2> HIDE DEF G
    <2> QED
      BY <1>3, <1>4, <1>5, SetInduction
  <1>7. n \in 0 .. n
    BY <1>3
  <1>8. Listed(f[n], n) /\ f[n] \in Seq(S)
    BY <1>1, <1>6, <1>7
  <1> QED
    BY <1>1, <1>8 DEF n, T, S

\* A detection of the frame, not wider than the frame.
Visible(width) == {d \in Detection : 0 <= d.xmin /\ d.xmin <= d.xmax /\ d.xmax < width}

\* infer_gray8(): what it answers has been seen, no object twice, and for all
\* that has been seen something of the class that is no less certain.
LEMMA InferMerges ==
  ASSUME NEW tiles \in Scene, NEW width \in Nat, width >= ModelWidth
  PROVE  LET seen == SeenIn(tiles, TilesAlong(width, ModelWidth), width)
             found == Infer_gray8(tiles, width)
         IN  /\ seen \subseteq Visible(width)
             /\ found \in Seq(seen)
             /\ \A i, j \in DOMAIN found : i # j => ~SameObject(found[i], found[j])
             /\ \A d \in seen : d.xmin < d.xmax =>
                    \E i \in DOMAIN found :
                        /\ found[i].id = d.id /\ found[i].score >= d.score
                        /\ found[i].xmin < found[i].xmax
  <1> DEFINE n == TilesAlong(width, ModelWidth)
             seen == SeenIn(tiles, n, width)
             inserted == Inserted(tiles, width)
             found == Infer_gray8(tiles, width)
  <1>1. n \in Nat \ {0}
    <2>1. ModelWidth \in Nat \ {0} /\ 0 \in 0 .. (width - 1)
      BY ChainAssumption
    <2> QED
      BY <2>1, SideCovered
  <1>2. /\ inserted \in Seq(seen)
        /\ \A i \in 1 .. n : \A l \in DOMAIN TileDetections(tiles, i, width) :
                \E k \in DOMAIN inserted : inserted[k] = TileDetections(tiles, i, width)[l]
    BY <1>1, InsertedTiles
  <1> HIDE DEF n, inserted
  <1>3. \A e \in seen : \E i \in 1 .. n : e \in SeenAt(tiles, i, width)
    BY DEF SeenIn
  <1>4. ASSUME NEW e \in seen PROVE e \in Visible(width)
    <2>1. PICK i \in 1 .. n : e \in SeenAt(tiles, i, width)
      BY <1>3
    <2> DEFINE x == TileOffset(i - 1, width, ModelWidth)
    <2>2. PICK d \in SeenInTile(TilePredictions(tiles, i)) : e = Shifted(d, x)
      BY <2>1 DEF SeenAt
    <2>3. x \in 0 .. (width - ModelWidth) /\ x \in Int /\ ModelWidth \in Nat \ {0}
      <3>1. i \in Nat \ {0}
        BY <1>1
      <3>2. x \in 0 .. (width - ModelWidth)
        BY <3>1, OffsetType
      <3> HIDE DEF x
      <3> QED
        BY <3>2, ChainAssumption
    <2> HIDE DEF x
    <2>4. /\ d \in Detection
          /\ 0 <= d.xmin /\ d.xmin <= d.xmax /\ d.xmax <= ModelWidth - 1
      <3>1. \A k \in DOMAIN TilePredictions(tiles, i) :
                TilePredictions(tiles, i)[k] \in Prediction
        BY Predictions, ElementOf
      <3> QED
        BY <2>2, <3>1, DetectedInside DEF SeenInTile
    <2>5. e \in Detection /\ e.xmin = d.xmin + x /\ e.xmax = d.xmax + x
      BY <2>2, <2>3, <2>4, ShiftedType
    <2>6. d.xmin \in Int /\ d.xmax \in Int
      BY <2>4 DEF Detection
    <2>7. 0 <= e.xmin /\ e.xmin <= e.xmax /\ e.xmax < width
      BY <2>3, <2>4, <2>5, <2>6
    <2> QED
      BY <2>5, <2>7 DEF Visible
  <1>5. seen \subseteq Detection /\ seen \subseteq Visible(width)
    BY <1>4 DEF Visible
  <1> HIDE DEF seen
  <1>6. found \in Seq(seen) /\ Merged(found, inserted, Len(inserted))
    BY <1>2, <1>5, NmsMerges DEF Infer_gray8, inserted
  <1> HIDE DEF found
  <1>7. ASSUME NEW d \in seen, d.xmin < d.xmax
        PROVE  \E i \in DOMAIN found :
                    /\ found[i].id = d.id /\ found[i].score >= d.score
                    /\ found[i].xmin < found[i].xmax
    <2>1. PICK i \in 1 .. n : d \in SeenAt(tiles, i, width)
      BY <1>3
    <2>2. PICK l \in DOMAIN TileDetections(tiles, i, width) :
            LET r == TileDetections(tiles, i, width)[l]
            IN  r.id = d.id /\ r.score >= d.score /\ r.xmin < r.xmax
      <3>1. i \in Nat \ {0}
        BY <1>1
      <3> QED
        BY <1>7, <2>1, <3>1, TileInserts
    <2>3. PICK k \in DOMAIN inserted : inserted[k] = TileDetections(tiles, i, width)[l]
      BY <1>2
    <2>4. /\ inserted[k].id = d.id /\ inserted[k].score >= d.score
          /\ inserted[k].xmin < inserted[k].xmax
      BY <2>2, <2>3
    <2>5. inserted[k] \in Detection /\ k \in 1 .. Len(inserted)
      BY <1>2, <1>5, ElementOf
    <2>6. PICK j \in DOMAIN found : StandsFor(found[j], inserted[k])
      BY <1>6, <2>5 DEF Merged
    <2>7. found[j] \in Detection
      BY <1>5, <1>6, ElementOf
    <2>8. /\ found[j].id = inserted[k].id /\ found[j].score >= inserted[k].score
          /\ found[j].xmin < found[j].xmax
      BY <2>4, <2>5, <2>6, <2>7, StandIn
    <2>9. found[j].score \in 0 .. 100 /\ inserted[k].score \in 0 .. 100 /\ d.score \in 0 .. 100
      BY <1>5, <2>5, <2>7 DEF Detection
    <2>10. found[j].score >= d.score
      <3>1. \A a, b, c \in 0 .. 100 : a >= b /\ b >= c => a >= c
        OBVIOUS
      <3> QED
        BY <2>4, <2>8, <2>9, <3>1, Zenon
    <2> QED
      BY <2>4, <2>8, <2>10
  <1> QED
    BY <1>5, <1>6, <1>7 DEF Merged, seen, found, n

-----------------------------------------------------------------------------
(* From the detections of a frame to its targets *)

\* The targets after every detection.
Targets(found, g) ==
    {TargetOf(found[l], g) : l \in {l \in DOMAIN found : Reportable(found[l], g)}}

\* transform_ip() goes through the detections one by one.
LEMMA TargetsLoop ==
  ASSUME NEW D, NEW found \in Seq(D), NEW g
  PROVE  \E f : /\ \A m \in 0 .. Len(found) : f[m] \in Seq(Targets(found, g))
                /\ f[0] = <<>> /\ LynxiTargets(found, g) = f[Len(found)]
                /\ \A m \in 1 .. Len(found) : f[m] = Report(f[m - 1], found[m], g)
  <1> DEFINE n == Len(found)
             V == Seq(Targets(found, g))
             step == [x \in V \X (1 .. n) |-> Report(x[1], found[x[2]], g)]
             Body(f) == [m \in 0 .. n |->
                            IF m = 0 THEN <<>> ELSE Report(f[m - 1], found[m], g)]
             k == CHOOSE f : f = Body(f)
  <1>1. step \in [V \X (1 .. n) -> V]
    <2>1. ASSUME NEW v \in V, NEW m \in 1 .. n PROVE Report(v, found[m], g) \in V
      <3>1. m \in DOMAIN found
        BY ElementOf
      <3>2. Reportable(found[m], g) => TargetOf(found[m], g) \in Targets(found, g)
        BY <3>1 DEF Targets
      <3> QED
        BY <3>2 DEF Report
    <2> QED
      BY <2>1
  <1>2. n \in Nat /\ <<>> \in V
    OBVIOUS
  <1>3. LynxiTargets(found, g) = k[n]
    BY DEF LynxiTargets
  <1>4. \A v \in V, m \in 1 .. n : step[<<v, m>>] = Report(v, found[m], g)
    OBVIOUS
  <1> HIDE DEF step, V, n
  <1>5. PICK f \in [0 .. n -> V] : Loop(f, <<>>, step, n)
    BY <1>1, <1>2, LoopExists
  <1>6. f = Body(f)
    <2>1. \A m \in 1 .. n : f[m] = Report(f[m - 1], found[m], g)
      BY <1>2, <1>4, <1>5 DEF Loop
    <2> QED
      BY <1>2, <1>5, <2>1 DEF Loop
  <1> HIDE DEF Body
  <1>7. k = Body(k)
    BY <1>6
  <1> HIDE DEF k
  <1>8. k[0] = <<>> /\ \A m \in 1 .. n : k[m] = Report(k[m - 1], found[m], g)
    BY <1>2, <1>7 DEF Body
  <1>9. Follows(k, V, <<>>, step, n)
    BY <1>4, <1>8 DEF Follows
  <1>10. \A m \in 0 .. n : k[m] \in V
    BY <1>1, <1>2, <1>9, LoopValues
  <1> QED
    BY <1>3, <1>8, <1>10 DEF V, n

\* What the list of targets holds once m detections have been looked at.
Reported(v, found, g, m) ==
    /\ Len(v) <= MaxTargets
    /\ \A i \in DOMAIN v : \E a \in 1 .. m :
            Reportable(found[a], g) /\ v[i] = TargetOf(found[a], g)
    /\ \A i, j \in DOMAIN v : i # j =>
            \E a, b \in 1 .. m : /\ a # b
                                 /\ v[i] = TargetOf(found[a], g)
                                 /\ v[j] = TargetOf(found[b], g)
    /\ Len(v) < MaxTargets =>
            \A a \in 1 .. m : Reportable(found[a], g) =>
                \E i \in DOMAIN v : v[i] = TargetOf(found[a], g)

\* A round keeps what has been reported so far true.
LEMMA ReportKeeps ==
  ASSUME NEW found, NEW g, NEW m \in Nat \ {0}, NEW R, NEW v \in Seq(R),
         Reported(v, found, g, m - 1)
  PROVE  Reported(Report(v, found[m], g), found, g, m)
  <1> DEFINE d == found[m]
             w == Report(v, d, g)
  <1>1. \A l : l \in 1 .. m <=> (l \in 1 .. (m - 1) \/ l = m)
    OBVIOUS
  <1>2. Len(v) \in Nat /\ DOMAIN v = 1 .. Len(v) /\ MaxTargets \in Nat
    BY ChainAssumption
  <1>3. CASE Len(v) < MaxTargets /\ Reportable(d, g)
    <2> DEFINE t == TargetOf(d, g)
    <2>1. w = Append(v, t)
      BY <1>3 DEF Report
    <2>2. /\ DOMAIN w = 1 .. (Len(v) + 1) /\ w[Len(v) + 1] = t /\ Len(w) = Len(v) + 1
          /\ \A i \in 1 .. Len(v) : w[i] = v[i]
      <3> HIDE DEF w, t
      <3>1. v \in Seq(R \cup {t}) /\ t \in R \cup {t}
        OBVIOUS
      <3> QED
        BY <1>2, <2>1, <3>1
    <2> HIDE DEF w, t
    <2>3. \A i \in DOMAIN w : i \in DOMAIN v \/ i = Len(v) + 1
      BY <1>2, <2>2
    <2>4. \A i \in DOMAIN v : i \in DOMAIN w /\ w[i] = v[i]
      BY <1>2, <2>2
    <2>5. ASSUME NEW i \in DOMAIN w
          PROVE  \E a \in 1 .. m : Reportable(found[a], g) /\ w[i] = TargetOf(found[a], g)
      <3>1. CASE i \in DOMAIN v
        BY <1>1, <2>4, <3>1 DEF Reported
      <3>2. CASE i = Len(v) + 1
        BY <1>3, <2>2, <3>2 DEF t
      <3> QED
        BY <2>3, <3>1, <3>2
    <2>6. ASSUME NEW i \in DOMAIN w, NEW j \in DOMAIN w, i # j
          PROVE  \E a, b \in 1 .. m : /\ a # b
                                      /\ w[i] = TargetOf(found[a], g)
                                      /\ w[j] = TargetOf(found[b], g)
      <3>1. CASE i \in DOMAIN v /\ j \in DOMAIN v
        BY <1>1, <2>4, <2>6, <3>1 DEF Reported
      <3>2. CASE i \in DOMAIN v /\ j = Len(v) + 1
        <4>1. PICK a \in 1 .. (m - 1) : v[i] = TargetOf(found[a], g)
          BY <3>2 DEF Reported
        <4>2. a # m /\ m \in 1 .. m /\ a \in 1 .. m
          OBVIOUS
        <4> QED
          BY <2>2, <2>4, <3>2, <4>1, <4>2 DEF t
      <3>3. CASE i = Len(v) + 1 /\ j \in DOMAIN v
        <4>1. PICK b \in 1 .. (m - 1) : v[j] = TargetOf(found[b], g)
          BY <3>3 DEF Reported
        <4>2. b # m /\ m \in 1 .. m /\ b \in 1 .. m
          OBVIOUS
        <4> QED
          BY <2>2, <2>4, <3>3, <4>1, <4>2 DEF t
      <3> QED
        BY <2>3, <2>6, <3>1, <3>2, <3>3
    <2>7. ASSUME NEW a \in 1 .. m, Reportable(found[a], g)
          PROVE  \E i \in DOMAIN w : w[i] = TargetOf(found[a], g)
      <3>1. CASE a \in 1 .. (m - 1)
        BY <1>3, <2>4, <2>7, <3>1 DEF Reported
      <3>2. CASE a = m
        <4>1. Len(v) + 1 \in DOMAIN w
          BY <1>2, <2>2
        <4> QED
          BY <2>2, <3>2, <4>1 DEF t
      <3> QED
        BY <1>1, <3>1, <3>2
    <2>8. Len(w) <= MaxTargets
      BY <1>2, <1>3, <2>2
    <2> QED
      BY <2>5, <2>6, <2>7, <2>8 DEF Reported, w
  <1>4. CASE ~(Len(v) < MaxTargets /\ Reportable(d, g))
    <2>1. w = v
      BY <1>4 DEF Report
    <2>2. ASSUME Len(v) < MaxTargets, NEW a \in 1 .. m, Reportable(found[a], g)
          PROVE  \E i \in DOMAIN v : v[i] = TargetOf(found[a], g)
      <3>1. a \in 1 .. (m - 1)
        BY <1>1, <1>4, <2>2
      <3> QED
        BY <2>2, <3>1 DEF Reported
    <2>3. \A a \in 1 .. (m - 1) : a \in 1 .. m
      BY <1>1
    <2> HIDE DEF w
    <2>4. Reported(v, found, g, m)
      BY <2>2, <2>3 DEF Reported
    <2> QED
      BY <2>1, <2>4 DEF w
  <1> QED
    BY <1>3, <1>4

\* The targets are those of the first detections that can be reported.
LEMMA TargetsReported ==
  ASSUME NEW D, NEW found \in Seq(D), NEW g
  PROVE  /\ LynxiTargets(found, g) \in Seq(Targets(found, g))
         /\ Reported(LynxiTargets(found, g), found, g, Len(found))
  <1> DEFINE n == Len(found)
             V == Seq(Targets(found, g))
  <1>1. PICK f : /\ \A m \in 0 .. n : f[m] \in V
                 /\ f[0] = <<>> /\ LynxiTargets(found, g) = f[n]
                 /\ \A m \in 1 .. n : f[m] = Report(f[m - 1], found[m], g)
    BY TargetsLoop
  <1>2. n \in Nat /\ n \in 0 .. n
    OBVIOUS
  <1> HIDE DEF n
  <1> DEFINE G == {m \in 0 .. n : Reported(f[m], found, g, m)}
  <1>3. 0 \in G
    <2>1. 0 \in 0 .. n /\ Len(<<>>) = 0 /\ DOMAIN <<>> = {} /\ MaxTargets \in Nat
          /\ ~\E l : l \in 1 .. 0
      BY <1>2, ChainAssumption
    <2>2. Reported(<<>>, found, g, 0)
      BY <2>1 DEF Reported
    <2> QED
      BY <1>1, <2>1, <2>2
  <1>4. ASSUME NEW m \in 1 .. n, m - 1 \in G PROVE m \in G
    <2>1. f[m - 1] \in V /\ m \in 0 .. n /\ m \in Nat \ {0}
      BY <1>1, <1>2
    <2>2. Reported(f[m - 1], found, g, m - 1)
      BY <1>4
    <2>3. Reported(Report(f[m - 1], found[m], g), found, g, m)
      BY <2>1, <2>2, ReportKeeps
    <2> QED
      BY <1>1, <2>1, <2>3
  <1>5. \A m \in 0 .. n : m \in G
    <2> HIDE DEF G
    <2> QED
      BY <1>2, <1>3, <1>4, SetInduction
  <1>6. Reported(f[n], found, g, n) /\ f[n] \in V
    BY <1>1, <1>2, <1>5
  <1> QED
    BY <1>1, <1>6 DEF n

\* A target that is reported keeps inside the plane of the filter.
LEMMA ClampedBox ==
  ASSUME NEW d \in Detection, NEW g, g.filter \in Int, Reportable(d, g)
  PROVE  /\ ValidBox(TargetOf(d, g))
         /\ TargetOf(d, g).min \in Int /\ TargetOf(d, g).max \in Int
         /\ 0 <= TargetOf(d, g).min /\ TargetOf(d, g).max <= g.filter
  <1>1. d.xmin \in Int /\ d.xmax \in Int
    BY DEF Detection
  <1> DEFINE low == Greater(0, Lesser(d.xmin, d.xmax))
             high == Lesser(g.filter, Greater(d.xmin, d.xmax))
  <1>2. low \in Int /\ high \in Int /\ 0 <= low /\ high <= g.filter
    BY <1>1 DEF Greater, Lesser
  <1>3. TargetOf(d, g).min = low /\ TargetOf(d, g).max = high /\ low < high
    BY DEF Reportable, TargetOf, Clamp_bbox, ValidBox
  <1> QED
    BY <1>2, <1>3 DEF ValidBox

\* The box of a detection inside the plane is reported as it is.
LEMMA VisibleTarget ==
  ASSUME NEW width \in Nat, NEW d \in Visible(width), NEW g, g.filter = width
  PROVE  /\ AsDetection(TargetOf(d, g)) = d
         /\ Reportable(d, g) <=> (d.id >= 0 /\ d.xmin < d.xmax)
  <1>1. /\ d \in Detection /\ d.xmin \in Int /\ d.xmax \in Int /\ d.score \in 0 .. 100
        /\ 0 <= d.xmin /\ d.xmin <= d.xmax /\ d.xmax < width
    BY DEF Visible, Detection
  <1>2. Clamp_bbox(d, g) = [min |-> d.xmin, max |-> d.xmax]
    <2>1. /\ Greater(0, Lesser(d.xmin, d.xmax)) = d.xmin
          /\ Lesser(g.filter, Greater(d.xmin, d.xmax)) = d.xmax
      BY <1>1 DEF Greater, Lesser
    <2> QED
      BY <2>1 DEF Clamp_bbox
  <1>3. AsDetection(TargetOf(d, g)) =
            [id |-> d.id, score |-> d.score, xmin |-> d.xmin, xmax |-> d.xmax]
    BY <1>2 DEF AsDetection, TargetOf
  <1> QED
    BY <1>1, <1>2, <1>3 DEF Detection, Reportable, ValidBox

\* What is seen anywhere in the frame.
LEMMA SeenInFrame ==
  ASSUME NEW width
  PROVE  Seen_in(width) = SeenIn(scene, TilesAlong(width, ModelWidth), width)
  <1>1. \A i : SeenAt(scene, i, width) =
            LET predictions == TilePredictions(scene, i)
            IN  {Shifted(Detected(predictions[k]), TileOffset(i - 1, width, ModelWidth)) :
                    k \in {k \in DOMAIN predictions : Believed(predictions[k])}}
    BY DEF SeenAt, SeenInTile
  <1> QED
    BY <1>1 DEF Seen_in, SeenIn

\* The targets the Lynxi element reports of a frame of its width: valid boxes
\* inside the plane, no object twice, all of it seen, and nothing of what is
\* seen suppressed for a weaker detection.
LEMMA ReportedOnce ==
  ASSUME scene \in Scene, NEW width \in Nat, width >= ModelWidth,
         NEW g, g.filter = width
  PROVE  LET targets == LynxiTargets(Infer_gray8(scene, width), g)
             reported == {AsDetection(targets[i]) : i \in DOMAIN targets}
             visible == {d \in Seen_in(width) : d.id >= 0 /\ d.xmin < d.xmax}
         IN  /\ Len(targets) \in Nat /\ Len(targets) <= MaxTargets
             /\ \A i \in DOMAIN targets :
                    /\ ValidBox(targets[i])
                    /\ targets[i].min \in Int /\ targets[i].max \in Int
                    /\ 0 <= targets[i].min /\ targets[i].max <= width
             /\ \A i, j \in DOMAIN targets : i # j =>
                    ~SameObject(AsDetection(targets[i]), AsDetection(targets[j]))
             /\ reported \subseteq visible
             /\ Len(targets) < MaxTargets =>
                    \A d \in visible : \E r \in reported : r.id = d.id /\ r.score >= d.score
  <1> DEFINE seen == SeenIn(scene, TilesAlong(width, ModelWidth), width)
             found == Infer_gray8(scene, width)
             n == Len(found)
             targets == LynxiTargets(found, g)
             reported == {AsDetection(targets[i]) : i \in DOMAIN targets}
             visible == {d \in Seen_in(width) : d.id >= 0 /\ d.xmin < d.xmax}
  <1>1. /\ seen \subseteq Visible(width) /\ found \in Seq(seen)
        /\ \A i, j \in DOMAIN found : i # j => ~SameObject(found[i], found[j])
        /\ \A d \in seen : d.xmin < d.xmax =>
                \E i \in DOMAIN found :
                    /\ found[i].id = d.id /\ found[i].score >= d.score
                    /\ found[i].xmin < found[i].xmax
    BY InferMerges
  <1>2. visible = {d \in seen : d.id >= 0 /\ d.xmin < d.xmax}
    BY SeenInFrame
  <1> HIDE DEF seen, found, visible
  <1>3. /\ targets \in Seq(Targets(found, g))
        /\ Reported(targets, found, g, n)
    BY <1>1, TargetsReported
  <1> HIDE DEF targets
  <1>4. n \in Nat /\ DOMAIN found = 1 .. n /\ \A a \in 1 .. n : found[a] \in seen
    BY <1>1, ElementOf
  <1>5. \A a \in 1 .. n :
            /\ found[a] \in Detection /\ found[a] \in Visible(width)
            /\ AsDetection(TargetOf(found[a], g)) = found[a]
            /\ Reportable(found[a], g) <=> (found[a].id >= 0 /\ found[a].xmin < found[a].xmax)
    <2>1. \A a \in 1 .. n : found[a] \in Visible(width)
      BY <1>1, <1>4
    <2>2. \A a \in 1 .. n : found[a] \in Detection
      BY <2>1 DEF Visible
    <2> QED
      BY <2>1, <2>2, VisibleTarget
  <1> HIDE DEF n
  <1>6. ASSUME NEW i \in DOMAIN targets
        PROVE  /\ ValidBox(targets[i])
               /\ targets[i].min \in Int /\ targets[i].max \in Int
               /\ 0 <= targets[i].min /\ targets[i].max <= width
               /\ AsDetection(targets[i]) \in visible
    <2>1. PICK a \in 1 .. n : Reportable(found[a], g) /\ targets[i] = TargetOf(found[a], g)
      BY <1>3 DEF Reported
    <2>2. found[a] \in Detection /\ g.filter \in Int
      BY <1>5
    <2>3. AsDetection(targets[i]) \in visible
      BY <1>2, <1>4, <1>5, <2>1
    <2> QED
      BY <2>1, <2>2, <2>3, ClampedBox
  <1>7. ASSUME NEW i \in DOMAIN targets, NEW j \in DOMAIN targets, i # j
        PROVE  ~SameObject(AsDetection(targets[i]), AsDetection(targets[j]))
    <2>1. PICK a \in 1 .. n, b \in 1 .. n : /\ a # b
                                          /\ targets[i] = TargetOf(found[a], g)
                                          /\ targets[j] = TargetOf(found[b], g)
      BY <1>3, <1>7 DEF Reported
    <2>2. AsDetection(targets[i]) = found[a] /\ AsDetection(targets[j]) = found[b]
      BY <1>5, <2>1
    <2> QED
      BY <1>1, <1>4, <2>1, <2>2
  <1>8. ASSUME Len(targets) < MaxTargets, NEW d \in visible
        PROVE  \E r \in reported : r.id = d.id /\ r.score >= d.score
    <2>1. d \in seen /\ d.id >= 0 /\ d.xmin < d.xmax
      BY <1>2
    <2>2. PICK a \in DOMAIN found : /\ found[a].id = d.id /\ found[a].score >= d.score
                                    /\ found[a].xmin < found[a].xmax
      BY <1>1, <2>1
    <2>3. a \in 1 .. n /\ Reportable(found[a], g)
      BY <1>4, <1>5, <2>1, <2>2
    <2>4. PICK i \in DOMAIN targets : targets[i] = TargetOf(found[a], g)
      BY <1>3, <1>8, <2>3 DEF Reported
    <2>5. AsDetection(targets[i]) = found[a] /\ AsDetection(targets[i]) \in reported
      BY <1>5, <2>3, <2>4
    <2> QED
      BY <2>2, <2>5
  <1>9. Len(targets) \in Nat /\ Len(targets) <= MaxTargets
    BY <1>3 DEF Reported
  <1> QED
    BY <1>6, <1>7, <1>8, <1>9 DEF targets, found, visible

-----------------------------------------------------------------------------
(* The metadata of a frame *)

\* An entry of the metadata of a buffer.
Meta(info, value) == [info |-> info, value |-> value]

\* What stands once in the list of the metadata is what a get function answers.
LEMMA GetOnly ==
  ASSUME NEW metas, NEW n \in Nat, DOMAIN metas = 1 .. n, NEW i \in 1 .. n,
         \A j \in 1 .. n : j # i => metas[j].info # metas[i].info
  PROVE  Get(metas, metas[i].info) = metas[i].value
  <1> DEFINE info == metas[i].info
             P(c) == metas[c].info = info /\ \A j \in 1 .. (c - 1) : metas[j].info # info
  <1>1. P(i)
    OBVIOUS
  <1>2. \A c \in 1 .. n : P(c) => c = i
    OBVIOUS
  <1>3. Get(metas, info) = metas[CHOOSE c \in 1 .. n : P(c)].value
    BY DEF Get
  <1> HIDE DEF P
  <1>4. (CHOOSE c \in 1 .. n : P(c)) = i
    BY <1>1, <1>2
  <1> QED
    BY <1>3, <1>4

\* The list of a frame behind the source, the geometry and the filter.
LEMMA OneMeta ==
  ASSUME NEW a, NEW m, m = Meta(a, m.value)
  PROVE  /\ Get(<<m>>, a) = m.value
         /\ \A info : Has(<<m>>, info) <=> info = a
  <1> DEFINE metas == <<m>>
  <1>1. DOMAIN metas = 1 .. 1 /\ metas[1] = m /\ m.info = a /\ 1 \in 1 .. 1
        /\ \A j \in 1 .. 1 : j = 1
    BY DEF Meta
  <1> HIDE DEF metas
  <1>2. Get(metas, metas[1].info) = metas[1].value
    BY <1>1, GetOnly
  <1>3. \A info : Has(metas, info) <=> info = a
    BY <1>1 DEF Has
  <1> QED
    BY <1>1, <1>2, <1>3 DEF metas

LEMMA TwoMetas ==
  ASSUME NEW a, NEW m, m = Meta(a, m.value), NEW b, NEW g, g = Meta(b, g.value), a # b
  PROVE  /\ Get(<<m, g>>, a) = m.value /\ Get(<<m, g>>, b) = g.value
         /\ \A info : Has(<<m, g>>, info) <=> info \in {a, b}
  <1> DEFINE metas == <<m, g>>
  <1>1. /\ DOMAIN metas = 1 .. 2 /\ metas[1] = m /\ metas[2] = g
        /\ m.info = a /\ g.info = b /\ 1 \in 1 .. 2 /\ 2 \in 1 .. 2
        /\ \A j \in 1 .. 2 : j = 1 \/ j = 2
    BY DEF Meta
  <1> HIDE DEF metas
  <1>2. Get(metas, metas[1].info) = metas[1].value
    <2>1. \A j \in 1 .. 2 : j # 1 => metas[j].info # metas[1].info
      BY <1>1
    <2> QED
      BY <1>1, <2>1, GetOnly
  <1>3. Get(metas, metas[2].info) = metas[2].value
    <2>1. \A j \in 1 .. 2 : j # 2 => metas[j].info # metas[2].info
      BY <1>1
    <2> QED
      BY <1>1, <2>1, GetOnly
  <1>4. \A info : Has(metas, info) <=> info \in {a, b}
    BY <1>1 DEF Has
  <1> QED
    BY <1>1, <1>2, <1>3, <1>4 DEF metas

LEMMA ThreeMetas ==
  ASSUME NEW a, NEW m, m = Meta(a, m.value), NEW b, NEW g, g = Meta(b, g.value),
         NEW c, NEW r, r = Meta(c, r.value), a # b, a # c, b # c
  PROVE  /\ Get(<<m, g, r>>, a) = m.value /\ Get(<<m, g, r>>, b) = g.value
         /\ Get(<<m, g, r>>, c) = r.value
         /\ \A info : Has(<<m, g, r>>, info) <=> info \in {a, b, c}
  <1> DEFINE metas == <<m, g, r>>
  <1>1. /\ DOMAIN metas = 1 .. 3 /\ metas[1] = m /\ metas[2] = g /\ metas[3] = r
        /\ m.info = a /\ g.info = b /\ r.info = c
        /\ 1 \in 1 .. 3 /\ 2 \in 1 .. 3 /\ 3 \in 1 .. 3
        /\ \A j \in 1 .. 3 : j = 1 \/ j = 2 \/ j = 3
    BY DEF Meta
  <1> HIDE DEF metas
  <1>2. Get(metas, metas[1].info) = metas[1].value
    <2>1. \A j \in 1 .. 3 : j # 1 => metas[j].info # metas[1].info
      BY <1>1
    <2> QED
      BY <1>1, <2>1, GetOnly
  <1>3. Get(metas, metas[2].info) = metas[2].value
    <2>1. \A j \in 1 .. 3 : j # 2 => metas[j].info # metas[2].info
      BY <1>1
    <2> QED
      BY <1>1, <2>1, GetOnly
  <1>4. Get(metas, metas[3].info) = metas[3].value
    <2>1. \A j \in 1 .. 3 : j # 3 => metas[j].info # metas[3].info
      BY <1>1
    <2> QED
      BY <1>1, <2>1, GetOnly
  <1>5. \A info : Has(metas, info) <=> info \in {a, b, c}
    BY <1>1 DEF Has
  <1> QED
    BY <1>1, <1>2, <1>3, <1>4, <1>5 DEF metas

\* The metadata of a source survives the copy of its buffer.
LEMMA CopyOfOne ==
  ASSUME NEW m, CanAdd(<<>>, m.info, m.value)
  PROVE  CopyOf(<<m>>) = <<m>>
  <1> DEFINE Body(f) == [n \in 0 .. Len(<<m>>) |->
                            IF n = 0 THEN <<>> ELSE CopyMeta(f[n - 1], <<m>>[n])]
             k == CHOOSE f : f = Body(f)
             f == [n \in 0 .. 1 |-> IF n = 0 THEN <<>> ELSE <<m>>]
  <1>1. CopyMeta(<<>>, m) = <<m>>
    BY DEF CopyMeta
  <1>2. f = Body(f)
    BY <1>1
  <1>3. CopyOf(<<m>>) = k[Len(<<m>>)] /\ Len(<<m>>) = 1
    BY DEF CopyOf
  <1> HIDE DEF Body
  <1>4. k = Body(k)
    BY <1>2
  <1> HIDE DEF k
  <1>5. k[0] = <<>> /\ k[1] = CopyMeta(k[0], m)
    BY <1>4 DEF Body
  <1> QED
    BY <1>1, <1>3, <1>5

-----------------------------------------------------------------------------
(* What a frame carries on its way *)

\* The columns the geometry leaves.
Columns ==
    IF In_place THEN [x \in 0 .. (OriginalWidth - 1) |-> x]
    ELSE [x \in 0 .. (FilterWidth - 1) |-> SourceColumn(x)]

\* What a source says of a window.
SourceMeta(w) ==
    IF profile.source = "line"
    THEN Meta("cdg00", [start |-> w.window_start, end |-> w.window_end])
    ELSE Meta("area_frame", w.window_start)

\* What the filter reports of every frame of the run.
TargetsOf ==
    IF profile.filter = "lynxi"
    THEN LynxiTargets(Infer_gray8(scene, FilterWidth), Geometry) ELSE MockTargets

\* A frame behind the source, the geometry and the filter.
Plain(b) ==
    b = [window |-> b.window, columns |-> [x \in 0 .. (OriginalWidth - 1) |-> x],
         metas |-> <<SourceMeta(b.window)>>]

Mapped(b) ==
    b = [window |-> b.window, columns |-> Columns,
         metas |-> <<SourceMeta(b.window), Meta("geometry", Geometry)>>]

Decorated(b, id) ==
    b = [window |-> b.window, columns |-> Columns,
         metas |-> <<SourceMeta(b.window), Meta("geometry", Geometry),
                     Meta(RoleOf, [frame_id |-> id, targets |-> TargetsOf])>>]

\* The number the filter has given to a decorated frame.
FrameId(b) == b.metas[3].value.frame_id

\* The filter has found what it asks for.
FilterServed == SourceFits /\ (profile.filter = "lynxi" => FilterWidth >= ModelWidth)

\* What the sink accepts of a box in the filter plane and in the original.
InPlane(t) == ValidBox(t) /\ ~(t.min < 0) /\ ~(t.max > FilterWidth)

InOriginal(t) ==
    /\ ~((t.min - profile.offset) * profile.den < 0)
    /\ ~((t.max - profile.offset) * profile.den > OriginalWidth * profile.num)

\* The sink finds no fault with the boxes of the run.
TargetsInside == \A i \in DOMAIN TargetsOf : InPlane(TargetsOf[i]) /\ InOriginal(TargetsOf[i])

\* What a frame carries in every phase, and every recorded frame.
MetaInv ==
    /\ phase = "geometry" => profile.source # "images" /\ Plain(buffer)
    /\ phase = "filter" =>
        /\ profile.source # "images" => Mapped(buffer)
        /\ profile.source = "images" =>
                buffer.metas = <<Meta("image_dir", buffer.metas[1].value)>>
    /\ profile.filter # "test" =>
        /\ phase = "sink" => FilterServed /\ Decorated(buffer, FrameId(buffer))
        /\ \A i \in DOMAIN delivered :
            /\ FilterServed /\ TargetsInside /\ Decorated(delivered[i], FrameId(delivered[i]))
            /\ delivered[i].window.window_start # None

\* A window has been decoded from the lines of its file.
Windowed(w) ==
    /\ w = Decode_window(w.first, w.count)
    /\ w.first \in Nat /\ w.count \in Nat

\* The windows of a file are cut one behind the other.
WindowInv ==
    profile.source = "line" =>
        /\ phase \in Busy => Windowed(buffer.window) /\ buffer.window.first < offset
        /\ \A i \in DOMAIN delivered :
            /\ Windowed(delivered[i].window)
            /\ phase \in Busy \cup {"source"} => delivered[i].window.first < offset
            /\ phase \in Busy => delivered[i].window.first < buffer.window.first
            /\ \A j \in 1 .. (i - 1) :
                    delivered[j].window.first < delivered[i].window.first

\* Frames are counted by the source and by the filter.
CountInv ==
    /\ phase = "null" => delivered = <<>> /\ next_frame_id = 0
    /\ profile.source # "images" =>
        /\ phase = "source" => frame_number = Len(delivered)
        /\ phase \in Busy => frame_number = Len(delivered) + 1
        /\ (phase \in Busy \cup {"source"} /\ profile.num_buffers # None) =>
                frame_number <= profile.num_buffers
        /\ profile.filter \in {"tracker", "lynxi"} =>
            /\ phase \in {"source", "geometry", "filter"} => next_frame_id = Len(delivered)
            /\ phase = "sink" =>
                next_frame_id = Len(delivered) + 1 /\ Decorated(buffer, Len(delivered))
        /\ profile.filter = "detector" /\ phase = "sink" => Decorated(buffer, 0)

\* The order in which the images of the directory are scanned.
ScanOrder == CHOOSE order \in [1 .. Cardinality(Supported) -> Supported] :
                  \A i, j \in DOMAIN order : i < j =>
                      directory[order[i]].name < directory[order[j]].name

\* The frame of an image.
ImageFrame(b, image) == b.metas = <<Meta("image_dir", image)>>

\* Images are taken off the list one by one.
ImagesInv ==
    profile.source = "images" =>
        /\ phase = "null" => delivered = <<>>
        /\ phase \in {"source", "filter", "sink", "eos"} =>
            files = ScanOrder /\ next_file \in 0 .. Len(ScanOrder)
        /\ phase \in {"source", "eos"} => next_file = Len(delivered)
        /\ phase \in {"filter", "sink"} =>
            /\ next_file = Len(delivered) + 1
            /\ ImageFrame(buffer, ScanOrder[next_file])
        /\ phase = "eos" /\ profile.num_buffers = None => next_file = Len(ScanOrder)
        /\ Len(delivered) <= Len(ScanOrder)
        /\ \A i \in DOMAIN delivered : ImageFrame(delivered[i], ScanOrder[i])

\* What a run was given stays.
LEMMA GivenStays == [Next]_vars => UNCHANGED given
  BY DEF Next, vars, StartLines, StartArea, StartImages, Fails, CreateLines, ReadTooShort,
     CreateArea, CreateImage, Eos, TransformIp, Transform, TransformOverruns, MockDetect,
     MockTrack, LynxiDetect, FilterTest, Decorate, Record, Refuse, Stop

\* So does what depends on nothing else.
LEMMA Constants ==
  ASSUME UNCHANGED given
  PROVE  /\ profile' = profile /\ input' = input /\ directory' = directory /\ scene' = scene
         /\ Geometry' = Geometry /\ (In_place' <=> In_place) /\ FilterWidth' = FilterWidth
         /\ Columns' = Columns /\ TargetsOf' = TargetsOf /\ RoleOf' = RoleOf
         /\ (FilterServed' <=> FilterServed) /\ (TargetsInside' <=> TargetsInside)
         /\ (Overruns' <=> Overruns)
  <1>1. profile' = profile /\ input' = input /\ directory' = directory /\ scene' = scene
    BY DEF given
  <1>2. Geometry' = Geometry /\ (In_place' <=> In_place) /\ FilterWidth' = FilterWidth
        /\ RoleOf' = RoleOf
    BY <1>1 DEF Geometry, In_place, FilterWidth, RoleOf
  <1>3. Columns' = Columns
    BY <1>1, <1>2 DEF Columns, SourceColumn
  <1>4. TargetsOf' = TargetsOf
    BY <1>1, <1>2 DEF TargetsOf, MockTargets
  <1>5. (FilterServed' <=> FilterServed)
    BY <1>1, <1>2 DEF FilterServed, SourceFits
  <1>6. (TargetsInside' <=> TargetsInside)
    BY <1>1, <1>2, <1>4 DEF TargetsInside, InPlane, InOriginal
  <1>7. (Overruns' <=> Overruns)
    BY <1>1, <1>2 DEF Overruns, SourceColumn, BufferSize
  <1> QED
    BY <1>1, <1>2, <1>3, <1>4, <1>5, <1>6, <1>7

\* The widths of the planes.
LEMMA Widths ==
  ASSUME profile \in Profiles
  PROVE  /\ OriginalWidth \in Nat \ {0} /\ FilterWidth \in Nat \ {0}
         /\ profile.width \in Nat
         /\ profile.num \in Nat \ {0} /\ profile.den \in Nat \ {0} /\ profile.offset \in Int
         /\ profile.num_buffers \in Nat \cup {None}
         /\ profile.box \in Box /\ profile.emit \in BOOLEAN
         /\ DOMAIN Columns = 0 .. (FilterWidth - 1)
         /\ Cardinality(DOMAIN Columns) = FilterWidth
  <1>1. profile \in Profile
    BY ChainAssumption
  <1>2. /\ OriginalWidth \in Nat \ {0} /\ FilterWidth \in Nat \ {0}
        /\ profile.width \in Nat
        /\ profile.num \in Nat \ {0} /\ profile.den \in Nat \ {0} /\ profile.offset \in Int
        /\ profile.num_buffers \in Nat \cup {None}
        /\ profile.box \in Box /\ profile.emit \in BOOLEAN
    BY <1>1, ChainAssumption DEF Profile, FilterWidth
  <1>3. DOMAIN Columns = 0 .. (FilterWidth - 1)
    BY DEF Columns, In_place
  <1>4. Cardinality(0 .. (FilterWidth - 1)) = FilterWidth
    <2> DEFINE n == FilterWidth - 1
    <2>1. n \in Int /\ 0 \in Int /\ n >= 0 /\ n + 1 = FilterWidth
      BY <1>2
    <2> HIDE DEF n
    <2>2. Cardinality(0 .. n) = IF 0 > n THEN 0 ELSE n - 0 + 1
      BY <2>1, FS_Interval
    <2>3. Cardinality(0 .. n) = n + 1
      BY <2>1, <2>2
    <2> QED
      BY <2>1, <2>3 DEF n
  <1> QED
    BY <1>2, <1>3, <1>4

\* What the sink reads from a decorated frame.
LEMMA ReadBack ==
  ASSUME NEW b, NEW id, Decorated(b, id), SourceFits
  PROVE  /\ Get(b.metas, "geometry") = Geometry
         /\ Get(b.metas, RoleOf) = [frame_id |-> id, targets |-> TargetsOf]
         /\ Has(b.metas, RoleOf) /\ ~Has(b.metas, OtherRole)
         /\ Clock(b) = b.window.window_start
         /\ b.columns = Columns
         /\ FrameId(b) = id
  <1> DEFINE m == SourceMeta(b.window)
             g == Meta("geometry", Geometry)
             r == Meta(RoleOf, [frame_id |-> id, targets |-> TargetsOf])
  <1>1. b.metas = <<m, g, r>> /\ b.columns = Columns
    BY DEF Decorated
  <1>2. /\ profile.filter = "tracker" =>
              m = Meta("area_frame", b.window.window_start) /\ RoleOf = "tracking"
        /\ profile.filter # "tracker" =>
              /\ m = Meta("cdg00", [start |-> b.window.window_start, end |-> b.window.window_end])
              /\ RoleOf = "detection"
    BY DEF SourceMeta, SourceFits, RoleOf
  <1>3. g = Meta("geometry", g.value) /\ g.value = Geometry
    BY DEF Meta
  <1>4. r = Meta(RoleOf, r.value) /\ r.value = [frame_id |-> id, targets |-> TargetsOf]
    BY DEF Meta
  <1>5. FrameId(b) = id
    BY <1>1, <1>4 DEF FrameId
  <1> HIDE DEF m, g, r
  <1>6. CASE profile.filter = "tracker"
    <2>1. m = Meta("area_frame", m.value) /\ m.value = b.window.window_start
      BY <1>2, <1>6 DEF Meta
    <2>2. /\ Get(b.metas, "area_frame") = m.value /\ Get(b.metas, "geometry") = g.value
          /\ Get(b.metas, "tracking") = r.value
          /\ \A info : Has(b.metas, info) <=> info \in {"area_frame", "geometry", "tracking"}
      BY <1>1, <1>2, <1>3, <1>4, <1>6, <2>1, ThreeMetas
    <2> QED
      BY <1>1, <1>2, <1>3, <1>4, <1>5, <1>6, <2>1, <2>2 DEF Clock, OtherRole
  <1>7. CASE profile.filter # "tracker"
    <2>1. m = Meta("cdg00", m.value) /\ m.value.start = b.window.window_start
      BY <1>2, <1>7 DEF Meta
    <2>2. /\ Get(b.metas, "cdg00") = m.value /\ Get(b.metas, "geometry") = g.value
          /\ Get(b.metas, "detection") = r.value
          /\ \A info : Has(b.metas, info) <=> info \in {"cdg00", "geometry", "detection"}
      BY <1>1, <1>2, <1>3, <1>4, <1>7, <2>1, ThreeMetas
    <2> QED
      BY <1>1, <1>2, <1>3, <1>4, <1>5, <1>7, <2>1, <2>2 DEF Clock, OtherRole
  <1> QED
    BY <1>6, <1>7

\* All that the sink can find fault with in a decorated frame.
LEMMA FaultsOf ==
  ASSUME profile \in Profiles, NEW b, NEW id, Decorated(b, id), SourceFits
  PROVE  /\ Faults(b) \subseteq {"clock", "frame_id", "plane", "outside"}
         /\ "clock" \in Faults(b) <=>
                b.window.window_start = None \/ Kind(b.window.window_start) = "odd"
         /\ "frame_id" \in Faults(b) <=> id # Len(delivered)
         /\ "plane" \in Faults(b) <=>
                \E i \in DOMAIN TargetsOf :
                    LET t == TargetsOf[i]
                    IN  ~ValidBox(t) \/ t.min < 0 \/ t.max > FilterWidth
         /\ "outside" \in Faults(b) <=>
                \E i \in DOMAIN TargetsOf :
                    LET t == TargetsOf[i]
                    IN  \/ (t.min - profile.offset) * profile.den < 0
                        \/ (t.max - profile.offset) * profile.den > OriginalWidth * profile.num
  <1> DEFINE Is(fault, true) == IF true THEN {fault} ELSE {}
             clock == b.window.window_start = None \/ Kind(b.window.window_start) = "odd"
             plane == \E i \in DOMAIN TargetsOf :
                            \/ ~ValidBox(TargetsOf[i])
                            \/ TargetsOf[i].min < 0
                            \/ TargetsOf[i].max > FilterWidth
             outside == \E i \in DOMAIN TargetsOf :
                \/ (TargetsOf[i].min - profile.offset) * profile.den < 0
                \/ (TargetsOf[i].max - profile.offset) * profile.den
                       > OriginalWidth * profile.num
  <1>1. /\ Get(b.metas, "geometry") = Geometry
        /\ Get(b.metas, RoleOf) = [frame_id |-> id, targets |-> TargetsOf]
        /\ Has(b.metas, RoleOf) /\ ~Has(b.metas, OtherRole)
        /\ Clock(b) = b.window.window_start
        /\ b.columns = Columns
    BY ReadBack
  <1>2. Cardinality(DOMAIN b.columns) = FilterWidth
    BY <1>1, Widths
  <1>3. /\ Geometry.filter = FilterWidth /\ Geometry.original = OriginalWidth
        /\ Geometry.num = profile.num /\ Geometry.den = profile.den
        /\ Geometry.offset = profile.offset
    BY DEF Geometry
  <1>4. /\ Get(b.metas, RoleOf).frame_id = id
        /\ Get(b.metas, RoleOf).targets = TargetsOf
    BY <1>1
  <1> DEFINE g == Get(b.metas, "geometry")
             r == Get(b.metas, RoleOf)
             caps_read == g.filter # Cardinality(DOMAIN b.columns)
             roles_read == ~Has(b.metas, RoleOf) \/ Has(b.metas, OtherRole)
             clock_read == Clock(b) = None \/ Kind(Clock(b)) = "odd"
             id_read == r.frame_id # Len(delivered)
             plane_read == \E i \in DOMAIN r.targets :
                            \/ ~ValidBox(r.targets[i])
                            \/ r.targets[i].min < 0
                            \/ r.targets[i].max > g.filter
             outside_read == \E i \in DOMAIN r.targets :
                \/ (r.targets[i].min - g.offset) * g.den < 0
                \/ (r.targets[i].max - g.offset) * g.den > g.original * g.num
  <1>5. Faults(b) = Is("caps", caps_read) \cup Is("roles", roles_read)
                    \cup Is("clock", clock_read) \cup Is("frame_id", id_read)
                    \cup Is("plane", plane_read) \cup Is("outside", outside_read)
    BY Zenon DEF Faults
  <1>6. ~caps_read /\ ~roles_read
    BY <1>1, <1>2, <1>3
  <1>7. (clock_read <=> clock) /\ (id_read <=> id # Len(delivered))
    BY <1>1, <1>4
  <1>8. plane_read <=> plane
    BY <1>1, <1>3, <1>4, Zenon
  <1>9. outside_read <=> outside
    BY <1>1, <1>3, <1>4, Zenon
  <1> HIDE DEF clock, plane, outside, caps_read, roles_read, clock_read, id_read, plane_read,
               outside_read
  <1>10. /\ Faults(b) \subseteq {"clock", "frame_id", "plane", "outside"}
         /\ "clock" \in Faults(b) <=> clock_read
         /\ "frame_id" \in Faults(b) <=> id_read
         /\ "plane" \in Faults(b) <=> plane_read
         /\ "outside" \in Faults(b) <=> outside_read
    BY <1>5, <1>6
  <1> QED
    BY <1>7, <1>8, <1>9, <1>10 DEF clock, plane, outside

\* Lists that are written out.
LEMMA Appended ==
  ASSUME NEW a, NEW b, NEW c
  PROVE  Append(<<a>>, b) = <<a, b>> /\ Append(<<a, b>>, c) = <<a, b, c>>
  <1> DEFINE S == {a, b, c}
             s == <<a>>
             t == <<a, b>>
             u == Append(s, b)
             v == Append(t, c)
  <1>1. /\ s \in Seq(S) /\ Len(s) = 1 /\ s[1] = a
        /\ t \in Seq(S) /\ Len(t) = 2 /\ t[1] = a /\ t[2] = b
        /\ b \in S /\ c \in S
    OBVIOUS
  <1> HIDE DEF S, s, t
  <1>2. u \in Seq(S) /\ Len(u) = 2 /\ u[1] = s[1] /\ u[2] = b
    BY <1>1 DEF s
  <1>3. v \in Seq(S) /\ Len(v) = 3 /\ v[1] = t[1] /\ v[2] = t[2] /\ v[3] = c
    BY <1>1 DEF t
  <1> HIDE DEF u, v
  <1>4. u = <<u[1], u[2]>> /\ v = <<v[1], v[2], v[3]>>
    BY <1>2, <1>3
  <1> QED
    BY <1>1, <1>2, <1>3, <1>4 DEF s, t, u, v

\* A recorded frame stays what it is.
LEMMA DecoratedStays ==
  ASSUME UNCHANGED given
  PROVE  /\ \A b, id : Decorated(b, id)' <=> Decorated(b, id)
         /\ \A b : Mapped(b)' <=> Mapped(b)
         /\ \A b : Plain(b)' <=> Plain(b)
  <1>1. /\ Columns' = Columns /\ Geometry' = Geometry /\ TargetsOf' = TargetsOf
        /\ RoleOf' = RoleOf /\ profile' = profile
    BY Constants
  <1> QED
    BY <1>1 DEF Decorated, Mapped, Plain, SourceMeta

\* The part of MetaInv about recorded frames.
RecordedMetas ==
    profile.filter # "test" =>
        \A i \in DOMAIN delivered :
            /\ FilterServed /\ TargetsInside /\ Decorated(delivered[i], FrameId(delivered[i]))
            /\ delivered[i].window.window_start # None

\* Nothing but Record touches the recorded frames.
LEMMA RecordedStay ==
  ASSUME RecordedMetas, UNCHANGED given, delivered' = delivered
  PROVE  RecordedMetas'
  <1>1. /\ profile' = profile
        /\ (FilterServed' <=> FilterServed) /\ (TargetsInside' <=> TargetsInside)
    BY Constants
  <1>2. \A b, id : Decorated(b, id)' <=> Decorated(b, id)
    BY DecoratedStays
  <1>3. \A b : FrameId(b)' = FrameId(b)
    BY DEF FrameId
  <1> QED
    BY <1>1, <1>2, <1>3 DEF RecordedMetas

\* A source hands on a plain frame.
LEMMA SourceMetaInv ==
  ASSUME MetaInv, CreateLines \/ CreateArea \/ CreateImage
  PROVE  MetaInv'
  <1>1. UNCHANGED given /\ delivered' = delivered
    BY DEF CreateLines, CreateArea, CreateImage
  <1>2. RecordedMetas'
    BY <1>1, RecordedStay DEF MetaInv, RecordedMetas
  <1>3. profile' = profile
    BY <1>1, Constants
  <1>4. \A info, value : Add(<<>>, info, value) = <<Meta(info, value)>>
    BY DEF Add, Meta
  <1>5. CASE CreateLines
    <2>1. profile.source = "line" /\ phase' \in {"geometry", "error"}
      BY <1>5 DEF CreateLines, Creates
    <2>2. ASSUME phase' = "geometry" PROVE Plain(buffer)'
      <3>1. PICK count \in LinesRead(offset) :
                LET w == Decode_window(offset, count)
                IN  buffer' = Original(w, "cdg00", [start |-> w.window_start,
                                                    end |-> w.window_end])
        BY <1>5, <2>2 DEF CreateLines
      <3> DEFINE w == Decode_window(offset, count)
      <3>2. buffer' = Original(w, "cdg00", [start |-> w.window_start, end |-> w.window_end])
        BY <3>1
      <3> HIDE DEF w
      <3> QED
        BY <1>3, <1>4, <2>1, <3>2 DEF Original, Plain, SourceMeta
    <2> QED
      BY <1>2, <1>3, <2>1, <2>2 DEF MetaInv, RecordedMetas
  <1>6. CASE CreateArea
    <2>1. profile.source = "area" /\ phase' = "geometry"
      BY <1>6 DEF CreateArea, Creates
    <2>2. Plain(buffer)'
      <3>1. buffer' = Original(first_window, "area_frame", first_window.window_start)
        BY <1>6 DEF CreateArea
      <3> QED
        BY <1>3, <1>4, <2>1, <3>1 DEF Original, Plain, SourceMeta
    <2> QED
      BY <1>2, <1>3, <2>1, <2>2 DEF MetaInv, RecordedMetas
  <1>7. CASE CreateImage
    <2>1. profile.source = "images" /\ phase' \in {"filter", "error"}
      BY <1>7 DEF CreateImage, Creates
    <2>2. ASSUME phase' = "filter"
          PROVE  buffer'.metas = <<Meta("image_dir", buffer'.metas[1].value)>>
      <3>1. PICK image : buffer' = Original(<<>>, "image_dir", image)
        BY <1>7, <2>2 DEF CreateImage
      <3> QED
        BY <1>4, <3>1 DEF Original, Meta
    <2> QED
      BY <1>2, <1>3, <2>1, <2>2 DEF MetaInv, RecordedMetas
  <1> QED
    BY <1>5, <1>6, <1>7

\* The geometry maps it, in place or into a copy.
LEMMA GeometryMetaInv ==
  ASSUME MetaInv, TransformIp \/ Transform
  PROVE  MetaInv'
  <1>1. UNCHANGED given /\ delivered' = delivered /\ phase = "geometry" /\ phase' = "filter"
    BY DEF TransformIp, Transform
  <1>2. RecordedMetas'
    BY <1>1, RecordedStay DEF MetaInv, RecordedMetas
  <1>3. profile' = profile /\ profile.source # "images"
    BY <1>1, Constants DEF MetaInv
  <1> DEFINE m == SourceMeta(buffer.window)
             g == Meta("geometry", Geometry)
  <1>4. Plain(buffer)
    BY <1>1 DEF MetaInv
  <1>5. buffer.metas = <<m>> /\ buffer.columns = [x \in 0 .. (OriginalWidth - 1) |-> x]
    BY <1>4 DEF Plain
  <1>6. CanAdd(<<>>, m.info, m.value)
    BY DEF SourceMeta, Meta, CanAdd, Valid, Has, Single
  <1> HIDE DEF m
  <1>7. CopyOf(buffer.metas) = <<m>>
    BY <1>5, <1>6, CopyOfOne
  <1>8. Attach(<<m>>)
    BY <1>5, <1>7 DEF TransformIp, Transform
  <1>9. buffer' = [window |-> buffer.window,
                   columns |-> IF In_place THEN buffer.columns
                               ELSE [x \in 0 .. (FilterWidth - 1) |-> SourceColumn(x)],
                   metas |-> <<m, g>>]
    <2>1. Append(<<m>>, g) = <<m, g>>
      BY Appended
    <2> QED
      BY <1>8, <2>1 DEF Attach, Add, Meta
  <1>10. buffer' = [window |-> buffer.window, columns |-> Columns, metas |-> <<m, g>>]
    BY <1>5, <1>9 DEF Columns
  <1>11. Mapped(buffer')
    BY <1>10 DEF Mapped, m
  <1>12. Mapped(buffer)'
    <2>1. Columns' = Columns /\ Geometry' = Geometry
      BY <1>1, Constants
    <2> QED
      BY <1>3, <1>11, <2>1 DEF Mapped, SourceMeta
  <1> QED
    BY <1>1, <1>2, <1>3, <1>12 DEF MetaInv, RecordedMetas

\* A filter for targets decorates a frame only when it comes from the source
\* made for it.
LEMMA Decorates ==
  ASSUME LinesInv, MetaInv, MockDetect \/ MockTrack \/ LynxiDetect
  PROVE  /\ UNCHANGED given /\ delivered' = delivered
         /\ phase = "filter" /\ phase' = "sink"
         /\ profile.source # "images" /\ profile.filter # "test"
         /\ FilterServed /\ Mapped(buffer)
         /\ Decorated(buffer', IF profile.filter = "detector" THEN 0 ELSE next_frame_id)
         /\ buffer'.window = buffer.window
  <1> DEFINE id == IF profile.filter = "detector" THEN 0 ELSE next_frame_id
             role == [frame_id |-> id, targets |-> TargetsOf]
             m == SourceMeta(buffer.window)
             g == Meta("geometry", Geometry)
  <1>1. /\ UNCHANGED given /\ delivered' = delivered /\ phase = "filter" /\ phase' = "sink"
        /\ profile.filter # "test"
        /\ FitForRole(NeededBy)
        /\ profile.filter = "lynxi" => FilterWidth >= ModelWidth
    BY DEF MockDetect, MockTrack, LynxiDetect, Decorate, NeededBy
  <1>2. profile.source # "images"
    <2> SUFFICES ASSUME profile.source = "images" PROVE FALSE
      OBVIOUS
    <2> DEFINE i == Meta("image_dir", buffer.metas[1].value)
    <2>1. buffer.metas = <<i>>
      BY <1>1 DEF MetaInv
    <2>2. i = Meta("image_dir", i.value)
      BY DEF Meta
    <2> HIDE DEF i
    <2>3. ~Has(<<i>>, "geometry")
      BY <2>2, OneMeta
    <2> QED
      BY <1>1, <2>1, <2>3 DEF FitForRole
  <1>3. Mapped(buffer)
    BY <1>1, <1>2 DEF MetaInv
  <1>4. buffer = [window |-> buffer.window, columns |-> Columns, metas |-> <<m, g>>]
    BY <1>3 DEF Mapped
  <1>5. /\ g = Meta("geometry", g.value) /\ g.value = Geometry
        /\ m = Meta(IF profile.source = "line" THEN "cdg00" ELSE "area_frame", m.value)
    BY DEF SourceMeta, Meta
  <1> HIDE DEF m, g
  <1>6. /\ Get(<<m, g>>, "geometry") = Geometry
        /\ \A info : Has(<<m, g>>, info) <=>
              info \in {IF profile.source = "line" THEN "cdg00" ELSE "area_frame", "geometry"}
    BY <1>5, TwoMetas
  <1>7. SourceFits
    <2>1. profile.source \in {"line", "area", "images"}
      BY ChainAssumption DEF LinesInv, Profile
    <2>2. Has(buffer.metas, NeededBy)
      BY <1>1 DEF FitForRole
    <2>3. NeededBy \in {IF profile.source = "line" THEN "cdg00" ELSE "area_frame", "geometry"}
      BY <1>4, <1>6, <2>2
    <2> QED
      BY <1>2, <2>1, <2>3 DEF NeededBy, SourceFits
  <1>8. Decorate(RoleOf, role)
    BY <1>4, <1>6 DEF MockDetect, MockTrack, LynxiDetect, RoleOf, TargetsOf
  <1>9. buffer' = [buffer EXCEPT !.metas = Append(buffer.metas, Meta(RoleOf, role))]
    BY <1>8 DEF Decorate, Add, Meta
  <1> DEFINE r == Meta(RoleOf, role)
  <1> HIDE DEF r
  <1>10. Append(<<m, g>>, r) = <<m, g, r>>
    BY Appended
  <1>11. buffer' = [window |-> buffer.window, columns |-> Columns, metas |-> <<m, g, r>>]
    <2>1. buffer.metas = <<m, g>>
      BY <1>4
    <2>2. buffer' = [buffer EXCEPT !.metas = <<m, g, r>>]
      BY <1>9, <1>10, <2>1 DEF r
    <2> QED
      BY <1>4, <2>2
  <1>12. Decorated(buffer', id)
    BY <1>11 DEF Decorated, m, g, r
  <1> QED
    BY <1>1, <1>2, <1>3, <1>7, <1>11, <1>12 DEF FilterServed

\* The filter decorates it.
LEMMA FilterMetaInv ==
  ASSUME LinesInv, MetaInv, MockDetect \/ MockTrack \/ LynxiDetect
  PROVE  MetaInv'
  <1> DEFINE id == IF profile.filter = "detector" THEN 0 ELSE next_frame_id
  <1>1. /\ UNCHANGED given /\ delivered' = delivered
        /\ phase = "filter" /\ phase' = "sink"
        /\ FilterServed /\ Decorated(buffer', id)
    BY Decorates
  <1> HIDE DEF id
  <1>2. RecordedMetas'
    BY <1>1, RecordedStay DEF MetaInv, RecordedMetas
  <1>3. profile' = profile /\ FilterServed'
    BY <1>1, Constants
  <1>4. FrameId(buffer') = id
    BY <1>1, ReadBack DEF FilterServed
  <1>5. Decorated(buffer', FrameId(buffer'))
    BY <1>1, <1>4
  <1>6. Decorated(buffer, FrameId(buffer))'
    <2>1. Columns' = Columns /\ Geometry' = Geometry /\ TargetsOf' = TargetsOf /\ RoleOf' = RoleOf
      BY <1>1, Constants
    <2> QED
      BY <1>3, <1>5, <2>1 DEF Decorated, SourceMeta, FrameId
  <1> QED
    BY <1>1, <1>2, <1>3, <1>6 DEF MetaInv, RecordedMetas

\* The sink records only what it finds no fault with.
LEMMA RecordMetaInv ==
  ASSUME LinesInv, MetaInv, Record
  PROVE  MetaInv'
  <1>1. /\ UNCHANGED given /\ delivered' = Append(delivered, buffer)
        /\ phase = "sink" /\ phase' = "source" /\ Accepted(buffer)
    BY DEF Record
  <1>2. profile' = profile
    BY <1>1, Constants
  <1>3. ASSUME profile.filter # "test"
        PROVE  /\ FilterServed /\ TargetsInside
               /\ Decorated(buffer, FrameId(buffer)) /\ buffer.window.window_start # None
    <2>1. FilterServed /\ Decorated(buffer, FrameId(buffer)) /\ Faults(buffer) = {}
      BY <1>1, <1>3 DEF MetaInv, Accepted
    <2>2. profile \in Profiles
      BY DEF LinesInv
    <2>3. /\ "clock" \notin Faults(buffer) /\ "plane" \notin Faults(buffer)
          /\ "outside" \notin Faults(buffer)
      BY <2>1
    <2>4. buffer.window.window_start # None
      BY <2>1, <2>2, <2>3, FaultsOf DEF FilterServed
    <2>5. \A i \in DOMAIN TargetsOf :
            LET t == TargetsOf[i]
            IN  /\ ValidBox(t) /\ ~(t.min < 0) /\ ~(t.max > FilterWidth)
                /\ ~((t.min - profile.offset) * profile.den < 0)
                /\ ~((t.max - profile.offset) * profile.den > OriginalWidth * profile.num)
      BY <2>1, <2>2, <2>3, FaultsOf DEF FilterServed
    <2>6. TargetsInside
      BY <2>5 DEF TargetsInside, InPlane, InOriginal
    <2> QED
      BY <2>1, <2>4, <2>6
  <1>4. /\ \A i \in DOMAIN delivered' : i \in DOMAIN delivered \/ i = Len(delivered) + 1
        /\ \A i \in DOMAIN delivered : delivered'[i] = delivered[i]
        /\ delivered'[Len(delivered) + 1] = buffer
    <2>1. delivered \in Seq(Elements(delivered))
      BY DEF LinesInv
    <2>2. DOMAIN delivered = 1 .. Len(delivered) /\ Len(delivered) \in Nat
      BY <2>1
    <2> QED
      BY <1>1, <2>1, <2>2, AppendElements
  <1>5. /\ (FilterServed' <=> FilterServed) /\ (TargetsInside' <=> TargetsInside)
        /\ \A b, id : Decorated(b, id)' <=> Decorated(b, id)
        /\ \A b : FrameId(b)' = FrameId(b)
    BY <1>1, Constants, DecoratedStays DEF FrameId
  <1>6. RecordedMetas'
    <2> SUFFICES ASSUME profile.filter # "test", NEW i \in DOMAIN delivered'
                 PROVE  /\ FilterServed /\ TargetsInside
                        /\ Decorated(delivered'[i], FrameId(delivered'[i]))
                        /\ delivered'[i].window.window_start # None
      BY <1>2, <1>5 DEF RecordedMetas
    <2>1. CASE i \in DOMAIN delivered
      BY <1>4, <2>1 DEF MetaInv
    <2>2. CASE i = Len(delivered) + 1
      BY <1>3, <1>4, <2>2
    <2> QED
      BY <1>4, <2>1, <2>2
  <1> QED
    BY <1>1, <1>2, <1>6 DEF MetaInv, RecordedMetas

\* Every action.
LEMMA StepMeta == LinesInv /\ MetaInv /\ [Next]_vars => MetaInv'
  <1> SUFFICES ASSUME LinesInv, MetaInv, [Next]_vars PROVE MetaInv'
    OBVIOUS
  <1>1. UNCHANGED given
    BY GivenStays
  <1>2. profile' = profile
    BY <1>1, Constants
  <1>3. CASE \/ StartLines \/ StartArea \/ StartImages \/ Fails \/ ReadTooShort \/ Eos
             \/ TransformOverruns \/ Refuse \/ Stop \/ FilterTest
    <2>1. /\ delivered' = delivered /\ phase' \notin {"geometry", "filter"}
          /\ phase' = "sink" => profile.filter = "test"
      BY <1>3 DEF StartLines, StartArea, StartImages, Fails, ReadTooShort, Eos,
         TransformOverruns, Refuse, Stop, FilterTest
    <2>2. RecordedMetas'
      BY <1>1, <2>1, RecordedStay DEF MetaInv, RecordedMetas
    <2> QED
      BY <1>2, <2>1, <2>2 DEF MetaInv, RecordedMetas
  <1>4. CASE UNCHANGED vars
    <2>1. delivered' = delivered /\ phase' = phase /\ buffer' = buffer
      BY <1>4 DEF vars
    <2>2. RecordedMetas'
      BY <1>1, <2>1, RecordedStay DEF MetaInv, RecordedMetas
    <2>3. (FilterServed' <=> FilterServed)
          /\ Columns' = Columns /\ Geometry' = Geometry
          /\ TargetsOf' = TargetsOf /\ RoleOf' = RoleOf
      BY <1>1, Constants
    <2>4. /\ Plain(buffer)' <=> Plain(buffer) 
          /\ Mapped(buffer)' <=> Mapped(buffer)
          /\ Decorated(buffer, FrameId(buffer))' <=> Decorated(buffer, FrameId(buffer))
      BY <1>2, <2>1, <2>3 DEF Plain, Mapped, Decorated, FrameId, SourceMeta
    <2> QED
      BY <1>2, <2>1, <2>2, <2>3, <2>4 DEF MetaInv, RecordedMetas
  <1> QED
    BY <1>3, <1>4, SourceMetaInv, GeometryMetaInv, FilterMetaInv, RecordMetaInv DEF Next

\* There is no frame yet.
LEMMA InitMeta == Init => MetaInv
  BY DEF Init, MetaInv

\* The run has been given what the constants allow.
GivenInv ==
    profile \in Profiles /\ input \in Inputs /\ directory \in Directories /\ scene \in Scenes

LEMMA InitGiven == Init => GivenInv
  BY DEF Init, GivenInv

LEMMA StepGiven == GivenInv /\ [Next]_vars => GivenInv'
  BY GivenStays DEF given, GivenInv

\* All the invariants of a frame together.
FrameInv == LinesInv /\ GivenInv /\ MetaInv

LEMMA FrameInvariant == Spec => []FrameInv
  <1>1. Init => FrameInv
    BY InitLines, InitGiven, InitMeta DEF FrameInv
  <1>2. FrameInv /\ [Next]_vars => FrameInv'
    BY StepLines, StepGiven, StepMeta DEF FrameInv
  <1> QED
    BY <1>1, <1>2, PTL DEF Spec

-----------------------------------------------------------------------------
(* What is reported *)

\* The targets of a frame that the filter has been served.
LEMMA LynxiReport ==
  ASSUME GivenInv, FilterServed, profile.filter = "lynxi"
  PROVE  LET targets == TargetsOf
             reported == {AsDetection(targets[i]) : i \in DOMAIN targets}
             visible == {d \in Seen_in(FilterWidth) : d.id >= 0 /\ d.xmin < d.xmax}
         IN  /\ Len(targets) \in Nat /\ Len(targets) <= MaxTargets
             /\ \A i \in DOMAIN targets :
                    /\ ValidBox(targets[i])
                    /\ targets[i].min \in Int /\ targets[i].max \in Int
                    /\ 0 <= targets[i].min /\ targets[i].max <= FilterWidth
             /\ \A i, j \in DOMAIN targets : i # j =>
                    ~SameObject(AsDetection(targets[i]), AsDetection(targets[j]))
             /\ reported \subseteq visible
             /\ Len(targets) < MaxTargets =>
                    \A d \in visible : \E r \in reported : r.id = d.id /\ r.score >= d.score
  <1> DEFINE width == FilterWidth
             g == Geometry
  <1>1. scene \in Scene
    BY ChainAssumption DEF GivenInv
  <1>2. width \in Nat /\ width >= ModelWidth /\ g.filter = width
    BY Widths DEF GivenInv, FilterServed, Geometry
  <1>3. TargetsOf = LynxiTargets(Infer_gray8(scene, width), g)
    BY DEF TargetsOf
  <1> HIDE DEF width, g
  <1> DEFINE targets == LynxiTargets(Infer_gray8(scene, width), g)
             reported == {AsDetection(targets[i]) : i \in DOMAIN targets}
             visible == {d \in Seen_in(width) : d.id >= 0 /\ d.xmin < d.xmax}
  <1>4. /\ Len(targets) \in Nat /\ Len(targets) <= MaxTargets
        /\ \A i \in DOMAIN targets :
            /\ ValidBox(targets[i])
            /\ targets[i].min \in Int /\ targets[i].max \in Int
            /\ 0 <= targets[i].min /\ targets[i].max <= width
        /\ \A i, j \in DOMAIN targets : i # j =>
            ~SameObject(AsDetection(targets[i]), AsDetection(targets[j]))
        /\ reported \subseteq visible
        /\ Len(targets) < MaxTargets =>
            \A d \in visible : \E r \in reported : r.id = d.id /\ r.score >= d.score
    BY <1>1, <1>2, ReportedOnce
  <1> QED
    BY <1>3, <1>4, Zenon DEF width

\* No object is reported twice, nothing that was not seen is, and what is seen
\* is missing only where something more certain of its class is reported or the
\* list is full.
THEOREM ReportsCorrect == Spec => []ObjectsReportedOnce
  <1>1. FrameInv => ObjectsReportedOnce
    <2> SUFFICES ASSUME FrameInv, phase = "sink", profile.filter = "lynxi"
                 PROVE  ObjectsReportedOnce
      BY DEF ObjectsReportedOnce
    <2>1. FilterServed /\ Decorated(buffer, FrameId(buffer)) /\ GivenInv
      BY DEF FrameInv, MetaInv
    <2>2. RoleOf = "detection"
      BY DEF RoleOf
    <2>3. Get(buffer.metas, RoleOf) = [frame_id |-> FrameId(buffer), targets |-> TargetsOf]
      BY <2>1, ReadBack DEF FilterServed
    <2>4. Get(buffer.metas, "detection").targets = TargetsOf
      BY <2>2, <2>3
    <2> DEFINE targets == TargetsOf
               reported == {AsDetection(targets[i]) : i \in DOMAIN targets}
               visible == {d \in Seen_in(FilterWidth) : d.id >= 0 /\ d.xmin < d.xmax}
    <2>5. /\ \A i, j \in DOMAIN targets : i # j =>
                ~SameObject(AsDetection(targets[i]), AsDetection(targets[j]))
          /\ reported \subseteq visible
          /\ Len(targets) < MaxTargets =>
                \A d \in visible : \E r \in reported : r.id = d.id /\ r.score >= d.score
      BY <2>1, LynxiReport
    <2> QED
      BY <2>4, <2>5, Zenon DEF ObjectsReportedOnce
  <1> QED
    BY <1>1, FrameInvariant, PTL

-----------------------------------------------------------------------------
(* What a recorded box shows *)

\* The borders of a target are whole columns.
LEMMA TargetTypes ==
  ASSUME GivenInv, FilterServed, NEW i \in DOMAIN TargetsOf
  PROVE  TargetsOf[i].min \in Int /\ TargetsOf[i].max \in Int
  <1>1. CASE profile.filter = "lynxi"
    BY <1>1, LynxiReport
  <1>2. CASE profile.filter # "lynxi"
    <2>1. profile.box \in Box
      BY Widths DEF GivenInv
    <2>2. TargetsOf = <<profile.box>> \/ TargetsOf = <<>>
      BY <1>2 DEF TargetsOf, MockTargets
    <2>3. TargetsOf[i] = profile.box
      BY <2>2
    <2> QED
      BY <2>1, <2>3 DEF Box
  <1> QED
    BY <1>1, <1>2

\* A column of the filter plane inside a target that the sink accepts comes from
\* a column of the original that the target covers.
LEMMA ColumnsShown ==
  ASSUME profile \in Profiles, NEW min \in Int, NEW max \in Int,
         ~(min < 0), ~(max > FilterWidth),
         ~((min - profile.offset) * profile.den < 0),
         ~((max - profile.offset) * profile.den > OriginalWidth * profile.num),
         NEW x \in min .. (max - 1)
  PROVE  /\ x \in DOMAIN Columns /\ Columns[x] # None
         /\ (Columns[x] + 1) * profile.num > (min - profile.offset) * profile.den
         /\ Columns[x] * profile.num < (max - profile.offset) * profile.den
  <1>1. /\ OriginalWidth \in Nat \ {0} /\ FilterWidth \in Nat \ {0}
        /\ profile.num \in Nat \ {0} /\ profile.den \in Nat \ {0} /\ profile.offset \in Int
        /\ DOMAIN Columns = 0 .. (FilterWidth - 1)
    BY Widths
  <1>2. x \in Int /\ min <= x /\ x < max /\ x \in 0 .. (FilterWidth - 1)
    BY <1>1
  <1>3. CASE In_place
    <2>1. Columns[x] = x /\ FilterWidth = OriginalWidth /\ profile.num = profile.den
          /\ profile.offset = 0
      BY <1>2, <1>3 DEF Columns, In_place
    <2> DEFINE k == profile.den
    <2>2. k \in Nat \ {0} /\ profile.num = k
      BY <1>1, <2>1
    <2> HIDE DEF k
    <2>3. (x + 1) * k > min * k /\ x * k < max * k
      <3>1. \A a, b \in Int : a < b => a * k < b * k
        BY <2>2
      <3>2. x + 1 \in Int /\ min < x + 1
        BY <1>2
      <3>3. min * k < (x + 1) * k /\ x * k < max * k
        BY <1>2, <3>1, <3>2
      <3> QED
        BY <1>2, <2>2, <3>2, <3>3
    <2>4. min - profile.offset = min /\ max - profile.offset = max /\ x # None
      BY <1>2, <2>1 DEF None
    <2> QED
      BY <1>1, <1>2, <2>1, <2>2, <2>3, <2>4 DEF k
  <1>4. CASE ~In_place
    <2>1. Columns[x] = SourceColumn(x)
      BY <1>2, <1>4 DEF Columns
    <2> DEFINE scaled == (x - profile.offset) * profile.den
               low == (min - profile.offset) * profile.den
               high == (max - profile.offset) * profile.den
               end == OriginalWidth * profile.num
    <2>2. scaled \in Int /\ low \in Int /\ high \in Int /\ end \in Int
      <3>1. /\ x - profile.offset \in Int /\ min - profile.offset \in Int
            /\ max - profile.offset \in Int
        BY <1>1, <1>2
      <3>2. \A a, k \in Int : a * k \in Int
        OBVIOUS
      <3>3. profile.den \in Int /\ profile.num \in Int /\ OriginalWidth \in Int
        BY <1>1
      <3> QED
        BY <3>1, <3>2, <3>3
    <2>3. low <= scaled /\ scaled < high
      <3> DEFINE a == min - profile.offset
                 c == x - profile.offset
                 d == max - profile.offset
                 k == profile.den
      <3>1. a \in Int /\ c \in Int /\ d \in Int /\ k \in Nat \ {0} /\ a <= c /\ c < d
        <4>1. k \in Nat \ {0} /\ profile.offset \in Int
          BY <1>1
        <4>2. a \in Int /\ c \in Int /\ d \in Int
          BY <1>2, <4>1
        <4>3. \A u, v, w \in Int : (u <= v => u - w <= v - w) /\ (u < v => u - w < v - w)
          OBVIOUS
        <4>4. a <= c /\ c < d
          BY <1>2, <4>1, <4>3
        <4> QED
          BY <4>1, <4>2, <4>4
      <3>2. low = a * k /\ scaled = c * k /\ high = d * k
        OBVIOUS
      <3> HIDE DEF low, scaled, high, a, c, d, k
      <3>3. \A u, v \in Int : (u <= v => u * k <= v * k) /\ (u < v => u * k < v * k)
        BY <3>1
      <3> QED
        BY <3>1, <3>2, <3>3
    <2>4. ~(low < 0) /\ ~(high > end)
      OBVIOUS
    <2>5. SourceColumn(x) = IF scaled < 0 \/ scaled >= end THEN None ELSE scaled \div profile.num
      BY DEF SourceColumn
    <2> HIDE DEF scaled, low, high, end
    <2>6. ~(scaled < 0 \/ scaled >= end)
      BY <2>2, <2>3, <2>4
    <2>7. scaled \in Nat
      BY <2>2, <2>6
    <2>8. SourceColumn(x) \in Nat
      BY <1>1, <2>5, <2>6, <2>7, Quotient
    <2>9. SourceColumn(x) # None
      BY <2>8 DEF None
    <2> QED
      BY <1>1, <1>2, <2>1, <2>9, ColumnsFollowTheMap
  <1> QED
    BY <1>3, <1>4

\* In a plane whose rows need no padding a reader finds the pixel at its place.
LEMMA SeenInPlace ==
  ASSUME NEW b, NEW width \in Nat \ {0}, width % 4 = 0,
         Cardinality(DOMAIN b.columns) = width,
         NEW x \in 0 .. (width - 1), NEW y \in Nat, y < profile.height
  PROVE  Seen(b, x, y) = [column |-> b.columns[x], row |-> y]
  <1>1. RowPitch(width) = width
    BY DEF RowPitch
  <1>2. /\ (y * width + x) \div width = y /\ (y * width + x) % width = x
    BY RowMajor
  <1> QED
    BY <1>1, <1>2 DEF Seen

\* When the rows of the filter plane need no padding every pixel that a reader
\* finds in a recorded box comes from where the box has been mapped back to, in
\* every frame that can be mapped at all: of a plane wider than the original,
\* which the geometry has no buffer for, nothing is said.
THEOREM BoxesCorrect ==
  Spec => [](profile.width % 4 = 0 => BoxesShowTheirSource)
  <1>1. FrameInv => (profile.width % 4 = 0 => BoxesShowTheirSource)
    <2> SUFFICES ASSUME FrameInv, profile.width % 4 = 0, profile.filter # "test",
                        Mappable, NEW n \in DOMAIN delivered,
                        NEW t \in DOMAIN Get(delivered[n].metas, RoleOf).targets,
                        NEW x \in Get(delivered[n].metas, RoleOf).targets[t].min ..
                                    (Get(delivered[n].metas, RoleOf).targets[t].max - 1),
                        NEW y \in 0 .. (profile.height - 1)
                 PROVE  LET pixel == Seen(delivered[n], x, y)
                            box == Get(delivered[n].metas, RoleOf).targets[t]
                        IN  /\ pixel.row = y
                            /\ pixel.column # None
                            /\ (pixel.column + 1) * profile.num
                                    > (box.min - profile.offset) * profile.den
                            /\ pixel.column * profile.num
                                    < (box.max - profile.offset) * profile.den
      BY DEF BoxesShowTheirSource
    <2> DEFINE b == delivered[n]
               box == TargetsOf[t]
    <2>1. /\ FilterServed /\ TargetsInside /\ Decorated(b, FrameId(b))
          /\ GivenInv /\ profile \in Profiles
      BY DEF FrameInv, MetaInv, GivenInv
    <2> HIDE DEF b
    <2>2. Get(b.metas, RoleOf).targets = TargetsOf /\ b.columns = Columns
      <3>1. /\ Get(b.metas, RoleOf) = [frame_id |-> FrameId(b), targets |-> TargetsOf]
            /\ b.columns = Columns
        BY <2>1, ReadBack DEF FilterServed
      <3> QED
        BY <3>1
    <2>3. t \in DOMAIN TargetsOf /\ x \in box.min .. (box.max - 1)
      BY <2>2 DEF b
    <2>4. box.min \in Int /\ box.max \in Int
      BY <2>1, <2>3, TargetTypes
    <2>5. InPlane(box) /\ InOriginal(box)
      BY <2>1, <2>3 DEF TargetsInside
    <2> HIDE DEF box
    <2>6. /\ x \in DOMAIN Columns /\ Columns[x] # None
          /\ (Columns[x] + 1) * profile.num > (box.min - profile.offset) * profile.den
          /\ Columns[x] * profile.num < (box.max - profile.offset) * profile.den
      BY <2>1, <2>3, <2>4, <2>5, ColumnsShown DEF InPlane, InOriginal
    <2>7. /\ FilterWidth \in Nat \ {0} /\ DOMAIN Columns = 0 .. (FilterWidth - 1)
          /\ Cardinality(DOMAIN Columns) = FilterWidth
      BY <2>1, Widths
    <2>8. FilterWidth % 4 = 0
      BY <2>1, ChainAssumption DEF FilterWidth
    <2>9. y \in Nat /\ y < profile.height
      BY <2>1, Given DEF GivenInv
    <2>10. Seen(b, x, y) = [column |-> Columns[x], row |-> y]
      BY <2>2, <2>6, <2>7, <2>8, <2>9, SeenInPlace
    <2> QED
      BY <2>2, <2>6, <2>10 DEF b, box
  <1> QED
    BY <1>1, FrameInvariant, PTL

-----------------------------------------------------------------------------
(* Windows follow one another *)

\* A window depends on nothing but the file and the height.
LEMMA WindowStays ==
  ASSUME UNCHANGED given
  PROVE  /\ \A w : Windowed(w)' <=> Windowed(w)
         /\ (WindowInv /\ phase' = phase /\ buffer' = buffer /\ offset' = offset
             /\ delivered' = delivered) => WindowInv'
         /\ \A line : Kind(line)' = Kind(line)
  <1>1. profile' = profile /\ input' = input
    BY DEF given
  <1>2. \A line : Kind(line)' = Kind(line) /\ (Valid_line_header(line)' <=> Valid_line_header(line))
    BY <1>1 DEF Kind, Valid_line_header
  <1>3. \A first, count : SampleStarts(first, count)' = SampleStarts(first, count)
    BY <1>2 DEF SampleStarts
  <1>4. ASSUME NEW first, NEW count
        PROVE  Decode_window(first, count)' = Decode_window(first, count)
    <2> DEFINE starts == SampleStarts(first, count)
    <2>1. starts' = starts
      BY <1>3
    <2>2. {line \in first .. (first + count - 1) : Valid_line_header(line)}'
            = {line \in first .. (first + count - 1) : Valid_line_header(line)}
      BY <1>2
    <2>3. Window_start(starts)' = Window_start(starts) /\ Window_end(starts)' = Window_end(starts)
      BY <2>1 DEF Window_start, Window_end
    <2> QED
      BY <2>2, <2>3 DEF Decode_window
  <1>5. \A w : Windowed(w)' <=> Windowed(w)
    BY <1>4 DEF Windowed
  <1> QED
    BY <1>1, <1>2, <1>5 DEF WindowInv

\* There is no frame yet.
LEMMA InitWindow == Init => WindowInv /\ CountInv
  BY DEF Init, WindowInv, CountInv, Busy

\* A new window begins behind all that have been recorded.
LEMMA CreateWindow ==
  ASSUME LinesInv, WindowInv, CreateLines
  PROVE  WindowInv'
  <1>1. /\ UNCHANGED given /\ delivered' = delivered
        /\ offset' = offset + profile.stride
        /\ phase = "source" /\ phase' \in {"geometry", "error"}
        /\ phase' = "geometry" =>
              \E count \in LinesRead(offset) : \E info, value :
                    buffer' = Original(Decode_window(offset, count), info, value)
    BY DEF CreateLines, Creates
  <1>2. profile.stride \in Nat \ {0} /\ offset \in Nat
    BY Given DEF LinesInv
  <1>3. profile' = profile /\ \A w : Windowed(w)' <=> Windowed(w)
    BY <1>1, WindowStays, Constants
  <1>4. phase' = "geometry" => Windowed(buffer'.window) /\ buffer'.window.first = offset
    <2> SUFFICES ASSUME phase' = "geometry"
                 PROVE  Windowed(buffer'.window) /\ buffer'.window.first = offset
      OBVIOUS
    <2>1. PICK count \in LinesRead(offset) :
            \E info, value : buffer' = Original(Decode_window(offset, count), info, value)
      BY <1>1
    <2>2. buffer'.window = Decode_window(offset, count)
      BY <2>1 DEF Original
    <2>3. count \in Nat
      BY DEF LinesRead
    <2>4. /\ Decode_window(offset, count).first = offset
          /\ Decode_window(offset, count).count = count
      BY DEF Decode_window
    <2> QED
      BY <1>2, <2>2, <2>3, <2>4 DEF Windowed
  <1>5. profile.source = "line" =>
          \A i \in DOMAIN delivered :
            /\ Windowed(delivered[i].window)
            /\ delivered[i].window.first \in Nat
            /\ delivered[i].window.first < offset
            /\ \A j \in 1 .. (i - 1) :
                    delivered[j].window.first < delivered[i].window.first
    BY <1>1 DEF WindowInv, Windowed, Busy
  <1> DEFINE F(i) == delivered[i].window.first
  <1>6. profile.source = "line" =>
          \A i \in DOMAIN delivered : F(i) < offset' /\ F(i) < offset
    BY <1>1, <1>2, <1>5
  <1>7. phase' \in Busy => Windowed(buffer'.window) /\ buffer'.window.first = offset
    BY <1>1, <1>4 DEF Busy
  <1>8. offset < offset' /\ offset' \in Nat
    BY <1>1, <1>2
  <1>9. phase' \in Busy => Windowed(buffer.window)' /\ buffer'.window.first < offset'
    BY <1>3, <1>7, <1>8 DEF Windowed
  <1> QED
    BY <1>1, <1>2, <1>3, <1>5, <1>6, <1>7, <1>9 DEF WindowInv

\* A recorded frame is the last of all.
LEMMA RecordWindow ==
  ASSUME LinesInv, WindowInv, Record
  PROVE  WindowInv'
  <1>1. /\ UNCHANGED given /\ delivered' = Append(delivered, buffer)
        /\ offset' = offset /\ phase = "sink" /\ phase' = "source"
    BY DEF Record, source
  <1>2. profile' = profile /\ \A w : Windowed(w)' <=> Windowed(w)
    BY <1>1, WindowStays, Constants
  <1>3. delivered \in Seq(Elements(delivered))
    BY DEF LinesInv
  <1> DEFINE n == Len(delivered)
  <1>4. n \in Nat /\ DOMAIN delivered = 1 .. n
    BY <1>3
  <1>5. /\ DOMAIN delivered' = 1 .. (n + 1)
        /\ \A i \in 1 .. n : delivered'[i] = delivered[i]
        /\ delivered'[n + 1] = buffer
    BY <1>1, <1>3, <1>4, AppendElements
  <1> HIDE DEF n
  <1>6. SUFFICES ASSUME profile.source = "line", NEW i \in 1 .. (n + 1)
                 PROVE  /\ Windowed(delivered'[i].window)
                        /\ delivered'[i].window.first < offset
                        /\ \A j \in 1 .. (i - 1) :
                                delivered'[j].window.first < delivered'[i].window.first
    BY <1>1, <1>2, <1>5 DEF WindowInv, Busy
  <1>7. /\ Windowed(buffer.window) /\ buffer.window.first < offset
        /\ \A k \in 1 .. n : 
            /\ Windowed(delivered[k].window)
            /\ delivered[k].window.first < offset
            /\ delivered[k].window.first < buffer.window.first
            /\ \A j \in 1 .. (k - 1) :
                    delivered[j].window.first < delivered[k].window.first
    BY <1>1, <1>4, <1>6 DEF WindowInv, Busy
  <1>8. CASE i \in 1 .. n
    <2>1. \A j \in 1 .. (i - 1) : delivered'[j] = delivered[j]
      BY <1>4, <1>5, <1>8
    <2> QED
      BY <1>5, <1>7, <1>8, <2>1
  <1>9. CASE i = n + 1
    <2>1. i - 1 = n
      BY <1>4, <1>9
    <2> QED
      BY <1>5, <1>7, <1>9, <2>1
  <1> QED
    BY <1>4, <1>8, <1>9

\* Every action.
LEMMA StepWindow ==
  ASSUME LinesInv, MetaInv, CountInv, WindowInv, [Next]_vars
  PROVE  WindowInv'
  <1>1. UNCHANGED given
    BY GivenStays
  <1>2. profile' = profile /\ \A w : Windowed(w)' <=> Windowed(w)
    BY <1>1, WindowStays, Constants
  <1>3. CASE StartLines \/ StartArea \/ StartImages
    <2>1. phase = "null" /\ phase' = "source" /\ delivered' = delivered
      BY <1>3 DEF StartLines, StartArea, StartImages
    <2>2. delivered' = <<>>
      BY <2>1 DEF CountInv
    <2> QED
      BY <2>1, <2>2 DEF WindowInv, Busy
  <1>4. CASE Fails \/ ReadTooShort \/ Eos \/ TransformOverruns \/ Refuse \/ Stop
    <2>1. phase' \notin Busy \cup {"source"} /\ delivered' = delivered
      BY <1>4 DEF Fails, ReadTooShort, Eos, TransformOverruns, Refuse, Stop, Busy
    <2> QED
      BY <1>2, <2>1 DEF WindowInv
  <1>5. CASE CreateArea \/ CreateImage
    <2>1. profile.source # "line"
      BY <1>5 DEF CreateArea, CreateImage, Creates
    <2> QED
      BY <1>2, <2>1 DEF WindowInv
  <1>6. CASE TransformIp \/ Transform \/ FilterTest
    <2>1. /\ phase \in Busy /\ phase' \in Busy /\ delivered' = delivered /\ offset' = offset
          /\ buffer'.window = buffer.window
      BY <1>6 DEF TransformIp, Transform, FilterTest, Attach, Busy, source
    <2> QED
      BY <1>2, <2>1 DEF WindowInv
  <1>7. CASE MockDetect \/ MockTrack \/ LynxiDetect
    <2>1. /\ phase \in Busy /\ phase' \in Busy /\ delivered' = delivered
          /\ buffer'.window = buffer.window
      BY <1>7, Decorates DEF Busy
    <2>2. offset' = offset
      BY <1>7 DEF MockDetect, MockTrack, LynxiDetect, Decorate, source
    <2> QED
      BY <1>2, <2>1, <2>2 DEF WindowInv
  <1>8. CASE UNCHANGED vars
    BY <1>1, <1>8, WindowStays DEF vars, source
  <1> QED
    BY <1>3, <1>4, <1>5, <1>6, <1>7, <1>8, CreateWindow, RecordWindow DEF Next

-----------------------------------------------------------------------------
(* Camera times *)

\* The sample at which a window starts is the first that lies in it.
LEMMA FirstSample ==
  ASSUME NEW w, Windowed(w), w.window_start # None
  PROVE  /\ w.window_start \in SampleStarts(w.first, w.count)
         /\ \A s \in SampleStarts(w.first, w.count) : w.window_start <= s
  <1> DEFINE starts == SampleStarts(w.first, w.count)
  <1>1. w.window_start = Window_start(starts)
    BY DEF Windowed, Decode_window
  <1>2. starts # {} /\ starts \subseteq Nat
    BY <1>1 DEF Windowed, Window_start, SampleStarts
  <1>3. \E m \in starts : \A k \in starts : m <= k
    BY <1>2, LeastNat
  <1> HIDE DEF starts
  <1>4. w.window_start = CHOOSE s \in starts : \A t \in starts : s <= t
    BY <1>1, <1>2 DEF Window_start
  <1>5. w.window_start \in starts /\ \A s \in starts : w.window_start <= s
    BY <1>3, <1>4
  <1> QED
    BY <1>5 DEF starts

\* A window that begins no earlier cannot start at an earlier sample, however
\* little was read of either.
LEMMA SamplesFollow ==
  ASSUME NEW v, NEW w, Windowed(v), Windowed(w), v.first <= w.first,
         v.window_start # None, w.window_start # None
  PROVE  /\ v.window_start <= w.window_start
         /\ w.first <= w.window_start
         /\ w.window_start + SampleLines <= w.first + w.count
  <1>0. SampleLines \in Nat
    BY ChainAssumption
  <1> DEFINE a == v.first
             b == w.first
             ca == v.count
             cb == w.count
             s == v.window_start
             t == w.window_start
  <1>1. a \in Nat /\ b \in Nat /\ ca \in Nat /\ cb \in Nat /\ a <= b
    BY DEF Windowed
  <1>2. /\ s \in SampleStarts(a, ca) /\ \A u \in SampleStarts(a, ca) : s <= u
        /\ t \in SampleStarts(b, cb) /\ \A u \in SampleStarts(b, cb) : t <= u
    BY FirstSample
  <1> HIDE DEF a, b, ca, cb, s, t
  <1>3. /\ s \in a .. (a + ca - 1) /\ Kind(s) \in {"first", "odd"} /\ s + SampleLines <= a + ca
        /\ t \in b .. (b + cb - 1) /\ Kind(t) \in {"first", "odd"} /\ t + SampleLines <= b + cb
    BY <1>2 DEF SampleStarts
  <1>4. s \in Int /\ t \in Int /\ b <= t
    BY <1>1, <1>3
  <1>5. s <= t
    <2> SUFFICES ASSUME t < s PROVE FALSE
      BY <1>4
    <2>1. t \in a .. (a + ca - 1)
      BY <1>1, <1>3, <1>4
    <2>2. t + SampleLines <= a + ca
      BY <1>0, <1>1, <1>3, <1>4
    <2>3. t \in SampleStarts(a, ca)
      BY <1>3, <2>1, <2>2 DEF SampleStarts
    <2> QED
      BY <1>2, <1>4, <2>3
  <1> QED
    BY <1>3, <1>4, <1>5 DEF a, b, ca, cb, s, t

-----------------------------------------------------------------------------
(* The order of a directory *)

\* The scan order is that of the names, and nothing supported is missing.
LEMMA ScanIsSorted ==
  ASSUME directory \in Directories
  PROVE  /\ IsFiniteSet(Supported) /\ Cardinality(Supported) \in Nat
         /\ ScanOrder \in [1 .. Cardinality(Supported) -> Supported]
         /\ \A i, j \in 1 .. Cardinality(Supported) : i < j =>
                directory[ScanOrder[i]].name < directory[ScanOrder[j]].name
         /\ DOMAIN ScanOrder = 1 .. Cardinality(Supported)
         /\ Len(ScanOrder) = Cardinality(Supported)
  <1> DEFINE S == Supported
             n == Cardinality(S)
             name(i) == directory[i].name
             before == [i \in S |-> {j \in S : name(j) < name(i)}]
             order == [k \in 1 .. n |-> CHOOSE i \in S : Cardinality(before[i]) = k - 1]
  <1>1. directory \in Seq(Image)
    BY ChainAssumption
  <1>2. /\ DOMAIN directory = 1 .. Len(directory) /\ Len(directory) \in Nat
        /\ \A i \in DOMAIN directory : directory[i] \in Image
    BY <1>1
  <1>3. S \subseteq 1 .. Len(directory)
    BY <1>2 DEF Supported
  <1>4. IsFiniteSet(1 .. Len(directory))
    BY <1>2, FS_Interval
  <1>5. IsFiniteSet(S) /\ n \in Nat
    BY <1>3, <1>4, FS_Subset, FS_CardinalityType
  <1>6. \A i \in S : name(i) \in Nat
    BY <1>2, <1>3 DEF Image
  <1>7. \A i, j \in S : i # j => name(i) # name(j)
    BY <1>2, <1>3, ChainAssumption
  <1> HIDE DEF S, name
  <1>8. StrictOrder(S, before)
    BY <1>6, <1>7 DEF StrictOrder
  <1>9. \A i, j \in S : i \in before[j] <=> name(i) < name(j)
    OBVIOUS
  <1> HIDE DEF before, n
  <1>10. /\ \A i, j \in S : i \in before[j] =>
                    Cardinality(before[i]) < Cardinality(before[j])
         /\ \A i \in S : Cardinality(before[i]) + 1 \in 1 .. n
         /\ \A k \in 1 .. n : \E i \in S : Cardinality(before[i]) = k - 1
    BY <1>5, <1>8, Places DEF n
  <1>11. \A k \in 1 .. n : order[k] \in S /\ Cardinality(before[order[k]]) = k - 1
    BY <1>10
  <1>12. order \in [1 .. n -> S]
    BY <1>11
  <1> HIDE DEF order
  <1>13. ASSUME NEW i \in 1 .. n, NEW j \in 1 .. n, i < j
         PROVE  name(order[i]) < name(order[j])
    <2> DEFINE a == order[i]
               b == order[j]
    <2>1. a \in S /\ b \in S /\ Cardinality(before[a]) = i - 1 /\ Cardinality(before[b]) = j - 1
      BY <1>11
    <2> HIDE DEF a, b
    <2>2. b \notin before[a]
      BY <1>5, <1>10, <1>13, <2>1
    <2>3. a # b
      BY <1>5, <1>13, <2>1
    <2>4. a \in before[b]
      BY <1>8, <2>1, <2>2, <2>3 DEF StrictOrder
    <2> QED
      BY <1>9, <2>1, <2>4 DEF a, b
  <1>14. \E o \in [1 .. n -> S] :
            \A i, j \in DOMAIN o : i < j => directory[o[i]].name < directory[o[j]].name
    BY <1>12, <1>13 DEF name
  <1>15. /\ ScanOrder \in [1 .. n -> S]
         /\ \A i, j \in DOMAIN ScanOrder : i < j =>
                directory[ScanOrder[i]].name < directory[ScanOrder[j]].name
    BY <1>14 DEF ScanOrder, n, S
  <1>16. ScanOrder \in Seq(S) /\ DOMAIN ScanOrder = 1 .. n
    BY <1>5, <1>15
  <1>17. Len(ScanOrder) = n
    BY <1>5, <1>16
  <1> QED
    BY <1>5, <1>15, <1>16, <1>17 DEF n, S

\* There is no image yet.
LEMMA InitImages == Init => ImagesInv
  BY DEF Init, ImagesInv

\* Where no image is taken or recorded the counts stay.
LEMMA ImagesStay ==
  ASSUME ImagesInv, UNCHANGED given, UNCHANGED <<files, next_file, delivered>>,
         \/ phase' = phase /\ buffer' = buffer
         \/ phase' \notin {"null", "source", "filter", "sink", "eos"}
  PROVE  ImagesInv'
  <1>1. profile' = profile /\ directory' = directory
    BY Constants
  <1>2. ScanOrder' = ScanOrder
    BY <1>1 DEF ScanOrder, Supported
  <1>3. \A b, image : ImageFrame(b, image)' <=> ImageFrame(b, image)
    BY DEF ImageFrame
  <1> QED
    BY <1>1, <1>2, <1>3 DEF ImagesInv

\* An image is taken off the list and recorded before the next is.
LEMMA StepImages ==
  ASSUME LinesInv, GivenInv, MetaInv, ImagesInv, [Next]_vars
  PROVE  ImagesInv'
  <1>1. UNCHANGED given
    BY GivenStays
  <1>2. profile' = profile /\ directory' = directory
    BY <1>1, Constants
  <1>3. ScanOrder' = ScanOrder
    BY <1>2 DEF ScanOrder, Supported
  <1>4. \A b, image : ImageFrame(b, image)' <=> ImageFrame(b, image)
    BY DEF ImageFrame
  <1>5. Len(ScanOrder) \in Nat
    BY ScanIsSorted DEF GivenInv
  <1>6. delivered \in Seq(Elements(delivered)) /\ Len(delivered) \in Nat
        /\ DOMAIN delivered = 1 .. Len(delivered)
    BY DEF LinesInv
  <1>7. SUFFICES ASSUME profile.source = "images" PROVE ImagesInv'
    BY <1>2 DEF ImagesInv
  <1>8. CASE \/ StartLines \/ StartArea \/ CreateLines \/ ReadTooShort \/ CreateArea
             \/ TransformIp \/ Transform \/ MockDetect \/ MockTrack \/ LynxiDetect
    <2>1. ~(TransformIp \/ Transform)
      BY <1>7 DEF TransformIp, Transform, MetaInv
    <2>2. ~(MockDetect \/ MockTrack \/ LynxiDetect)
      BY <1>7, Decorates
    <2> QED
      BY <1>7, <1>8, <2>1, <2>2 DEF StartLines, StartArea, CreateLines, ReadTooShort,
         CreateArea, Creates
  <1>9. CASE StartImages
    <2>1. /\ phase = "null" /\ phase' = "source" /\ next_file' = 0 /\ delivered' = delivered
          /\ files' = ScanOrder
      BY <1>9 DEF StartImages, ScanOrder
    <2>2. delivered = <<>>
      BY <1>7, <2>1 DEF ImagesInv
    <2>3. Len(delivered) = 0 /\ 0 \in 0 .. Len(ScanOrder)
      BY <1>5, <2>2
    <2> QED
      BY <1>2, <1>3, <1>5, <2>1, <2>2, <2>3 DEF ImagesInv
  <1>10. CASE Fails \/ TransformOverruns \/ Refuse \/ UNCHANGED vars
    <2>1. /\ UNCHANGED <<files, next_file, delivered>>
          /\ \/ phase' = phase /\ buffer' = buffer
             \/ phase' \notin {"null", "source", "filter", "sink", "eos"}
      BY <1>10 DEF Fails, TransformOverruns, Refuse, vars, source
    <2> QED
      BY <1>1, <2>1, ImagesStay
  <1>11. CASE Stop
    <2>1. delivered' = delivered /\ phase' = "stopped"
      BY <1>11 DEF Stop
    <2> QED
      BY <1>2, <1>3, <1>4, <2>1 DEF ImagesInv
  <1>12. CASE CreateImage
    <2>1. /\ phase = "source" /\ ~NothingToRead
          /\ next_file' = next_file + 1 /\ files' = files /\ delivered' = delivered
          /\ phase' \in {"filter", "error"}
          /\ phase' = "filter" => buffer' = Original(<<>>, "image_dir", files[next_file + 1])
      BY <1>12 DEF CreateImage, Creates
    <2>2. /\ files = ScanOrder /\ next_file \in 0 .. Len(ScanOrder)
          /\ next_file = Len(delivered)
      BY <1>7, <2>1 DEF ImagesInv
    <2>3. next_file < Len(ScanOrder)
      <3>1. ~(next_file >= Len(files))
        BY <1>7, <2>1 DEF NothingToRead
      <3> QED
        BY <1>5, <2>2, <3>1
    <2>4. next_file' \in 0 .. Len(ScanOrder)
      BY <1>5, <2>1, <2>2, <2>3
    <2>5. phase' = "filter" => ImageFrame(buffer', ScanOrder[next_file'])
      BY <2>1, <2>2 DEF Original, Add, ImageFrame, Meta
    <2> QED
      BY <1>2, <1>3, <1>4, <1>7, <2>1, <2>2, <2>4, <2>5 DEF ImagesInv
  <1>13. CASE Eos
    <2>1. /\ phase = "source" /\ phase' = "eos" /\ UNCHANGED <<files, next_file, delivered>>
          /\ profile.num_buffers = None => NothingToRead
      BY <1>13 DEF Eos, LimitReached, source
    <2>2. /\ files = ScanOrder /\ next_file \in 0 .. Len(ScanOrder)
          /\ next_file = Len(delivered)
      BY <1>7, <2>1 DEF ImagesInv
    <2>3. profile.num_buffers = None => next_file = Len(ScanOrder)
      <3>1. NothingToRead => next_file >= Len(files)
        BY <1>7 DEF NothingToRead
      <3> QED
        BY <1>5, <2>1, <2>2, <3>1
    <2> QED
      BY <1>2, <1>3, <1>4, <1>7, <2>1, <2>2, <2>3 DEF ImagesInv
  <1>14. CASE FilterTest
    <2>1. /\ phase = "filter" /\ phase' = "sink"
          /\ UNCHANGED <<files, next_file, delivered, buffer>>
      BY <1>14 DEF FilterTest, source
    <2> QED
      BY <1>2, <1>3, <1>4, <1>7, <2>1 DEF ImagesInv
  <1>15. CASE Record
    <2>1. /\ phase = "sink" /\ phase' = "source"
          /\ UNCHANGED <<files, next_file>> /\ delivered' = Append(delivered, buffer)
      BY <1>15 DEF Record, source
    <2>2. /\ files = ScanOrder /\ next_file \in 0 .. Len(ScanOrder)
          /\ next_file = Len(delivered) + 1
          /\ ImageFrame(buffer, ScanOrder[next_file])
          /\ \A i \in DOMAIN delivered : ImageFrame(delivered[i], ScanOrder[i])
      BY <1>7, <2>1 DEF ImagesInv
    <2>3. /\ DOMAIN delivered' = 1 .. (Len(delivered) + 1)
          /\ \A i \in DOMAIN delivered : delivered'[i] = delivered[i]
          /\ delivered'[Len(delivered) + 1] = buffer
          /\ Len(delivered') = Len(delivered) + 1
      BY <1>6, <2>1, AppendElements
    <2>4. \A i \in DOMAIN delivered' : ImageFrame(delivered'[i], ScanOrder[i])
      BY <1>6, <2>2, <2>3
    <2>5. Len(delivered') = next_file /\ next_file <= Len(ScanOrder)
      BY <1>5, <2>2, <2>3
    <2> QED
      BY <1>2, <1>3, <1>4, <1>7, <2>1, <2>2, <2>4, <2>5 DEF ImagesInv
  <1> QED
    BY <1>8, <1>9, <1>10, <1>11, <1>12, <1>13, <1>14, <1>15 DEF Next

-----------------------------------------------------------------------------
(* Frames are counted *)

\* Where nothing is created, decorated or recorded the counts stay.
LEMMA CountsStay ==
  ASSUME CountInv, UNCHANGED given, delivered' = delivered,
         \/ UNCHANGED <<phase, frame_number, next_frame_id, buffer>>
         \/ phase' \notin Busy \cup {"null", "source"}
  PROVE  CountInv'
  <1>1. profile' = profile
    BY Constants
  <1>2. \A b, id : Decorated(b, id)' <=> Decorated(b, id)
    BY DecoratedStays
  <1> QED
    BY <1>1, <1>2 DEF CountInv, Busy

\* A source begins to count.
LEMMA StartCounts ==
  ASSUME GivenInv, CountInv, StartLines \/ StartArea \/ StartImages
  PROVE  CountInv'
  <1>1. /\ UNCHANGED given /\ phase = "null" /\ phase' = "source" /\ delivered' = delivered
        /\ profile.source # "images" => frame_number' = 0 /\ next_frame_id' = 0
    BY DEF StartLines, StartArea, StartImages
  <1>2. delivered' = <<>> /\ Len(delivered') = 0
    BY <1>1 DEF CountInv
  <1>3. profile' = profile /\ profile.num_buffers \in Nat \cup {None}
    BY <1>1, Constants, Widths DEF GivenInv
  <1> QED
    BY <1>1, <1>2, <1>3 DEF CountInv, Busy

\* It counts up to the limit of the profile.
LEMMA CreateCounts ==
  ASSUME LinesInv, GivenInv, CountInv, CreateLines \/ CreateArea
  PROVE  CountInv'
  <1>1. /\ UNCHANGED given /\ delivered' = delivered /\ next_frame_id' = next_frame_id
        /\ phase = "source" /\ profile.source # "images" /\ ~LimitReached
        /\ \/ phase' = "geometry" /\ frame_number' = frame_number + 1
           \/ phase' = "error"
    BY DEF CreateLines, CreateArea, Creates
  <1>2. profile' = profile /\ profile.num_buffers \in Nat \cup {None}
    BY <1>1, Constants, Widths DEF GivenInv
  <1>3. Len(delivered) \in Nat /\ frame_number = Len(delivered)
    BY <1>1 DEF LinesInv, CountInv
  <1>4. profile.num_buffers # None =>
            frame_number <= profile.num_buffers /\ frame_number # profile.num_buffers
    BY <1>1 DEF CountInv, LimitReached
  <1>5. profile.num_buffers # None => frame_number + 1 <= profile.num_buffers
    BY <1>2, <1>3, <1>4
  <1> QED
    BY <1>1, <1>2, <1>3, <1>5 DEF CountInv, Busy

\* A filter numbers the frame it decorates.
LEMMA FilterCounts ==
  ASSUME LinesInv, MetaInv, CountInv, MockDetect \/ MockTrack \/ LynxiDetect
  PROVE  CountInv'
  <1> DEFINE id == IF profile.filter = "detector" THEN 0 ELSE next_frame_id
  <1>1. /\ UNCHANGED given /\ delivered' = delivered
        /\ phase = "filter" /\ phase' = "sink" /\ profile.source # "images"
        /\ Decorated(buffer', id)
    BY Decorates
  <1>2. profile' = profile
    BY <1>1, Constants
  <1>4. /\ frame_number' = frame_number
        /\ profile.filter \in {"tracker", "lynxi"} => next_frame_id' = next_frame_id + 1
    BY DEF MockDetect, MockTrack, LynxiDetect, Decorate, source
  <1>5. profile.filter \in {"tracker", "lynxi"} => next_frame_id = Len(delivered)
    BY <1>1 DEF CountInv
  <1>6. \A b, i : Decorated(b, i)' <=> Decorated(b, i)
    BY <1>1, DecoratedStays
  <1> QED
    BY <1>1, <1>2, <1>4, <1>5, <1>6 DEF CountInv, Busy

\* The sink catches up.
LEMMA RecordCounts ==
  ASSUME LinesInv, CountInv, Record
  PROVE  CountInv'
  <1>1. /\ UNCHANGED given /\ delivered' = Append(delivered, buffer)
        /\ phase = "sink" /\ phase' = "source"
        /\ frame_number' = frame_number /\ next_frame_id' = next_frame_id
    BY DEF Record, source
  <1>2. profile' = profile
    BY <1>1, Constants
  <1>3. delivered \in Seq(Elements(delivered))
    BY DEF LinesInv
  <1>4. Len(delivered') = Len(delivered) + 1
    BY <1>1, <1>3, AppendElements
  <1> QED
    BY <1>1, <1>2, <1>4 DEF CountInv, Busy

\* Every action.
LEMMA StepCounts ==
  ASSUME LinesInv, GivenInv, MetaInv, CountInv, [Next]_vars
  PROVE  CountInv'
  <1>1. UNCHANGED given
    BY GivenStays
  <1>2. profile' = profile
    BY <1>1, Constants
  <1>3. CASE \/ Fails \/ ReadTooShort \/ Eos \/ TransformOverruns \/ Refuse \/ Stop
             \/ UNCHANGED vars
    <2>1. /\ delivered' = delivered
          /\ \/ UNCHANGED <<phase, frame_number, next_frame_id, buffer>>
             \/ phase' \notin Busy \cup {"null", "source"}
      BY <1>3 DEF Fails, ReadTooShort, Eos, TransformOverruns, Refuse, Stop, vars, source,
         Busy
    <2> QED
      BY <1>1, <2>1, CountsStay
  <1>4. CASE CreateImage
    <2>1. profile.source = "images" /\ phase' # "null"
      BY <1>4 DEF CreateImage, Creates
    <2> QED
      BY <1>2, <2>1 DEF CountInv
  <1>5. CASE TransformIp \/ Transform
    <2>1. /\ phase = "geometry" /\ phase' = "filter" /\ delivered' = delivered
          /\ UNCHANGED <<frame_number, next_frame_id>>
      BY <1>5 DEF TransformIp, Transform, source
    <2> QED
      BY <1>2, <2>1 DEF CountInv, Busy
  <1>6. CASE FilterTest
    <2>1. /\ phase = "filter" /\ phase' = "sink" /\ delivered' = delivered
          /\ UNCHANGED <<frame_number, next_frame_id>> /\ profile.filter = "test"
      BY <1>6 DEF FilterTest, source
    <2> QED
      BY <1>2, <2>1 DEF CountInv, Busy
  <1> QED
    BY <1>3, <1>4, <1>5, <1>6, StartCounts, CreateCounts, FilterCounts, RecordCounts DEF Next

-----------------------------------------------------------------------------
(* The buffer of the geometry *)

\* Behaviour is undefined only behind a write that did not fit.
OverrunInv == phase = "undefined" => Overruns

LEMMA InitOverrun == Init => OverrunInv
  BY DEF Init, OverrunInv

LEMMA StepOverrun == OverrunInv /\ [Next]_vars => OverrunInv'
  <1> SUFFICES ASSUME OverrunInv, [Next]_vars, phase' = "undefined" PROVE Overruns'
    BY DEF OverrunInv
  <1>1. Overruns' <=> Overruns
    BY GivenStays, Constants
  <1>2. CASE UNCHANGED vars
    BY <1>1, <1>2 DEF vars, OverrunInv
  <1>3. CASE TransformOverruns
    BY <1>1, <1>3 DEF TransformOverruns
  <1>4. CASE Next /\ ~TransformOverruns
    BY <1>4 DEF Next, StartLines, StartArea, StartImages, Fails, CreateLines, ReadTooShort,
       CreateArea, CreateImage, Eos, TransformIp, Transform, MockDetect, MockTrack,
       LynxiDetect, FilterTest, Decorate, Record, Refuse, Stop
  <1> QED
    BY <1>2, <1>3, <1>4

\* A plane no wider than the original fits into a buffer of its size, row by
\* row, and with the rows a reader pads.
LEMMA PlaneFits ==
  ASSUME profile \in Profiles, FilterWidth <= OriginalWidth
  PROVE  Mappable /\ ~Overruns
  <1> DEFINE w == FilterWidth
             o == OriginalWidth
             h == profile.height
  <1>1. w \in Nat \ {0} /\ o \in Nat \ {0} /\ h \in Nat \ {0} /\ o % 4 = 0 /\ w <= o
    BY Given, Widths, ChainAssumption DEF Profile
  <1>2. BufferSize = o * h
    BY DEF BufferSize
  <1> HIDE DEF w, o, h
  <1>3. \A a, b \in Nat : a <= b => a * h <= b * h
    BY <1>1
  <1>4. Mappable
    <2>1. RowPitch(w) \in Nat /\ RowPitch(w) <= o
      BY <1>1 DEF RowPitch
    <2>2. RowPitch(w) * h <= o * h
      BY <1>1, <1>3, <2>1
    <2> QED
      BY <1>2, <2>2 DEF Mappable, w, h
  <1>5. \A x \in 0 .. (w - 1) : ~((h - 1) * w + x >= BufferSize)
    <2> SUFFICES ASSUME NEW x \in 0 .. (w - 1), (h - 1) * w + x >= o * h PROVE FALSE
      BY <1>2
    <2>1. w * h <= o * h /\ w * h \in Nat /\ o * h \in Nat
      BY <1>1, <1>3
    <2>2. (h - 1) * w = w * h - w
      BY <1>1
    <2>3. x \in Nat /\ x < w
      BY <1>1
    <2> QED
      BY <1>1, <2>1, <2>2, <2>3
  <1>6. ~Overruns
    BY <1>5 DEF Overruns, w, h
  <1> QED
    BY <1>4, <1>6

-----------------------------------------------------------------------------
(* The chain as a whole *)

\* All the invariants of the chain together.
ChainInv ==
    LinesInv /\ GivenInv /\ MetaInv /\ CountInv /\ WindowInv /\ ImagesInv /\ OverrunInv

LEMMA ChainInvariant == Spec => []ChainInv
  <1>1. Init => ChainInv
    BY InitLines, InitGiven, InitMeta, InitWindow, InitImages, InitOverrun DEF ChainInv
  <1>2. ChainInv /\ [Next]_vars => ChainInv'
    BY StepLines, StepGiven, StepMeta, StepCounts, StepWindow, StepImages, StepOverrun
       DEF ChainInv
  <1> QED
    BY <1>1, <1>2, PTL DEF Spec

\* The frames that have been recorded follow their input: the windows of a file
\* and the samples they start at, the images of a directory by name.
THEOREM OrderCorrect == Spec => []FramesFollowTheInput
  <1>1. ChainInv => FramesFollowTheInput
    <2> SUFFICES ASSUME ChainInv PROVE FramesFollowTheInput
      OBVIOUS
    <2>0. /\ delivered \in Seq(Elements(delivered)) /\ Len(delivered) \in Nat
          /\ DOMAIN delivered = 1 .. Len(delivered)
          /\ profile \in Profiles /\ input \in Inputs /\ directory \in Directories
      BY DEF ChainInv, LinesInv, GivenInv
    <2>1. ASSUME profile.source = "line", profile.filter # "test", NEW i \in DOMAIN delivered
          PROVE  /\ delivered[i].window.first <= Clock(delivered[i])
                 /\ Clock(delivered[i]) + SampleLines
                        <= delivered[i].window.first + delivered[i].window.count
                 /\ \A j \in 1 .. i : Clock(delivered[j]) <= Clock(delivered[i])
      <3> DEFINE first(k) == delivered[k].window.first
      <3>1. ASSUME NEW k \in DOMAIN delivered
            PROVE  /\ Clock(delivered[k]) = delivered[k].window.window_start
                   /\ Windowed(delivered[k].window) /\ first(k) \in Nat
                   /\ delivered[k].window.window_start # None
        <4>1. /\ FilterServed /\ Decorated(delivered[k], FrameId(delivered[k]))
              /\ delivered[k].window.window_start # None
          BY <2>1 DEF ChainInv, MetaInv
        <4>2. Clock(delivered[k]) = delivered[k].window.window_start
          BY <4>1, ReadBack DEF FilterServed
        <4>3. Windowed(delivered[k].window) /\ first(k) \in Nat
          BY <2>1 DEF ChainInv, WindowInv, Windowed
        <4> QED
          BY <4>1, <4>2, <4>3
      <3>2. ASSUME NEW j \in 1 .. i PROVE j \in DOMAIN delivered /\ first(j) <= first(i)
        <4>1. j \in DOMAIN delivered
          BY <2>0, <2>1
        <4>2. j # i => j \in 1 .. (i - 1)
          BY <2>0, <2>1
        <4>3. j # i => first(j) < first(i)
          BY <2>1, <4>2 DEF ChainInv, WindowInv
        <4>4. first(j) \in Nat /\ first(i) \in Nat
          BY <2>1, <3>1, <4>1
        <4> HIDE DEF first
        <4> QED
          BY <4>1, <4>3, <4>4
      <3>3. ASSUME NEW j \in 1 .. i
            PROVE  /\ Clock(delivered[j]) <= Clock(delivered[i])
                   /\ first(i) <= Clock(delivered[i])
                   /\ Clock(delivered[i]) + SampleLines <= first(i) + delivered[i].window.count
        <4> DEFINE v == delivered[j].window
                   w == delivered[i].window
        <4>1. /\ Windowed(v) /\ Windowed(w) /\ v.first <= w.first
              /\ v.window_start # None /\ w.window_start # None
              /\ Clock(delivered[j]) = v.window_start /\ Clock(delivered[i]) = w.window_start
          BY <2>1, <3>1, <3>2
        <4> HIDE DEF v, w
        <4>2. /\ v.window_start <= w.window_start /\ w.first <= w.window_start
              /\ w.window_start + SampleLines <= w.first + w.count
          BY <4>1, SamplesFollow
        <4> QED
          BY <4>1, <4>2 DEF v, w
      <3> HIDE DEF first
      <3>4. i \in 1 .. i
        BY <2>0, <2>1
      <3> QED
        BY <3>3, <3>4 DEF first
    <2>2. ASSUME profile.source = "images"
          PROVE  /\ \A i \in DOMAIN delivered : \A j \in 1 .. (i - 1) :
                        ImageOf(delivered[j]).name < ImageOf(delivered[i]).name
                 /\ phase = "eos" /\ profile.num_buffers = None =>
                        Len(delivered) = Cardinality(Supported)
      <3>1. /\ Len(delivered) <= Len(ScanOrder)
            /\ \A i \in DOMAIN delivered : ImageFrame(delivered[i], ScanOrder[i])
            /\ (phase = "eos" /\ profile.num_buffers = None) =>
                    Len(delivered) = Len(ScanOrder)
        BY <2>2 DEF ChainInv, ImagesInv
      <3>2. \A i \in DOMAIN delivered : ImageOf(delivered[i]) = directory[ScanOrder[i]]
        <4> SUFFICES ASSUME NEW i \in DOMAIN delivered
                     PROVE  Get(delivered[i].metas, "image_dir") = ScanOrder[i]
          BY DEF ImageOf
        <4> DEFINE m == Meta("image_dir", ScanOrder[i])
        <4>1. delivered[i].metas = <<m>>
          BY <3>1 DEF ImageFrame
        <4>2. m = Meta("image_dir", m.value) /\ m.value = ScanOrder[i]
          BY DEF Meta
        <4> HIDE DEF m
        <4> QED
          BY <4>1, <4>2, OneMeta
      <3>3. /\ Cardinality(Supported) \in Nat /\ Len(ScanOrder) = Cardinality(Supported)
            /\ \A i, j \in 1 .. Cardinality(Supported) : i < j =>
                    directory[ScanOrder[i]].name < directory[ScanOrder[j]].name
        BY <2>0, ScanIsSorted
      <3>4. ASSUME NEW i \in DOMAIN delivered, NEW j \in 1 .. (i - 1)
            PROVE  ImageOf(delivered[j]).name < ImageOf(delivered[i]).name
        <4>1. /\ j \in DOMAIN delivered /\ j < i
              /\ i \in 1 .. Cardinality(Supported) /\ j \in 1 .. Cardinality(Supported)
          BY <2>0, <3>1, <3>3
        <4> QED
          BY <3>2, <3>3, <4>1
      <3> QED
        BY <3>1, <3>3, <3>4
    <2> QED
      BY <2>1, <2>2 DEF FramesFollowTheInput
  <1> QED
    BY <1>1, ChainInvariant, PTL

\* What the filter finds on a frame that has passed the geometry.
LEMMA FrameServed ==
  ASSUME NEW b, Mapped(b), SourceFits, profile.filter # "test"
  PROVE  /\ Has(b.metas, "geometry") /\ Has(b.metas, NeededBy)
         /\ ~Has(b.metas, "detection") /\ ~Has(b.metas, "tracking")
  <1> DEFINE m == SourceMeta(b.window)
             g == Meta("geometry", Geometry)
  <1>1. b.metas = <<m, g>>
    BY DEF Mapped
  <1>2. g = Meta("geometry", g.value) /\ m = Meta(NeededBy, m.value)
    BY DEF Meta, SourceMeta, NeededBy, SourceFits
  <1>3. NeededBy \in {"area_frame", "cdg00"}
    BY DEF NeededBy
  <1> HIDE DEF m, g
  <1>4. \A info : Has(<<m, g>>, info) <=> info \in {NeededBy, "geometry"}
    BY <1>2, <1>3, TwoMetas
  <1> QED
    BY <1>1, <1>3, <1>4

\* The targets of a mock lie where its profile has put them, those of the model
\* inside the plane, and that is the original's where nothing is mapped.
LEMMA TargetsFit ==
  ASSUME GivenInv, FilterServed, MocksConfigured, profile.filter # "test",
         NEW i \in DOMAIN TargetsOf
  PROVE  /\ InPlane(TargetsOf[i])
         /\ In_place \/ profile.filter # "lynxi" => InOriginal(TargetsOf[i])
  <1>1. /\ OriginalWidth \in Nat \ {0} /\ FilterWidth \in Nat \ {0}
        /\ profile.num \in Nat \ {0} /\ profile.den \in Nat \ {0} /\ profile.offset \in Int
        /\ profile.box \in Box
    BY Widths DEF GivenInv
  <1>2. CASE profile.filter = "lynxi"
    <2> DEFINE t == TargetsOf[i]
    <2>1. /\ ValidBox(t) /\ t.min \in Int /\ t.max \in Int
          /\ 0 <= t.min /\ t.max <= FilterWidth
      BY <1>2, LynxiReport
    <2> HIDE DEF t
    <2>2. InPlane(t)
      BY <1>1, <2>1 DEF InPlane
    <2>3. In_place => InOriginal(t)
      <3> SUFFICES ASSUME In_place PROVE InOriginal(t)
        OBVIOUS
      <3> DEFINE k == profile.den
      <3>1. /\ k \in Nat \ {0} /\ profile.num = k /\ FilterWidth = OriginalWidth
            /\ t.min - profile.offset = t.min /\ t.max - profile.offset = t.max
        BY <1>1, <2>1 DEF In_place
      <3> HIDE DEF k
      <3>2. \A a, b \in Int : a <= b => a * k <= b * k
        BY <3>1
      <3>3. 0 * k <= t.min * k /\ t.max * k <= OriginalWidth * k
        BY <1>1, <2>1, <3>1, <3>2
      <3>4. t.min * k \in Int /\ t.max * k \in Int /\ OriginalWidth * k \in Int /\ 0 * k = 0
        BY <1>1, <2>1, <3>1
      <3>5. ~(t.min * k < 0) /\ ~(t.max * k > OriginalWidth * k)
        BY <3>3, <3>4
      <3> QED
        BY <3>1, <3>5 DEF InOriginal, k
    <2> QED
      BY <1>2, <2>2, <2>3 DEF t
  <1>3. CASE profile.filter # "lynxi"
    <2>1. TargetsOf = IF profile.emit THEN <<profile.box>> ELSE <<>>
      BY <1>3 DEF TargetsOf, MockTargets
    <2>2. profile.emit /\ TargetsOf[i] = profile.box
      BY <2>1
    <2>3. profile.filter \in {"detector", "tracker"}
      <3>1. profile.filter \in {"detector", "tracker", "lynxi", "test"}
        BY ChainAssumption DEF GivenInv, Profile
      <3> QED
        BY <1>3, <3>1
    <2> DEFINE t == profile.box
    <2>4. /\ ValidBox(t) /\ t.min >= 0 /\ t.max <= FilterWidth
          /\ t.min >= profile.offset
          /\ (t.max - profile.offset) * profile.den <= OriginalWidth * profile.num
      BY <2>2, <2>3 DEF MocksConfigured
    <2>5. t.min \in Int /\ t.max \in Int
      BY <1>1 DEF Box
    <2> HIDE DEF t
    <2>6. InPlane(t)
      BY <1>1, <2>4, <2>5 DEF InPlane
    <2>7. InOriginal(t)
      <3>1. t.min - profile.offset \in Nat /\ t.max - profile.offset \in Int
        BY <1>1, <2>4, <2>5
      <3>2. \A a, b \in Nat : a * b \in Nat
        OBVIOUS
      <3>3. \A a, b \in Int : a * b \in Int
        OBVIOUS
      <3>4. /\ (t.min - profile.offset) * profile.den \in Nat
            /\ (t.max - profile.offset) * profile.den \in Int
            /\ OriginalWidth * profile.num \in Int
        BY <1>1, <3>1, <3>2, <3>3
      <3>5. /\ ~((t.min - profile.offset) * profile.den < 0)
            /\ ~((t.max - profile.offset) * profile.den > OriginalWidth * profile.num)
        BY <2>4, <3>4
      <3> QED
        BY <3>5 DEF InOriginal
    <2> QED
      BY <2>2, <2>6, <2>7 DEF t
  <1> QED
    BY <1>2, <1>3

\* The elements of a chain fit together, however a frame is copied or counted,
\* and the geometry stays inside its buffer unless the plane is wider than the
\* original.
THEOREM FitCorrect == Spec => []ElementsFit
  <1>1. ChainInv => ElementsFit
    <2> SUFFICES ASSUME ChainInv, profile.filter # "test", SourceFits, MocksConfigured
                 PROVE  /\ phase = "filter" => FitForRole(NeededBy)
                        /\ phase = "sink" =>
                            Faults(buffer) \subseteq {"clock"} \cup
                                (IF In_place \/ profile.filter # "lynxi" THEN {} ELSE {"outside"})
                        /\ FilterWidth <= OriginalWidth => Mappable /\ phase # "undefined"
      BY DEF ElementsFit
    <2>1. profile.source # "images" /\ GivenInv /\ profile \in Profiles
          /\ Len(delivered) \in Nat
      BY DEF SourceFits, ChainInv, GivenInv, LinesInv
    <2>2. ASSUME phase = "filter" PROVE FitForRole(NeededBy)
      BY <2>1, <2>2, FrameServed DEF ChainInv, MetaInv, FitForRole
    <2>3. ASSUME phase = "sink"
          PROVE  Faults(buffer) \subseteq {"clock"} \cup
                    (IF In_place \/ profile.filter # "lynxi" THEN {} ELSE {"outside"})
      <3>1. FilterServed
        BY <2>3 DEF ChainInv, MetaInv
      <3>2. Decorated(buffer, Len(delivered))
        <4>1. profile.filter \in {"detector", "tracker", "lynxi", "test"}
          BY <2>1, ChainAssumption DEF Profile
        <4>2. CASE profile.filter \in {"tracker", "lynxi"}
          BY <2>1, <2>3, <4>2 DEF ChainInv, CountInv
        <4>3. CASE profile.filter = "detector"
          <5>1. Decorated(buffer, 0)
            BY <2>1, <2>3, <4>3 DEF ChainInv, CountInv
          <5>2. frame_number = Len(delivered) + 1
            BY <2>1, <2>3 DEF ChainInv, CountInv, Busy
          <5>3. profile.num_buffers \in {0, 1}
            BY <4>3 DEF MocksConfigured
          <5>4. frame_number <= profile.num_buffers
            BY <2>1, <2>3, <5>3 DEF ChainInv, CountInv, Busy, None
          <5>5. Len(delivered) = 0
            BY <2>1, <5>2, <5>3, <5>4
          <5> QED
            BY <5>1, <5>5
        <4> QED
          BY <4>1, <4>2, <4>3
      <3>3. /\ Faults(buffer) \subseteq {"clock", "frame_id", "plane", "outside"}
            /\ "frame_id" \notin Faults(buffer)
            /\ "plane" \in Faults(buffer) <=>
                \E i \in DOMAIN TargetsOf :
                    LET t == TargetsOf[i]
                    IN  ~ValidBox(t) \/ t.min < 0 \/ t.max > FilterWidth
            /\ "outside" \in Faults(buffer) <=>
                \E i \in DOMAIN TargetsOf :
                    LET t == TargetsOf[i]
                    IN  \/ (t.min - profile.offset) * profile.den < 0
                        \/ (t.max - profile.offset) * profile.den
                               > OriginalWidth * profile.num
        BY <2>1, <3>2, FaultsOf
      <3>4. \A i \in DOMAIN TargetsOf :
                /\ InPlane(TargetsOf[i])
                /\ In_place \/ profile.filter # "lynxi" => InOriginal(TargetsOf[i])
        BY <2>1, <3>1, TargetsFit
      <3>5. "plane" \notin Faults(buffer)
        BY <3>3, <3>4 DEF InPlane
      <3>6. In_place \/ profile.filter # "lynxi" => "outside" \notin Faults(buffer)
        BY <3>3, <3>4 DEF InOriginal
      <3> QED
        BY <3>3, <3>5, <3>6
    <2>4. FilterWidth <= OriginalWidth => Mappable /\ phase # "undefined"
      BY <2>1, PlaneFits DEF ChainInv, OverrunInv
    <2> QED
      BY <2>2, <2>3, <2>4
  <1> QED
    BY <1>1, ChainInvariant, PTL
=============================================================================
