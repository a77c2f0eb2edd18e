------------------------------ MODULE LogParseProofs ------------------------------
(*******************************************************************************)
(* Proofs about DynamicBuffer and LogParse.                                    *)
(*                                                                             *)
(* The buffer keeps room for its terminator because a request is refused       *)
(* before its size can wrap, and its doubling loop goes up (BufferInv).        *)
(*                                                                             *)
(* Whatever log_parse keeps is an account of a prefix of the input: the full   *)
(* log of the first Logged lines, standard output, the aggregates and the      *)
(* count of the first Handled lines.  A line is counted in both as soon as its *)
(* turn ends; while it is at hand, the log may already know it.  Turns says    *)
(* where log_parse is in a turn: that a line past the parser is a record, and  *)
(* a line being printed passes the filter, which is what makes the next        *)
(* account right.  Aggregates are compared with a recursive Sum; what is       *)
(* proved about recursive functions rests on LeastNatural.                     *)
(*******************************************************************************)
EXTENDS LogParse, FiniteSetTheorems, SequenceTheorems, WellFoundedInduction, TLAPS

(* The buffer                                                                    *)

BufferInv ==
  /\ BufferTypeOK
  /\ RoomForTerminator
  /\ phase = "growing" => next_size >= 1

LEMMA BufferStarts == BufferInit => BufferInv
BY SizeAssumption DEF NULL, Heap, BufferInit, BufferInv, BufferTypeOK, RoomForTerminator, ZeroBuffer, Sizes

\* The two branches of the doubling loop stay within size_t and go up.
LEMMA NextSize ==
  ASSUME BufferInv, phase = "growing", next_size < need
  PROVE  /\ next_size > SizeMax \div 2 => need \in Sizes /\ need > next_size
         /\ ~(next_size > SizeMax \div 2) =>
              /\ Wrapped(next_size * 2) = next_size * 2
              /\ next_size * 2 \in Sizes
              /\ next_size * 2 > next_size
<1>1. next_size \in Nat /\ need \in Nat /\ SizeMax \in Nat /\ next_size >= 1
  BY SizeAssumption DEF BufferInv, BufferTypeOK, Sizes
<1>2. need \in Sizes
  BY DEF BufferInv, BufferTypeOK
<1>3. ASSUME ~(next_size > SizeMax \div 2)
      PROVE  next_size * 2 <= SizeMax
  BY <1>1, <1>3
<1>4. ASSUME next_size * 2 <= SizeMax
      PROVE  Wrapped(next_size * 2) = next_size * 2
  BY <1>1, <1>4 DEF Wrapped
<1> QED
  BY <1>1, <1>2, <1>3, <1>4 DEF Sizes

LEMMA BufferKeeps == BufferInv /\ [BufferNext]_bufferVars => BufferInv'
<1> SUFFICES ASSUME BufferInv, [BufferNext]_bufferVars PROVE BufferInv'
  OBVIOUS
<1> USE SizeAssumption DEF NULL, Heap, BufferInv, BufferTypeOK, RoomForTerminator, Sizes
<1>1. CASE Free
  BY <1>1 DEF Free, ZeroBuffer
<1>2. CASE Reset
  BY <1>2 DEF Reset
<1>3. CASE AppendNull
  BY <1>3 DEF AppendNull, Fails
<1>4. ASSUME NEW n \in Sizes, Reserve(n) \/ AppendBytes(n) PROVE BufferInv'
  <2>1. ASSUME Refuse(n) PROVE BufferInv'
    BY <2>1 DEF Refuse, Fails
  <2>2. ASSUME NEW m \in {0, n}, Fits(n, m) PROVE BufferInv'
    BY <2>2 DEF Fits, Usable, Needed, Overflows, Corrupt
  <2>3. ASSUME NEW m \in {0, n}, MustGrow(n, m) PROVE BufferInv'
    BY <2>3 DEF MustGrow, Usable, Needed, Overflows, Corrupt
  <2> QED
    BY <1>4, <2>1, <2>2, <2>3 DEF Reserve, AppendBytes
<1>5. CASE Double
  <2>1. phase = "growing" /\ next_size < need
    BY <1>5 DEF Double
  <2>2. next_size' \in Sizes /\ next_size' >= 1
    BY <1>5, <2>1, NextSize DEF Double
  <2> QED
    BY <1>5, <2>1, <2>2 DEF Double
<1>6. CASE Reallocate
  BY <1>6 DEF Reallocate
<1>7. CASE ReallocFails
  BY <1>7 DEF ReallocFails, Fails
<1>8. CASE UNCHANGED bufferVars
  BY <1>8 DEF bufferVars
<1> QED
  BY <1>1, <1>2, <1>3, <1>4, <1>5, <1>6, <1>7, <1>8 DEF BufferNext, Grow

LEMMA BufferInvariant == BufferSpec => []BufferInv
<1>1. BufferInit => BufferInv
  BY BufferStarts
<1>2. BufferInv /\ [BufferNext]_bufferVars => BufferInv'
  BY BufferKeeps
<1> QED
  BY <1>1, <1>2, PTL DEF BufferSpec

\* Every size stays a size_t: no length, capacity or request wraps
\* (dynamic_buffer.c:63-88).
THEOREM SizesStaySizes == BufferSpec => []BufferTypeOK
<1>1. BufferInv => BufferTypeOK
  BY DEF BufferInv
<1> QED
  BY <1>1, BufferInvariant, PTL

\* Whatever is appended, refused, reset and freed, the byte behind the content
\* belongs to the buffer (dynamic_buffer.c:10-11).
THEOREM TerminatorFits == BufferSpec => []RoomForTerminator
<1>1. BufferInv => RoomForTerminator
  BY DEF BufferInv
<1> QED
  BY <1>1, BufferInvariant, PTL

\* Every turn of the doubling loop raises next, however close SIZE_MAX is, so the
\* loop of dynamic_buffer.c:75-81 cannot run for ever.
THEOREM LoopMakesProgress == BufferSpec => DoublingGrows
<1>1. ASSUME BufferInv, [BufferNext]_bufferVars
      PROVE  [phase = "growing" /\ phase' = "growing" => next_size' > next_size /\ need' = need]_bufferVars
  <2>1. CASE Double
    BY <1>1, <2>1, NextSize DEF Double
  <2>2. CASE phase = "growing" /\ BufferNext /\ ~Double
    BY <2>2 DEF BufferNext, Grow, Free, Reset, AppendNull, Reserve, AppendBytes, Refuse,
                Usable, Fits, MustGrow, Reallocate, ReallocFails, Fails
  <2> QED
    BY <1>1, <2>1, <2>2
<1> QED
  BY <1>1, BufferInvariant, PTL DEF BufferSpec, DoublingGrows

\* After a failure no call appends anything before a reset or a free
\* (dynamic_buffer.h:14-15, dynamic_buffer.c:47-50).
THEOREM FailureSticks == BufferSpec => FailureLatched
<1>1. ASSUME BufferInv, [BufferNext]_bufferVars
      PROVE  [buf.failed = 1 => (buf' = buf) \/ (buf'.failed = 0 /\ buf'.len = 0)]_bufferVars
  <2> SUFFICES ASSUME BufferNext, buf.failed = 1
               PROVE  (buf' = buf) \/ (buf'.failed = 0 /\ buf'.len = 0)
    BY <1>1
  <2>1. phase = "idle"
    BY <1>1 DEF BufferInv, BufferTypeOK, RoomForTerminator
  <2>2. CASE Free
    BY <2>2 DEF Free, ZeroBuffer
  <2>3. CASE Reset
    BY <2>3 DEF Reset
  <2>4. ASSUME Fails PROVE buf' = buf
    BY <1>1, <2>4 DEF Fails, BufferInv, BufferTypeOK
  <2>5. AppendNull \/ (\E n \in Sizes : Refuse(n)) => Fails
    BY DEF AppendNull, Refuse
  <2>6. ~Grow /\ \A n, m \in Sizes : ~Fits(n, m) /\ ~MustGrow(n, m)
    BY <2>1 DEF Grow, Double, Reallocate, ReallocFails, Fits, MustGrow, Usable
  <2>7. 0 \in Sizes
    BY SizeAssumption DEF Sizes
  <2> QED
    BY <2>2, <2>3, <2>4, <2>5, <2>6, <2>7 DEF BufferNext, Reserve, AppendBytes
<1> QED
  BY <1>1, BufferInvariant, PTL DEF BufferSpec, FailureLatched
-----------------------------------------------------------------------------------
(* Induction                                                                     *)

\* A set of natural numbers has a least member, which makes induction possible.
LEMMA LeastNatural ==
  ASSUME NEW T \in SUBSET Nat, T # {}
  PROVE  \E x \in T : \A y \in T : x <= y
<1> DEFINE R == OpToRel(<, Nat)
<1>1. IsWellFoundedOn(R, Nat)
  BY NatLessThanWellFounded, Zenon
<1>2. \A x, y \in Nat : y < x => <<y, x>> \in R
  BY DEF OpToRel
<1> HIDE DEF R
<1>3. \E x \in T : \A y \in T : <<y, x>> \notin R
  BY <1>1, WFMin, Zenon
<1>4. \A x, y \in T : y < x => <<y, x>> \in R
  BY <1>2, Zenon
<1>5. \A x, y \in T : ~(y < x) => x <= y
  OBVIOUS
<1> QED
  BY <1>3, <1>4, <1>5, Zenon

\* The first n partial sums.
Sums(sum, s, n) == sum = [i \in 0 .. n |-> IF i = 0 THEN 0 ELSE sum[i - 1] + s[i]]

LEMMA SumsExist ==
  ASSUME NEW s \in Seq(Int)
  PROVE  \E sum : Sums(sum, s, Len(s))
<1> DEFINE T == {n \in 0 .. Len(s) : ~\E sum : Sums(sum, s, n)}
<1> SUFFICES ASSUME T # {} PROVE FALSE
  BY LenProperties
<1>1. PICK n \in T : \A m \in T : n <= m
  <2>1. T \in SUBSET Nat
    OBVIOUS
  <2> QED
    BY <2>1, LeastNatural, Zenon
<1>2. CASE n = 0
  <2> DEFINE sum == [i \in 0 .. 0 |-> 0]
  <2>1. Sums(sum, s, 0)
    BY DEF Sums
  <2> QED
    BY <1>2, <2>1
<1>3. CASE n # 0
  <2>0. n - 1 \in 0 .. Len(s) /\ n - 1 < n /\ n \in Nat
    BY <1>3
  <2>1. PICK sum : Sums(sum, s, n - 1)
    <3>1. n - 1 \in T => n <= n - 1
      BY <1>1, Zenon
    <3>2. ~(n <= n - 1)
      BY <2>0
    <3> QED
      BY <2>0, <3>1, <3>2, Zenon
  <2> DEFINE more == [i \in 0 .. n |-> IF i < n THEN sum[i] ELSE sum[n - 1] + s[n]]
  <2>2. \A i \in 0 .. n - 1 : sum[i] = IF i = 0 THEN 0 ELSE sum[i - 1] + s[i]
    BY <2>1 DEF Sums
  <2>3. \A i \in 0 .. n : more[i] = IF i = 0 THEN 0 ELSE more[i - 1] + s[i]
    <3> SUFFICES ASSUME NEW i \in 0 .. n
                 PROVE  more[i] = IF i = 0 THEN 0 ELSE more[i - 1] + s[i]
      OBVIOUS
    <3>1. CASE i = 0
      BY <3>1, <1>3, <2>2
    <3>2. CASE i # 0 /\ i < n
      BY <3>2, <2>2
    <3>3. CASE i = n /\ i # 0
      BY <3>3
    <3> QED
      BY <3>1, <3>2, <3>3
  <2>4. more = [i \in 0 .. n |-> IF i = 0 THEN 0 ELSE more[i - 1] + s[i]]
    BY <2>3, Zenon
  <2>5. Sums(more, s, n)
    BY <2>4 DEF Sums
  <2> QED
    BY <2>5
<1> QED
  BY <1>2, <1>3

LEMMA SumIsLast ==
  ASSUME NEW s \in Seq(Int)
  PROVE  \E sum : Sums(sum, s, Len(s)) /\ Sum(s) = sum[Len(s)]
<1> DEFINE sum == CHOOSE sum : sum = [i \in 0 .. Len(s) |-> IF i = 0 THEN 0 ELSE sum[i - 1] + s[i]]
<1>1. Sum(s) = sum[Len(s)]
  BY DEF Sum
<1>2. \E f : f = [i \in 0 .. Len(s) |-> IF i = 0 THEN 0 ELSE f[i - 1] + s[i]]
  BY SumsExist DEF Sums
<1>3. sum = [i \in 0 .. Len(s) |-> IF i = 0 THEN 0 ELSE sum[i - 1] + s[i]]
  BY <1>2, Zenon
<1> HIDE DEF sum
<1> QED
  BY <1>1, <1>3 DEF Sums

LEMMA SumsAgree ==
  ASSUME NEW s \in Seq(Int), NEW n \in Nat, NEW m \in Nat, n <= m, m <= Len(s),
         NEW f, NEW g, Sums(f, s, n), Sums(g, s, m)
  PROVE  \A i \in 0 .. n : f[i] = g[i] /\ f[i] \in Int
<1> DEFINE T == {i \in 0 .. n : ~(f[i] = g[i] /\ f[i] \in Int)}
<1> SUFFICES ASSUME T # {} PROVE FALSE
  OBVIOUS
<1>1. PICK i \in T : \A j \in T : i <= j
  <2>1. T \in SUBSET Nat
    OBVIOUS
  <2> QED
    BY <2>1, LeastNatural, Zenon
<1>2. f[i] = IF i = 0 THEN 0 ELSE f[i - 1] + s[i]
  BY DEF Sums
<1>3. g[i] = IF i = 0 THEN 0 ELSE g[i - 1] + s[i]
  BY DEF Sums
<1>4. CASE i = 0
  BY <1>2, <1>3, <1>4
<1>5. CASE i # 0
  <2>1. f[i - 1] = g[i - 1] /\ f[i - 1] \in Int
    BY <1>1, <1>5
  <2>2. s[i] \in Int
    BY <1>5
  <2> QED
    BY <1>2, <1>3, <1>5, <2>1, <2>2
<1> QED
  BY <1>4, <1>5

LEMMA SumType ==
  ASSUME NEW s \in Seq(Int)
  PROVE  Sum(s) \in Int
<1>1. PICK f : Sums(f, s, Len(s)) /\ Sum(s) = f[Len(s)]
  BY SumIsLast
<1> QED
  BY <1>1, SumsAgree, LenProperties

LEMMA SumOfNothing == Sum(<<>>) = 0
<1>1. PICK f : Sums(f, <<>>, Len(<<>>)) /\ Sum(<<>>) = f[Len(<<>>)]
  BY SumIsLast, <<>> \in Seq(Int)
<1>2. Sums(f, <<>>, 0) /\ Sum(<<>>) = f[0]
  BY <1>1
<1> QED
  BY <1>2 DEF Sums

LEMMA SumAppend ==
  ASSUME NEW s \in Seq(Int), NEW x \in Int
  PROVE  Sum(Append(s, x)) = Sum(s) + x
<1> DEFINE t == Append(s, x)
           n == Len(s)
<1>1. t \in Seq(Int) /\ Len(t) = n + 1 /\ t[n + 1] = x /\ n \in Nat /\ \A i \in 1 .. n : t[i] = s[i]
  OBVIOUS
<1> HIDE DEF t
<1>2. PICK f : Sums(f, s, n) /\ Sum(s) = f[n]
  BY SumIsLast
<1>3. PICK g : Sums(g, t, n + 1) /\ Sum(t) = g[n + 1]
  BY SumIsLast, <1>1
<1> HIDE DEF n
<1>4. Sums(f, t, n)
  BY <1>1, <1>2 DEF Sums
<1>5. f[n] = g[n] /\ f[n] \in Int
  <2>1. \A i \in 0 .. n : f[i] = g[i] /\ f[i] \in Int
    BY <1>1, <1>3, <1>4, SumsAgree
  <2> QED
    BY <2>1, <1>1
<1>6. g[n + 1] = g[n] + t[n + 1]
  <2>1. g[n + 1] = IF n + 1 = 0 THEN 0 ELSE g[n + 1 - 1] + t[n + 1]
    BY <1>1, <1>3 DEF Sums
  <2> QED
    BY <2>1, <1>1
<1> QED
  BY <1>1, <1>2, <1>3, <1>5, <1>6 DEF t

\* The first n prefixes of a flattened sequence.
Flats(flat, s, n) ==
  flat = [i \in 1 .. n |-> IF i = 1 THEN s[i] ELSE flat[i - 1] \o s[i]]

LEMMA FlatsExist ==
  ASSUME NEW S, NEW s \in Seq(Seq(S))
  PROVE  \E flat : Flats(flat, s, Len(s))
<1> DEFINE T == {n \in 0 .. Len(s) : ~\E flat : Flats(flat, s, n)}
<1> SUFFICES ASSUME T # {} PROVE FALSE
  BY LenProperties
<1>1. PICK n \in T : \A m \in T : n <= m
  <2>1. T \in SUBSET Nat
    OBVIOUS
  <2> QED
    BY <2>1, LeastNatural, Zenon
<1>2. CASE n = 0
  <2> DEFINE flat == [i \in 1 .. 0 |-> 0]
  <2>1. Flats(flat, s, 0)
    BY DEF Flats
  <2> QED
    BY <1>2, <2>1
<1>3. CASE n # 0
  <2>0. n - 1 \in 0 .. Len(s) /\ n - 1 < n /\ n \in Nat
    BY <1>3
  <2>1. PICK flat : Flats(flat, s, n - 1)
    <3>1. n - 1 \in T => n <= n - 1
      BY <1>1, Zenon
    <3>2. ~(n <= n - 1)
      BY <2>0
    <3> QED
      BY <2>0, <3>1, <3>2, Zenon
  <2> DEFINE more == [i \in 1 .. n |-> IF i < n THEN flat[i]
                                        ELSE IF n = 1 THEN s[1] ELSE flat[n - 1] \o s[n]]
  <2>2. \A i \in 1 .. n - 1 : flat[i] = IF i = 1 THEN s[i] ELSE flat[i - 1] \o s[i]
    BY <2>1 DEF Flats
  <2>3. \A i \in 1 .. n : more[i] = IF i < n THEN flat[i]
                                    ELSE IF n = 1 THEN s[1] ELSE flat[n - 1] \o s[n]
    OBVIOUS
  <2>4. more = [i \in 1 .. n |-> more[i]]
    OBVIOUS
  <2> HIDE DEF more
  <2>5. \A i \in 1 .. n : more[i] = IF i = 1 THEN s[i] ELSE more[i - 1] \o s[i]
    BY <2>0, <2>2, <2>3
  <2>6. Flats(more, s, n)
    BY <2>4, <2>5, Zenon DEF Flats
  <2> QED
    BY <2>6
<1> QED
  BY <1>2, <1>3

LEMMA FlattenType ==
  ASSUME NEW S, NEW s \in Seq(Seq(S))
  PROVE  FlattenSeq(s) \in Seq(S)
<1>1. CASE Len(s) = 0
  BY <1>1 DEF FlattenSeq
<1>2. CASE Len(s) # 0
  <2> DEFINE flat == CHOOSE flat : flat = [i \in 1 .. Len(s) |->
                                             IF i = 1 THEN s[i] ELSE flat[i - 1] \o s[i]]
  <2>1. FlattenSeq(s) = flat[Len(s)]
    BY <1>2, Zenon DEF FlattenSeq
  <2>2. \E f : f = [i \in 1 .. Len(s) |-> IF i = 1 THEN s[i] ELSE f[i - 1] \o s[i]]
    BY FlatsExist DEF Flats
  <2>3. flat = [i \in 1 .. Len(s) |-> IF i = 1 THEN s[i] ELSE flat[i - 1] \o s[i]]
    BY <2>2, Zenon
  <2> HIDE DEF flat
  <2> DEFINE T == {i \in 1 .. Len(s) : flat[i] \notin Seq(S)}
  <2>4. CASE T # {}
    <3>1. PICK i \in T : \A j \in T : i <= j
      <4>1. T \in SUBSET Nat
        OBVIOUS
      <4> QED
        BY <2>4, <4>1, LeastNatural, Zenon
    <3>2. flat[i] = IF i = 1 THEN s[i] ELSE flat[i - 1] \o s[i]
      BY <2>3
    <3>3. s[i] \in Seq(S)
      OBVIOUS
    <3>4. i # 1 => flat[i - 1] \in Seq(S)
      BY <3>1
    <3> QED
      BY <3>2, <3>3, <3>4, ConcatProperties
  <2>5. CASE T = {}
    BY <1>2, <2>1, <2>5, LenProperties
  <2> QED
    BY <2>4, <2>5
<1> QED
  BY <1>1, <1>2
-----------------------------------------------------------------------------------
(* The invariant                                                                 *)

\* A line is at hand.
Turn == pc \in {"capture", "log", "format", "use"}

\* How many lines have been dealt with; and how many the full log has seen.
Handled == IF Turn THEN Len(seen) - 1 ELSE Len(seen)

Logged ==
  IF pc \in {"capture", "log"} \/ (pc = "format" /\ dest = "log") THEN Len(seen) - 1
  ELSE Len(seen)

\* Those of S among the first n lines.
Among(S, n) == S \cap 1 .. n

TypeOK ==
  /\ opt \in Options
  /\ pc \in {"setup", "read", "capture", "log", "format", "use", "summary", "close", "exited"}
  /\ seen \in Seq(Lines)
  /\ values \in Seq(Texts)
  /\ pieces \in Seq(Sizes)
  /\ dest \in {"log", "out"}
  /\ agg \in [sum : Int, min : Int, max : Int, count : Nat]
  /\ matched \in Nat
  /\ full_log \in [text : Seq(Nat), lost : BOOLEAN]
  /\ out \in [text : Seq(Nat), lost : BOOLEAN]
  /\ exit_code \in {0, 1, 2}

Turns ==
  /\ Turn => seen # <<>> /\ ~BadOptions
  /\ pc = "read" => ~BadOptions
  /\ pc = "setup" => seen = <<>> /\ values = <<>>
  /\ Turn \/ pc \in {"setup", "read"} => exit_code = 0
  /\ Turn \/ pc \in {"setup", "read", "summary"} => summary = <<>>
  /\ pc = "exited" /\ exit_code = 0 /\ Summarises => summary # <<>>
  /\ pc = "close" /\ exit_code = 0 /\ Summarises => summary # <<>>
  /\ CapturesBelong
  /\ Len(values) <= Len(opt.fields)
  /\ pc = "capture" => opt.regex /\ line.ok /\ Len(values) < Len(opt.fields)
  /\ pc \in {"log", "format", "use"} =>
       IsRecord(line) /\ (opt.regex => Len(values) = Len(opt.fields))
  /\ pc = "format" =>
       /\ opt.regex
       /\ dest = "log" => opt.full_log
       /\ dest = "out" => Matches(line) /\ ~Summarises

LogRight ==
  opt.full_log /\ exit_code = 0 => ~full_log.lost /\ Lists(full_log.text, Among(Records, Logged))

Printing == IF Summarises THEN {} ELSE Passing

OutRight ==
  ~out.lost =>
    \E k \in 0 .. Len(seen) :
      /\ exit_code = 0 => k = Handled
      /\ Lists(out.text, Among(Printing, k))

Amount(i) == IF i \in Counted THEN NumberIn(seen[i]) ELSE 0

Amounts(n) == [i \in 1 .. n |-> Amount(i)]

\* What the aggregates say of the lines in S, whose numbers are the amounts.
Tally(a, S, amounts) ==
  /\ a.count = Cardinality(S)
  /\ a.sum = Sum(amounts)
  /\ a.count # 0 =>
       /\ \E i \in S : a.min = amounts[i]
       /\ \E i \in S : a.max = amounts[i]
  /\ \A i \in S : a.min <= amounts[i] /\ amounts[i] <= a.max

AggRight ==
  Aggregates /\ exit_code = 0 => Tally(agg, Among(Counted, Handled), Amounts(Handled))

MatchedRight ==
  ~Aggregates /\ opt.format = "count" /\ exit_code = 0 =>
    matched = Cardinality(Among(Passing, Handled))

SummaryRight == summary # <<>> => summary = <<Expected>>

IInv ==
  /\ TypeOK
  /\ BufferInv
  /\ Turns
  /\ LogRight
  /\ OutRight
  /\ AggRight
  /\ MatchedRight
  /\ SummaryRight

-----------------------------------------------------------------------------------
(* Types                                                                         *)

LEMMA LineType ==
  ASSUME TypeOK, seen # <<>>
  PROVE  /\ Len(seen) \in Nat /\ Len(seen) >= 1
         /\ line = seen[Len(seen)]
         /\ line \in Lines
         /\ \A name \in DOMAIN line.fields : name \in Names /\ line.fields[name].text \in Texts
<1>1. Len(seen) \in Nat /\ Len(seen) >= 1 /\ line = seen[Len(seen)] /\ line \in Lines
  BY DEF TypeOK, line, Last
<1>2. \A name \in DOMAIN line.fields : name \in Names /\ line.fields[name].text \in Texts
  BY <1>1, LogParseAssumption
<1> QED
  BY <1>1, <1>2

LEMMA OptionType ==
  ASSUME TypeOK
  PROVE  /\ opt.fields \in Seq(Names)
         /\ opt.agg \in {"none", "sum", "avg", "min", "max"}
BY LogParseAssumption DEF TypeOK

LEMMA SizeTypes ==
  /\ 1 \in Sizes /\ 2 \in Sizes
  /\ \A t \in Names \cup Texts : Size[t] \in Sizes /\ Size[t] + 2 \in Sizes
BY LogParseAssumption, SizeAssumption DEF Sizes

\* A record is a list of pieces that fit into memory each.
LEMMA JsonType ==
  ASSUME TypeOK, Len(values) = Len(opt.fields)
  PROVE  JsonPieces \in Seq(Sizes)
<1> DEFINE Piece(i) == (IF i > 1 THEN <<1>> ELSE <<>>)
                         \o <<Size[opt.fields[i]] + 2, 1, Size[values[i]] + 2>>
           all == [i \in DOMAIN opt.fields |-> Piece(i)]
<1>1. opt.fields \in Seq(Names) /\ values \in Seq(Texts)
  BY OptionType DEF TypeOK
<1>2. \A i \in DOMAIN opt.fields : Piece(i) \in Seq(Sizes)
  <2> SUFFICES ASSUME NEW i \in DOMAIN opt.fields PROVE Piece(i) \in Seq(Sizes)
    OBVIOUS
  <2>1. opt.fields[i] \in Names /\ values[i] \in Texts
    BY <1>1
  <2>2. <<Size[opt.fields[i]] + 2, 1, Size[values[i]] + 2>> \in Seq(Sizes)
    BY <2>1, SizeTypes
  <2>3. (IF i > 1 THEN <<1>> ELSE <<>>) \in Seq(Sizes)
    BY SizeTypes
  <2> QED
    BY <2>2, <2>3, ConcatProperties
<1> HIDE DEF Piece
<1>3. all \in Seq(Seq(Sizes))
  BY <1>1, <1>2
<1> HIDE DEF all
<1>4. FlattenSeq(all) \in Seq(Sizes)
  BY <1>3, FlattenType
<1>5. <<1>> \in Seq(Sizes) /\ <<2>> \in Seq(Sizes)
  BY SizeTypes
<1>6. JsonPieces = <<1>> \o FlattenSeq(all) \o <<2>>
  BY DEF JsonPieces, all, Piece
<1> QED
  BY <1>4, <1>5, <1>6, ConcatProperties

LEMMA CsvType ==
  ASSUME TypeOK, Len(values) = Len(opt.fields)
  PROVE  CsvPieces \in Seq(Sizes)
<1> DEFINE Piece(i) == (IF i > 1 THEN <<1>> ELSE <<>>) \o <<Size[values[i]]>>
           all == [i \in DOMAIN opt.fields |-> Piece(i)]
<1>1. opt.fields \in Seq(Names) /\ values \in Seq(Texts)
  BY OptionType DEF TypeOK
<1>2. \A i \in DOMAIN opt.fields : Piece(i) \in Seq(Sizes)
  <2> SUFFICES ASSUME NEW i \in DOMAIN opt.fields PROVE Piece(i) \in Seq(Sizes)
    OBVIOUS
  <2>1. values[i] \in Texts
    BY <1>1
  <2>2. <<Size[values[i]]>> \in Seq(Sizes)
    BY <2>1, SizeTypes
  <2>3. (IF i > 1 THEN <<1>> ELSE <<>>) \in Seq(Sizes)
    BY SizeTypes
  <2> QED
    BY <2>2, <2>3, ConcatProperties
<1> HIDE DEF Piece
<1>3. all \in Seq(Seq(Sizes))
  BY <1>1, <1>2
<1> HIDE DEF all
<1>4. FlattenSeq(all) \in Seq(Sizes)
  BY <1>3, FlattenType
<1>5. <<1>> \in Seq(Sizes)
  BY SizeTypes
<1>6. CsvPieces = FlattenSeq(all) \o <<1>>
  BY DEF CsvPieces, all, Piece
<1> QED
  BY <1>4, <1>5, <1>6, ConcatProperties

LEMMA NumberType ==
  ASSUME TypeOK, NEW l \in Lines, HasNumber(l)
  PROVE  NumberIn(l) \in Int
BY LogParseAssumption DEF HasNumber, NumberIn


LEMMA BufferFollows == ASSUME TypeOK, [Next]_vars PROVE [BufferNext]_bufferVars
<1>1. CASE AppendPiece
  <2>1. Head(pieces) \in Sizes
    BY <1>1, HeadTailProperties DEF AppendPiece, TypeOK
  <2> QED
    BY <1>1, <2>1 DEF AppendPiece, BufferNext
<1>2. CASE GrowBuffer
  BY <1>2 DEF GrowBuffer, BufferNext
<1>3. CASE FormatFails \/ WriteLog \/ WriteLogFails \/ WriteOut \/ WriteOutFails
  BY <1>3 DEF FormatFails, WriteLog, WriteLogFails, WriteOut, WriteOutFails, ToLog, ToOut,
              BufferNext
<1>4. CASE UNCHANGED bufferVars
  BY <1>4
<1> QED
  BY <1>1, <1>2, <1>3, <1>4
  DEF Next, vars, Setup, SetupFails, ReadLine, Capture, GroupUnset, CaptureFails, NoLog,
      FormatLog, Drop, Aggregate, Count, FormatOut, StartFormat, EndOfInput, PrintSummary,
      Close

LEMMA StreamTypes ==
  ASSUME NEW stream \in [text : Seq(Nat), lost : BOOLEAN], NEW n \in Nat
  PROVE  /\ Takes(stream, n) \in [text : Seq(Nat), lost : BOOLEAN]
         /\ Takes(stream, n).text = Append(stream.text, n)
         /\ Takes(stream, n).lost = stream.lost
         /\ Loses(stream) \in [text : Seq(Nat), lost : BOOLEAN]
         /\ Loses(stream).lost
         /\ Loses(stream).text = stream.text
<1>1. Takes(stream, n) \in [text : Seq(Nat), lost : BOOLEAN]
  <2>1. Append(stream.text, n) \in Seq(Nat)
    OBVIOUS
  <2> QED
    BY <2>1 DEF Takes
<1>2. Takes(stream, n).text = Append(stream.text, n)
  BY DEF Takes
<1>3. Takes(stream, n).lost = stream.lost
  BY DEF Takes
<1>4. Loses(stream) \in [text : Seq(Nat), lost : BOOLEAN]
  BY DEF Loses
<1>5. Loses(stream).lost
  BY DEF Loses
<1>6. Loses(stream).text = stream.text
  BY DEF Loses
<1> QED
  BY <1>1, <1>2, <1>3, <1>4, <1>5, <1>6

LEMMA TypesStart == Init => TypeOK
BY DEF Init, TypeOK, Stream

LEMMA TypesKeep == ASSUME TypeOK, Turns, [Next]_vars PROVE TypeOK'
<1> USE DEF TypeOK, Goto
<1>1. CASE Setup \/ SetupFails
  BY <1>1 DEF Setup, SetupFails
<1>2. CASE ReadLine
  <2>1. PICK l \in Lines : seen' = Append(seen, l)
    BY <1>2 DEF ReadLine
  <2>2. pc' \in {"log", "capture", "read"}
    BY <1>2 DEF ReadLine
  <2> QED
    BY <1>2, <2>1, <2>2 DEF ReadLine
<1>3. CASE Capture
  <2>1. line.fields[Group].text \in Texts
    BY <1>3, LineType DEF Capture, Turns, Turn
  <2>2. pc' \in {"log", "capture"}
    BY <1>3 DEF Capture
  <2>3. values' \in Seq(Texts)
    BY <1>3, <2>1 DEF Capture
  <2> QED
    BY <1>3, <2>2, <2>3 DEF Capture
<1>0. <<>> \in Seq(Texts) /\ <<>> \in Seq(Sizes)
  OBVIOUS
<1>4. CASE GroupUnset
  BY <1>0, <1>4 DEF GroupUnset
<1>17. CASE CaptureFails
  BY <1>0, <1>17 DEF CaptureFails, Break
<1>5. CASE AppendPiece \/ GrowBuffer \/ FormatFails
  <2>1. AppendPiece => pieces' \in Seq(Sizes)
    BY HeadTailProperties DEF AppendPiece
  <2>2. CASE FormatFails
    BY <1>0, <2>2 DEF FormatFails, Break
  <2> QED
    BY <1>5, <2>1, <2>2 DEF AppendPiece, GrowBuffer
<1>6. CASE NoLog
  BY <1>6 DEF NoLog
<1>7. CASE FormatLog
  <2>1. JsonPieces \in Seq(Sizes)
    BY <1>7, JsonType DEF FormatLog, Turns
  <2> QED
    BY <1>7, <2>1 DEF FormatLog, StartFormat
<1>8. CASE WriteLog \/ WriteLogFails
  <2>1. Len(seen) \in Nat
    BY LenProperties
  <2>2. full_log' \in [text : Seq(Nat), lost : BOOLEAN]
    <3>1. full_log' \in {Takes(full_log, Len(seen)), Loses(full_log)}
      BY <1>8 DEF WriteLog, WriteLogFails
    <3>2. /\ Takes(full_log, Len(seen)) \in [text : Seq(Nat), lost : BOOLEAN]
          /\ Loses(full_log) \in [text : Seq(Nat), lost : BOOLEAN]
      BY <2>1, StreamTypes
    <3> QED
      BY <3>1, <3>2, Zenon
  <2>3. CASE WriteLog
    BY <2>2, <2>3 DEF WriteLog
  <2>4. CASE WriteLogFails
    BY <1>0, <2>2, <2>4 DEF WriteLogFails, Break
  <2> QED
    BY <1>8, <2>3, <2>4
<1>9. CASE Drop
  BY <1>9 DEF Drop, NextLine
<1>10. CASE Aggregate
  <2>1. line \in Lines
    BY <1>10, LineType DEF Aggregate, Turns, Turn
  <2>2. HasNumber(line) => NumberIn(line) \in Int
    BY <2>1, NumberType
  <2>3. agg' \in [sum : Int, min : Int, max : Int, count : Nat]
    BY <1>10, <2>2 DEF Aggregate, Accumulate
  <2> QED
    BY <1>10, <2>3 DEF Aggregate, NextLine
<1>11. CASE Count
  BY <1>11 DEF Count, NextLine
<1>12. CASE FormatOut
  <2>1. JsonPieces \in Seq(Sizes) /\ CsvPieces \in Seq(Sizes)
    BY <1>12, JsonType, CsvType DEF FormatOut, Prints, Turns
  <2> QED
    BY <1>12, <2>1 DEF FormatOut, StartFormat
<1>13. CASE WriteOut \/ WriteOutFails
  <2>1. Len(seen) \in Nat
    BY LenProperties
  <2>2. out' \in [text : Seq(Nat), lost : BOOLEAN]
    <3>1. out' \in {Takes(out, Len(seen)), Loses(out)}
      BY <1>13 DEF WriteOut, WriteOutFails
    <3>2. /\ Takes(out, Len(seen)) \in [text : Seq(Nat), lost : BOOLEAN]
          /\ Loses(out) \in [text : Seq(Nat), lost : BOOLEAN]
      BY <2>1, StreamTypes
    <3> QED
      BY <3>1, <3>2, Zenon
  <2>3. CASE WriteOut
    BY <1>0, <2>2, <2>3 DEF WriteOut, NextLine
  <2>4. CASE WriteOutFails
    <3>1. pc' \in {"read", "summary"} /\ exit_code' \in {0, 1, 2} /\ values' = <<>>
      BY <2>4 DEF WriteOutFails, Break, NextLine
    <3> QED
      BY <1>0, <2>2, <2>4, <3>1 DEF WriteOutFails, Break, NextLine
  <2> QED
    BY <1>13, <2>3, <2>4
<1>14. CASE EndOfInput \/ PrintSummary
  BY <1>14 DEF EndOfInput, PrintSummary
<1>15. CASE Close
  <2>1. out' \in [text : Seq(Nat), lost : BOOLEAN] /\ full_log' \in [text : Seq(Nat), lost : BOOLEAN]
    <3>1. out' \in {out, Loses(out)} /\ full_log' \in {full_log, Loses(full_log)}
      BY <1>15 DEF Close
    <3>2. \A stream \in [text : Seq(Nat), lost : BOOLEAN] :
            Loses(stream) \in [text : Seq(Nat), lost : BOOLEAN]
      BY StreamTypes, 0 \in Nat
    <3> QED
      BY <3>1, <3>2
  <2> QED
    BY <1>15, <2>1 DEF Close
<1>16. CASE UNCHANGED vars
  BY <1>16 DEF vars
<1> QED
  BY <1>1, <1>2, <1>3, <1>4, <1>5, <1>6, <1>7, <1>8, <1>9, <1>10, <1>11, <1>12, <1>13,
     <1>14, <1>15, <1>16, <1>17 DEF Next

-----------------------------------------------------------------------------------
(* Lines                                                                         *)

\* What a line is depends on the options and the line only.
LEMMA SameLines ==
  ASSUME opt' = opt, seen' = seen
  PROVE  /\ Records' = Records
         /\ Passing' = Passing
         /\ Counted' = Counted
         /\ Printing' = Printing
         /\ Expected' = Expected
         /\ \A i : Amount(i)' = Amount(i)
<1> USE DEF Aggregates
<1>1. Records' = Records
  BY DEF Records, IsRecord, Validates
<1>2. Passing' = Passing
  BY <1>1 DEF Passing, Matches, Compares
<1>3. Counted' = Counted
  BY <1>2 DEF Counted, HasNumber
<1>4. \A i : Amount(i)' = Amount(i)
  BY <1>3 DEF Amount, NumberIn
<1>6. Printing' = Printing
  BY <1>2 DEF Printing, Summarises
<1>7. Total' = Total
  BY <1>3 DEF Total, NumberIn
<1>8. {NumberIn(seen[i]) : i \in Counted}' = {NumberIn(seen[i]) : i \in Counted}
  BY <1>3 DEF NumberIn
<1>9. Expected' = Expected
  BY <1>2, <1>3, <1>7, <1>8 DEF Expected
<1> QED
  BY <1>1, <1>2, <1>3, <1>4, <1>6, <1>9

\* Another line changes nothing about those before it.
LEMMA NextLineRead ==
  ASSUME TypeOK, NEW l \in Lines, opt' = opt, seen' = Append(seen, l)
  PROVE  LET n == Len(seen)
         IN  /\ n \in Nat /\ Len(seen') = n + 1 /\ line' = l
             /\ Among(Records', n) = Among(Records, n)
             /\ Among(Passing', n) = Among(Passing, n)
             /\ Among(Counted', n) = Among(Counted, n)
             /\ \A k \in 0 .. n : Among(Printing', k) = Among(Printing, k)
             /\ \A i \in 1 .. n : Amount(i)' = Amount(i)
             /\ (n + 1 \in Records') <=> IsRecord(l)
             /\ Records' \subseteq 1 .. n + 1
<1> DEFINE n == Len(seen)
<1>1. /\ n \in Nat /\ Len(seen') = n + 1 /\ line' = l /\ seen'[n + 1] = l
      /\ DOMAIN seen = 1 .. n /\ DOMAIN seen' = 1 .. n + 1
      /\ \A i \in 1 .. n : seen'[i] = seen[i]
  BY DEF TypeOK, line, Last
<1> HIDE DEF n
<1>2. Among(Records', n) = Among(Records, n)
  BY <1>1 DEF Records, Among, IsRecord, Validates
<1>3. Among(Passing', n) = Among(Passing, n)
  <2>1. \A i \in 1 .. n : i \in Records' <=> i \in Records
    BY <1>2 DEF Among
  <2>2. \A i \in 1 .. n : Matches(seen[i])' <=> Matches(seen[i])
    <3> SUFFICES ASSUME NEW i \in 1 .. n PROVE Matches(seen[i])' <=> Matches(seen[i])
      OBVIOUS
    <3>1. seen'[i] = seen[i]
      BY <1>1
    <3> QED
      BY <3>1 DEF Matches, Compares
  <2>3. \A i \in 1 .. n : i \in Passing' <=> i \in Passing
    BY <2>1, <2>2 DEF Passing
  <2> QED
    BY <2>3 DEF Among
<1>4. Among(Counted', n) = Among(Counted, n)
  <2>1. \A i \in 1 .. n : i \in Passing' <=> i \in Passing
    BY <1>3 DEF Among
  <2> QED
    BY <1>1, <2>1 DEF Counted, Among, HasNumber
<1>5. \A k \in 0 .. n : Among(Printing', k) = Among(Printing, k)
  <2>1. \A i \in 1 .. n : i \in Passing' <=> i \in Passing
    BY <1>3 DEF Among
  <2>2. Summarises' = Summarises
    BY DEF Summarises, Aggregates
  <2>3. \A i \in 1 .. n : i \in Printing' <=> i \in Printing
    BY <2>1, <2>2 DEF Printing
  <2>4. \A k \in 0 .. n : 1 .. k \subseteq 1 .. n
    BY <1>1
  <2> QED
    BY <2>3, <2>4 DEF Among
<1>6. \A i \in 1 .. n : Amount(i)' = Amount(i)
  <2>1. \A i \in 1 .. n : i \in Counted' <=> i \in Counted
    BY <1>4 DEF Among
  <2> QED
    BY <1>1, <2>1 DEF Amount, NumberIn
<1>8. (n + 1 \in Records') <=> IsRecord(l)
  BY <1>1 DEF Records, IsRecord, Validates
<1>9. Records' \subseteq 1 .. n + 1
  BY <1>1 DEF Records
<1> QED
  BY <1>1, <1>2, <1>3, <1>4, <1>5, <1>6, <1>8, <1>9 DEF n

\* The last line is in a set, or not.
LEMMA LastLine ==
  ASSUME NEW S, NEW n \in Nat, n >= 1
  PROVE  Among(S, n) = IF n \in S THEN Among(S, n - 1) \cup {n} ELSE Among(S, n - 1)
BY DEF Among

-----------------------------------------------------------------------------------
(* Turns                                                                         *)

LEMMA OptionsStay == [Next]_vars => opt' = opt
BY DEF Next, vars, Setup, SetupFails, ReadLine, Capture, GroupUnset, CaptureFails, AppendPiece,
       GrowBuffer, FormatFails, NoLog, FormatLog, WriteLog, WriteLogFails, Drop, Aggregate,
       Count, FormatOut, WriteOut, WriteOutFails, EndOfInput, PrintSummary, Close, Goto,
       StartFormat, Break, NextLine

LEMMA SameOptions ==
  ASSUME opt' = opt
  PROVE  /\ BadOptions' <=> BadOptions
         /\ Aggregates' <=> Aggregates
         /\ Summarises' <=> Summarises
         /\ \A l : IsRecord(l)' <=> IsRecord(l)
         /\ \A l : Matches(l)' <=> Matches(l)
<1>1. BadOptions' <=> BadOptions
  BY DEF BadOptions, Aggregates
<1>2. (Aggregates' <=> Aggregates) /\ (Summarises' <=> Summarises)
  BY DEF Aggregates, Summarises
<1>3. \A l : IsRecord(l)' <=> IsRecord(l)
  BY DEF IsRecord, Validates
<1>4. \A l : Matches(l)' <=> Matches(l)
  BY DEF Matches, Compares
<1> QED
  BY <1>1, <1>2, <1>3, <1>4

\* The end of a turn, early or not.
LEMMA TurnEnds ==
  ASSUME TypeOK, Turns, Turn, opt' = opt, seen' = seen, values' = <<>>, summary' = summary,
         \/ pc' = "read" /\ exit_code' = exit_code
         \/ pc' = "summary" /\ exit_code' = 2
  PROVE  Turns'
<1>1. BadOptions' <=> BadOptions
  BY SameOptions
<1>2. CapturesBelong'
  BY DEF CapturesBelong
<1>3. Len(opt.fields) \in Nat
  BY OptionType
<1> QED
  BY <1>1, <1>2, <1>3 DEF Turns, Turn

\* A turn goes on with the same captures.
LEMMA TurnGoesOn ==
  ASSUME TypeOK, Turns, pc \in {"log", "format", "use"},
         UNCHANGED <<opt, seen, values, summary, exit_code>>,
         pc' \in {"log", "format", "use"},
         pc' = "format" =>
           /\ opt.regex
           /\ dest' = "log" => opt.full_log
           /\ dest' = "out" => Matches(line) /\ ~Summarises
  PROVE  Turns'
<1>1. /\ BadOptions' <=> BadOptions
      /\ Summarises' <=> Summarises
      /\ line' = line
  BY SameOptions DEF line
<1>2. IsRecord(line)' <=> IsRecord(line)
  BY <1>1 DEF IsRecord, Validates
<1>3. Matches(line)' <=> Matches(line)
  BY <1>1 DEF Matches, Compares
<1>4. CapturesBelong'
  BY <1>1 DEF Turns, CapturesBelong
<1> QED
  BY <1>1, <1>2, <1>3, <1>4 DEF Turns, Turn

LEMMA ReadTurn == ASSUME TypeOK, Turns, ReadLine PROVE Turns'
<1>1. PICK l \in Lines :
        /\ seen' = Append(seen, l)
        /\ pc' = CASE ~opt.regex /\ Validates(l) -> "log"
                   [] opt.regex /\ l.ok         -> "capture"
                   [] OTHER                     -> "read"
  BY DEF ReadLine
<1>2. UNCHANGED <<opt, values, summary, exit_code>> /\ pc = "read"
  BY DEF ReadLine
<1>10. values = <<>>
  BY <1>2 DEF Turns, CapturesBelong
<1>13. pc = "read"
  BY <1>2
<1>11. exit_code = 0 /\ ~BadOptions /\ summary = <<>>
  BY <1>13 DEF Turns
<1>3. line' = l /\ seen' # <<>>
  <2>1. seen \in Seq(Lines)
    BY DEF TypeOK
  <2>2. Len(seen') = Len(seen) + 1 /\ seen'[Len(seen')] = l /\ seen' # <<>>
    BY <1>1, <2>1
  <2> QED
    BY <2>2 DEF line, Last
<1>4. CapturesBelong'
  BY <1>2, <1>10 DEF CapturesBelong
<1>5. ~BadOptions'
  BY <1>2, <1>11, SameOptions
<1>6. opt.fields \in Seq(Names)
  BY OptionType
<1>7. CASE ~opt.regex /\ Validates(l)
  <2>1. IsRecord(line)'
    BY <1>2, <1>3, <1>7 DEF IsRecord, Validates
  <2>2. pc' = "log"
    BY <1>1, <1>7
  <2> QED
    BY <1>2, <1>10, <1>11, <1>3, <1>4, <1>5, <1>6, <1>7, <2>1, <2>2 DEF Turns, Turn
<1>8. CASE opt.regex /\ l.ok
  <2>1. opt.fields # <<>>
    BY <1>11, <1>8 DEF BadOptions
  <2>2. pc' = "capture"
    BY <1>1, <1>8
  <2> QED
    BY <1>2, <1>10, <1>11, <1>3, <1>4, <1>5, <1>6, <1>8, <2>1, <2>2 DEF Turns, Turn
<1>9. CASE ~(~opt.regex /\ Validates(l)) /\ ~(opt.regex /\ l.ok)
  <2>1. pc' = "read"
    BY <1>1, <1>9
  <2> QED
    BY <1>2, <1>10, <1>11, <1>4, <1>5, <1>6, <2>1 DEF Turns, Turn
<1> QED
  BY <1>7, <1>8, <1>9

LEMMA CaptureTurn == ASSUME TypeOK, Turns, Capture PROVE Turns'
<1> DEFINE n == Len(values)
           text == line.fields[Group].text
<1>1. /\ UNCHANGED <<opt, seen, summary, exit_code>> /\ pc = "capture"
      /\ values' = Append(values, text) /\ Group \in DOMAIN line.fields
      /\ pc' = IF Len(values') = Len(opt.fields) THEN "log" ELSE "capture"
  BY DEF Capture, Goto
<1>2. /\ opt.fields \in Seq(Names) /\ values \in Seq(Texts) /\ n \in Nat /\ n < Len(opt.fields)
      /\ opt.regex /\ line.ok
  BY <1>1, OptionType DEF Turns, TypeOK
<1>3. text \in Texts
  BY <1>1, LineType DEF Turns, Turn
<1>4. /\ Len(values') = n + 1 /\ values'[n + 1] = text /\ DOMAIN values' = 1 .. n + 1
      /\ \A i \in 1 .. n : values'[i] = values[i]
  BY <1>1, <1>2, <1>3
<1>5. Group = opt.fields[n + 1]
  BY DEF Group
<1>6. /\ line' = line /\ (BadOptions' <=> BadOptions)
  BY <1>1, SameOptions DEF line
<1> HIDE DEF n, text
<1>7. \A i \in DOMAIN values' : opt.fields[i] \in DOMAIN line.fields
                                /\ values'[i] = line.fields[opt.fields[i]].text
  <2> SUFFICES ASSUME NEW i \in 1 .. n + 1
               PROVE  opt.fields[i] \in DOMAIN line.fields
                      /\ values'[i] = line.fields[opt.fields[i]].text
    BY <1>4
  <2>1. CASE i = n + 1
    BY <1>1, <1>4, <1>5, <2>1 DEF text
  <2>2. CASE i # n + 1
    <3>1. i \in DOMAIN values
      BY <1>2, <2>2 DEF n
    <3>2. i \in 1 .. n
      BY <1>2, <2>2
    <3> QED
      BY <1>4, <3>1, <3>2 DEF Turns, CapturesBelong
  <2> QED
    BY <2>1, <2>2
<1>8. CapturesBelong'
  BY <1>1, <1>6, <1>7 DEF CapturesBelong
<1>9. CASE n + 1 = Len(opt.fields)
  <2>1. Range(opt.fields) \subseteq DOMAIN line.fields
    BY <1>2, <1>4, <1>7, <1>9 DEF Range
  <2>2. IsRecord(line)'
    BY <1>1, <1>2, <1>6, <2>1 DEF IsRecord
  <2> QED
    BY <1>1, <1>2, <1>4, <1>6, <1>8, <1>9, <2>2 DEF Turns, Turn
<1>10. CASE n + 1 # Len(opt.fields)
  BY <1>1, <1>2, <1>4, <1>6, <1>8, <1>10 DEF Turns, Turn
<1> QED
  BY <1>9, <1>10

LEMMA TurnsStart == Init => Turns
BY OptionType, TypesStart DEF Init, Turns, Turn, CapturesBelong

LEMMA TurnsKeep == ASSUME TypeOK, Turns, [Next]_vars PROVE Turns'
<1>1. CASE Setup \/ SetupFails
  <2>1. /\ opt' = opt /\ seen' = <<>> /\ values' = <<>> /\ summary' = <<>>
        /\ \/ pc' = "read" /\ exit_code' = 0 /\ ~BadOptions
           \/ pc' = "exited" /\ exit_code' = 1
    BY <1>1 DEF Setup, SetupFails, Goto, Turns
  <2>2. CapturesBelong'
    BY <2>1 DEF CapturesBelong
  <2>3. BadOptions' <=> BadOptions
    BY <2>1, SameOptions
  <2>4. Len(opt.fields) \in Nat
    BY OptionType
  <2> QED
    BY <2>1, <2>2, <2>3, <2>4 DEF Turns, Turn
<1>2. CASE ReadLine
  BY <1>2, ReadTurn
<1>3. CASE Capture
  BY <1>3, CaptureTurn
<1>4. CASE GroupUnset \/ CaptureFails
  BY <1>4, TurnEnds DEF GroupUnset, CaptureFails, Goto, Break, Turn
<1>5. CASE AppendPiece \/ GrowBuffer
  BY <1>5, TurnGoesOn DEF AppendPiece, GrowBuffer, Turns
<1>6. CASE FormatFails
  BY <1>6, TurnEnds DEF FormatFails, Break, Goto, Turn
<1>7. CASE NoLog \/ WriteLog
  BY <1>7, TurnGoesOn DEF NoLog, WriteLog, ToLog, Formatted, Goto
<1>8. CASE FormatLog
  BY <1>8, TurnGoesOn DEF FormatLog, StartFormat, Goto
<1>9. CASE WriteLogFails
  BY <1>9, TurnEnds DEF WriteLogFails, ToLog, Formatted, Break, Goto, Turn
<1>10. CASE Drop \/ Aggregate \/ Count
  BY <1>10, TurnEnds DEF Drop, Aggregate, Count, NextLine, Goto, Turn
<1>11. CASE FormatOut
  BY <1>11, TurnGoesOn DEF FormatOut, Prints, StartFormat, Goto, Summarises
<1>12. CASE WriteOut
  BY <1>12, TurnEnds DEF WriteOut, ToOut, Formatted, Prints, NextLine, Goto, Turn
<1>13. CASE WriteOutFails
  BY <1>13, TurnEnds DEF WriteOutFails, ToOut, Formatted, Prints, NextLine, Break, Goto, Turn
<1>14. CASE EndOfInput \/ PrintSummary \/ Close
  <2>1. /\ pc \in {"read", "summary", "close"} /\ UNCHANGED <<opt, seen, values>>
        /\ pc' \in {"summary", "close", "exited"}
    BY <1>14 DEF EndOfInput, PrintSummary, Close, Goto
  <2>2. CapturesBelong'
    BY <2>1 DEF Turns, CapturesBelong
  <2>3. Summarises' <=> Summarises
    BY <2>1, SameOptions
  <2>4. Len(opt.fields) \in Nat
    BY OptionType
  <2>5. CASE EndOfInput
    BY <2>1, <2>2, <2>4, <2>5 DEF EndOfInput, Goto, Turns, Turn
  <2>6. CASE PrintSummary
    BY <2>1, <2>2, <2>3, <2>4, <2>6 DEF PrintSummary, Goto, Turns, Turn, Summarises
  <2>7. CASE Close
    BY <2>1, <2>2, <2>3, <2>4, <2>7 DEF Close, Goto, Turns, Turn
  <2> QED
    BY <1>14, <2>5, <2>6, <2>7
<1>15. CASE UNCHANGED vars
  <2>1. UNCHANGED <<opt, pc, seen, values, dest, summary, exit_code>>
    BY <1>15 DEF vars
  <2>2. /\ BadOptions' <=> BadOptions
        /\ Summarises' <=> Summarises
        /\ line' = line
    BY <2>1, SameOptions DEF line
  <2>3. IsRecord(line)' <=> IsRecord(line)
    BY <2>1, <2>2 DEF IsRecord, Validates
  <2>4. Matches(line)' <=> Matches(line)
    BY <2>1, <2>2 DEF Matches, Compares
  <2>5. CapturesBelong'
    BY <2>1, <2>2 DEF Turns, CapturesBelong
  <2> QED
    BY <2>1, <2>2, <2>3, <2>4, <2>5 DEF Turns, Turn
<1> QED
  BY <1>1, <1>2, <1>3, <1>4, <1>5, <1>6, <1>7, <1>8, <1>9, <1>10, <1>11, <1>12, <1>13,
     <1>14, <1>15 DEF Next

-----------------------------------------------------------------------------------
(* Accounts                                                                      *)

LEMMA ListsNothing == Lists(<<>>, {})
BY DEF Lists, Range

LEMMA ListsMore ==
  ASSUME NEW list \in Seq(Nat), NEW S, NEW n \in Nat, n >= 1, Lists(list, Among(S, n - 1)),
         n \in S
  PROVE  Lists(Append(list, n), Among(S, n))
<1> DEFINE more == Append(list, n)
           m == Len(list)
<1>1. /\ m \in Nat /\ DOMAIN more = 1 .. m + 1 /\ DOMAIN list = 1 .. m /\ more[m + 1] = n
      /\ \A i \in 1 .. m : more[i] = list[i] /\ list[i] \in Nat
  OBVIOUS
<1> HIDE DEF more, m
<1>2. Range(list) = Among(S, n - 1)
  BY DEF Lists
<1>3. \A i \in 1 .. m : list[i] \in Among(S, n - 1) /\ list[i] < n
  <2>1. \A i \in 1 .. m : list[i] \in Among(S, n - 1)
    BY <1>1, <1>2 DEF Range
  <2> QED
    BY <1>1, <2>1 DEF Among
<1>4. Among(S, n) = Among(S, n - 1) \cup {n}
  BY LastLine
<1>5. Range(more) = Among(S, n)
  <2>1. Range(more) \subseteq Among(S, n)
    BY <1>1, <1>3, <1>4 DEF Range
  <2>2. ASSUME NEW x \in Among(S, n) PROVE x \in Range(more)
    <3>1. CASE x = n
      BY <1>1, <3>1 DEF Range
    <3>2. CASE x \in Among(S, n - 1)
      <4>1. PICK i \in 1 .. m : x = list[i]
        BY <1>1, <1>2, <3>2 DEF Range
      <4>2. i \in DOMAIN more /\ more[i] = x
        BY <1>1, <4>1
      <4> QED
        BY <4>2 DEF Range
    <3> QED
      BY <1>4, <3>1, <3>2
  <2> QED
    BY <2>1, <2>2
<1>6. \A i, j \in DOMAIN more : i < j => more[i] < more[j]
  <2> SUFFICES ASSUME NEW i \in 1 .. m + 1, NEW j \in 1 .. m + 1, i < j
               PROVE  more[i] < more[j]
    BY <1>1
  <2>1. CASE j = m + 1
    <3>1. i \in 1 .. m
      BY <1>1, <2>1
    <3> QED
      BY <1>1, <1>3, <2>1, <3>1
  <2>2. CASE j # m + 1
    <3>1. i \in 1 .. m /\ j \in 1 .. m
      BY <1>1, <2>2
    <3>2. list[i] < list[j]
      BY <1>1, <3>1 DEF Lists
    <3> QED
      BY <1>1, <3>1, <3>2
  <2> QED
    BY <2>1, <2>2
<1> QED
  BY <1>5, <1>6 DEF Lists, more

\* What is in the accounts when nothing has been read.
LEMMA AccountsStart == Init => LogRight /\ OutRight /\ AggRight /\ MatchedRight /\ SummaryRight
<1> SUFFICES ASSUME Init PROVE LogRight /\ OutRight /\ AggRight /\ MatchedRight /\ SummaryRight
  OBVIOUS
<1>1. /\ seen = <<>> /\ Len(seen) = 0 /\ Handled = 0 /\ Logged = 0 /\ summary = <<>>
      /\ full_log.text = <<>> /\ ~full_log.lost /\ out.text = <<>> /\ ~out.lost
      /\ matched = 0 /\ agg.count = 0 /\ agg.sum = 0
  BY DEF Init, Stream, Handled, Turn, Logged
<1>2. \A S : Among(S, 0) = {}
  BY DEF Among
<1>3. Cardinality({}) = 0
  BY FS_EmptySet
<1>4. Amounts(0) = <<>>
  BY DEF Amounts
<1>5. LogRight
  BY <1>1, <1>2, ListsNothing DEF LogRight
<1>6. OutRight
  <2>1. Lists(out.text, Among(Printing, 0))
    BY <1>1, <1>2, ListsNothing
  <2> QED
    BY <1>1, <2>1 DEF OutRight
<1>7. AggRight
  BY <1>1, <1>2, <1>3, <1>4, SumOfNothing DEF AggRight, Tally
<1>8. MatchedRight
  BY <1>1, <1>2, <1>3 DEF MatchedRight
<1>9. SummaryRight
  BY <1>1 DEF SummaryRight
<1> QED
  BY <1>5, <1>6, <1>7, <1>8, <1>9

-----------------------------------------------------------------------------------
(* The full log                                                                  *)

LEMMA LogKeeps ==
  ASSUME TypeOK, Turns, LogRight, [Next]_vars
  PROVE  LogRight'
<1> SUFFICES ASSUME opt'.full_log, exit_code' = 0
             PROVE  ~full_log'.lost /\ Lists(full_log'.text, Among(Records', Logged'))
  BY DEF LogRight
<1>0. opt' = opt /\ Len(seen) \in Nat
  BY OptionsStay, LenProperties DEF TypeOK
<1>1. ASSUME exit_code = 0, seen' = seen, full_log' = full_log, Logged' = Logged
      PROVE  ~full_log'.lost /\ Lists(full_log'.text, Among(Records', Logged'))
  BY <1>0, <1>1, SameLines DEF LogRight
<1>2. CASE Setup \/ PrintSummary \/ UNCHANGED vars
  BY <1>1, <1>2 DEF Setup, PrintSummary, Goto, vars, Logged
<1>3. CASE SetupFails \/ CaptureFails \/ FormatFails \/ WriteLogFails
  BY <1>3 DEF SetupFails, CaptureFails, FormatFails, WriteLogFails, Break
<1>4. CASE ReadLine
  <2>1. PICK l \in Lines :
          /\ seen' = Append(seen, l)
          /\ pc' = CASE ~opt.regex /\ Validates(l) -> "log"
                     [] opt.regex /\ l.ok         -> "capture"
                     [] OTHER                     -> "read"
    BY <1>4 DEF ReadLine
  <2>2. pc = "read" /\ full_log' = full_log /\ exit_code = 0
    BY <1>4 DEF ReadLine, Turns
  <2>3. PICK n \in Nat : n = Len(seen)
    BY <1>0
  <2>4. /\ Len(seen') = n + 1 /\ Among(Records', n) = Among(Records, n)
        /\ (n + 1 \in Records') <=> IsRecord(l)
    BY <1>0, <2>1, <2>3, NextLineRead
  <2>5. ~full_log.lost /\ Lists(full_log.text, Among(Records, n))
    BY <1>0, <2>2, <2>3 DEF LogRight, Logged
  <2>6. CASE pc' \in {"log", "capture"}
    <3>1. Logged' = n
      BY <2>3, <2>4, <2>6 DEF Logged
    <3> QED
      BY <2>2, <2>4, <2>5, <3>1
  <2>7. CASE ~(~opt.regex /\ Validates(l)) /\ ~(opt.regex /\ l.ok)
    <3>1. pc' = "read" /\ ~IsRecord(l)
      BY <2>1, <2>7 DEF IsRecord
    <3>2. Logged' = n + 1
      BY <2>3, <2>4, <3>1 DEF Logged
    <3>3. Among(Records', n + 1) = Among(Records', n)
      BY <2>4, <3>1, LastLine
    <3> QED
      BY <2>2, <2>4, <2>5, <3>2, <3>3
  <2> QED
    BY <2>1, <2>6, <2>7
<1>5. CASE Capture \/ AppendPiece \/ GrowBuffer \/ FormatLog
  BY <1>1, <1>5 DEF Capture, AppendPiece, GrowBuffer, FormatLog, StartFormat, Goto, Logged
<1>6. ASSUME NEW n \in Nat, n = Len(seen), n >= 1, seen' = seen, pc \in {"capture", "log", "format"},
             pc = "format" => dest = "log", Logged' = n, exit_code = 0
      PROVE  /\ ~full_log.lost /\ Lists(full_log.text, Among(Records, n - 1))
             /\ Records' = Records
             /\ full_log.text \in Seq(Nat)
  <2>1. Logged = n - 1
    BY <1>6 DEF Logged
  <2> QED
    BY <1>0, <1>6, <2>1, SameLines DEF LogRight, TypeOK
<1>7. CASE GroupUnset
  <2>1. PICK n \in Nat : n = Len(seen) /\ n >= 1
    BY <1>7, LineType DEF GroupUnset, Turns, Turn
  <2>2. pc = "capture" /\ pc' = "read" /\ seen' = seen /\ exit_code = 0 /\ full_log' = full_log
    BY <1>7 DEF GroupUnset, Goto, Turns, Turn
  <2>3. Group \in Range(opt.fields)
    <3>1. Len(values) + 1 \in DOMAIN opt.fields
      BY <2>2, OptionType DEF Turns, TypeOK
    <3> QED
      BY <3>1 DEF Group, Range
  <2>4. n \notin Records
    BY <1>7, <2>1, <2>2, <2>3, LineType DEF GroupUnset, Records, IsRecord, Turns, Turn
  <2>5. Logged' = n
    BY <2>1, <2>2 DEF Logged
  <2> QED
    BY <1>6, <2>1, <2>2, <2>4, <2>5, LastLine
<1>8. CASE NoLog
  BY <1>0, <1>8 DEF NoLog
<1>9. CASE WriteLog
  <2>1. pc \in {"log", "format"} /\ (pc = "format" => dest = "log") /\ seen' = seen /\ pc' = "use"
        /\ full_log' = Takes(full_log, Len(seen)) /\ exit_code = 0
    BY <1>9 DEF WriteLog, ToLog, Formatted, Goto, Turns, Turn
  <2>2. PICK n \in Nat : n = Len(seen) /\ n >= 1
    BY <2>1, LineType DEF Turns, Turn
  <2>3. n \in Records
    BY <2>1, <2>2, LineType DEF Records, Turns, Turn, TypeOK
  <2>4. Logged' = n
    BY <2>1, <2>2 DEF Logged
  <2>5. /\ full_log'.lost = full_log.lost
        /\ full_log'.text = Append(full_log.text, n)
    <3>1. full_log \in [text : Seq(Nat), lost : BOOLEAN]
      BY DEF TypeOK
    <3> QED
      BY <2>1, <2>2, <3>1, StreamTypes
  <2>6. Lists(full_log'.text, Among(Records, n))
    BY <1>6, <2>1, <2>2, <2>3, <2>4, <2>5, ListsMore
  <2> QED
    BY <1>6, <2>1, <2>2, <2>4, <2>5, <2>6
<1>10. CASE Drop \/ Aggregate \/ Count \/ FormatOut \/ WriteOut \/ WriteOutFails
  <2>1. /\ pc = "use" \/ (pc = "format" /\ dest = "out")
        /\ pc' \in {"read", "summary"} \/ (pc' = "format" /\ dest' = "out")
        /\ seen' = seen /\ full_log' = full_log
    BY <1>10 DEF Drop, Aggregate, Count, FormatOut, WriteOut, WriteOutFails, ToOut, Formatted,
                 Prints, NextLine, Break, StartFormat, Goto
  <2>2. Logged = Len(seen) /\ Logged' = Len(seen)
    BY <2>1 DEF Logged
  <2>3. exit_code = 0
    BY <2>1 DEF Turns, Turn
  <2> QED
    BY <1>1, <2>1, <2>2, <2>3
<1>11. CASE EndOfInput
  BY <1>1, <1>11 DEF EndOfInput, Goto, Logged, Turns
<1>12. CASE Close
  <2>1. pc = "close" /\ pc' = "exited" /\ seen' = seen /\ full_log' = full_log /\ exit_code = 0
    BY <1>12 DEF Close, Goto
  <2> QED
    BY <1>1, <2>1 DEF Logged
<1> QED
  BY <1>2, <1>3, <1>4, <1>5, <1>7, <1>8, <1>9, <1>10, <1>11, <1>12 DEF Next

-----------------------------------------------------------------------------------
(* Standard output                                                               *)

\* The number of the line at hand.
LEMMA AtHand ==
  ASSUME TypeOK, Turns, Turn
  PROVE  /\ exit_code = 0
         /\ \E n \in Nat : /\ n >= 1 /\ n = Len(seen) /\ Handled = n - 1 /\ line = seen[n]
                           /\ n \in DOMAIN seen
                           /\ pc \in {"log", "format", "use"} => n \in Records
BY LineType DEF Turns, Handled, Records, TypeOK

LEMMA NoRecord ==
  ASSUME TypeOK, Turns, GroupUnset
  PROVE  Len(seen) \notin Records
<1>1. pc = "capture" /\ Group \notin DOMAIN line.fields
  BY DEF GroupUnset
<1>2. Group \in Range(opt.fields)
  <2>1. Len(values) + 1 \in DOMAIN opt.fields
    BY <1>1, OptionType DEF Turns, TypeOK
  <2> QED
    BY <2>1 DEF Group, Range
<1> QED
  BY <1>1, <1>2, LineType DEF Records, IsRecord, Turns, Turn

LEMMA OutKeeps ==
  ASSUME TypeOK, Turns, OutRight, [Next]_vars
  PROVE  OutRight'
<1> SUFFICES ASSUME ~out'.lost
             PROVE  \E k \in 0 .. Len(seen') : /\ exit_code' = 0 => k = Handled'
                                               /\ Lists(out'.text, Among(Printing', k))
  BY DEF OutRight
<1> DEFINE Goal == \E k \in 0 .. Len(seen') : /\ exit_code' = 0 => k = Handled'
                                              /\ Lists(out'.text, Among(Printing', k))
<1>0. opt' = opt /\ Len(seen) \in Nat
  BY OptionsStay, LenProperties DEF TypeOK
<1>1. ASSUME seen' = seen, out' = out, exit_code' = 0 => exit_code = 0 /\ Handled' = Handled
      PROVE  Goal
  <2>1. Printing' = Printing
    BY <1>0, <1>1, SameLines
  <2>2. PICK k \in 0 .. Len(seen) :
          (exit_code = 0 => k = Handled) /\ Lists(out.text, Among(Printing, k))
    BY <1>1 DEF OutRight
  <2> QED
    BY <1>1, <2>1, <2>2
<1>2. CASE Setup \/ PrintSummary \/ EndOfInput \/ UNCHANGED vars
  BY <1>1, <1>2 DEF Setup, PrintSummary, EndOfInput, Goto, vars, Handled, Turn, Turns
<1>3. CASE SetupFails \/ CaptureFails \/ FormatFails \/ WriteLogFails
  BY <1>1, <1>3 DEF SetupFails, CaptureFails, FormatFails, WriteLogFails, Break, Goto
<1>4. CASE Capture \/ AppendPiece \/ GrowBuffer \/ FormatLog \/ NoLog \/ WriteLog \/ FormatOut
  <2>1. UNCHANGED <<seen, out, exit_code>> /\ Turn /\ Turn'
    BY <1>4 DEF Capture, AppendPiece, GrowBuffer, FormatLog, NoLog, WriteLog, FormatOut,
                StartFormat, Prints, ToLog, Formatted, Goto, Turn
  <2> QED
    BY <1>1, <2>1 DEF Handled
<1>5. CASE ReadLine
  <2>1. PICK l \in Lines :
          /\ seen' = Append(seen, l)
          /\ pc' = CASE ~opt.regex /\ Validates(l) -> "log"
                     [] opt.regex /\ l.ok         -> "capture"
                     [] OTHER                     -> "read"
    BY <1>5 DEF ReadLine
  <2>2. pc = "read" /\ out' = out /\ exit_code = 0
    BY <1>5 DEF ReadLine, Turns
  <2>3. PICK n \in Nat : n = Len(seen)
    BY <1>0
  <2>4. /\ Len(seen') = n + 1 /\ Among(Printing', n) = Among(Printing, n)
        /\ (n + 1 \in Records') <=> IsRecord(l)
    BY <1>0, <2>1, <2>3, NextLineRead
  <2>5. Lists(out.text, Among(Printing, n))
    BY <1>0, <2>2, <2>3 DEF OutRight, Handled, Turn
  <2>6. CASE pc' \in {"log", "capture"}
    <3>1. Handled' = n
      BY <2>3, <2>4, <2>6 DEF Handled, Turn
    <3> QED
      BY <2>2, <2>4, <2>5, <3>1
  <2>7. CASE ~(~opt.regex /\ Validates(l)) /\ ~(opt.regex /\ l.ok)
    <3>1. pc' = "read" /\ ~IsRecord(l)
      BY <2>1, <2>7 DEF IsRecord
    <3>2. Handled' = n + 1
      BY <2>3, <2>4, <3>1 DEF Handled, Turn
    <3>3. n + 1 \notin Printing'
      BY <2>4, <3>1 DEF Printing, Passing
    <3>4. Among(Printing', n + 1) = Among(Printing', n)
      BY <3>3, LastLine
    <3> QED
      BY <2>2, <2>4, <2>5, <3>2, <3>4
  <2> QED
    BY <2>1, <2>6, <2>7
<1>6. ASSUME Turn, seen' = seen, pc' = "read", NEW n \in Nat, n = Len(seen), n >= 1,
             n \notin Printing, out' = out
      PROVE  Goal
  <2>1. Printing' = Printing /\ Handled' = n
    BY <1>0, <1>6, SameLines DEF Handled, Turn
  <2>2. Lists(out.text, Among(Printing, n - 1))
    BY <1>6, AtHand DEF OutRight, Handled
  <2>3. Among(Printing, n) = Among(Printing, n - 1)
    BY <1>6, LastLine
  <2> QED
    BY <1>6, <2>1, <2>2, <2>3
<1>7. CASE GroupUnset
  <2>1. Turn /\ seen' = seen /\ pc' = "read" /\ out' = out
    BY <1>7 DEF GroupUnset, Goto, Turn
  <2>2. Len(seen) \notin Printing
    BY <1>7, NoRecord DEF Printing, Passing
  <2> QED
    BY <1>6, <2>1, <2>2, AtHand
<1>8. CASE Drop
  <2>1. Turn /\ seen' = seen /\ pc' = "read" /\ out' = out /\ ~Matches(line)
    BY <1>8 DEF Drop, NextLine, Goto, Turn
  <2>2. Len(seen) \notin Printing
    BY <2>1, AtHand DEF Printing, Passing
  <2> QED
    BY <1>6, <2>1, <2>2, AtHand
<1>9. CASE Aggregate \/ Count
  <2>1. Turn /\ seen' = seen /\ pc' = "read" /\ out' = out /\ Summarises
    BY <1>9 DEF Aggregate, Count, NextLine, Goto, Turn, Summarises
  <2>2. Len(seen) \notin Printing
    BY <2>1 DEF Printing
  <2> QED
    BY <1>6, <2>1, <2>2, AtHand
<1>10. CASE WriteOut
  <2>1. /\ pc \in {"format", "use"} /\ seen' = seen /\ pc' = "read" /\ out' = Takes(out, Len(seen))
        /\ Matches(line) /\ ~Summarises
    BY <1>10 DEF WriteOut, ToOut, Formatted, Prints, NextLine, Goto, Turns, Summarises
  <2>2. PICK n \in Nat : n >= 1 /\ n = Len(seen) /\ line = seen[n] /\ n \in Records /\ Handled = n - 1
    BY <2>1, AtHand DEF Turn
  <2>3. n \in Printing
    BY <2>1, <2>2 DEF Printing, Passing
  <2>4. out'.lost = out.lost /\ out'.text = Append(out.text, n) /\ out.text \in Seq(Nat)
    <3>1. out \in [text : Seq(Nat), lost : BOOLEAN]
      BY DEF TypeOK
    <3> QED
      BY <2>1, <2>2, <3>1, StreamTypes
  <2>5. Lists(out.text, Among(Printing, n - 1))
    BY <2>1, <2>2, <2>4, AtHand DEF OutRight, Turn
  <2>6. Lists(out'.text, Among(Printing, n))
    BY <2>2, <2>3, <2>4, <2>5, ListsMore
  <2>7. Printing' = Printing /\ Handled' = n
    BY <1>0, <2>1, <2>2, SameLines DEF Handled, Turn
  <2> QED
    BY <2>1, <2>2, <2>6, <2>7
<1>11. CASE WriteOutFails
  BY <1>11, StreamTypes, 0 \in Nat DEF WriteOutFails, TypeOK
<1>12. CASE Close
  <2>1. out' \in {out, Loses(out)} /\ pc = "close" /\ pc' = "exited" /\ seen' = seen
        /\ exit_code' \in {exit_code, 2}
    BY <1>12 DEF Close, Goto
  <2>2. out' = out
    BY <2>1, StreamTypes, 0 \in Nat DEF TypeOK
  <2> QED
    BY <1>1, <2>1, <2>2 DEF Handled, Turn
<1> QED
  BY <1>2, <1>3, <1>4, <1>5, <1>7, <1>8, <1>9, <1>10, <1>11, <1>12 DEF Next

-----------------------------------------------------------------------------------
(* Aggregates and counts                                                         *)

LEMMA TallySkips ==
  ASSUME NEW a, NEW s \in Seq(Int), NEW S \in SUBSET (1 .. Len(s)), Tally(a, S, s)
  PROVE  Tally(a, S, Append(s, 0))
<1>1. Sum(Append(s, 0)) = Sum(s) + 0 /\ Sum(s) \in Int
  BY SumAppend, SumType
<1>2. \A i \in S : Append(s, 0)[i] = s[i]
  OBVIOUS
<1> QED
  BY <1>1, <1>2 DEF Tally

LEMMA TallyAdds ==
  ASSUME NEW a \in [sum : Int, min : Int, max : Int, count : Nat], NEW v \in Int,
         NEW s \in Seq(Int), NEW S \in SUBSET (1 .. Len(s)), Tally(a, S, s),
         NEW b, b = [sum   |-> a.sum + v,
                     count |-> a.count + 1,
                     min   |-> IF a.count = 0 \/ v < a.min THEN v ELSE a.min,
                     max   |-> IF a.count = 0 \/ v > a.max THEN v ELSE a.max]
  PROVE  Tally(b, S \cup {Len(s) + 1}, Append(s, v))
<1> DEFINE n == Len(s) + 1
           t == Append(s, v)
<1>1. n \in Nat /\ t[n] = v /\ n \notin S /\ \A i \in S : t[i] = s[i] /\ s[i] \in Int
  <2>1. n \in Nat /\ n \notin S
    OBVIOUS
  <2>2. t[n] = v
    OBVIOUS
  <2>3. \A i \in S : t[i] = s[i] /\ s[i] \in Int
    OBVIOUS
  <2> QED
    BY <2>1, <2>2, <2>3
<1>2. IsFiniteSet(S)
  <2>1. Len(s) \in Int /\ 1 \in Int
    OBVIOUS
  <2>2. IsFiniteSet(1 .. Len(s))
    BY <2>1, FS_Interval, Zenon
  <2> QED
    BY <2>2, FS_Subset, Zenon
<1>3. Cardinality(S \cup {n}) = Cardinality(S) + 1
  BY <1>1, <1>2, FS_AddElement
<1>4. Sum(t) = Sum(s) + v
  BY SumAppend
<1>5. /\ b.count = a.count + 1 /\ b.sum = a.sum + v
      /\ b.min = (IF a.count = 0 \/ v < a.min THEN v ELSE a.min)
      /\ b.max = (IF a.count = 0 \/ v > a.max THEN v ELSE a.max)
      /\ a.count \in Nat /\ a.min \in Int /\ a.max \in Int
  OBVIOUS
<1>6. a.count = 0 => S = {}
  BY <1>2, FS_EmptySet DEF Tally
<1> HIDE DEF n, t
<1>7. \E i \in S \cup {n} : b.min = t[i]
  <2>1. CASE b.min = v
    BY <1>1, <2>1
  <2>2. CASE a.count # 0 /\ b.min = a.min
    BY <1>1, <2>2 DEF Tally
  <2> QED
    BY <1>5, <2>1, <2>2
<1>8. \E i \in S \cup {n} : b.max = t[i]
  <2>1. CASE b.max = v
    BY <1>1, <2>1
  <2>2. CASE a.count # 0 /\ b.max = a.max
    BY <1>1, <2>2 DEF Tally
  <2> QED
    BY <1>5, <2>1, <2>2
<1>9. \A i \in S \cup {n} : b.min <= t[i] /\ t[i] <= b.max
  <2> SUFFICES ASSUME NEW i \in S \cup {n} PROVE b.min <= t[i] /\ t[i] <= b.max
    OBVIOUS
  <2>1. CASE i = n
    BY <1>1, <1>5, <2>1
  <2>2. CASE i \in S
    <3>1. a.min <= s[i] /\ s[i] <= a.max /\ a.count # 0
      BY <1>6, <2>2 DEF Tally
    <3> QED
      BY <1>1, <1>5, <2>2, <3>1
  <2> QED
    BY <2>1, <2>2
<1>10. b.count = Cardinality(S \cup {n}) /\ b.sum = Sum(t)
  BY <1>3, <1>4, <1>5 DEF Tally
<1> QED
  BY <1>7, <1>8, <1>9, <1>10 DEF Tally, n, t

LEMMA AmountType ==
  ASSUME TypeOK
  PROVE  \A i \in 1 .. Len(seen) : Amount(i) \in Int
<1> SUFFICES ASSUME NEW i \in 1 .. Len(seen) PROVE Amount(i) \in Int
  OBVIOUS
<1>1. seen[i] \in Lines
  BY DEF TypeOK
<1>2. i \in Counted => HasNumber(seen[i])
  BY DEF Counted
<1> QED
  BY <1>1, <1>2, NumberType DEF Amount

LEMMA AmountsType ==
  ASSUME TypeOK, NEW n \in Nat, n <= Len(seen)
  PROVE  Amounts(n) \in Seq(Int) /\ Len(Amounts(n)) = n
<1>1. \A i \in 1 .. n : Amount(i) \in Int
  BY AmountType, LenProperties DEF TypeOK
<1> QED
  BY <1>1 DEF Amounts

LEMMA AmountsAppend ==
  ASSUME TypeOK, NEW n \in Nat, n >= 1, n <= Len(seen)
  PROVE  Amounts(n) = Append(Amounts(n - 1), Amount(n))
<1>1. n - 1 \in Nat /\ n - 1 <= Len(seen)
  BY DEF TypeOK
<1>2. /\ Amounts(n) \in Seq(Int) /\ Len(Amounts(n)) = n
      /\ Amounts(n - 1) \in Seq(Int) /\ Len(Amounts(n - 1)) = n - 1
  BY <1>1, AmountsType
<1>3. Amount(n) \in Int
  BY AmountType, LenProperties DEF TypeOK
<1>4. /\ Append(Amounts(n - 1), Amount(n)) \in Seq(Int)
      /\ Len(Append(Amounts(n - 1), Amount(n))) = n
  BY <1>2, <1>3
<1>5. \A i \in 1 .. n : Amounts(n)[i] = Append(Amounts(n - 1), Amount(n))[i]
  <2> SUFFICES ASSUME NEW i \in 1 .. n
               PROVE  Amounts(n)[i] = Append(Amounts(n - 1), Amount(n))[i]
    OBVIOUS
  <2>1. Amounts(n)[i] = Amount(i)
    BY DEF Amounts
  <2>2. i < n => Amounts(n - 1)[i] = Amount(i)
    BY DEF Amounts
  <2> QED
    BY <1>2, <1>3, <2>1, <2>2
<1> QED
  BY <1>2, <1>4, <1>5, SeqEqual

LEMMA AggKeeps ==
  ASSUME TypeOK, TypeOK', Turns, AggRight, [Next]_vars
  PROVE  AggRight'
<1> SUFFICES ASSUME Aggregates', exit_code' = 0
             PROVE  (Tally(agg, Among(Counted, Handled), Amounts(Handled)))'
  BY DEF AggRight
<1> DEFINE Goal == (Tally(agg, Among(Counted, Handled), Amounts(Handled)))'
<1>0. opt' = opt /\ Len(seen) \in Nat
  BY OptionsStay, LenProperties DEF TypeOK
<1>1. Aggregates
  BY <1>0, SameOptions
<1>2. ASSUME NEW h, Handled' = h, Tally(agg', Among(Counted', h), [i \in 1 .. h |-> Amount(i)'])
      PROVE  Goal
  BY <1>2 DEF Amounts
<1>3. ASSUME seen' = seen
      PROVE  Counted' = Counted /\ \A h : [i \in 1 .. h |-> Amount(i)'] = Amounts(h)
  BY <1>0, <1>3, SameLines DEF Amounts
<1>4. ASSUME seen' = seen, agg' = agg, exit_code = 0, Handled' = Handled
      PROVE  Goal
  <2>1. PICK h : h = Handled
    OBVIOUS
  <2>2. Tally(agg, Among(Counted, h), Amounts(h))
    BY <1>1, <1>4, <2>1 DEF AggRight
  <2> QED
    BY <1>2, <1>3, <1>4, <2>1, <2>2
<1>5. CASE Setup \/ PrintSummary \/ EndOfInput \/ Close \/ UNCHANGED vars
  BY <1>4, <1>5 DEF Setup, PrintSummary, EndOfInput, Close, Goto, vars, Handled, Turn, Turns
<1>6. CASE SetupFails \/ CaptureFails \/ FormatFails \/ WriteLogFails
  BY <1>6 DEF SetupFails, CaptureFails, FormatFails, WriteLogFails, Break
<1>7. CASE Capture \/ AppendPiece \/ GrowBuffer \/ FormatLog \/ NoLog \/ WriteLog \/ FormatOut
  <2>1. UNCHANGED <<seen, agg, exit_code>> /\ Turn /\ Turn'
    BY <1>7 DEF Capture, AppendPiece, GrowBuffer, FormatLog, NoLog, WriteLog, FormatOut,
                StartFormat, Prints, ToLog, Formatted, Goto, Turn
  <2> QED
    BY <1>4, <2>1 DEF Handled
<1>8. CASE ReadLine
  <2>1. PICK l \in Lines :
          /\ seen' = Append(seen, l)
          /\ pc' = CASE ~opt.regex /\ Validates(l) -> "log"
                     [] opt.regex /\ l.ok         -> "capture"
                     [] OTHER                     -> "read"
    BY <1>8 DEF ReadLine
  <2>2. pc = "read" /\ agg' = agg /\ exit_code = 0
    BY <1>8 DEF ReadLine, Turns
  <2>3. PICK n \in Nat : n = Len(seen)
    BY <1>0
  <2>4. /\ Len(seen') = n + 1 /\ Among(Counted', n) = Among(Counted, n)
        /\ (n + 1 \in Records') <=> IsRecord(l)
        /\ \A i \in 1 .. n : Amount(i)' = Amount(i)
    BY <1>0, <2>1, <2>3, NextLineRead
  <2>5. Tally(agg, Among(Counted, n), Amounts(n))
    BY <1>1, <2>2, <2>3 DEF AggRight, Handled, Turn
  <2>6. [i \in 1 .. n |-> Amount(i)'] = Amounts(n)
    BY <2>4 DEF Amounts
  <2>7. CASE pc' \in {"log", "capture"}
    <3>1. Handled' = n
      BY <2>3, <2>4, <2>7 DEF Handled, Turn
    <3> QED
      BY <1>2, <2>2, <2>4, <2>5, <2>6, <3>1
  <2>8. CASE ~(~opt.regex /\ Validates(l)) /\ ~(opt.regex /\ l.ok)
    <3>1. pc' = "read" /\ ~IsRecord(l)
      BY <2>1, <2>8 DEF IsRecord
    <3>2. Handled' = n + 1
      BY <2>3, <2>4, <3>1 DEF Handled, Turn
    <3>3. n + 1 \notin Counted'
      BY <2>4, <3>1 DEF Counted, Passing
    <3>4. Among(Counted', n + 1) = Among(Counted', n)
      BY <3>3, LastLine
    <3>5. Amount(n + 1)' = 0
      BY <3>3 DEF Amount
    <3>6. Amounts(n) \in Seq(Int) /\ Len(Amounts(n)) = n
      BY <2>3, AmountsType
    <3>7. [i \in 1 .. n + 1 |-> Amount(i)'] = Append(Amounts(n), 0)
      <4> DEFINE more == [i \in 1 .. n + 1 |-> Amount(i)']
      <4>1. \A i \in 1 .. n + 1 : more[i] = IF i = n + 1 THEN 0 ELSE Amounts(n)[i]
        BY <2>4, <3>5 DEF Amounts
      <4>2. \A i \in 1 .. n : Amounts(n)[i] \in Int
        BY <3>6
      <4>3. more \in Seq(Int) /\ Len(more) = n + 1
        BY <4>1, <4>2
      <4> HIDE DEF more
      <4>4. Append(Amounts(n), 0) \in Seq(Int) /\ Len(Append(Amounts(n), 0)) = n + 1
        BY <3>6
      <4>5. \A i \in 1 .. n + 1 : more[i] = Append(Amounts(n), 0)[i]
        BY <3>6, <4>1
      <4>6. more = Append(Amounts(n), 0)
        BY <4>3, <4>4, <4>5, SeqEqual
      <4> QED
        BY <4>6 DEF more
    <3>8. Tally(agg, Among(Counted, n), Append(Amounts(n), 0))
      <4>1. Among(Counted, n) \in SUBSET (1 .. Len(Amounts(n)))
        BY <3>6 DEF Among
      <4> QED
        BY <2>5, <3>6, <4>1, TallySkips
    <3> QED
      BY <1>2, <2>2, <2>4, <3>2, <3>4, <3>7, <3>8
  <2> QED
    BY <2>1, <2>7, <2>8
<1>9. ASSUME Turn, seen' = seen, pc' = "read", NEW n \in Nat, n = Len(seen), n >= 1,
             Tally(agg', Among(Counted, n), Amounts(n))
      PROVE  Goal
  <2>1. Handled' = n
    BY <1>9 DEF Handled, Turn
  <2> QED
    BY <1>2, <1>3, <1>9, <2>1
<1>10. ASSUME Turn, NEW n \in Nat, n = Len(seen), n >= 1
       PROVE  /\ Tally(agg, Among(Counted, n - 1), Amounts(n - 1))
              /\ Amounts(n) = Append(Amounts(n - 1), Amount(n))
              /\ Among(Counted, n - 1) \in SUBSET (1 .. Len(Amounts(n - 1)))
              /\ Amounts(n - 1) \in Seq(Int) /\ Len(Amounts(n - 1)) = n - 1
  <2>1. Tally(agg, Among(Counted, n - 1), Amounts(n - 1))
    BY <1>1, <1>10, AtHand DEF AggRight, Handled
  <2>2. n - 1 \in Nat /\ n - 1 <= Len(seen)
    BY <1>10
  <2>3. Amounts(n - 1) \in Seq(Int) /\ Len(Amounts(n - 1)) = n - 1
    BY <2>2, AmountsType
  <2>4. Amounts(n) = Append(Amounts(n - 1), Amount(n))
    BY <1>10, AmountsAppend
  <2> QED
    BY <2>1, <2>3, <2>4 DEF Among
<1>11. ASSUME Turn, seen' = seen, pc' = "read", agg' = agg, Len(seen) \notin Counted
       PROVE  Goal
  <2>1. PICK n \in Nat : n = Len(seen) /\ n >= 1
    BY <1>11, AtHand
  <2>2. Amount(n) = 0 /\ Among(Counted, n) = Among(Counted, n - 1)
    BY <1>11, <2>1, LastLine DEF Amount
  <2>3. Tally(agg, Among(Counted, n - 1), Append(Amounts(n - 1), 0))
    BY <1>10, <1>11, <2>1, TallySkips
  <2> QED
    BY <1>9, <1>10, <1>11, <2>1, <2>2, <2>3
<1>12. CASE GroupUnset
  <2>1. Turn /\ seen' = seen /\ pc' = "read" /\ agg' = agg
    BY <1>12 DEF GroupUnset, Goto, Turn
  <2>2. Len(seen) \notin Counted
    BY <1>12, NoRecord DEF Counted, Passing
  <2> QED
    BY <1>11, <2>1, <2>2
<1>13. CASE Drop
  <2>1. Turn /\ seen' = seen /\ pc' = "read" /\ agg' = agg /\ ~Matches(line)
    BY <1>13 DEF Drop, NextLine, Goto, Turn
  <2>2. Len(seen) \notin Counted
    BY <2>1, AtHand DEF Counted, Passing
  <2> QED
    BY <1>11, <2>1, <2>2
<1>14. CASE Aggregate
  <2>1. /\ pc = "use" /\ seen' = seen /\ pc' = "read" /\ Matches(line)
    BY <1>14 DEF Aggregate, NextLine, Goto
  <2>2. PICK n \in Nat : n = Len(seen) /\ n >= 1 /\ line = seen[n] /\ n \in Records
    BY <2>1, AtHand DEF Turn
  <2>3. n \in Passing
    BY <2>1, <2>2 DEF Passing
  <2>4. CASE ~HasNumber(line)
    <3>1. agg' = agg
      BY <1>14, <2>4 DEF Aggregate
    <3>2. n \notin Counted
      BY <2>2, <2>4 DEF Counted
    <3> QED
      BY <1>11, <2>1, <2>2, <3>1, <3>2 DEF Turn
  <2>5. CASE HasNumber(line)
    <3>1. Accumulate(NumberIn(line))
      BY <1>14, <2>5 DEF Aggregate
    <3>2. n \in Counted
      BY <2>2, <2>3, <2>5 DEF Counted
    <3>3. NumberIn(line) = Amount(n) /\ Amount(n) \in Int
      BY <2>2, <3>2, AmountType DEF Amount
    <3>4. Among(Counted, n) = Among(Counted, n - 1) \cup {n}
      BY <2>2, <3>2, LastLine
    <3>5. agg \in [sum : Int, min : Int, max : Int, count : Nat]
      BY DEF TypeOK
    <3>6. /\ Tally(agg, Among(Counted, n - 1), Amounts(n - 1))
          /\ Amounts(n) = Append(Amounts(n - 1), Amount(n))
          /\ Among(Counted, n - 1) \in SUBSET (1 .. Len(Amounts(n - 1)))
          /\ Amounts(n - 1) \in Seq(Int) /\ Len(Amounts(n - 1)) + 1 = n
      <4>1. Turn
        BY <2>1 DEF Turn
      <4>2. /\ Tally(agg, Among(Counted, n - 1), Amounts(n - 1))
            /\ Amounts(n) = Append(Amounts(n - 1), Amount(n))
            /\ Among(Counted, n - 1) \in SUBSET (1 .. Len(Amounts(n - 1)))
            /\ Amounts(n - 1) \in Seq(Int) /\ Len(Amounts(n - 1)) = n - 1
        BY <1>10, <2>2, <4>1
      <4>3. Len(Amounts(n - 1)) + 1 = n
        BY <2>2, <4>2
      <4> QED
        BY <4>2, <4>3
    <3>7. agg' = [sum   |-> agg.sum + Amount(n),
                  count |-> agg.count + 1,
                  min   |-> IF agg.count = 0 \/ Amount(n) < agg.min THEN Amount(n) ELSE agg.min,
                  max   |-> IF agg.count = 0 \/ Amount(n) > agg.max THEN Amount(n) ELSE agg.max]
      BY <3>1, <3>3 DEF Accumulate
    <3>8. Tally(agg', Among(Counted, n - 1) \cup {Len(Amounts(n - 1)) + 1},
                Append(Amounts(n - 1), Amount(n)))
      BY <3>3, <3>5, <3>6, <3>7, TallyAdds
    <3>9. Tally(agg', Among(Counted, n), Amounts(n))
      BY <3>4, <3>6, <3>8
    <3> QED
      BY <1>9, <2>1, <2>2, <3>9 DEF Turn
  <2> QED
    BY <2>4, <2>5
<1>15. CASE Count
  BY <1>1, <1>15 DEF Count
<1>16. CASE WriteOut \/ WriteOutFails
  <2>1. ~Aggregates
    BY <1>16 DEF WriteOut, WriteOutFails, ToOut, Formatted, Prints, Turns, Summarises
  <2> QED
    BY <1>1, <2>1
<1> QED
  BY <1>5, <1>6, <1>7, <1>8, <1>12, <1>13, <1>14, <1>15, <1>16 DEF Next

LEMMA AmongFinite ==
  ASSUME NEW S, NEW n \in Nat
  PROVE  IsFiniteSet(Among(S, n))
<1>1. IsFiniteSet(1 .. n)
  <2>1. n \in Int /\ 1 \in Int
    OBVIOUS
  <2> QED
    BY <2>1, FS_Interval, Zenon
<1>2. Among(S, n) \in SUBSET (1 .. n)
  BY DEF Among
<1> QED
  BY <1>1, <1>2, FS_Subset, Zenon

LEMMA MatchedKeeps ==
  ASSUME TypeOK, Turns, MatchedRight, [Next]_vars
  PROVE  MatchedRight'
<1> SUFFICES ASSUME ~Aggregates', opt'.format = "count", exit_code' = 0
             PROVE  matched' = Cardinality(Among(Passing', Handled'))
  BY DEF MatchedRight
<1>0. opt' = opt /\ Len(seen) \in Nat
  BY OptionsStay, LenProperties DEF TypeOK
<1>1. ~Aggregates /\ opt.format = "count"
  BY <1>0, SameOptions
<1>2. ASSUME seen' = seen, matched' = matched, exit_code = 0, Handled' = Handled
      PROVE  matched' = Cardinality(Among(Passing', Handled'))
  BY <1>0, <1>1, <1>2, SameLines DEF MatchedRight
<1>3. CASE Setup \/ PrintSummary \/ EndOfInput \/ Close \/ UNCHANGED vars
  BY <1>2, <1>3 DEF Setup, PrintSummary, EndOfInput, Close, Goto, vars, Handled, Turn, Turns
<1>4. CASE SetupFails \/ CaptureFails \/ FormatFails \/ WriteLogFails
  BY <1>4 DEF SetupFails, CaptureFails, FormatFails, WriteLogFails, Break
<1>5. CASE Capture \/ AppendPiece \/ GrowBuffer \/ FormatLog \/ NoLog \/ WriteLog
  <2>1. UNCHANGED <<seen, matched, exit_code>> /\ Turn /\ Turn'
    BY <1>5 DEF Capture, AppendPiece, GrowBuffer, FormatLog, NoLog, WriteLog,
                StartFormat, ToLog, Formatted, Goto, Turn
  <2> QED
    BY <1>2, <2>1 DEF Handled
<1>6. CASE ReadLine
  <2>1. PICK l \in Lines :
          /\ seen' = Append(seen, l)
          /\ pc' = CASE ~opt.regex /\ Validates(l) -> "log"
                     [] opt.regex /\ l.ok         -> "capture"
                     [] OTHER                     -> "read"
    BY <1>6 DEF ReadLine
  <2>2. pc = "read" /\ matched' = matched /\ exit_code = 0
    BY <1>6 DEF ReadLine, Turns
  <2>3. PICK n \in Nat : n = Len(seen)
    BY <1>0
  <2>4. /\ Len(seen') = n + 1 /\ Among(Passing', n) = Among(Passing, n)
        /\ (n + 1 \in Records') <=> IsRecord(l)
    BY <1>0, <2>1, <2>3, NextLineRead
  <2>5. matched = Cardinality(Among(Passing, n))
    BY <1>1, <2>2, <2>3 DEF MatchedRight, Handled, Turn
  <2>6. CASE pc' \in {"log", "capture"}
    <3>1. Handled' = n
      BY <2>3, <2>4, <2>6 DEF Handled, Turn
    <3> QED
      BY <2>2, <2>4, <2>5, <3>1
  <2>7. CASE ~(~opt.regex /\ Validates(l)) /\ ~(opt.regex /\ l.ok)
    <3>1. pc' = "read" /\ ~IsRecord(l)
      BY <2>1, <2>7 DEF IsRecord
    <3>2. Handled' = n + 1
      BY <2>3, <2>4, <3>1 DEF Handled, Turn
    <3>3. n + 1 \notin Passing'
      BY <2>4, <3>1 DEF Passing
    <3>4. Among(Passing', n + 1) = Among(Passing', n)
      BY <3>3, LastLine
    <3> QED
      BY <2>2, <2>4, <2>5, <3>2, <3>4
  <2> QED
    BY <2>1, <2>6, <2>7
<1>7. ASSUME Turn, seen' = seen, pc' = "read", matched' = matched, Len(seen) \notin Passing
      PROVE  matched' = Cardinality(Among(Passing', Handled'))
  <2>1. PICK n \in Nat : n = Len(seen) /\ n >= 1 /\ Handled = n - 1
    BY <1>7, AtHand
  <2>2. exit_code = 0
    BY <1>7, AtHand
  <2>3. matched = Cardinality(Among(Passing, n - 1))
    BY <1>1, <2>1, <2>2 DEF MatchedRight
  <2>4. Handled' = n /\ Passing' = Passing
    BY <1>0, <1>7, <2>1, SameLines DEF Handled, Turn
  <2>5. Among(Passing, n) = Among(Passing, n - 1)
    BY <1>7, <2>1, LastLine
  <2> QED
    BY <1>7, <2>3, <2>4, <2>5
<1>8. CASE GroupUnset
  <2>1. Turn /\ seen' = seen /\ pc' = "read" /\ matched' = matched
    BY <1>8 DEF GroupUnset, Goto, Turn
  <2>2. Len(seen) \notin Passing
    BY <1>8, NoRecord DEF Passing
  <2> QED
    BY <1>7, <2>1, <2>2
<1>9. CASE Drop
  <2>1. Turn /\ seen' = seen /\ pc' = "read" /\ matched' = matched /\ ~Matches(line)
    BY <1>9 DEF Drop, NextLine, Goto, Turn
  <2>2. Len(seen) \notin Passing
    BY <2>1, AtHand DEF Passing
  <2> QED
    BY <1>7, <2>1, <2>2
<1>10. CASE Count
  <2>1. pc = "use" /\ seen' = seen /\ pc' = "read" /\ Matches(line) /\ matched' = matched + 1
    BY <1>10 DEF Count, NextLine, Goto
  <2>2. PICK n \in Nat : n = Len(seen) /\ n >= 1 /\ line = seen[n] /\ n \in Records /\ Handled = n - 1
    BY <2>1, AtHand DEF Turn
  <2>3. n \in Passing
    BY <2>1, <2>2 DEF Passing
  <2>4. exit_code = 0
    BY <2>1, AtHand DEF Turn
  <2>5. matched = Cardinality(Among(Passing, n - 1))
    BY <1>1, <2>2, <2>4 DEF MatchedRight
  <2>6. Among(Passing, n) = Among(Passing, n - 1) \cup {n}
    BY <2>2, <2>3, LastLine
  <2>7. IsFiniteSet(Among(Passing, n - 1))
    BY <2>2, n - 1 \in Nat, AmongFinite
  <2>8. n \notin Among(Passing, n - 1)
    BY <2>2 DEF Among
  <2>9. Cardinality(Among(Passing, n)) = Cardinality(Among(Passing, n - 1)) + 1
    BY <2>6, <2>7, <2>8, FS_AddElement
  <2>10. Handled' = n /\ Passing' = Passing
    BY <1>0, <2>1, <2>2, SameLines DEF Handled, Turn
  <2> QED
    BY <2>1, <2>5, <2>9, <2>10
<1>11. CASE Aggregate
  BY <1>1, <1>11 DEF Aggregate
<1>12. CASE FormatOut \/ WriteOut \/ WriteOutFails
  <2>1. ~Summarises
    BY <1>12 DEF FormatOut, WriteOut, WriteOutFails, ToOut, Formatted, Prints, Turns, Summarises
  <2> QED
    BY <1>1, <2>1 DEF Summarises
<1> QED
  BY <1>3, <1>4, <1>5, <1>6, <1>8, <1>9, <1>10, <1>11, <1>12 DEF Next

-----------------------------------------------------------------------------------
(* The summary                                                                   *)

LEMMA Extremes ==
  ASSUME NEW S \in SUBSET Int, NEW x \in S
  PROVE  /\ (\A y \in S : x <= y) => Min(S) = x
         /\ (\A y \in S : y <= x) => Max(S) = x
<1>1. ASSUME \A y \in S : x <= y PROVE Min(S) = x
  <2>1. Min(S) \in S /\ Min(S) <= x
    BY <1>1 DEF Min
  <2>2. x <= Min(S) /\ Min(S) \in Int /\ x \in Int
    BY <1>1, <2>1
  <2> QED
    BY <2>1, <2>2
<1>2. ASSUME \A y \in S : y <= x PROVE Max(S) = x
  <2>1. Max(S) \in S /\ Max(S) >= x
    <3>1. \A y \in S : x >= y
      BY <1>2
    <3> QED
      BY <3>1 DEF Max
  <2>2. Max(S) <= x /\ Max(S) \in Int /\ x \in Int
    BY <1>2, <2>1
  <2> QED
    BY <2>1, <2>2
<1> QED
  BY <1>1, <1>2

\* At the end of the input the aggregates and the count are about all of it.
LEMMA ResultRight ==
  ASSUME TypeOK, AggRight, MatchedRight, pc = "summary", exit_code = 0, Summarises
  PROVE  Result = Expected
<1> DEFINE n == Len(seen)
           numbers == {NumberIn(seen[i]) : i \in Counted}
<1>1. n \in Nat /\ DOMAIN seen = 1 .. n /\ Handled = n
  BY LenProperties DEF TypeOK, Handled, Turn
<1> HIDE DEF n
<1>2. Among(Passing, n) = Passing /\ Among(Counted, n) = Counted
  BY <1>1 DEF Among, Counted, Passing, Records
<1>3. CASE ~Aggregates
  <2>1. matched = Cardinality(Passing)
    BY <1>1, <1>2, <1>3 DEF MatchedRight, Summarises
  <2> QED
    BY <1>3, <2>1 DEF Result, Expected
<1>4. CASE Aggregates
  <2>1. Tally(agg, Counted, Amounts(n))
    BY <1>1, <1>2, <1>4 DEF AggRight
  <2>2. Total = Sum(Amounts(n))
    BY <1>1 DEF Total, Amounts, Amount
  <2>3. agg.count = Cardinality(Counted) /\ agg.sum = Total
    BY <2>1, <2>2 DEF Tally
  <2>4. IsFiniteSet(Counted)
    BY <1>1, <1>2, AmongFinite
  <2>5. agg.count = 0 <=> Counted = {}
    BY <2>3, <2>4, FS_EmptySet
  <2>6. CASE Counted = {}
    BY <1>4, <2>5, <2>6 DEF Result, Expected
  <2>7. CASE Counted # {}
    <3>1. \A i \in Counted : Amounts(n)[i] = NumberIn(seen[i]) /\ Amounts(n)[i] \in Int
      <4>1. Counted \subseteq 1 .. n
        BY <1>2 DEF Among
      <4>2. \A i \in 1 .. n : Amount(i) \in Int
        BY AmountType DEF n
      <4> QED
        BY <4>1, <4>2 DEF Amounts, Amount
    <3>2. numbers \in SUBSET Int
      BY <3>1
    <3>3. agg.min \in numbers /\ agg.max \in numbers
      BY <2>1, <2>5, <2>7, <3>1 DEF Tally
    <3>4. \A y \in numbers : agg.min <= y /\ y <= agg.max
      BY <2>1, <3>1 DEF Tally
    <3> HIDE DEF numbers
    <3>5. agg.min = Min(numbers) /\ agg.max = Max(numbers)
      BY <3>2, <3>3, <3>4, Extremes
    <3>6. opt.agg \in {"sum", "avg", "min", "max"}
      BY <1>4, OptionType DEF Aggregates
    <3>7. Result = CASE opt.agg = "sum" -> <<agg.sum, 1>>
                     [] opt.agg = "avg" -> <<agg.sum, agg.count>>
                     [] opt.agg = "min" -> <<agg.min, 1>>
                     [] opt.agg = "max" -> <<agg.max, 1>>
      BY <1>4, <2>5, <2>7 DEF Result
    <3>8. Expected = CASE opt.agg = "sum" -> <<Total, 1>>
                       [] opt.agg = "avg" -> <<Total, Cardinality(Counted)>>
                       [] opt.agg = "min" -> <<Min(numbers), 1>>
                       [] opt.agg = "max" -> <<Max(numbers), 1>>
      BY <1>4, <2>7 DEF Expected, numbers
    <3> QED
      BY <2>3, <3>5, <3>6, <3>7, <3>8
  <2> QED
    BY <2>6, <2>7
<1> QED
  BY <1>3, <1>4

LEMMA SummaryKeeps ==
  ASSUME TypeOK, Turns, AggRight, MatchedRight, SummaryRight, [Next]_vars
  PROVE  SummaryRight'
<1>1. CASE PrintSummary
  <2>1. /\ pc = "summary" /\ opt' = opt /\ seen' = seen
        /\ summary' # <<>> => exit_code = 0 /\ Summarises /\ summary' = <<Result>>
    BY <1>1 DEF PrintSummary, Goto, Summarises
  <2>2. Expected' = Expected
    BY <2>1, SameLines
  <2> QED
    BY <2>1, <2>2, ResultRight DEF SummaryRight
<1>2. CASE ~PrintSummary
  <2>1. summary' = summary
    BY <1>2 DEF Next, vars, Setup, SetupFails, ReadLine, Capture, GroupUnset, CaptureFails,
           AppendPiece, GrowBuffer, FormatFails, NoLog, FormatLog, WriteLog, WriteLogFails, Drop,
           Aggregate, Count, FormatOut, WriteOut, WriteOutFails, EndOfInput, Close, StartFormat,
           Break, NextLine
  <2>2. CASE summary = <<>>
    BY <2>1, <2>2 DEF SummaryRight
  <2>3. CASE summary # <<>>
    <3>1. ~Turn /\ pc \notin {"setup", "read", "summary"}
      BY <2>3 DEF Turns
    <3>2. Close \/ UNCHANGED vars
      BY <1>2, <3>1 DEF Next, Turn, Setup, SetupFails, ReadLine, Capture, GroupUnset, CaptureFails,
             AppendPiece, GrowBuffer, FormatFails, NoLog, FormatLog, WriteLog, WriteLogFails, Drop,
             Aggregate, Count, FormatOut, WriteOut, WriteOutFails, EndOfInput, ToLog, ToOut, Prints,
             Formatted
    <3>3. opt' = opt /\ seen' = seen
      BY <3>2 DEF Close, Goto, vars
    <3> QED
      BY <2>1, <3>3, SameLines DEF SummaryRight
  <2> QED
    BY <2>2, <2>3
<1> QED
  BY <1>1, <1>2

-----------------------------------------------------------------------------------
(* Theorems                                                                      *)

\* The invariant: the types, the buffer, where log_parse is in a line, and that full
\* log, standard output, aggregates and count account for exactly the lines they have
\* been told of.
THEOREM ParseInvariant == Spec => []IInv
<1>1. Init => IInv
  <2> SUFFICES ASSUME Init PROVE IInv
    OBVIOUS
  <2>1. BufferInit
    BY DEF Init
  <2> QED
    BY <2>1, TypesStart, BufferStarts, TurnsStart, AccountsStart DEF IInv
<1>2. IInv /\ [Next]_vars => IInv'
  <2> SUFFICES ASSUME IInv, [Next]_vars PROVE IInv'
    OBVIOUS
  <2>1. TypeOK'
    BY TypesKeep DEF IInv
  <2>2. BufferInv'
    BY BufferFollows, BufferKeeps DEF IInv
  <2>3. Turns' /\ LogRight' /\ OutRight'
    BY TurnsKeep, LogKeeps, OutKeeps DEF IInv
  <2>4. AggRight' /\ MatchedRight' /\ SummaryRight'
    BY <2>1, AggKeeps, MatchedKeeps, SummaryKeeps DEF IInv
  <2> QED
    BY <2>1, <2>2, <2>3, <2>4 DEF IInv
<1> QED
  BY <1>1, <1>2, PTL DEF Spec

\* Everything log_parse counts and keeps stays of its type, whatever the lines are.
THEOREM ParseTypes == Spec => []TypeOK
<1>1. IInv => TypeOK
  BY DEF IInv
<1> QED
  BY <1>1, ParseInvariant, PTL

\* Exit status 0 means that every record of the input is in the full log, once and in
\* order, and that nothing the log was given was lost (log_parse.c:246, 298, 356).
THEOREM LogIsComplete == Spec => []SuccessIsLogged
<1>1. IInv => SuccessIsLogged
  <2> SUFFICES ASSUME IInv, pc = "exited", exit_code = 0, opt.full_log
               PROVE  ~full_log.lost /\ Lists(full_log.text, Records)
    BY DEF SuccessIsLogged
  <2>1. ~full_log.lost /\ Lists(full_log.text, Among(Records, Len(seen)))
    BY DEF IInv, LogRight, Logged
  <2>2. Among(Records, Len(seen)) = Records
    BY LenProperties DEF IInv, TypeOK, Among, Records
  <2> QED
    BY <2>1, <2>2
<1> QED
  BY <1>1, ParseInvariant, PTL

\* What is printed is a prefix of what passes the filter, all of it after success, and
\* a summary is the sum, average, extreme or count over the whole input
\* (log_parse.c:245-347).
THEOREM PrintedExactly == Spec => []OutputIsExact
<1>1. IInv => OutputIsExact
  <2> SUFFICES ASSUME IInv PROVE OutputIsExact
    OBVIOUS
  <2>0. /\ ~out.lost => \E k \in 0 .. Len(seen) : /\ exit_code = 0 => k = Handled
                                                 /\ Lists(out.text, Among(Printing, k))
        /\ Len(seen) \in Nat
    BY LenProperties DEF IInv, OutRight, TypeOK
  <2>1. ~out.lost => \E k \in 0 .. Len(seen) : Lists(out.text, Printing \cap 1 .. k)
    BY <2>0 DEF Among
  <2>2. summary # <<>> => summary = <<Expected>>
    BY DEF IInv, SummaryRight
  <2>3. ASSUME pc = "exited", exit_code = 0
        PROVE  /\ out.lost \/ Lists(out.text, Printing)
               /\ Summarises => summary # <<>>
    <3>1. Handled = Len(seen)
      BY <2>3 DEF Handled, Turn
    <3>2. Among(Printing, Len(seen)) = Printing
      BY LenProperties DEF IInv, TypeOK, Among, Printing, Passing, Records
    <3> QED
      BY <2>0, <2>3, <3>1, <3>2 DEF IInv, Turns
  <2> QED
    BY <2>1, <2>2, <2>3 DEF OutputIsExact, Printing
<1> QED
  BY <1>1, ParseInvariant, PTL

\* The copies of the capture groups are those of the line at hand, and no early end of
\* a turn leaves one behind (log_regex.c:69-76, log_parse.c:248, 274, 281, 290).
THEOREM CapturesAreOfTheLine == Spec => []CapturesBelong
<1>1. IInv => CapturesBelong
  BY DEF IInv, Turns
<1> QED
  BY <1>1, ParseInvariant, PTL

\* The buffer in which records are formatted keeps room for its terminator through all
\* that log_parse does with it, failed allocations included (dynamic_buffer.c:10-11).
THEOREM RecordsFit == Spec => []RoomForTerminator
<1>1. IInv => RoomForTerminator
  BY DEF IInv, BufferInv
<1> QED
  BY <1>1, ParseInvariant, PTL
===================================================================================
