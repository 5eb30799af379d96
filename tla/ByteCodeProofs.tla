--------------------------- MODULE ByteCodeProofs ---------------------------
(***************************************************************************)
(* The invariants of ByteCode for every width of words and bytes, every    *)
(* size of the stack and every sequence of instructions, however long.     *)
(*                                                                         *)
(* The three are one inductive invariant: the stack can only be said to be *)
(* exact, or to have drifted by a number of words, while it is of its      *)
(* type, and the type of what an instruction reads depends on where the    *)
(* top is.  An instruction that takes n words and leaves out is looked at  *)
(* once, in general; each handler then only has to show what it leaves.    *)
(***************************************************************************)
EXTENDS ByteCode, TLAPS

Cells == [half : Half, val : Word]

\* The words below the top are the values meant.
Exact == ~ wild /\ top = Len(want) /\ \A i \in 1 .. Len(want) : words[i] = want[i].val
LocalsExact == \A i \in Local : locals[i] = wantLoc[i].val
Clean == sums = 0 /\ dcmps = 0 /\ ~ skewed

Inv == TypeOK /\ StackIsExact /\ TopDrifts

-----------------------------------------------------------------------------
(* Numbers.                                                                *)

LEMMA WordsAreThere == W \in Nat /\ B \in Nat /\ 1 < B /\ B <= W /\ 0 \in Word
  BY ByteCodeAssumption DEF Word

LEMMA ModIsWord ==
  ASSUME NEW x \in Int
  PROVE  x % W \in Word
  BY WordsAreThere DEF Word

LEMMA SquareIsLarger == W * W \in Nat /\ W * W > 0
  <1>1. W \in Nat /\ W > 0
    BY WordsAreThere
  <1> QED BY <1>1

LEMMA HighWordIsWord ==
  ASSUME NEW s \in 0 .. W * W - 1
  PROVE  s \div W \in Word
  <1> DEFINE q == s \div W
  <1>1. W \in Nat /\ W > 0 /\ W * W \in Nat /\ s \in Nat
    BY WordsAreThere, SquareIsLarger
  <1>2. q \in Nat /\ q * W <= s
    BY <1>1
  <1>3. q >= W => q * W >= W * W
    <2> HIDE DEF q
    <2> QED BY <1>1, <1>2
  <1>4. q < W
    BY <1>1, <1>2, <1>3
  <1> QED BY <1>2, <1>4, <1>1 DEF Word

\* Any sum or difference of two longs splits into two words.
LEMMA LongSplits ==
  ASSUME NEW x \in Int
  PROVE  (x % (W * W)) \div W \in Word /\ (x % (W * W)) % W \in Word
  <1>1. x % (W * W) \in 0 .. W * W - 1
    <2> DEFINE n == W * W
    <2>1. n \in Nat /\ n > 0
      BY SquareIsLarger
    <2> HIDE DEF n
    <2>2. x % n \in 0 .. n - 1
      BY <2>1
    <2> QED BY <2>2 DEF n
  <1>2. x % (W * W) \in Int
    BY <1>1, SquareIsLarger
  <1> QED BY <1>1, <1>2, HighWordIsWord, ModIsWord

LEMMA LongOfIsInt ==
  ASSUME NEW hi \in Word, NEW lo \in Word
  PROVE  LongOf(hi, lo) \in Int
  BY WordsAreThere DEF LongOf, Word

LEMMA SignExtendedIsWord ==
  ASSUME NEW b \in Int
  PROVE  SignExtended(b) \in Word
  BY ModIsWord, WordsAreThere DEF SignExtended, Signed

-----------------------------------------------------------------------------
(* Sequences.                                                              *)

LEMMA Slice ==
  ASSUME NEW S, NEW q \in Seq(S), NEW a \in Nat, NEW b \in Nat, a <= b, b <= Len(q)
  PROVE  /\ SubSeq(q, a + 1, b) \in Seq(S) /\ Len(SubSeq(q, a + 1, b)) = b - a
         /\ \A i \in 1 .. b - a : SubSeq(q, a + 1, b)[i] = q[a + i]
  OBVIOUS

LEMMA Joined ==
  ASSUME NEW S, NEW p \in Seq(S), NEW q \in Seq(S)
  PROVE  /\ p \o q \in Seq(S) /\ Len(p \o q) = Len(p) + Len(q)
         /\ \A i \in 1 .. Len(p) : (p \o q)[i] = p[i]
         /\ \A i \in 1 .. Len(q) : (p \o q)[Len(p) + i] = q[i]
  OBVIOUS

\* The stack meant, after n words have been replaced.
LEMMA Meant ==
  ASSUME NEW n \in Nat, n <= Len(want), want \in Seq(Cells), NEW cells \in Seq(Cells)
  PROVE  LET q == SubSeq(want, 1, Len(want) - n) \o cells
         IN  /\ q \in Seq(Cells) /\ Len(q) = Len(want) - n + Len(cells)
             /\ \A i \in 1 .. Len(want) - n : q[i] = want[i]
  <1>1. /\ SubSeq(want, 0 + 1, Len(want) - n) \in Seq(Cells)
        /\ Len(SubSeq(want, 0 + 1, Len(want) - n)) = Len(want) - n - 0
        /\ \A i \in 1 .. Len(want) - n - 0 : SubSeq(want, 0 + 1, Len(want) - n)[i] = want[0 + i]
    <2>1. Len(want) - n \in Nat /\ Len(want) - n <= Len(want) /\ 0 \in Nat /\ 0 <= Len(want) - n
      OBVIOUS
    <2> QED BY <2>1, Slice
  <1>2. /\ SubSeq(want, 1, Len(want) - n) \in Seq(Cells)
        /\ Len(SubSeq(want, 1, Len(want) - n)) = Len(want) - n
        /\ \A i \in 1 .. Len(want) - n : SubSeq(want, 1, Len(want) - n)[i] = want[i]
    BY <1>1
  <1> DEFINE p == SubSeq(want, 1, Len(want) - n)
             q == p \o cells
  <1>3. /\ q \in Seq(Cells) /\ Len(q) = Len(p) + Len(cells)
        /\ \A i \in 1 .. Len(p) : q[i] = p[i]
    <2>1. p \in Seq(Cells)
      BY <1>2
    <2> HIDE DEF p
    <2> QED BY <2>1, Joined, Zenon
  <1> HIDE DEF q
  <1>4. q \in Seq(Cells) /\ Len(q) = Len(want) - n + Len(cells) /\ \A i \in 1 .. Len(want) - n : q[i] = want[i]
    BY <1>2, <1>3
  <1> QED BY <1>4 DEF q

-----------------------------------------------------------------------------
(* An instruction that takes n words and leaves out, meaning cells.        *)

LEMMA ExecutesTypes ==
  ASSUME TypeOK, NEW n \in Nat, NEW out, NEW cells \in Seq(Cells),
         Executes(n, out, cells),
         Len(out) \in Nat,
         Inside(n, out) => \A i \in 1 .. Len(out) : out[i] \in Word
  PROVE  /\ words' \in [Index -> Word]
         /\ top' \in Int /\ top' < OpStackSize
         /\ want' \in Seq(Cells) /\ Len(want') <= MaxStack
         /\ Len(want') = Len(want) - n + Len(cells)
         /\ length' \in Nat /\ wild' \in BOOLEAN
  <1> USE ByteCodeAssumption
  <1>1. want \in Seq(Cells) /\ n <= Len(want) /\ Len(want) - n + Len(cells) <= MaxStack
    BY DEF TypeOK, Executes, Depth, Cells
  <1>2. want' = SubSeq(want, 1, Len(want) - n) \o cells
    BY DEF Executes, Means
  <1>3. SubSeq(want, 1, Len(want) - n) \in Seq(Cells) /\ Len(SubSeq(want, 1, Len(want) - n)) = Len(want) - n
    BY <1>1
  <1>4. want' \in Seq(Cells) /\ Len(want') = Len(want) - n + Len(cells)
    BY <1>2, <1>3
  <1>5. length' \in Nat
    BY DEF Executes, OneMore, TypeOK
  <1>6. CASE Inside(n, out)
    <2>1. /\ words' = [i \in Index |->
                         IF i \in top - n + 1 .. top - n + Len(out) THEN out[i - (top - n)] ELSE words[i]]
          /\ top' = top - n + Len(out) /\ wild' = wild
      BY <1>6 DEF Executes, Replace
    <2>2. top \in Int /\ words \in [Index -> Word] /\ wild \in BOOLEAN
      BY DEF TypeOK
    <2>3. \A i \in Index : i \in top - n + 1 .. top - n + Len(out) => out[i - (top - n)] \in Word
      BY <1>6, <2>2 DEF Index
    <2>4. words' \in [Index -> Word]
      BY <2>1, <2>2, <2>3
    <2>5. top' \in Int /\ top' < OpStackSize
      BY <1>6, <2>1, <2>2 DEF Inside
    <2> QED BY <1>1, <1>4, <1>5, <2>1, <2>2, <2>4, <2>5
  <1>7. CASE ~ Inside(n, out)
    <2>1. words' = words /\ top' = top /\ wild' = TRUE
      BY <1>7 DEF Executes
    <2> QED BY <1>1, <1>4, <1>5, <2>1 DEF TypeOK
  <1> QED BY <1>6, <1>7

LEMMA ExecutesDrift ==
  ASSUME TypeOK, TopDrifts, NEW n \in Nat, NEW out, NEW cells \in Seq(Cells),
         Executes(n, out, cells),
         Len(out) = Len(cells),
         Inside(n, out) => \A i \in 1 .. Len(out) : out[i] \in Word,
         sums' = sums, dcmps' = dcmps
  PROVE  TopDrifts'
  <1>1. Len(want') = Len(want) - n + Len(cells)
    BY ExecutesTypes
  <1>2. SUFFICES ASSUME ~ wild'
                 PROVE  top' = Len(want') - sums' + 2 * dcmps'
    BY DEF TopDrifts
  <1>3. ~ wild /\ top' = top - n + Len(out)
    BY <1>2 DEF Executes, Replace, OneMore
  <1>4. top = Len(want) - sums + 2 * dcmps
    BY <1>3 DEF TopDrifts
  <1> QED BY <1>1, <1>3, <1>4 DEF TypeOK

\* While the stack is exact the operands are the values meant.
LEMMA OperandsExact ==
  ASSUME TypeOK, Exact, NEW n \in Nat, n <= Len(want), NEW i \in 1 .. n
  PROVE  /\ Operands(n)[i] = want[Len(want) - n + i].val
         /\ Operands(n)[i] = Below(n - i).val
  <1>1. Len(want) \in Nat /\ Len(want) - n + i \in 1 .. Len(want)
    BY DEF TypeOK
  <1>2. Operands(n)[i] = words[Len(want) - n + i]
    BY DEF Operands, Exact
  <1>3. words[Len(want) - n + i] = want[Len(want) - n + i].val
    BY <1>1 DEF Exact
  <1>4. Len(want) - n + i = Len(want) - (n - i)
    BY <1>1
  <1> QED BY <1>2, <1>3, <1>4 DEF Below

\* What leaves the values it means leaves the stack exact.
LEMMA ExecutesExact ==
  ASSUME TypeOK, Exact, NEW n \in Nat, NEW out, NEW cells \in Seq(Cells),
         Executes(n, out, cells),
         Len(out) = Len(cells),
         \A i \in 1 .. Len(cells) : out[i] = cells[i].val
  PROVE  Exact' /\ Inside(n, out)
  <1>1. want \in Seq(Cells) /\ n <= Len(want) /\ Len(want) - n + Len(cells) <= MaxStack /\ top = Len(want)
    BY DEF TypeOK, Executes, Depth, Cells, Exact
  <1>2. Inside(n, out)
    BY <1>1, ByteCodeAssumption DEF Inside
  <1>3. /\ words' = [i \in Index |->
                       IF i \in top - n + 1 .. top - n + Len(out) THEN out[i - (top - n)] ELSE words[i]]
        /\ top' = top - n + Len(out) /\ wild' = wild
    BY <1>2 DEF Executes, Replace
  <1>4. SubSeq(want, 1, Len(want) - n) \in Seq(Cells) /\ Len(SubSeq(want, 1, Len(want) - n)) = Len(want) - n
    BY <1>1
  <1>5. want' = SubSeq(want, 1, Len(want) - n) \o cells
    BY DEF Executes, Means
  <1>6. Len(want') = Len(want) - n + Len(cells) /\ top' = Len(want')
    <2> DEFINE low == SubSeq(want, 1, Len(want) - n)
    <2>1. low \in Seq(Cells) /\ Len(low) = Len(want) - n /\ want' = low \o cells
      BY <1>4, <1>5
    <2> HIDE DEF low
    <2>2. Len(low \o cells) = Len(low) + Len(cells)
      BY <2>1
    <2>3. Len(want') = Len(want) - n + Len(cells)
      BY <2>1, <2>2
    <2> QED BY <1>1, <1>3, <2>3
  <1>7. ASSUME NEW i \in 1 .. Len(want')
        PROVE  words'[i] = want'[i].val
    <2>1. i \in Index
      BY <1>1, <1>6, ByteCodeAssumption DEF Index
    <2>2. CASE i <= Len(want) - n
      <3>1. want'[i] = want[i]
        BY <1>1, <1>4, <1>5, <2>2
      <3>2. words'[i] = words[i]
        BY <1>1, <1>3, <2>1, <2>2
      <3> QED BY <1>1, <2>2, <3>1, <3>2 DEF Exact
    <2>3. CASE i > Len(want) - n
      <3>1. want'[i] = cells[i - (Len(want) - n)]
        BY <1>1, <1>4, <1>5, <1>6, <2>3
      <3>2. words'[i] = out[i - (Len(want) - n)]
        BY <1>1, <1>3, <1>6, <2>1, <2>3
      <3>3. i - (Len(want) - n) \in 1 .. Len(cells)
        BY <1>1, <1>6, <2>3
      <3> QED BY <3>1, <3>2, <3>3
    <2> QED BY <1>1, <1>6, <2>2, <2>3
  <1> QED BY <1>2, <1>3, <1>6, <1>7 DEF Exact

LEMMA ExactWhileClean ==
  ASSUME Inv, Clean
  PROVE  Exact /\ LocalsExact
  BY DEF Inv, StackIsExact, Clean, Exact, LocalsExact

\* An instruction that only works on the stack keeps the invariant if, while
\* nothing has gone wrong and nothing goes wrong now, it leaves what it means.
LEMMA StackOnly ==
  ASSUME Inv, NEW n \in Nat, NEW out, NEW cells \in Seq(Cells),
         Executes(n, out, cells),
         Len(out) = Len(cells),
         Inside(n, out) => \A i \in 1 .. Len(out) : out[i] \in Word,
         UNCHANGED << locals, wantLoc, sums, dcmps >>,
         skewed' \in BOOLEAN,
         skewed => skewed',
         Exact /\ LocalsExact /\ ~ skewed' => \A i \in 1 .. Len(cells) : out[i] = cells[i].val
  PROVE  Inv'
  <1>1. TypeOK'
    <2>1. TypeOK /\ Len(out) \in Nat
      BY DEF Inv
    <2>2. /\ words' \in [Index -> Word] /\ top' \in Int /\ top' < OpStackSize
          /\ want' \in Seq(Cells) /\ Len(want') <= MaxStack
          /\ length' \in Nat /\ wild' \in BOOLEAN
      BY <2>1, ExecutesTypes
    <2> QED BY <2>1, <2>2 DEF TypeOK, Cells
  <1>2. TopDrifts'
    BY ExecutesDrift DEF Inv
  <1>3. ASSUME Clean'
        PROVE  Exact' /\ LocalsExact'
    <2>1. Clean /\ ~ skewed'
      BY <1>3 DEF Clean
    <2>2. Exact /\ LocalsExact
      BY <2>1, ExactWhileClean
    <2>3. Exact'
      BY <2>1, <2>2, ExecutesExact DEF Inv
    <2> QED BY <2>2, <2>3 DEF LocalsExact
  <1>4. StackIsExact'
    BY <1>1, <1>3 DEF StackIsExact, Clean, Exact, LocalsExact
  <1> QED BY <1>1, <1>2, <1>4 DEF Inv

\* The n topmost words are words if they are inside the stack.
LEMMA OperandsAreWords ==
  ASSUME TypeOK, NEW n \in Nat, top - n >= -1, NEW i \in 1 .. n
  PROVE  Operands(n)[i] \in Word
  <1>1. top - n + i \in Index
    BY ByteCodeAssumption DEF TypeOK, Index
  <1> QED BY <1>1 DEF TypeOK, Operands

LEMMA WantIsCells ==
  ASSUME TypeOK
  PROVE  /\ want \in Seq(Cells) /\ Len(want) \in Nat
         /\ \A i \in 0 .. Len(want) - 1 : Below(i) \in Cells /\ Below(i).val \in Word
         /\ \A k \in 0 .. Len(want) : SubSeq(want, k + 1, Len(want)) \in Seq(Cells)
  <1>1. want \in Seq(Cells) /\ Len(want) \in Nat
    BY DEF TypeOK, Cells
  <1>2. \A i \in 0 .. Len(want) - 1 : Below(i) \in Cells /\ Below(i).val \in Word
    <2>1. \A i \in 0 .. Len(want) - 1 : Len(want) - i \in 1 .. Len(want)
      BY <1>1
    <2>2. \A k \in 1 .. Len(want) : want[k] \in Cells
      BY <1>1
    <2>3. \A c \in Cells : c.val \in Word
      BY DEF Cells
    <2> QED BY <2>1, <2>2, <2>3 DEF Below
  <1>3. \A k \in 0 .. Len(want) : SubSeq(want, k + 1, Len(want)) \in Seq(Cells)
    BY <1>1
  <1> QED BY <1>1, <1>2, <1>3

LEMMA CellsAreCells ==
  ASSUME NEW hi \in Word, NEW lo \in Word
  PROVE  /\ << AnInt(lo) >> \in Seq(Cells) /\ Len(<< AnInt(lo) >>) = 1
         /\ Long(hi, lo) \in Seq(Cells) /\ Len(Long(hi, lo)) = 2
         /\ Double(hi, lo) \in Seq(Cells) /\ Len(Double(hi, lo)) = 2
         /\ AnInt(lo).val = lo
         /\ Long(hi, lo)[1].val = hi /\ Long(hi, lo)[2].val = lo
         /\ Double(hi, lo)[1].val = hi /\ Double(hi, lo)[2].val = lo
  BY DEF AnInt, Long, Double, Cell, Cells, Half

-----------------------------------------------------------------------------
(* One lemma for each handler, or two that are alike.                      *)

LEMMA PushIntKeeps ==
  ASSUME Inv, NEW v \in Values, PushInt(v)
  PROVE  Inv'
  <1> DEFINE out == << v >>
             cells == << AnInt(v) >>
  <1>1. v \in Word
    BY ByteCodeAssumption DEF Word
  <1>2. cells \in Seq(Cells) /\ Len(out) = 1 /\ Len(cells) = 1 /\ out[1] = v /\ cells[1].val = v
    BY <1>1, CellsAreCells
  <1>3. Executes(0, out, cells) /\ UNCHANGED << locals, wantLoc, sums, dcmps >>
    BY DEF PushInt
  <1>4. skewed' = skewed /\ skewed' \in BOOLEAN
    BY DEF PushInt, Inv, TypeOK
  <1>5. /\ Inside(0, out) => \A i \in 1 .. Len(out) : out[i] \in Word
        /\ \A i \in 1 .. Len(cells) : out[i] = cells[i].val
    BY <1>1, <1>2
  <1> HIDE DEF out, cells
  <1> QED BY <1>2, <1>3, <1>4, <1>5, StackOnly

LEMMA PushLongKeeps ==
  ASSUME Inv, NEW hi \in Values, NEW lo \in Values, PushLong(hi, lo)
  PROVE  Inv'
  <1> DEFINE out == << hi, lo >>
             cells == Long(hi, lo)
  <1>1. hi \in Word /\ lo \in Word
    BY ByteCodeAssumption DEF Word
  <1>2. cells \in Seq(Cells) /\ Len(out) = 2 /\ Len(cells) = 2
        /\ cells[1].val = hi /\ cells[2].val = lo
    BY <1>1, CellsAreCells
  <1>3. Executes(0, out, cells) /\ UNCHANGED << locals, wantLoc, sums, dcmps >>
        /\ skewed' = skewed /\ skewed' \in BOOLEAN
    BY DEF PushLong, Inv, TypeOK
  <1>4. \A i \in 1 .. Len(cells) : out[i] = cells[i].val
    BY <1>2
  <1>5. Inside(0, out) => \A i \in 1 .. Len(out) : out[i] \in Word
    BY <1>1
  <1> HIDE DEF out, cells
  <1> QED BY <1>2, <1>3, <1>4, <1>5, StackOnly

LEMMA PushDoubleKeeps ==
  ASSUME Inv, NEW d \in Doubles, PushDouble(d)
  PROVE  Inv'
  <1> DEFINE whole == d.whole
             cells == Double(d.bits[1], d.bits[2])
  <1>1. d.bits \in Word \X Word /\ whole \in Word \X Word
    BY ByteCodeAssumption DEF Word
  <1>2. cells \in Seq(Cells) /\ Len(whole) = 2 /\ Len(cells) = 2
        /\ cells[1].val = d.bits[1] /\ cells[2].val = d.bits[2]
    BY <1>1, CellsAreCells
  <1>3. Executes(0, whole, cells) /\ UNCHANGED << locals, wantLoc, sums, dcmps >>
    BY DEF PushDouble
  <1>4. skewed' = (skewed \/ whole # d.bits) /\ skewed \in BOOLEAN
    BY DEF PushDouble, Inv, TypeOK
  <1>5. skewed' \in BOOLEAN /\ (skewed => skewed')
    BY <1>4
  <1>6. ~ skewed' => whole = d.bits
    BY <1>4
  <1>7. ~ skewed' => \A i \in 1 .. Len(cells) : whole[i] = cells[i].val
    BY <1>2, <1>6
  <1>8. \A i \in 1 .. Len(whole) : whole[i] \in Word
    BY <1>1, <1>2
  <1> HIDE DEF whole, cells
  <1> QED BY <1>2, <1>3, <1>5, <1>7, <1>8, StackOnly

LEMMA PushByteKeeps ==
  ASSUME Inv, NEW b \in Byte, PushByte(b)
  PROVE  Inv'
  <1> DEFINE out == << b >>
             cells == << AnInt(SignExtended(b)) >>
  <1>1. b \in Word /\ SignExtended(b) \in Word
    BY WordsAreThere, SignExtendedIsWord DEF Byte, Word
  <1>2. cells \in Seq(Cells) /\ Len(out) = 1 /\ Len(cells) = 1 /\ cells[1].val = SignExtended(b)
    BY <1>1, CellsAreCells
  <1>3. Executes(0, out, cells) /\ UNCHANGED << locals, wantLoc, sums, dcmps >>
    BY DEF PushByte
  <1>4. skewed' = (skewed \/ b # SignExtended(b)) /\ skewed \in BOOLEAN
    BY DEF PushByte, Inv, TypeOK
  <1>5. skewed' \in BOOLEAN /\ (skewed => skewed')
    BY <1>4
  <1>6. ~ skewed' => b = SignExtended(b)
    BY <1>4
  <1>7. Exact /\ ~ skewed' => \A i \in 1 .. Len(cells) : out[i] = cells[i].val
    BY <1>2, <1>6
  <1>8. Inside(0, out) => \A i \in 1 .. Len(out) : out[i] \in Word
    BY <1>1
  <1> HIDE DEF out, cells
  <1> QED BY <1>2, <1>3, <1>5, <1>7, <1>8, StackOnly

LEMMA SwapKeeps ==
  ASSUME Inv, Swap
  PROVE  Inv'
  <1> DEFINE r == Operands(2)
             out == << r[2], r[1] >>
             cells == << Below(0), Below(1) >>
  <1>1. Executes(2, out, cells) /\ UNCHANGED << locals, wantLoc, sums, dcmps, skewed >> /\ Len(want) >= 2
    BY DEF Swap, Executes, Depth, Inv, TypeOK
  <1>2. cells \in Seq(Cells) /\ Len(cells) = 2 /\ Len(out) = 2
    BY <1>1, WantIsCells DEF Inv
  <1>3. Inside(2, out) => \A i \in 1 .. 2 : out[i] \in Word
    BY OperandsAreWords DEF Inv, Inside
  <1>4. Exact => r[1] = Below(1).val /\ r[2] = Below(0).val
    BY <1>1, OperandsExact, WantIsCells DEF Inv
  <1>5. Exact => \A i \in 1 .. 2 : out[i] = cells[i].val
    BY <1>4
  <1> HIDE DEF r, out, cells
  <1> QED BY <1>1, <1>2, <1>3, <1>5, StackOnly DEF Inv, TypeOK

LEMMA SumIntsKeeps ==
  ASSUME Inv, NEW sign \in {1, -1}, SumInts(sign)
  PROVE  Inv'
  <1> DEFINE r == Operands(2)
             out == << (r[1] + sign * r[2]) % W >>
             cells == << AnInt((Below(1).val + sign * Below(0).val) % W) >>
  <1>1. Executes(2, out, cells) /\ UNCHANGED << locals, wantLoc, sums, dcmps, skewed >> /\ Len(want) >= 2
    BY DEF SumInts, Executes, Depth, Inv, TypeOK
  <1>2. Below(0).val \in Word /\ Below(1).val \in Word
    BY <1>1, WantIsCells DEF Inv
  <1>3. (Below(1).val + sign * Below(0).val) % W \in Word
    BY <1>2, ModIsWord DEF Word
  <1>4. cells \in Seq(Cells) /\ Len(cells) = 1 /\ Len(out) = 1
        /\ cells[1].val = (Below(1).val + sign * Below(0).val) % W
    BY <1>3, CellsAreCells
  <1>5. Inside(2, out) => \A i \in 1 .. 1 : out[i] \in Word
    <2>1. Inside(2, out) => r[1] \in Word /\ r[2] \in Word
      BY OperandsAreWords DEF Inv, Inside
    <2>2. Inside(2, out) => (r[1] + sign * r[2]) % W \in Word
      BY <2>1, ModIsWord DEF Word
    <2> QED BY <2>2
  <1>6. Exact => r[1] = Below(1).val /\ r[2] = Below(0).val
    BY <1>1, OperandsExact, WantIsCells DEF Inv
  <1>7. Exact => \A i \in 1 .. 1 : out[i] = cells[i].val
    BY <1>4, <1>6
  <1> HIDE DEF r, out, cells
  <1> QED BY <1>1, <1>4, <1>5, <1>7, StackOnly DEF Inv, TypeOK

LEMMA CompareIsInt ==
  ASSUME NEW x, NEW y
  PROVE  Compare(x, y) \in Int
  BY DEF Compare

LEMMA CompareLongsKeeps ==
  ASSUME Inv, CompareLongs
  PROVE  Inv'
  <1> DEFINE r == Operands(4)
             cmp(a, b, c, d) == Compare(LongOf(Signed(a, W), b), LongOf(Signed(c, W), d)) % W
             out == << cmp(r[1], r[2], r[3], r[4]) >>
             v == cmp(Below(3).val, Below(2).val, Below(1).val, Below(0).val)
             cells == << AnInt(v) >>
  <1>1. Executes(4, out, cells) /\ UNCHANGED << locals, wantLoc, sums, dcmps, skewed >> /\ Len(want) >= 4
    BY DEF CompareLongs, Executes, Depth, Inv, TypeOK
  <1>2. \A a, b, c, d : cmp(a, b, c, d) \in Word
    BY CompareIsInt, ModIsWord
  <1>3. v \in Word /\ Len(out) = 1 /\ out[1] \in Word
    BY <1>2
  <1>4. cells \in Seq(Cells) /\ Len(cells) = 1 /\ cells[1].val = v
    <2> HIDE DEF v
    <2> QED BY <1>3, CellsAreCells
  <1>5. Exact => r[1] = Below(3).val /\ r[2] = Below(2).val /\ r[3] = Below(1).val /\ r[4] = Below(0).val
    <2>1. TypeOK /\ 4 <= Len(want)
      BY <1>1 DEF Inv
    <2>2. Exact => \A i \in 1 .. 4 : r[i] = Below(4 - i).val
      BY <2>1, OperandsExact
    <2> HIDE DEF r
    <2> QED BY <2>2
  <1>6. Exact => out[1] = v
    BY <1>5
  <1>7. skewed' = skewed /\ skewed' \in BOOLEAN
    BY <1>1 DEF Inv, TypeOK
  <1> HIDE DEF r, cmp, out, cells, v
  <1> QED BY <1>1, <1>3, <1>4, <1>6, <1>7, StackOnly

LEMMA ExtendIntKeeps ==
  ASSUME Inv, ExtendInt
  PROVE  Inv'
  <1> DEFINE v == Below(0).val
             hi == IF Signed(v, W) < 0 THEN W - 1 ELSE 0
             out == << 0, Operands(1)[1] >>
             cells == Long(hi, v)
  <1>1. Executes(1, out, cells) /\ UNCHANGED << locals, wantLoc, sums, dcmps >> /\ Len(want) >= 1
    BY DEF ExtendInt, Executes, Depth, Inv, TypeOK
  <1>2. skewed' = (skewed \/ hi # 0) /\ skewed \in BOOLEAN
    BY DEF ExtendInt, Inv, TypeOK
  <1>3. skewed' \in BOOLEAN /\ (skewed => skewed') /\ (~ skewed' => hi = 0)
    BY <1>2
  <1>4. v \in Word /\ hi \in Word
    <2>1. v \in Word
      BY <1>1, WantIsCells DEF Inv
    <2>2. W - 1 \in Word /\ 0 \in Word
      BY WordsAreThere DEF Word
    <2> QED BY <2>1, <2>2
  <1>5. cells \in Seq(Cells) /\ Len(cells) = 2 /\ cells[1].val = hi /\ cells[2].val = v /\ Len(out) = 2
    <2> HIDE DEF v, hi
    <2> QED BY <1>4, CellsAreCells
  <1>6. Inside(1, out) => \A i \in 1 .. Len(out) : out[i] \in Word
    <2>1. Inside(1, out) => Operands(1)[1] \in Word
      BY OperandsAreWords DEF Inv, Inside
    <2> QED BY <2>1, <1>5, WordsAreThere
  <1>7. Exact => Operands(1)[1] = v
    BY <1>1, OperandsExact, WantIsCells DEF Inv
  <1>8. Exact /\ ~ skewed' => \A i \in 1 .. Len(cells) : out[i] = cells[i].val
    <2> HIDE DEF v, hi, cells
    <2> QED BY <1>3, <1>5, <1>7
  <1> HIDE DEF out, cells, v, hi
  <1> QED BY <1>1, <1>3, <1>5, <1>6, <1>8, StackOnly

LEMMA NarrowIntKeeps ==
  ASSUME Inv, NarrowInt
  PROVE  Inv'
  <1> DEFINE x == Operands(1)[1]
             v == Below(0).val
             out == << SignExtended(x % B) >>
             cells == << AnInt(SignExtended(v % B)) >>
  <1>1. Executes(1, out, cells) /\ UNCHANGED << locals, wantLoc, sums, dcmps, skewed >> /\ Len(want) >= 1
    BY DEF NarrowInt, Executes, Depth, Inv, TypeOK
  <1>2. \A y \in Word : SignExtended(y % B) \in Word
    <2>1. \A y \in Word : y % B \in Int
      BY WordsAreThere DEF Word
    <2> QED BY <2>1, SignExtendedIsWord
  <1>3. v \in Word
    BY <1>1, WantIsCells DEF Inv
  <1>4. cells \in Seq(Cells) /\ Len(cells) = 1 /\ cells[1].val = SignExtended(v % B) /\ Len(out) = 1
    <2> HIDE DEF v
    <2> QED BY <1>2, <1>3, CellsAreCells
  <1>5. Inside(1, out) => \A i \in 1 .. Len(out) : out[i] \in Word
    <2>1. Inside(1, out) => x \in Word
      BY OperandsAreWords DEF Inv, Inside
    <2> QED BY <2>1, <1>2, <1>4
  <1>6. Exact => x = v
    <2>1. TypeOK /\ 1 <= Len(want)
      BY <1>1 DEF Inv
    <2>2. Exact => \A i \in 1 .. 1 : Operands(1)[i] = Below(1 - i).val
      BY <2>1, OperandsExact
    <2> QED BY <2>2
  <1>7. Exact => \A i \in 1 .. Len(cells) : out[i] = cells[i].val
    BY <1>4, <1>6
  <1>8. skewed' = skewed /\ skewed' \in BOOLEAN
    BY <1>1 DEF Inv, TypeOK
  <1> HIDE DEF x, v, out, cells
  <1> QED BY <1>1, <1>4, <1>5, <1>7, <1>8, StackOnly

\* Two words of a local variable are there once the first is.
LEMMA LocalsAreThere ==
  ASSUME NEW i \in Local, NEW n \in 1 .. 2, Whole(i, n), NEW k \in 1 .. n
  PROVE  i + k - 1 \in Local
  BY ByteCodeAssumption DEF Local, Whole

LEMMA LoadLocalKeeps ==
  ASSUME Inv, NEW i \in Local, NEW n \in 1 .. 2, LoadLocal(i, n)
  PROVE  Inv'
  <1> DEFINE out == [k \in 1 .. n |-> locals[i + k - 1]]
             cells == [k \in 1 .. n |-> wantLoc[i + k - 1]]
  <1>1. Executes(0, out, cells) /\ UNCHANGED << locals, wantLoc, sums, dcmps, skewed >> /\ Whole(i, n)
    BY DEF LoadLocal, Holds
  <1>2. \A k \in 1 .. n : i + k - 1 \in Local
    BY <1>1, LocalsAreThere
  <1>3. \A k \in 1 .. n : locals[i + k - 1] \in Word /\ wantLoc[i + k - 1] \in Cells
    BY <1>2 DEF Inv, TypeOK, Cells
  <1>4. cells \in Seq(Cells) /\ Len(cells) = n
    BY <1>3
  <1>5. Len(out) = n /\ \A k \in 1 .. Len(out) : out[k] \in Word
    BY <1>3
  <1>6. LocalsExact => \A k \in 1 .. Len(cells) : out[k] = cells[k].val
    BY <1>2, <1>4 DEF LocalsExact
  <1>7. skewed' = skewed /\ skewed' \in BOOLEAN
    BY <1>1 DEF Inv, TypeOK
  <1> HIDE DEF out, cells
  <1> QED BY <1>1, <1>4, <1>5, <1>6, <1>7, StackOnly

-----------------------------------------------------------------------------
(* Stores.                                                                 *)

\* A value goes from the top of the stack to the locals from at on.
LEMMA StoreKeeps ==
  ASSUME Inv, NEW i \in Local, NEW at \in Local, NEW n \in 1 .. 2, Whole(at, n),
         Store(i, at, n), skewed' \in BOOLEAN, skewed => skewed', ~ skewed' => at = i
  PROVE  Inv'
  <1> USE ByteCodeAssumption
  <1> DEFINE vs == SubSeq(want, Len(want) - n + 1, Len(want))
             ws == Operands(n)
             none == << >>
  <1>1. /\ Executes(n, none, none) /\ Whole(i, n)
        /\ wantLoc' = StoredCells(i, vs)
        /\ locals' = IF Inside(n, none) THEN Stored(locals, at, ws) ELSE locals
        /\ sums' = sums /\ dcmps' = dcmps
    BY DEF Store
  <1>2. /\ TypeOK /\ none \in Seq(Cells) /\ Len(none) = 0 /\ n \in Nat
        /\ \A k \in 1 .. Len(none) : none[k] \in Word /\ none[k] = none[k].val
    BY DEF Inv
  <1> HIDE DEF none
  <1>3. n <= Len(want) /\ want \in Seq(Cells) /\ Len(want) \in Nat
    BY <1>1, <1>2 DEF Executes, Depth, TypeOK, Cells
  <1>4. Len(vs) = n /\ Len(ws) = n
    BY <1>3 DEF Operands
  <1>5. \A k \in 1 .. n : vs[k] = want[Len(want) - n + k] /\ vs[k] \in Cells
    BY <1>3
  <1> HIDE DEF vs, ws
  <1>a. \A k \in at .. at + n - 1 : k - at + 1 \in 1 .. n
    BY DEF Local
  <1>b. \A k \in i .. i + n - 1 : k - i + 1 \in 1 .. n
    BY DEF Local
  <1>6. TypeOK'
    <2>1. /\ words' \in [Index -> Word] /\ top' \in Int /\ top' < OpStackSize
          /\ want' \in Seq(Cells) /\ Len(want') <= MaxStack
          /\ length' \in Nat /\ wild' \in BOOLEAN
      <3>1. Executes(n, none, none) /\ Len(none) \in Nat
        BY <1>1, <1>2
      <3>2. Inside(n, none) => \A k \in 1 .. Len(none) : none[k] \in Word
        BY <1>2
      <3> QED BY <1>2, <3>1, <3>2, ExecutesTypes
    <2>2. locals' \in [Local -> Word]
      <3>1. CASE Inside(n, none)
        <4>1. \A k \in 1 .. n : ws[k] \in Word
          BY <1>2, <3>1, OperandsAreWords DEF Inside, ws
        <4>2. locals' = [k \in Local |-> IF k \in at .. at + n - 1 THEN ws[k - at + 1] ELSE locals[k]]
          BY <1>1, <1>4, <3>1 DEF Stored
        <4> QED BY <1>2, <1>a, <4>1, <4>2 DEF TypeOK
      <3>2. CASE ~ Inside(n, none)
        BY <1>1, <1>2, <3>2 DEF TypeOK
      <3> QED BY <3>1, <3>2
    <2>3. wantLoc' \in [Local -> Cells]
      <3>1. \A k \in Local : k \in i .. i + Len(vs) - 1 => vs[k - i + 1] \in Cells
        BY <1>4, <1>5, <1>b
      <3>2. wantLoc \in [Local -> Cells]
        BY <1>2 DEF TypeOK, Cells
      <3>3. \A k \in Local : AnInt(wantLoc[k].val) \in Cells
        BY <3>2 DEF AnInt, Cell, Cells, Half
      <3> QED BY <1>1, <3>1, <3>2, <3>3 DEF StoredCells
    <2> QED BY <1>1, <1>2, <2>1, <2>2, <2>3 DEF TypeOK, Cells
  <1>7. TopDrifts'
    BY <1>1, <1>2, ExecutesDrift DEF Inv
  <1>8. ASSUME Clean'
        PROVE  Exact' /\ LocalsExact'
    <2>1. Exact /\ LocalsExact /\ at = i
      BY <1>1, <1>8, ExactWhileClean DEF Clean
    <2>2. Exact' /\ Inside(n, none)
      BY <1>1, <1>2, <2>1, ExecutesExact
    <2>3. locals' = [k \in Local |-> IF k \in i .. i + n - 1 THEN ws[k - i + 1] ELSE locals[k]]
      BY <1>1, <1>4, <2>1, <2>2 DEF Stored
    <2>4. \A k \in 1 .. n : ws[k] = vs[k].val
      <3>1. \A k \in 1 .. n : ws[k] = want[Len(want) - n + k].val
        BY <1>2, <1>3, <2>1, OperandsExact DEF ws
      <3> QED BY <1>5, <3>1
    <2>5. \A k \in Local : k \in i .. i + n - 1 => k - i + 1 \in 1 .. n /\ wantLoc'[k] = vs[k - i + 1]
      BY <1>1, <1>4, <1>b DEF StoredCells
    <2>6. \A k \in Local : k \notin i .. i + n - 1 => wantLoc'[k].val = wantLoc[k].val
      BY <1>1, <1>4 DEF StoredCells, AnInt, Cell
    <2>7. \A k \in Local : locals'[k] = wantLoc'[k].val
      BY <1>b, <2>1, <2>3, <2>4, <2>5, <2>6 DEF LocalsExact
    <2> QED BY <2>2, <2>7 DEF LocalsExact
  <1>9. StackIsExact'
    BY <1>6, <1>8 DEF StackIsExact, Clean, Exact, LocalsExact
  <1> QED BY <1>6, <1>7, <1>9 DEF Inv

LEMMA StoreLocalKeeps ==
  ASSUME Inv, NEW i \in Local, NEW n \in 1 .. 2, StoreLocal(i, n)
  PROVE  Inv'
  <1>1. skewed' = skewed /\ skewed' \in BOOLEAN /\ Store(i, i, n) /\ Whole(i, n)
    BY DEF StoreLocal, Store, Inv, TypeOK
  <1> QED BY <1>1, StoreKeeps

LEMMA StoreShortKeeps ==
  ASSUME Inv, NEW i \in Local, NEW at \in Local, NEW n \in 1 .. 2, StoreShort(i, n, at)
  PROVE  Inv'
  <1>1. skewed' = (skewed \/ at # i) /\ skewed \in BOOLEAN /\ Store(i, at, n) /\ Whole(at, n)
    BY DEF StoreShort, Inv, TypeOK
  <1>2. skewed' \in BOOLEAN /\ (skewed => skewed') /\ (~ skewed' => at = i)
    BY <1>1
  <1> QED BY <1>1, <1>2, StoreKeeps

LEMMA StoreOutsideKeeps ==
  ASSUME Inv, NEW i \in Local, NEW n \in 1 .. 2, StoreOutside(i, n)
  PROVE  Inv'
  BY DEF StoreOutside, OneMore, Inv, TypeOK, StackIsExact, TopDrifts

LEMMA IincKeeps ==
  ASSUME Inv, NEW i \in Local, NEW b \in Byte, Iinc(i, b)
  PROVE  Inv'
  <1> DEFINE x == (locals[i] + b) % W
             y == (wantLoc[i].val + SignExtended(b)) % W
  <1>1. /\ locals' = [locals EXCEPT ![i] = x]
        /\ wantLoc' = [wantLoc EXCEPT ![i] = AnInt(y)]
        /\ skewed' = (skewed \/ b # SignExtended(b))
        /\ length' = length + 1
        /\ UNCHANGED << words, top, want, sums, dcmps, wild >>
    BY DEF Iinc, OneMore, Inv, TypeOK
  <1>2. TypeOK /\ wantLoc[i] \in Cells /\ locals[i] \in Word
    BY DEF Inv, TypeOK, Cells
  <1>3. x \in Word
    BY <1>2, WordsAreThere, ModIsWord DEF Word, Byte
  <1>4. y \in Word
    <2>1. wantLoc[i].val \in Word /\ SignExtended(b) \in Word
      BY <1>2, WordsAreThere, SignExtendedIsWord DEF Byte, Cells
    <2> QED BY <2>1, ModIsWord DEF Word
  <1>5. AnInt(y) \in Cells /\ AnInt(y).val = y
    <2> HIDE DEF y
    <2> QED BY <1>4 DEF AnInt, Cell, Cells, Half
  <1>6. skewed' \in BOOLEAN /\ (skewed => skewed') /\ (~ skewed' => b = SignExtended(b))
    BY <1>1, <1>2 DEF TypeOK
  <1>7. TypeOK'
    <2> HIDE DEF x, y
    <2> QED BY <1>1, <1>2, <1>3, <1>5, <1>6 DEF TypeOK, Cells
  <1>8. ASSUME Clean'
        PROVE  Exact' /\ LocalsExact'
    <2>1. Exact /\ LocalsExact /\ b = SignExtended(b)
      BY <1>1, <1>6, <1>8, ExactWhileClean DEF Clean
    <2>2. x = y
      BY <2>1 DEF LocalsExact
    <2>3. Exact'
      BY <1>1, <2>1 DEF Exact
    <2>4. LocalsExact'
      <3> HIDE DEF x, y
      <3> QED BY <1>1, <1>2, <1>5, <2>1, <2>2 DEF LocalsExact, TypeOK
    <2> QED BY <2>3, <2>4
  <1>9. TopDrifts'
    BY <1>1 DEF Inv, TopDrifts
  <1> QED BY <1>7, <1>8, <1>9 DEF Inv, StackIsExact, Clean, Exact, LocalsExact

-----------------------------------------------------------------------------
(* The stack instructions.                                                 *)

LEMMA PopKeeps ==
  ASSUME Inv, NEW n \in 1 .. 2, Pop(n)
  PROVE  Inv'
  <1>1. /\ n <= Len(want) /\ want' = SubSeq(want, 1, Len(want) - n) \o << >>
        /\ top' = top - n /\ length' = length + 1 /\ ~ wild
        /\ UNCHANGED << words, locals, wantLoc, sums, dcmps, skewed, wild >>
    BY DEF Pop, Depth, Means, OneMore
  <1>2. TypeOK /\ want \in Seq(Cells) /\ Len(want) \in Nat
    BY DEF Inv, TypeOK, Cells
  <1>3. /\ want' \in Seq(Cells) /\ Len(want') = Len(want) - n
        /\ \A i \in 1 .. Len(want) - n : want'[i] = want[i]
    <2>1. << >> \in Seq(Cells) /\ Len(<< >>) = 0 /\ n \in Nat
      OBVIOUS
    <2> QED BY <1>1, <1>2, <2>1, Meant
  <1>4. TypeOK'
    BY <1>1, <1>2, <1>3, ByteCodeAssumption DEF TypeOK, Cells
  <1>5. TopDrifts'
    <2>1. top = Len(want) - sums + 2 * dcmps
      BY <1>1 DEF Inv, TopDrifts
    <2>2. top \in Int /\ sums \in Nat /\ dcmps \in Nat
      BY <1>2 DEF TypeOK
    <2>3. top' = top - n /\ sums' = sums /\ dcmps' = dcmps /\ Len(want') = Len(want) - n /\ Len(want) \in Nat
      BY <1>1, <1>2, <1>3
    <2>4. top' = Len(want') - sums' + 2 * dcmps'
      BY <2>1, <2>2, <2>3
    <2> QED BY <2>4 DEF TopDrifts
  <1>6. ASSUME Clean'
        PROVE  Exact' /\ LocalsExact'
    <2>1. Exact /\ LocalsExact
      BY <1>1, <1>6, ExactWhileClean DEF Clean
    <2> QED BY <1>1, <1>2, <1>3, <2>1 DEF Exact, LocalsExact
  <1> QED BY <1>4, <1>5, <1>6 DEF Inv, StackIsExact, Clean, Exact, LocalsExact

\* Each of these leaves the words it repeats below all those it takes.
LEMMA ShuffledRepeats ==
  ASSUME NEW ins \in Shuffles, NEW r
  PROVE  /\ Taken[ins] \in 1 .. 4 /\ Repeated[ins] \in 1 .. Taken[ins]
         /\ Len(Shuffled(ins, r)) = Taken[ins] + Repeated[ins]
         /\ \A i \in 1 .. Repeated[ins] : Shuffled(ins, r)[i] = r[Taken[ins] - Repeated[ins] + i]
         /\ \A i \in 1 .. Taken[ins] : Shuffled(ins, r)[Repeated[ins] + i] = r[i]
  <1>1. CASE ins = "dup"
    BY <1>1 DEF Shuffled, Taken, Repeated
  <1>2. CASE ins = "dup_x1"
    BY <1>2 DEF Shuffled, Taken, Repeated
  <1>3. CASE ins = "dup_x2"
    BY <1>3 DEF Shuffled, Taken, Repeated
  <1>4. CASE ins = "dup2"
    BY <1>4 DEF Shuffled, Taken, Repeated
  <1>5. CASE ins = "dup2_x1"
    BY <1>5 DEF Shuffled, Taken, Repeated
  <1>6. CASE ins = "dup2_x2"
    BY <1>6 DEF Shuffled, Taken, Repeated
  <1> QED BY <1>1, <1>2, <1>3, <1>4, <1>5, <1>6 DEF Shuffles

LEMMA ShuffleKeeps ==
  ASSUME Inv, NEW ins \in Shuffles, Shuffle(ins)
  PROVE  Inv'
  <1> DEFINE n == Taken[ins]
             k == Repeated[ins]
             r == Operands(n)
             out == Shuffled(ins, r)
             taken == SubSeq(want, Len(want) - n + 1, Len(want))
             again == SubSeq(taken, n - k + 1, n)
             cells == again \o taken
  <1>1. /\ Executes(n, out, cells) /\ n <= Len(want)
        /\ UNCHANGED << locals, wantLoc, sums, dcmps, skewed >>
    BY DEF Shuffle
  <1>2. /\ n \in 1 .. 4 /\ k \in 1 .. n /\ Len(out) = n + k
        /\ \A i \in 1 .. k : out[i] = r[n - k + i]
        /\ \A i \in 1 .. n : out[k + i] = r[i]
    BY ShuffledRepeats
  <1>3. TypeOK /\ want \in Seq(Cells) /\ Len(want) \in Nat
    BY DEF Inv, TypeOK, Cells
  <1> HIDE DEF n, k
  <1>a. n \in Nat /\ k \in Nat /\ n - k \in Nat /\ Len(want) - n \in Nat
    BY <1>1, <1>2, <1>3
  <1>4. taken \in Seq(Cells) /\ Len(taken) = n /\ \A i \in 1 .. n : taken[i] = want[Len(want) - n + i]
    <2>1. Len(want) - n <= Len(want) /\ Len(want) - (Len(want) - n) = n
      BY <1>3, <1>a
    <2> QED BY <1>3, <1>a, <2>1, Slice
  <1> HIDE DEF taken
  <1>5. again \in Seq(Cells) /\ Len(again) = k /\ \A i \in 1 .. k : again[i] = taken[n - k + i]
    <2>1. n - k <= n /\ n <= Len(taken) /\ n - (n - k) = k
      BY <1>a, <1>4
    <2> QED BY <1>4, <1>a, <2>1, Slice
  <1> HIDE DEF again
  <1>6. /\ cells \in Seq(Cells) /\ Len(cells) = n + k
        /\ \A i \in 1 .. k : cells[i] = taken[n - k + i]
        /\ \A i \in 1 .. n : cells[k + i] = taken[i]
    <2>1. /\ cells \in Seq(Cells) /\ Len(cells) = Len(again) + Len(taken)
          /\ \A i \in 1 .. Len(again) : cells[i] = again[i]
          /\ \A i \in 1 .. Len(taken) : cells[Len(again) + i] = taken[i]
      <3>1. again \in Seq(Cells) /\ taken \in Seq(Cells)
        BY <1>4, <1>5
      <3>2. \A p, q \in Seq(Cells) :
              /\ p \o q \in Seq(Cells) /\ Len(p \o q) = Len(p) + Len(q)
              /\ \A i \in 1 .. Len(p) : (p \o q)[i] = p[i]
              /\ \A i \in 1 .. Len(q) : (p \o q)[Len(p) + i] = q[i]
        BY Joined
      <3> QED BY <3>1, <3>2, Zenon
    <2> QED BY <1>4, <1>5, <1>a, <2>1
  <1> HIDE DEF cells, out, r
  \* Every place of what is left is one of the words taken.
  <1>7. ASSUME NEW i \in 1 .. n + k
        PROVE  \E j \in 1 .. n : out[i] = r[j] /\ cells[i] = taken[j]
    <2>1. CASE i <= k
      <3>1. n - k + i \in 1 .. n
        BY <1>2, <2>1
      <3> QED BY <1>2, <1>6, <2>1, <3>1
    <2>2. CASE i > k
      <3>1. i - k \in 1 .. n /\ k + (i - k) = i
        BY <1>2, <2>2
      <3> QED BY <1>2, <1>6, <3>1
    <2> QED BY <1>2, <2>1, <2>2
  <1>8. Inside(n, out) => \A i \in 1 .. Len(out) : out[i] \in Word
    <2>1. Inside(n, out) => \A j \in 1 .. n : r[j] \in Word
      BY <1>3, <1>a, OperandsAreWords DEF Inside, r
    <2> QED BY <1>2, <1>7, <2>1
  <1>9. Exact => \A i \in 1 .. Len(cells) : out[i] = cells[i].val
    <2>1. Exact => \A j \in 1 .. n : r[j] = taken[j].val
      <3>1. Exact => \A j \in 1 .. n : r[j] = want[Len(want) - n + j].val
        BY <1>1, <1>3, <1>a, OperandsExact DEF r
      <3> QED BY <1>4, <3>1
    <2> QED BY <1>6, <1>7, <2>1
  <1>10. n \in Nat /\ Len(out) = Len(cells)
    BY <1>a, <1>2, <1>6
  <1>11. skewed' = skewed /\ skewed' \in BOOLEAN
    BY <1>1, <1>3 DEF TypeOK
  <1>12. UNCHANGED << locals, wantLoc, sums, dcmps >> /\ Executes(n, out, cells) /\ cells \in Seq(Cells)
    BY <1>1, <1>6
  <1>13. Exact /\ LocalsExact /\ ~ skewed' => \A i \in 1 .. Len(cells) : out[i] = cells[i].val
    BY <1>9
  <1> QED BY <1>8, <1>10, <1>11, <1>12, <1>13, StackOnly

-----------------------------------------------------------------------------
(* The two handlers that leave the top in the wrong place.                 *)

LEMMA SumLongsKeeps ==
  ASSUME Inv, NEW sign \in {1, -1}, SumLongs(sign)
  PROVE  Inv'
  <1> DEFINE r == Operands(4)
             s == (LongOf(r[1], r[2]) + sign * LongOf(r[3], r[4])) % (W * W)
             m == (LongOf(Below(3).val, Below(2).val) + sign * LongOf(Below(1).val, Below(0).val)) % (W * W)
             cells == Long(m \div W, m % W)
  <1>1. /\ ~ wild /\ length' = length + 1 /\ Depth(4, 2)
        /\ want' = SubSeq(want, 1, Len(want) - 4) \o cells
        /\ \/ top - 4 >= -1 /\ top' = top - 3 /\ wild' = wild
              /\ words' = [words EXCEPT ![top - 3] = s \div W, ![top - 2] = s % W]
           \/ wild' = TRUE /\ words' = words /\ top' = top
        /\ sums' = sums + 1
        /\ UNCHANGED << locals, wantLoc, dcmps, skewed >>
    BY DEF SumLongs, OneMore, Means, TopAfterLongSum
  <1>2. TypeOK /\ want \in Seq(Cells) /\ Len(want) \in Nat /\ 4 <= Len(want) /\ Len(want) - 4 + 2 <= MaxStack
    <2>1. TypeOK
      BY DEF Inv
    <2>2. want \in Seq(Cells) /\ Len(want) \in Nat
      BY <2>1, WantIsCells
    <2>3. 4 <= Len(want) /\ Len(want) - 4 + 2 <= MaxStack
      BY <1>1 DEF Depth
    <2> QED BY <2>1, <2>2, <2>3
  <1>3. m \div W \in Word /\ m % W \in Word
    <2>1. \A i \in 0 .. 3 : Below(i).val \in Word
      <3> SUFFICES ASSUME NEW i \in 0 .. 3
                   PROVE  Below(i).val \in Word
        OBVIOUS
      <3>1. i \in Nat /\ i < Len(want)
        BY <1>2
      <3> QED BY <1>2, <3>1, WantIsCells
    <2>w. Below(0).val \in Word /\ Below(1).val \in Word /\ Below(2).val \in Word /\ Below(3).val \in Word
      BY <2>1
    <2>2. LongOf(Below(3).val, Below(2).val) \in Int /\ LongOf(Below(1).val, Below(0).val) \in Int
      BY <2>w, LongOfIsInt
    <2>3. LongOf(Below(3).val, Below(2).val) + sign * LongOf(Below(1).val, Below(0).val) \in Int
      BY <2>2
    <2> QED BY <2>3, LongSplits
  <1>4. top - 4 >= -1 => s \div W \in Word /\ s % W \in Word
    <2>1. top - 4 >= -1 => \A i \in 1 .. 4 : r[i] \in Word
      BY <1>2, OperandsAreWords
    <2>2. top - 4 >= -1 => LongOf(r[1], r[2]) \in Int /\ LongOf(r[3], r[4]) \in Int
      BY <2>1, LongOfIsInt
    <2>3. top - 4 >= -1 => LongOf(r[1], r[2]) + sign * LongOf(r[3], r[4]) \in Int
      BY <2>2
    <2> QED BY <2>3, LongSplits
  <1> HIDE DEF s
  <1>5. cells \in Seq(Cells) /\ Len(cells) = 2
    <2> HIDE DEF m
    <2> QED BY <1>3, CellsAreCells
  <1> HIDE DEF cells
  <1>6. want' \in Seq(Cells) /\ Len(want') = Len(want) - 2
    <2>1. want' = SubSeq(want, 1, Len(want) - 4) \o cells /\ 4 \in Nat
      BY <1>1
    <2>2. want' \in Seq(Cells) /\ Len(want') = Len(want) - 4 + Len(cells)
      BY <1>2, <1>5, <2>1, Meant
    <2> QED BY <1>2, <1>5, <2>2
  <1>7. words' \in [Index -> Word]
    BY <1>1, <1>2, <1>4 DEF TypeOK
  <1>8. top' \in Int /\ top' < OpStackSize
    BY <1>1, <1>2, ByteCodeAssumption DEF TypeOK
  <1>9. TypeOK'
    <2>0. sums \in Nat /\ length \in Nat /\ wild \in BOOLEAN /\ MaxStack \in Nat
      BY <1>2, ByteCodeAssumption DEF TypeOK
    <2>a. Len(want') <= MaxStack
      BY <1>2, <1>6, <2>0
    <2>b. sums' = sums + 1 /\ length' = length + 1 /\ (wild' = wild \/ wild' = TRUE)
      BY <1>1
    <2>1. sums' \in Nat /\ length' \in Nat
      BY <2>0, <2>b
    <2>c. wild' \in BOOLEAN
      BY <2>0, <2>b, Zenon
    <2>2. /\ locals' \in [Local -> Word] /\ wantLoc' \in [Local -> [half : Half, val : Word]]
          /\ dcmps' \in Nat /\ skewed' \in BOOLEAN
      BY <1>1, <1>2 DEF TypeOK
    <2> QED BY <1>6, <1>7, <1>8, <2>a, <2>1, <2>c, <2>2 DEF TypeOK, Cells
  <1>10. TopDrifts'
    <2>1. top = Len(want) - sums + 2 * dcmps
      BY <1>1 DEF Inv, TopDrifts
    <2>2. top \in Int /\ sums \in Nat /\ dcmps \in Nat
      BY <1>2 DEF TypeOK
    <2>3. ~ wild' => top' = top - 3
      BY <1>1
    <2>4. sums' = sums + 1 /\ dcmps' = dcmps /\ Len(want') = Len(want) - 2 /\ Len(want) \in Nat
      BY <1>1, <1>2, <1>6
    <2>5. top - 3 = Len(want') - sums' + 2 * dcmps'
      BY <2>1, <2>2, <2>4
    <2> QED BY <2>3, <2>5 DEF TopDrifts
  <1>11. sums' # 0
    BY <1>1, <1>2 DEF TypeOK
  <1> QED BY <1>9, <1>10, <1>11 DEF Inv, StackIsExact

LEMMA CompareDoublesKeeps ==
  ASSUME Inv, NEW v \in Word, CompareDoubles(v)
  PROVE  Inv'
  <1> DEFINE r == Operands(2)
             c == Compare(r[1], r[2]) % W
             cells == << AnInt(v) >>
  <1>1. /\ ~ wild /\ length' = length + 1 /\ Depth(4, 1)
        /\ want' = SubSeq(want, 1, Len(want) - 4) \o cells
        /\ \/ /\ Inside(2, << 0 >>) /\ top' = top - 2 + 1 /\ wild' = wild
              /\ words' = [i \in Index |-> IF i \in top - 2 + 1 .. top - 2 + 1 THEN << c >>[i - (top - 2)] ELSE words[i]]
           \/ wild' = TRUE /\ words' = words /\ top' = top
        /\ dcmps' = dcmps + 1
        /\ UNCHANGED << locals, wantLoc, sums, skewed >>
    BY DEF CompareDoubles, OneMore, Means, Replace
  <1>2. TypeOK /\ want \in Seq(Cells) /\ Len(want) \in Nat /\ 4 <= Len(want) /\ Len(want) - 4 + 1 <= MaxStack
    <2>1. TypeOK
      BY DEF Inv
    <2>2. want \in Seq(Cells) /\ Len(want) \in Nat
      BY <2>1, WantIsCells
    <2>3. 4 <= Len(want) /\ Len(want) - 4 + 1 <= MaxStack
      BY <1>1 DEF Depth
    <2> QED BY <2>1, <2>2, <2>3
  <1>3. c \in Word
    BY CompareIsInt, ModIsWord
  <1> HIDE DEF c
  <1>4. cells \in Seq(Cells) /\ Len(cells) = 1
    BY CellsAreCells
  <1> HIDE DEF cells
  <1>5. want' \in Seq(Cells) /\ Len(want') = Len(want) - 3
    <2>1. want' = SubSeq(want, 1, Len(want) - 4) \o cells /\ 4 \in Nat
      BY <1>1
    <2>2. want' \in Seq(Cells) /\ Len(want') = Len(want) - 4 + Len(cells)
      BY <1>2, <1>4, <2>1, Meant
    <2> QED BY <1>2, <1>4, <2>2
  <1>6. words' \in [Index -> Word]
    <2>1. top \in Int
      BY <1>2 DEF TypeOK
    <2>2. \A i \in Index : i \in top - 2 + 1 .. top - 2 + 1 => i - (top - 2) = 1
      BY <2>1 DEF Index
    <2>3. \A i \in Index : i \in top - 2 + 1 .. top - 2 + 1 => << c >>[i - (top - 2)] = c
      BY <2>2
    <2> QED BY <1>1, <1>2, <1>3, <2>3 DEF TypeOK
  <1>7. top' \in Int /\ top' < OpStackSize
    BY <1>1, <1>2, ByteCodeAssumption DEF TypeOK, Inside
  <1>8. TypeOK'
    <2>0. dcmps \in Nat /\ length \in Nat /\ wild \in BOOLEAN /\ MaxStack \in Nat
      BY <1>2, ByteCodeAssumption DEF TypeOK
    <2>a. Len(want') <= MaxStack
      BY <1>2, <1>5, <2>0
    <2>b. dcmps' = dcmps + 1 /\ length' = length + 1 /\ (wild' = wild \/ wild' = TRUE)
      BY <1>1
    <2>1. dcmps' \in Nat /\ length' \in Nat
      BY <2>0, <2>b
    <2>c. wild' \in BOOLEAN
      BY <2>0, <2>b, Zenon
    <2>2. /\ locals' \in [Local -> Word] /\ wantLoc' \in [Local -> [half : Half, val : Word]]
          /\ sums' \in Nat /\ skewed' \in BOOLEAN
      BY <1>1, <1>2 DEF TypeOK
    <2> QED BY <1>5, <1>6, <1>7, <2>a, <2>1, <2>c, <2>2 DEF TypeOK, Cells
  <1>9. TopDrifts'
    <2>1. top = Len(want) - sums + 2 * dcmps
      BY <1>1 DEF Inv, TopDrifts
    <2>2. top \in Int /\ sums \in Nat /\ dcmps \in Nat
      BY <1>2 DEF TypeOK
    <2>3. ~ wild' => top' = top - 1
      BY <1>1, <2>2
    <2>4. dcmps' = dcmps + 1 /\ sums' = sums /\ Len(want') = Len(want) - 3 /\ Len(want) \in Nat
      BY <1>1, <1>2, <1>5
    <2>5. top - 1 = Len(want') - sums' + 2 * dcmps'
      BY <2>1, <2>2, <2>4
    <2> QED BY <2>3, <2>5 DEF TopDrifts
  <1>10. dcmps' # 0
    BY <1>1, <1>2 DEF TypeOK
  <1> QED BY <1>8, <1>9, <1>10 DEF Inv, StackIsExact

-----------------------------------------------------------------------------
(* The branches.                                                           *)

\* A branch keeps the invariant if, while nothing has gone wrong and nothing
\* goes wrong now, it is not lost.
LEMMA BranchesKeeps ==
  ASSUME Inv, NEW n \in 1 .. 2, NEW lost \in BOOLEAN,
         Branches(n, lost),
         skewed' \in BOOLEAN,
         skewed => skewed',
         Exact /\ LocalsExact /\ ~ skewed' => ~ lost
  PROVE  Inv'
  <1>1. /\ n <= Len(want) /\ want' = SubSeq(want, 1, Len(want) - n) \o << >>
        /\ top' = top - n /\ length' = length + 1
        /\ wild' = (top - n < -1 \/ lost)
        /\ UNCHANGED << words, locals, wantLoc, sums, dcmps >>
    BY DEF Branches, Depth, Means, OneMore
  <1>a. ~ wild
    BY DEF Branches, OneMore
  <1>2. TypeOK /\ want \in Seq(Cells) /\ Len(want) \in Nat
    BY DEF Inv, TypeOK, Cells
  <1>3. /\ want' \in Seq(Cells) /\ Len(want') = Len(want) - n
        /\ \A i \in 1 .. Len(want) - n : want'[i] = want[i]
    <2>1. << >> \in Seq(Cells) /\ Len(<< >>) = 0 /\ n \in Nat
      OBVIOUS
    <2>2. n <= Len(want) /\ want' = SubSeq(want, 1, Len(want) - n) \o << >>
      BY <1>1
    <2>3. want' \in Seq(Cells) /\ Len(want') = Len(want) - n + Len(<< >>)
          /\ \A i \in 1 .. Len(want) - n : want'[i] = want[i]
      BY <1>2, <2>1, <2>2, Meant, Zenon
    <2> QED BY <1>2, <2>1, <2>3
  <1>4. TypeOK'
    <2>1. top' \in Int /\ top' < OpStackSize /\ length' \in Nat /\ Len(want') <= MaxStack
      BY <1>1, <1>2, <1>3, ByteCodeAssumption DEF TypeOK
    <2>2. wild' \in BOOLEAN
      BY <1>1
    <2> QED BY <1>1, <1>2, <1>3, <2>1, <2>2 DEF TypeOK, Cells
  <1>5. TopDrifts'
    <2>1. top = Len(want) - sums + 2 * dcmps
      BY <1>a DEF Inv, TopDrifts
    <2>2. top \in Int /\ sums \in Nat /\ dcmps \in Nat
      BY <1>2 DEF TypeOK
    <2>3. top' = top - n /\ sums' = sums /\ dcmps' = dcmps /\ Len(want') = Len(want) - n /\ Len(want) \in Nat
      BY <1>1, <1>2, <1>3
    <2>4. top' = Len(want') - sums' + 2 * dcmps'
      BY <2>1, <2>2, <2>3
    <2> QED BY <2>4 DEF TopDrifts
  <1>6. ASSUME Clean'
        PROVE  Exact' /\ LocalsExact'
    <2>1. Clean /\ ~ skewed'
      BY <1>1, <1>6 DEF Clean
    <2>2. Exact /\ LocalsExact
      BY <2>1, ExactWhileClean
    <2>3. ~ lost
      BY <2>1, <2>2
    <2>4. top = Len(want) /\ ~ (top - n < -1)
      BY <1>1, <1>2, <2>2 DEF Exact
    <2>5. ~ wild'
      BY <1>1, <2>3, <2>4
    <2> QED BY <1>1, <1>2, <1>3, <2>2, <2>5 DEF Exact, LocalsExact
  <1> QED BY <1>4, <1>5, <1>6 DEF Inv, StackIsExact, Clean, Exact, LocalsExact

LEMMA IfZeroKeeps ==
  ASSUME Inv, NEW cond \in Conditions, NEW back \in BOOLEAN, IfZero(cond, back)
  PROVE  Inv'
  <1> DEFINE taken == Meets(Operands(1)[1], cond, 0)
             meant == Meets(Below(0).val, cond, 0)
             lost == taken # meant \/ (taken /\ back)
  <1>1. Branches(1, lost) /\ skewed' = (skewed \/ (meant /\ back)) /\ 1 <= Len(want)
    BY DEF IfZero, Halves
  <1>2. TypeOK /\ skewed \in BOOLEAN
    BY DEF Inv, TypeOK
  <1>3. Exact => Operands(1)[1] = Below(0).val
    <2>1. 1 \in Nat /\ 1 \in 1 .. 1 /\ 1 - 1 = 0
      OBVIOUS
    <2> QED BY <1>1, <1>2, <2>1, OperandsExact
  <1>4. Exact => (taken <=> meant)
    BY <1>3
  <1>5. taken \in BOOLEAN /\ meant \in BOOLEAN
    BY DEF Meets
  <1> HIDE DEF taken, meant
  <1>6. lost \in BOOLEAN
    BY <1>5
  <1>7. skewed' \in BOOLEAN /\ (skewed => skewed')
    BY <1>1, <1>2
  <1>8. Exact /\ LocalsExact /\ ~ skewed' => ~ lost
    BY <1>1, <1>4, <1>5
  <1> HIDE DEF lost
  <1> QED BY <1>1, <1>6, <1>7, <1>8, BranchesKeeps

LEMMA IfCompareKeeps ==
  ASSUME Inv, NEW cond \in Conditions, IfCompare(cond)
  PROVE  Inv'
  <1> DEFINE r == Operands(2)
             meant == Meets(Below(1).val, cond, Below(0).val)
             turned == Meets(Below(0).val, cond, Below(1).val)
             taken == Meets(r[2], cond, r[1])
             lost == meant \/ taken
  <1>1. Branches(2, lost) /\ skewed' = (skewed \/ meant \/ turned) /\ 2 <= Len(want)
    BY DEF IfCompare, Halves
  <1>2. TypeOK /\ skewed \in BOOLEAN
    BY DEF Inv, TypeOK
  <1>3. Exact => r[1] = Below(1).val /\ r[2] = Below(0).val
    <2>1. 2 \in Nat /\ 1 \in 1 .. 2 /\ 2 \in 1 .. 2 /\ 2 - 1 = 1 /\ 2 - 2 = 0
      OBVIOUS
    <2> QED BY <1>1, <1>2, <2>1, OperandsExact
  <1> HIDE DEF r
  <1>4. Exact => (taken <=> turned)
    BY <1>3
  <1>5. meant \in BOOLEAN /\ turned \in BOOLEAN /\ taken \in BOOLEAN
    BY DEF Meets
  <1> HIDE DEF meant, turned, taken
  <1>6. lost \in BOOLEAN
    BY <1>5
  <1>7. skewed' \in BOOLEAN /\ (skewed => skewed')
    BY <1>1, <1>2
  <1>8. Exact /\ LocalsExact /\ ~ skewed' => ~ lost
    BY <1>1, <1>4, <1>5
  <1> HIDE DEF lost
  <1> QED BY <1>1, <1>6, <1>7, <1>8, BranchesKeeps

-----------------------------------------------------------------------------
LEMMA InitInv ==
  ASSUME Init
  PROVE  Inv
  <1>1. 0 \in Word /\ << >> \in Seq(Cells) /\ Len(<< >>) = 0 /\ AnInt(0) \in Cells /\ AnInt(0).val = 0
    BY WordsAreThere DEF AnInt, Cell, Cells, Half
  <1>2. TypeOK
    <2>1. words \in [Index -> Word] /\ locals \in [Local -> Word] /\ wantLoc \in [Local -> Cells]
      BY <1>1 DEF Init
    <2>2. top \in Int /\ top < OpStackSize
      BY ByteCodeAssumption DEF Init
    <2>3. want \in Seq(Cells) /\ Len(want) <= MaxStack
      BY <1>1, ByteCodeAssumption DEF Init
    <2> QED BY <2>1, <2>2, <2>3 DEF Init, TypeOK, Cells
  <1> QED BY <1>1, <1>2 DEF Init, Inv, StackIsExact, TopDrifts

LEMMA StutterInv ==
  ASSUME Inv, UNCHANGED vars
  PROVE  Inv'
  BY DEF Inv, vars, TypeOK, StackIsExact, TopDrifts

LEMMA NextInv ==
  ASSUME Inv, Next
  PROVE  Inv'
  <1>1. ASSUME NEW v \in Values, PushInt(v) PROVE Inv'
    BY <1>1, PushIntKeeps
  <1>2. ASSUME NEW hi \in Values, NEW lo \in Values, PushLong(hi, lo) PROVE Inv'
    BY <1>2, PushLongKeeps
  <1>3. ASSUME NEW b \in Byte, PushByte(b) PROVE Inv'
    BY <1>3, PushByteKeeps
  <1>4. ASSUME NEW i \in Local, NEW n \in 1 .. 2, LoadLocal(i, n) \/ StoreLocal(i, n) \/ StoreOutside(i, n)
        PROVE  Inv'
    BY <1>4, LoadLocalKeeps, StoreLocalKeeps, StoreOutsideKeeps
  <1>5. ASSUME NEW i \in Local, NEW at \in Local, NEW n \in 1 .. 2, StoreShort(i, n, at) PROVE Inv'
    BY <1>5, StoreShortKeeps
  <1>6. ASSUME NEW i \in Local, NEW b \in Byte, Iinc(i, b) PROVE Inv'
    BY <1>6, IincKeeps
  <1>7. ASSUME NEW n \in 1 .. 2, Pop(n) PROVE Inv'
    BY <1>7, PopKeeps
  <1>8. ASSUME NEW ins \in Shuffles, Shuffle(ins) PROVE Inv'
    BY <1>8, ShuffleKeeps
  <1>9. ASSUME NEW sign \in {1, -1}, SumInts(sign) \/ SumLongs(sign) PROVE Inv'
    BY <1>9, SumIntsKeeps, SumLongsKeeps
  <1>10. ASSUME NEW v \in Word, CompareDoubles(v) PROVE Inv'
    BY <1>10, CompareDoublesKeeps
  <1>11. ASSUME NEW d \in Doubles, PushDouble(d) PROVE Inv'
    BY <1>11, PushDoubleKeeps
  <1>12. ASSUME NEW cond \in Conditions, NEW back \in BOOLEAN, IfZero(cond, back) PROVE Inv'
    BY <1>12, IfZeroKeeps
  <1>13. ASSUME NEW cond \in Conditions, IfCompare(cond) PROVE Inv'
    BY <1>13, IfCompareKeeps
  <1> QED BY <1>1, <1>2, <1>3, <1>4, <1>5, <1>6, <1>7, <1>8, <1>9, <1>10, <1>11, <1>12, <1>13, SwapKeeps,
             ExtendIntKeeps, NarrowIntKeeps, CompareLongsKeeps DEF Next

(* The invariant holds in every execution of verified code.                *)
THEOREM InvHolds == Spec => []Inv
  <1>1. Init => Inv
    BY InitInv
  <1>2. Inv /\ [Next]_vars => Inv'
    BY NextInv, StutterInv
  <1> QED BY <1>1, <1>2, PTL DEF Spec

(* Until a sum of longs, a constant or a comparison of doubles, a short    *)
(* store, a lost sign, a branch backwards or on two ints, stack and locals *)
(* are what the instructions mean that were executed, and execution is     *)
(* where they say: the other handlers are right, in any order.             *)
THEOREM StackStaysExact == Spec => []StackIsExact
  <1>1. Inv => StackIsExact
    BY DEF Inv
  <1> QED BY <1>1, InvHolds, PTL

(* The top of the stack is off by one word for each sum of longs and two   *)
(* for each comparison of doubles, and by nothing else.                    *)
THEOREM TopDriftsOnly == Spec => []TopDrifts
  <1>1. Inv => TopDrifts
    BY DEF Inv
  <1> QED BY <1>1, InvHolds, PTL
=============================================================================
