------------------------- MODULE VirtualTar_proofs -------------------------
(***************************************************************************)
(* That the parts of a split tar add up, that the bytes written to them    *)
(* are the tar, and that a restore reads the bytes of its file, for every  *)
(* size of the tar, of the parts, of their headers and of the buffers.     *)
(*                                                                         *)
(* All sizes the writer deals with are whole blocks, but for a file's last *)
(* bytes and the padding (Whole); the entries lie one after the other      *)
(* without a gap (TarInv); so each byte of a part is known from its place  *)
(* alone (PartByte), and what is on the storage, in the writer's buffer    *)
(* and in the reader's is compared with it byte by byte (BytesInv).        *)
(***************************************************************************)
EXTENDS VirtualTar, WellFoundedInduction, TLAPS

\* The quotient and the rest of a division by D, found again from their sum.
LEMMA DivMod ==
    ASSUME NEW D \in Nat \ {0}, NEW q \in Nat, NEW r \in 0..D - 1
    PROVE  /\ (q * D + r) \div D = q
           /\ (q * D + r) % D = r
<1> DEFINE a == q * D + r
           k == a \div D
<1>1. a \in Nat /\ k \in Nat /\ q * D \in Nat
    OBVIOUS
<1>2. k * D <= a /\ a < k * D + D
    BY SMT
<1>3. k >= q
  <2>1. SUFFICES ASSUME k < q PROVE FALSE
    BY <1>1
  <2>2. PICK d \in Nat : q = k + 1 + d
    <3>1. q - k - 1 \in Nat /\ q = k + 1 + (q - k - 1)
        BY <1>1, <2>1
    <3> QED BY <3>1
  <2>3. q * D = k * D + D + d * D
    <3> HIDE DEF k
    <3> QED BY <2>2, <1>1
  <2>4. d * D \in Nat
    BY <2>2
  <2> HIDE DEF k
  <2> QED BY <2>3, <2>4, <1>1, <1>2
<1>4. k <= q
  <2>1. SUFFICES ASSUME k > q PROVE FALSE
    BY <1>1
  <2>2. PICK d \in Nat : k = q + 1 + d
    <3>1. k - q - 1 \in Nat /\ k = q + 1 + (k - q - 1)
        BY <1>1, <2>1
    <3> QED BY <3>1
  <2>3. k * D = q * D + D + d * D
    <3> HIDE DEF k
    <3> QED BY <2>2, <1>1
  <2>4. d * D \in Nat
    BY <2>2
  <2> HIDE DEF k
  <2> QED BY <2>3, <2>4, <1>1, <1>2
<1>5. k = q
    BY <1>1, <1>3, <1>4
<1>6. a % D = a - D * k
    BY SMT
<1> QED BY <1>1, <1>5, <1>6

\* What splitParts_ promises: every part is as long as the split size, but for
\* the last, which holds what is left and at least something.
LEMMA SplitPartsCover ==
    ASSUME NEW total \in Nat, NEW size \in Nat, NEW head \in Nat,
           head < size, size < total
    PROVE  LET L == splitParts_(total, size, head)
           IN  /\ L.num_parts \in Nat /\ L.num_parts >= 2
               /\ L.part_size = size /\ L.part_header_size = head
               /\ L.last_part_size \in Nat
               /\ head < L.last_part_size /\ L.last_part_size <= size
               /\ (L.last_part_size - head) + size + (L.num_parts - 2) * (size - head)
                    = total
<1> DEFINE D == size - head
           n == (total - head) \div D
           stores == size + (n - 1) * D
<1>1. D \in Nat \ {0} /\ total - head \in Nat /\ total - head >= D
    OBVIOUS
<1>2. n \in Nat /\ n * D \in Nat
    BY <1>1
<1>3. n * D <= total - head /\ total - head < n * D + D
    BY <1>1, SMT
<1>4. n >= 1
  <2>1. n = 0 => n * D = 0
      BY <1>1
  <2> HIDE DEF n, D
  <2> QED BY <2>1, <1>1, <1>2, <1>3
<1>5. (n - 1) * D = n * D - D
  <2> HIDE DEF n
  <2> QED BY <1>1, <1>2
<1>6. stores = head + n * D
    BY <1>5, <1>2, <1>1
<1>7. CASE stores = total
  <2>1. splitParts_(total, size, head) =
          [num_parts |-> n, part_size |-> size,
           last_part_size |-> size, part_header_size |-> head]
      BY <1>7 DEF splitParts_
  <2>2. n # 1
    <3>1. n = 1 => n * D = D
        BY <1>1
    <3> HIDE DEF n
    <3> QED BY <3>1, <1>6, <1>7, <1>1
  <2>3. (n - 2) * D = n * D - D - D
    <3> HIDE DEF n
    <3> QED BY <1>1, <1>2
  <2>4. (size - head) + size + (n - 2) * D = total
    <3> HIDE DEF n
    <3> QED BY <2>3, <1>2, <1>6, <1>7
  <2>5. n >= 2
    <3> HIDE DEF n
    <3> QED BY <1>2, <1>4, <2>2
  <2> HIDE DEF n
  <2> QED BY <2>1, <2>4, <2>5, <1>2
<1>8. CASE stores # total
  <2> DEFINE last == head + (total - stores)
  <2>1. splitParts_(total, size, head) =
          [num_parts |-> n + 1, part_size |-> size,
           last_part_size |-> last, part_header_size |-> head]
      BY <1>8 DEF splitParts_
  <2>2. stores < total /\ total < stores + D /\ stores \in Nat
    <3> HIDE DEF n
    <3> QED BY <1>1, <1>2, <1>3, <1>6, <1>8
  <2>3. last \in Nat /\ head < last /\ last <= size
    <3> HIDE DEF stores
    <3> QED BY <2>2
  <2>4. (n + 1) - 2 = n - 1
    <3> HIDE DEF n
    <3> QED BY <1>2
  <2>5. (last - head) + size + ((n + 1) - 2) * D = total
    <3>1. (last - head) + stores = total
      <4> HIDE DEF stores
      <4> QED BY <2>2
    <3>2. (n - 1) * D \in Int
      <4> HIDE DEF n
      <4> QED BY <1>2, <1>1
    <3> QED BY <3>1, <3>2, <2>4, <2>3
  <2> HIDE DEF n, last
  <2> QED BY <2>1, <2>3, <2>5, <1>2, <1>4
<1> QED BY <1>7, <1>8

-----------------------------------------------------------------------------

\* What PartsAddUp rests on: the layout is the one of the whole tar, and it does
\* not change once a part may be written.
IInv ==
    /\ large \in BOOLEAN /\ split \in SplitSizes /\ header \in PartHeaders
    /\ current_tar_offset \in Nat
    /\ pc # "add" =>
        /\ current_tar_offset > 0
        /\ layout = fixSize(current_tar_offset)

\* The layout invariant holds as long as the tar is built, written and read.
LEMMA LayoutIsFixed == Spec => []IInv
<1>1. Init => IInv
    BY DEF Init, IInv
<1>2. IInv /\ [Next]_vars => IInv'
  <2> SUFFICES ASSUME IInv, [Next]_vars PROVE IInv'
      OBVIOUS
  <2> USE DEF IInv
  <2>1. ASSUME NEW e \in Entries, addEntryLast(e) PROVE IInv'
    <3>1. BlockedSize(e) \in Nat
      <4>1. e.header \in Nat /\ e.size \in Nat
          BY EntriesAssumption
      <4>2. e.header + e.size + Block - 1 \in Nat
          BY <4>1, BlockAssumption
      <4> QED BY <4>1, <4>2, BlockAssumption DEF BlockedSize, RoundUp
    <3> QED BY <2>1, <3>1 DEF addEntryLast, optionVars
  <2>2. CASE FixSize
      BY <2>2 DEF FixSize, fixSize, optionVars
  <2>3. CASE UNCHANGED <<optionVars, tarVars>> /\ (pc = "add" => pc' = "add")
      BY <2>3 DEF fixSize, optionVars, tarVars
  <2>4. CASE WriteStep
      BY <2>3, <2>4 DEF WriteStep, AcquireBytes, CopyPartHeader, CopyEntry, CopyFails,
                        CopyPadding, WriteBytes, NextPart, EndWrite
  <2>5. CASE StartRead
      BY <2>3, <2>5 DEF StartRead
  <2>6. CASE ReadStep
      BY <2>3, <2>6 DEF ReadStep, ReadPart, EndRead
  <2>7. CASE Readability \/ UNCHANGED vars
      BY <2>3, <2>7 DEF vars, Readability
  <2> QED BY <2>1, <2>2, <2>4, <2>5, <2>6, <2>7 DEF Next
<1> QED BY <1>1, <1>2, PTL DEF Spec

\* A part is found again from an offset calculated in it, the parts hold the tar
\* to its end, and none is too long or empty: what is written is where a restore
\* will look for it, whatever the size of the tar and of its parts.
THEOREM PartsAlwaysAddUp == Spec => []PartsAddUp
<1>1. IInv => PartsAddUp
  <2> SUFFICES ASSUME IInv, pc # "add" PROVE PartsAddUp
      BY DEF PartsAddUp
  <2> DEFINE total == current_tar_offset
             L == layout
  <2>1. /\ total \in Nat /\ total > 0 /\ split \in Nat /\ header \in Nat
        /\ header < split /\ L = fixSize(total)
      BY SplitSizesAssumption, PartHeadersAssumption, BlockAssumption DEF IInv
  <2>2. CASE total <= split \/ ~large
    <3>1. L = [num_parts |-> 1, part_size |-> total,
               last_part_size |-> total, part_header_size |-> 0]
        BY <2>1, <2>2 DEF fixSize
    <3>2. L.num_parts = 1 /\ L.part_size = total /\ L.last_part_size = total
        BY <3>1
    <3>3. Parts = {0} /\ partContentSize(0) = total
        BY <3>2 DEF Parts, partContentSize
    <3>4. \A o \in 0..total - 1 :
              findPartContainingOffset(calculateOriginTarOffset(0, o))
                  = [partnr |-> 0, offset |-> o]
        BY <2>1, <3>2 DEF findPartContainingOffset, calculateOriginTarOffset
    <3>5. calculateOriginTarOffset(0, total) = total
        BY DEF calculateOriginTarOffset
    <3>6. large => total <= split
        BY <2>2
    <3> QED
        BY <2>1, <3>2, <3>3, <3>4, <3>5, <3>6 DEF PartsAddUp, FirstContent
  <2>3. CASE ~(total <= split \/ ~large)
    <3> DEFINE D == split - header
               last == L.num_parts - 1
    <3>1. L = splitParts_(total, split, header)
        BY <2>1, <2>3 DEF fixSize
    <3>2. /\ L.num_parts \in Nat /\ L.num_parts >= 2
          /\ L.part_size = split /\ L.part_header_size = header
          /\ L.last_part_size \in Nat
          /\ header < L.last_part_size /\ L.last_part_size <= split
          /\ (L.last_part_size - header) + split + (L.num_parts - 2) * D = total
        BY <2>1, <2>3, <3>1, SplitPartsCover
    <3>3. ASSUME NEW p \in Parts
          PROVE  /\ p \in Nat
                 /\ partContentSize(p) \in Nat
                 /\ partContentSize(p) <= split
                 /\ p > 0 => partContentSize(p) > header
        BY <2>1, <3>2 DEF Parts, partContentSize
    <3>4. ASSUME NEW p \in Parts, NEW o \in FirstContent(p)..partContentSize(p) - 1
          PROVE  findPartContainingOffset(calculateOriginTarOffset(p, o))
                   = [partnr |-> p, offset |-> o]
      <4>1. CASE p = 0
          BY <2>1, <3>2, <3>3, <4>1
             DEF findPartContainingOffset, calculateOriginTarOffset, FirstContent
      <4>2. CASE p # 0
        <5> DEFINE q == p - 1
                   r == o - header
        <5>1. q \in Nat /\ D \in Nat \ {0} /\ r \in 0..D - 1 /\ o \in Nat
            BY <2>1, <3>2, <3>3, <4>2 DEF FirstContent
        <5>2. calculateOriginTarOffset(p, o) = r + split + q * D
            BY <3>2, <4>2 DEF calculateOriginTarOffset
        <5>3. q * D \in Nat
            BY <5>1
        <5>4. /\ (r + split + q * D) - split = q * D + r
              /\ ~(r + split + q * D < split)
          <6> HIDE DEF q, r, D
          <6> QED BY <2>1, <5>1, <5>3
        <5>5. (q * D + r) \div D = q /\ (q * D + r) % D = r
          <6> HIDE DEF q, r, D
          <6> QED BY <5>1, DivMod
        <5>6. findPartContainingOffset(r + split + q * D)
                = [partnr |-> q + 1, offset |-> r + header]
          <6> HIDE DEF q, r
          <6> QED BY <3>2, <5>4, <5>5 DEF findPartContainingOffset
        <5>7. q + 1 = p /\ r + header = o
            BY <3>3, <5>1, <2>1
        <5> HIDE DEF q, r
        <5> QED BY <5>2, <5>6, <5>7
      <4> QED BY <4>1, <4>2
    <3>5. calculateOriginTarOffset(last, partContentSize(last)) = total
      <4>1. last # 0 /\ last - 1 = L.num_parts - 2
          BY <3>2
      <4>2. partContentSize(last) = L.last_part_size
          BY <3>2 DEF partContentSize
      <4> HIDE DEF last
      <4> QED BY <3>2, <4>1, <4>2 DEF calculateOriginTarOffset
    <3> QED
        BY <2>1, <3>2, <3>3, <3>4, <3>5 DEF PartsAddUp
  <2> QED BY <2>2, <2>3
<1> QED BY <1>1, LayoutIsFixed, PTL

-----------------------------------------------------------------------------
(* Whole blocks                                                            *)

Whole(n) == n \in Nat /\ n % Block = 0

\* Whole blocks are the multiples of a block: their sums, differences, multiples.
LEMMA WholeMeans ==
    ASSUME NEW n \in Nat
    PROVE  Whole(n) <=> \E k \in Nat : n = k * Block
<1>1. Block \in Nat \ {0}
    BY BlockAssumption
<1>2. ASSUME Whole(n) PROVE \E k \in Nat : n = k * Block
    <2> DEFINE k == n \div Block
    <2>1. k \in Nat /\ n = Block * k + (n % Block)
        BY <1>1
    <2> HIDE DEF k
    <2>2. n = k * Block
        BY <1>1, <1>2, <2>1 DEF Whole
    <2> QED
        BY <2>1, <2>2
<1>3. ASSUME NEW k \in Nat, n = k * Block PROVE Whole(n)
    <2>1. 0 \in 0..Block - 1 /\ n = k * Block + 0
        BY <1>1, <1>3
    <2> QED
        BY <1>1, <2>1, DivMod DEF Whole
<1> QED
    BY <1>2, <1>3

LEMMA WholeSum ==
    ASSUME NEW a, NEW b, Whole(a), Whole(b)
    PROVE  Whole(a + b)
<1>1. a \in Nat /\ b \in Nat /\ a + b \in Nat /\ Block \in Nat
    BY BlockAssumption DEF Whole
<1>2. PICK k \in Nat : a = k * Block
    BY <1>1, WholeMeans
<1>3. PICK l \in Nat : b = l * Block
    BY <1>1, WholeMeans
<1>4. k + l \in Nat /\ a + b = (k + l) * Block
    BY <1>1, <1>2, <1>3
<1> QED
    BY <1>1, <1>4, WholeMeans

LEMMA WholeDiff ==
    ASSUME NEW a, NEW b, Whole(a), Whole(b), b <= a
    PROVE  Whole(a - b)
<1>1. a \in Nat /\ b \in Nat /\ a - b \in Nat /\ Block \in Nat \ {0}
    BY BlockAssumption DEF Whole
<1>2. PICK k \in Nat : a = k * Block
    BY <1>1, WholeMeans
<1>3. PICK l \in Nat : b = l * Block
    BY <1>1, WholeMeans
<1>4. k - l \in Nat
    <2> SUFFICES ASSUME k < l PROVE FALSE
        BY <1>2, <1>3
    <2>1. l * Block = k * Block + (l - k) * Block /\ (l - k) * Block > 0
        BY <1>1, <1>2, <1>3
    <2> QED
        BY <1>1, <1>2, <1>3, <2>1
<1>5. a - b = (k - l) * Block
    BY <1>1, <1>2, <1>3
<1> QED
    BY <1>1, <1>4, <1>5, WholeMeans

LEMMA WholeTimes ==
    ASSUME NEW a, Whole(a), NEW q \in Nat
    PROVE  Whole(q * a)
<1>1. a \in Nat /\ q * a \in Nat /\ Block \in Nat
    BY BlockAssumption DEF Whole
<1>2. PICK k \in Nat : a = k * Block
    BY <1>1, WholeMeans
<1>3. q * k \in Nat /\ q * a = (q * k) * Block
    BY <1>1, <1>2
<1> QED
    BY <1>1, <1>3, WholeMeans

\* There is a block between two of its multiples.
LEMMA WholeNext ==
    ASSUME NEW a, NEW b, Whole(a), Whole(b), a < b
    PROVE  a + Block <= b
<1>1. a \in Nat /\ b \in Nat /\ b - a \in Nat /\ b - a > 0 /\ Block \in Nat \ {0}
    BY BlockAssumption DEF Whole
<1>2. PICK k \in Nat : b - a = k * Block
    <2>1. a <= b
        BY <1>1
    <2>2. Whole(b - a)
        BY <2>1, WholeDiff
    <2> QED
        BY <1>1, <2>2, WholeMeans
<1>3. k >= 1
    <2>1. k # 0
        BY <1>1, <1>2
    <2> QED
        BY <2>1
<1>4. k * Block = Block + (k - 1) * Block /\ (k - 1) * Block \in Nat
    <2>1. PICK j \in Nat : k = j + 1
        BY <1>3
    <2>2. (j + 1) * Block = Block + j * Block /\ j * Block \in Nat
        BY <1>1
    <2> QED
        BY <2>1, <2>2
<1> QED
    BY <1>1, <1>2, <1>4

LEMMA WholeBlocks == Whole(0) /\ Whole(Block)
<1>1. Block \in Nat \ {0}
    BY BlockAssumption
<1>2. 0 = 0 * Block /\ Block = 1 * Block
    BY <1>1
<1> QED
    BY <1>1, <1>2, WholeMeans

\* What is rounded up is rounded up by less than a unit.
LEMMA RoundUpBounds ==
    ASSUME NEW n \in Nat, NEW unit \in Nat \ {0}
    PROVE  /\ RoundUp(n, unit) \in Nat
           /\ n <= RoundUp(n, unit) /\ RoundUp(n, unit) < n + unit
           /\ \E k \in Nat : RoundUp(n, unit) = k * unit
<1> DEFINE m == n + unit - 1
           k == m \div unit
<1>1. m \in Nat
    OBVIOUS
<1> HIDE DEF m
<1>2. k \in Nat /\ m = unit * k + (m % unit) /\ m % unit \in 0..unit - 1
    BY <1>1
<1> HIDE DEF k
<1>3. k * unit \in Nat /\ k * unit = unit * k
    BY <1>2
<1>4. m = k * unit + (m % unit)
    BY <1>2, <1>3
<1>5. n <= k * unit /\ k * unit < n + unit
    BY <1>2, <1>3, <1>4 DEF m
<1>6. RoundUp(n, unit) = k * unit
    BY DEF RoundUp, k, m
<1> QED
    BY <1>2, <1>3, <1>5, <1>6

\* And it is the one multiple within a block.
LEMMA RoundUpIs ==
    ASSUME NEW n \in Nat, NEW w, Whole(w), n <= w, w < n + Block
    PROVE  RoundUp(n, Block) = w
<1> DEFINE r == RoundUp(n, Block)
<1>1. Block \in Nat \ {0} /\ w \in Nat
    BY BlockAssumption DEF Whole
<1>2. r \in Nat /\ Whole(r) /\ n <= r /\ r < n + Block
    BY <1>1, RoundUpBounds, WholeMeans
<1> HIDE DEF r
<1>3. ~(r < w)
    BY <1>1, <1>2, WholeNext
<1>4. ~(w < r)
    BY <1>1, <1>2, WholeNext
<1>5. r = w
    BY <1>1, <1>2, <1>3, <1>4
<1> QED
    BY <1>5 DEF r

\* Rounded up to a block is whole blocks.
LEMMA RoundUpWhole ==
    ASSUME NEW n \in Nat
    PROVE  Whole(RoundUp(n, Block))
BY BlockAssumption, RoundUpBounds, WholeMeans

-----------------------------------------------------------------------------
(* The bytes of the tar                                                    *)

\* What a byte of the storage can be.
AnyByte == ({"header", "content", "multivol"} \X Nat \X Nat) \cup {Zero}

\* The byte of an entry, and the byte of the tar, at an offset.
EntryByte(i, k) ==
    LET e == contents[i]
    IN  IF k < e.header THEN <<"header", i, k>>
        ELSE IF k < e.header + e.size THEN <<"content", i, k - e.header>>
        ELSE Zero

TarByte(x) == EntryByte(findTarEntry(x), x - offsets[findTarEntry(x)])

End(i) == offsets[i] + BlockedSize(contents[i])

\* The entries follow each other in whole blocks, without a gap.
TarInv ==
    /\ contents \in Seq(Entries) /\ offsets \in Seq(Nat) /\ Len(offsets) = Len(contents)
    /\ Whole(current_tar_offset)
    /\ \A i \in 1..Len(contents) : Whole(offsets[i]) /\ End(i) <= current_tar_offset
    /\ \A i, j \in 1..Len(contents) : i < j => End(i) <= offsets[j]
    /\ \A x \in 0..current_tar_offset - 1 :
           \E i \in 1..Len(contents) : offsets[i] <= x /\ x < End(i)

\* An entry has room for its header and its file, less than a block too much.
LEMMA EntrySizes ==
    ASSUME NEW e \in Entries
    PROVE  /\ e.header \in Nat /\ e.size \in Nat /\ Whole(e.header)
           /\ Whole(BlockedSize(e)) /\ BlockedSize(e) \in Nat
           /\ e.header + e.size <= BlockedSize(e)
           /\ BlockedSize(e) < e.header + e.size + Block
<1>1. e.header \in Nat /\ e.size \in Nat /\ Whole(e.header) /\ e.header + e.size \in Nat
    BY EntriesAssumption DEF Whole
<1> QED
    BY <1>1, BlockAssumption, RoundUpWhole, RoundUpBounds DEF BlockedSize, Whole

\* The entry that is found holds the offset, and no other does.
LEMMA EntryFound ==
    ASSUME TarInv, NEW x \in 0..current_tar_offset - 1
    PROVE  /\ findTarEntry(x) \in 1..Len(contents)
           /\ offsets[findTarEntry(x)] <= x /\ x < End(findTarEntry(x))
           /\ \A i \in 1..Len(contents) :
                  offsets[i] <= x /\ x < End(i) => findTarEntry(x) = i
<1> DEFINE IsLast(i) == /\ offsets[i] <= x
                        /\ \A j \in 1..Len(contents) : offsets[j] <= x => j <= i
<1>1. Len(contents) \in Nat /\ x \in Nat /\ \A i \in 1..Len(contents) : offsets[i] \in Nat
    BY DEF TarInv, Whole
<1>2. \A i \in 1..Len(contents) : End(i) \in Nat
    BY <1>1, EntrySizes DEF TarInv, End
<1>3. ASSUME NEW i \in 1..Len(contents), offsets[i] <= x, x < End(i)
      PROVE  IsLast(i)
    <2> SUFFICES ASSUME NEW j \in 1..Len(contents), offsets[j] <= x, i < j PROVE FALSE
        BY <1>1, <1>3
    <2>1. End(i) <= offsets[j]
        BY DEF TarInv
    <2> QED
        BY <1>1, <1>2, <1>3, <2>1
<1>4. \A i, j \in 1..Len(contents) : IsLast(i) /\ IsLast(j) => i = j
    BY <1>1
<1>5. findTarEntry(x) = CHOOSE i \in 1..Len(contents) : IsLast(i)
    BY DEF findTarEntry
<1>6. PICK i \in 1..Len(contents) : offsets[i] <= x /\ x < End(i)
    BY DEF TarInv
<1>7. IsLast(i)
    BY <1>3, <1>6
<1> HIDE DEF IsLast
<1>8. findTarEntry(x) \in 1..Len(contents) /\ IsLast(findTarEntry(x))
    BY <1>5, <1>7
<1> QED
    BY <1>3, <1>4, <1>6, <1>7, <1>8

\* Three pieces one after the other.
Pieces(s, a, b, c) ==
    /\ Len(s) = Len(a) + Len(b) + Len(c)
    /\ \A k \in 1..Len(s) :
          s[k] = IF k <= Len(a) THEN a[k]
                 ELSE IF k <= Len(a) + Len(b) THEN b[k - Len(a)]
                 ELSE c[k - Len(a) - Len(b)]

\* The bytes of three pieces, one after the other.
LEMMA ThreePieces ==
    ASSUME NEW S, NEW a \in Seq(S), NEW b \in Seq(S), NEW c \in Seq(S)
    PROVE  a \o b \o c \in Seq(S) /\ Pieces(a \o b \o c, a, b, c)
<1> DEFINE ab == a \o b
<1>0. ab \in Seq(S)
    OBVIOUS
<1>1. /\ Len(ab) = Len(a) + Len(b)
      /\ \A k \in 1..Len(ab) : ab[k] = IF k <= Len(a) THEN a[k] ELSE b[k - Len(a)]
    OBVIOUS
<1> HIDE DEF ab
<1>2. /\ ab \o c \in Seq(S) /\ Len(ab \o c) = Len(ab) + Len(c)
      /\ \A k \in 1..Len(ab \o c) :
            (ab \o c)[k] = IF k <= Len(ab) THEN ab[k] ELSE c[k - Len(ab)]
    BY <1>0
<1>3. Len(a) \in Nat /\ Len(b) \in Nat /\ Len(c) \in Nat
    OBVIOUS
<1>4. ASSUME NEW k \in 1..Len(ab \o c)
      PROVE  (ab \o c)[k] = IF k <= Len(a) THEN a[k]
                            ELSE IF k <= Len(a) + Len(b) THEN b[k - Len(a)]
                            ELSE c[k - Len(a) - Len(b)]
    <2>1. CASE k <= Len(a)
        BY <1>1, <1>2, <1>3, <2>1
    <2>2. CASE k > Len(a) /\ k <= Len(a) + Len(b)
        BY <1>1, <1>2, <1>3, <2>2
    <2>3. CASE k > Len(a) + Len(b)
        <3>1. k - Len(ab) = k - Len(a) - Len(b)
            BY <1>1, <1>3
        <3> QED
            BY <1>1, <1>2, <1>3, <2>3, <3>1
    <2> QED
        BY <1>3, <2>1, <2>2, <2>3
<1>5. (ab \o c) = a \o b \o c
    BY DEF ab
<1>6. Len(ab \o c) = Len(a) + Len(b) + Len(c)
    BY <1>1, <1>2, <1>3
<1> QED
    BY <1>2, <1>4, <1>5, <1>6 DEF Pieces

IsBytes(s, what, i, first, n) ==
    /\ s \in Seq(AnyByte) /\ Len(s) = n
    /\ \A k \in 1..n : s[k] = <<what, i, first + k - 1>>

\* The bytes a piece of a header or of a file has.
LEMMA BytesAre ==
    ASSUME NEW what \in {"header", "content", "multivol"}, NEW i \in Nat,
           NEW first \in Nat, NEW n \in Nat
    PROVE  IsBytes(Bytes(what, i, first, n), what, i, first, n)
<1>1. \A k \in 1..n : first + k - 1 \in Nat
    OBVIOUS
<1>2. \A k \in 1..n : <<what, i, first + k - 1>> \in AnyByte
    BY <1>1 DEF AnyByte
<1> QED
    BY <1>2 DEF Bytes, IsBytes

\* The bytes of a filling.
LEMMA ZerosAre ==
    ASSUME NEW n \in Nat
    PROVE  /\ Zeros(n) \in Seq(AnyByte) /\ Len(Zeros(n)) = n
           /\ \A k \in 1..n : Zeros(n)[k] = Zero
BY DEF Zeros, AnyByte

\* From the border of a block on, TarEntry::copy delivers the bytes of the
\* entry, to the end of the entry or as many as are asked for.
LEMMA CopyIsRight ==
    ASSUME NEW i \in Nat, contents[i] \in Entries, NEW n \in Nat, NEW at \in Nat,
           Whole(at), at < BlockedSize(contents[i])
    PROVE  LET bytes == copy(i, n, at)
           IN  /\ bytes \in Seq(AnyByte)
               /\ Len(bytes) <= n
               /\ at + Len(bytes) <= BlockedSize(contents[i])
               /\ Len(bytes) = n \/ at + Len(bytes) = BlockedSize(contents[i])
               /\ \A k \in 1..Len(bytes) : bytes[k] = EntryByte(i, at + k - 1)
<1> DEFINE e      == contents[i]
           hs     == e.header + e.size
           h      == IF at < e.header THEN Least(n, e.header - at) ELSE 0
           l      == IF at + h \in e.header..e.header + e.size - 1
                     THEN Least(n - h, e.header + e.size - (at + h)) ELSE 0
           copied == h + l
           fill   == Least(RoundUp(copied, Block) - copied, n - copied)
           B      == BlockedSize(e)
<1>1. /\ e.header \in Nat /\ e.size \in Nat /\ hs \in Nat /\ Whole(B) /\ B \in Nat
      /\ hs <= B /\ B < hs + Block /\ Block \in Nat \ {0} /\ Whole(e.header)
    BY EntrySizes, BlockAssumption
<1>2. at < hs
    <2> SUFFICES ASSUME hs <= at PROVE FALSE
        BY <1>1
    <2>1. at + Block <= B
        BY <1>1, WholeNext
    <2> QED
        BY <1>1, <2>1
<1> HIDE DEF B, e
<1>3. /\ h \in Nat /\ h <= n /\ at + h <= hs
      /\ at < e.header => at + h <= e.header
      /\ at >= e.header => h = 0
      /\ at + h < e.header => h = n
    BY <1>1, <1>2 DEF Least
<1> HIDE DEF h
<1>4. /\ l \in Nat /\ h + l <= n /\ at + h + l <= hs
      /\ at + h < e.header => l = 0
      /\ at + h + l < hs => h + l = n
    BY <1>1, <1>2, <1>3 DEF Least
<1> HIDE DEF l
<1>5. copied \in Nat /\ copied <= n
    BY <1>3, <1>4
<1>e. /\ copied = h + l
      /\ fill = Least(RoundUp(copied, Block) - copied, n - copied)
    OBVIOUS
<1> HIDE DEF copied, fill
<1>6. RoundUp(copied, Block) \in Nat /\ RoundUp(copied, Block) - copied \in Nat
    <2>1. RoundUp(copied, Block) \in Nat /\ copied <= RoundUp(copied, Block)
        BY <1>1, <1>5, RoundUpBounds
    <2> QED
        BY <1>5, <2>1
<1>7. fill \in Nat /\ copied + fill <= n
    BY <1>5, <1>6, <1>e DEF Least
<1>8. /\ at + copied + fill <= B
      /\ copied + fill = n \/ at + copied + fill = B
      /\ fill > 0 => at + copied = hs
    <2>1. CASE copied = n
        <3>1. fill = 0
            BY <1>5, <1>6, <1>7, <2>1
        <3>2. at + copied <= B
            BY <1>1, <1>3, <1>4, <1>e
        <3> QED
            BY <1>5, <2>1, <3>1, <3>2
    <2>2. CASE copied # n
        <3>1. at + copied = hs
            BY <1>1, <1>3, <1>4, <1>5, <1>e, <2>2
        <3>2. Whole(B - at) /\ B - at \in Nat
            <4>1. at <= B /\ B - at \in Nat
                BY <1>1, <1>2
            <4> QED
                BY <1>1, <4>1, WholeDiff
        <3>3. copied <= B - at /\ B - at < copied + Block
            BY <1>1, <1>5, <3>1
        <3>4. RoundUp(copied, Block) = B - at
            BY <1>5, <3>2, <3>3, RoundUpIs
        <3> QED
            BY <1>1, <1>5, <1>e, <3>1, <3>2, <3>3, <3>4 DEF Least
    <2> QED
        BY <2>1, <2>2
<1> DEFINE a == Bytes("header", i, at, h)
           b == Bytes("content", i, at + h - e.header, l)
           c == Zeros(fill)
           bytes == copy(i, n, at)
<1>9. bytes = a \o b \o c
    BY DEF copy, h, l, copied, fill, e
<1>10. IsBytes(a, "header", i, at, h)
    BY <1>3, BytesAre
<1>11. IsBytes(b, "content", i, at + h - e.header, l)
    <2>1. CASE at + h < e.header
        <3>1. l = 0
            BY <1>4, <2>1
        <3>2. Bytes("content", i, at + h - e.header, 0) = << >>
            BY DEF Bytes
        <3>3. b = << >>
            BY <3>1, <3>2
        <3> HIDE DEF b
        <3>4. << >> \in Seq(AnyByte) /\ Len(<< >>) = 0
            OBVIOUS
        <3> QED
            BY <3>1, <3>3, <3>4 DEF IsBytes
    <2>2. CASE at + h >= e.header
        <3>1. at + h - e.header \in Nat
            BY <1>1, <1>3, <2>2
        <3> QED
            BY <1>4, <3>1, BytesAre
    <2> QED
        BY <1>1, <1>3, <2>1, <2>2
<1>12. /\ c \in Seq(AnyByte) /\ Len(c) = fill
       /\ \A k \in 1..fill : c[k] = Zero
    BY <1>7, ZerosAre
<1> HIDE DEF a, b, c, bytes
<1>13. bytes \in Seq(AnyByte) /\ Pieces(bytes, a, b, c)
    BY <1>9, <1>10, <1>11, <1>12, ThreePieces DEF IsBytes
<1>13a. Len(a) = h /\ Len(b) = l /\ Len(bytes) = copied + fill
    BY <1>10, <1>11, <1>12, <1>13, <1>e DEF IsBytes, Pieces
<1>14. ASSUME NEW k \in 1..Len(bytes)
       PROVE  bytes[k] = EntryByte(i, at + k - 1)
    <2>1. k \in Nat /\ k >= 1 /\ k <= copied + fill /\ at + k - 1 \in Nat
        BY <1>5, <1>7, <1>13a
    <2>2. CASE k <= h
        <3>1. at < e.header /\ at + k - 1 < e.header
            BY <1>1, <1>3, <2>1, <2>2
        <3>2. bytes[k] = <<"header", i, at + k - 1>>
            BY <1>3, <1>10, <1>13, <1>13a, <2>1, <2>2 DEF Pieces, IsBytes
        <3> QED
            BY <3>1, <3>2 DEF EntryByte, e
    <2>3. CASE k > h /\ k <= h + l
        <3>1. at + h >= e.header /\ at + k - 1 >= e.header /\ at + k - 1 < hs
            BY <1>1, <1>3, <1>4, <2>1, <2>3
        <3>2. k - h \in 1..l
            BY <1>3, <1>4, <2>1, <2>3
        <3>3. bytes[k] = <<"content", i, at + h - e.header + (k - h) - 1>>
            BY <1>3, <1>11, <1>13, <1>13a, <2>3, <3>2 DEF Pieces, IsBytes
        <3>4. at + h - e.header + (k - h) - 1 = (at + k - 1) - e.header
            <4>1. e.header \in Nat /\ h \in Nat /\ k \in Nat
                BY <1>1, <1>3, <2>1
            <4> QED
                BY <4>1
        <3> QED
            BY <1>1, <2>1, <3>1, <3>3, <3>4 DEF EntryByte, e
    <2>4. CASE k > h + l
        <3>1. fill > 0 /\ at + k - 1 >= hs /\ at + k - 1 >= e.header
            <4>1. /\ h \in Nat /\ l \in Nat /\ fill \in Nat /\ k \in Nat
                  /\ e.header \in Nat /\ e.size \in Nat
                BY <1>1, <1>3, <1>4, <1>7, <2>1
            <4>2. fill > 0
                BY <1>e, <2>1, <2>4, <4>1
            <4>3. at + h + l = hs
                BY <1>8, <1>e, <4>1, <4>2
            <4> QED
                BY <2>4, <4>1, <4>2, <4>3
        <3>2. k - h - l \in 1..fill
            BY <1>3, <1>4, <1>7, <1>e, <2>1, <2>4
        <3>3. bytes[k] = Zero
            BY <1>3, <1>4, <1>12, <1>13, <1>13a, <2>1, <2>4, <3>2 DEF Pieces
        <3> QED
            BY <1>1, <2>1, <3>1, <3>3 DEF EntryByte, e
    <2> QED
        BY <1>3, <1>4, <2>1, <2>2, <2>3, <2>4
<1>15. Len(bytes) <= n /\ at + Len(bytes) <= B /\ (Len(bytes) = n \/ at + Len(bytes) = B)
    BY <1>5, <1>7, <1>8, <1>13a
<1> QED
    BY <1>13, <1>14, <1>15 DEF bytes, B, e

\* From the border of a block on, the writer copies the bytes of the tar, to
\* the end of an entry or as many as are asked for.
LEMMA TarIsCopied ==
    ASSUME TarInv, NEW x \in 0..current_tar_offset - 1, Whole(x), NEW n \in Nat
    PROVE  LET bytes == copy(findTarEntry(x), n, x - offsets[findTarEntry(x)])
           IN  /\ bytes \in Seq(AnyByte)
               /\ Len(bytes) <= n
               /\ x + Len(bytes) <= current_tar_offset
               /\ Len(bytes) = n \/ Whole(x + Len(bytes))
               /\ \A k \in 1..Len(bytes) : bytes[k] = TarByte(x + k - 1)
<1> DEFINE i == findTarEntry(x)
           at == x - offsets[i]
           B == BlockedSize(contents[i])
           bytes == copy(i, n, at)
<1>1. /\ i \in 1..Len(contents) /\ i \in Nat
      /\ offsets[i] <= x /\ x < offsets[i] + B
    BY EntryFound DEF End, TarInv
<1>2. /\ contents[i] \in Entries
      /\ offsets[i] \in Nat /\ Whole(offsets[i]) /\ x \in Nat
      /\ offsets[i] + B <= current_tar_offset /\ current_tar_offset \in Nat
    BY <1>1 DEF TarInv, Whole, End
<1>3. Whole(B) /\ B \in Nat
    BY <1>2, EntrySizes
<1> HIDE DEF i, B
<1>4. at \in Nat /\ Whole(at) /\ at < B
    <2>1. at \in Nat /\ at < B
        BY <1>1, <1>2, <1>3
    <2> QED
        BY <1>1, <1>2, <2>1, WholeDiff
<1> HIDE DEF at
<1>5. /\ bytes \in Seq(AnyByte)
      /\ Len(bytes) <= n /\ at + Len(bytes) <= B
      /\ Len(bytes) = n \/ at + Len(bytes) = B
      /\ \A k \in 1..Len(bytes) : bytes[k] = EntryByte(i, at + k - 1)
    BY <1>1, <1>2, <1>4, CopyIsRight DEF B
<1>6. Len(bytes) \in Nat
    BY <1>5
<1> HIDE DEF bytes
<1>7. x = offsets[i] + at
    BY <1>2 DEF at
<1>8. Len(bytes) = n \/ Whole(x + Len(bytes))
    <2>1. CASE at + Len(bytes) = B
        <3>1. x + Len(bytes) = offsets[i] + B
            BY <1>2, <1>3, <1>4, <1>6, <1>7, <2>1
        <3> QED
            BY <1>2, <1>3, <3>1, WholeSum
    <2> QED
        BY <1>5, <2>1
<1>9. ASSUME NEW k \in 1..Len(bytes)
      PROVE  bytes[k] = TarByte(x + k - 1)
    <2> DEFINE y == x + k - 1
    <2>1. k \in Nat /\ k >= 1 /\ k <= Len(bytes)
        BY <1>6
    <2>2. /\ y \in Nat /\ y < offsets[i] + B /\ offsets[i] <= y
          /\ y - offsets[i] = at + k - 1
        <3>1. /\ offsets[i] \in Nat /\ x \in Nat /\ at \in Nat /\ B \in Nat
              /\ x = offsets[i] + at /\ at + k <= B
            BY <1>2, <1>3, <1>4, <1>5, <1>6, <1>7, <2>1
        <3>2. y \in Nat /\ y = offsets[i] + (at + k - 1)
            BY <2>1, <3>1
        <3> QED
            BY <2>1, <3>1, <3>2
    <2> HIDE DEF y
    <2>3. y \in 0..current_tar_offset - 1
        BY <1>2, <1>3, <2>2
    <2>4. findTarEntry(y) = i
        BY <1>1, <2>2, <2>3, EntryFound DEF End, B
    <2>5. TarByte(y) = EntryByte(i, at + k - 1)
        BY <2>2, <2>4 DEF TarByte
    <2> QED
        BY <1>5, <2>5 DEF y
<1>10. x + Len(bytes) <= current_tar_offset
    BY <1>2, <1>3, <1>4, <1>5, <1>6, <1>7
<1> QED
    BY <1>5, <1>8, <1>9, <1>10 DEF bytes, at, i

-----------------------------------------------------------------------------
(* The parts of the layout                                                 *)

\* One part, or parts of equal size and a last one; all of whole blocks.
OnePart ==
    /\ layout.num_parts = 1 /\ layout.part_size = current_tar_offset
    /\ layout.last_part_size = current_tar_offset /\ layout.part_header_size = 0

ManyParts ==
    /\ layout.num_parts \in Nat /\ layout.num_parts >= 2
    /\ split \in Nat /\ layout.part_size = split /\ Whole(split)
    /\ header \in {0, Block} /\ layout.part_header_size = header /\ header < split
    /\ layout.last_part_size \in Nat /\ Whole(layout.last_part_size)
    /\ header < layout.last_part_size /\ layout.last_part_size <= split
    /\ current_tar_offset = (layout.last_part_size - header) + split
                              + (layout.num_parts - 2) * (split - header)

\* The layout that is fixed is one part, or many.
LEMMA OneOrMany ==
    ASSUME IInv, pc # "add", Whole(current_tar_offset)
    PROVE  OnePart \/ ManyParts
<1> DEFINE total == current_tar_offset
           last == layout.last_part_size
           D == split - header
<1>1. /\ total \in Nat /\ total > 0 /\ split \in Nat /\ header \in {0, Block} /\ header \in Nat
      /\ header < split /\ Whole(split) /\ Whole(header)
      /\ layout = fixSize(total)
    BY SplitSizesAssumption, PartHeadersAssumption, BlockAssumption, WholeBlocks DEF IInv, Whole
<1>2. CASE total <= split \/ ~large
    BY <1>1, <1>2 DEF fixSize, OnePart
<1>3. CASE ~(total <= split \/ ~large)
    <2>1. layout = splitParts_(total, split, header)
        BY <1>1, <1>3 DEF fixSize
    <2>2. /\ layout.num_parts \in Nat /\ layout.num_parts >= 2
          /\ layout.part_size = split /\ layout.part_header_size = header
          /\ last \in Nat
          /\ header < last /\ last <= split
          /\ (last - header) + split + (layout.num_parts - 2) * D = total
        BY <1>1, <1>3, <2>1, SplitPartsCover
    <2>3. Whole(D) /\ D \in Nat /\ layout.num_parts - 2 \in Nat
        <3>1. header <= split /\ D \in Nat
            BY <1>1
        <3>2. Whole(D)
            BY <1>1, <3>1, WholeDiff
        <3> QED
            BY <2>2, <3>1, <3>2
    <2> DEFINE more == (layout.num_parts - 2) * D
    <2>4. Whole(more) /\ more \in Nat
        BY <2>3, WholeTimes DEF Whole
    <2> HIDE DEF more, D
    <2>5. Whole(split + more) /\ split + more \in Nat
        <3>1. Whole(split + more)
            BY <1>1, <2>4, WholeSum
        <3> QED
            BY <3>1 DEF Whole
    <2>6. split + more <= total /\ last - header = total - (split + more) /\ last - header \in Nat
        BY <1>1, <2>2, <2>4 DEF more
    <2>7. Whole(last - header)
        BY <2>5, <2>6, WholeDiff
    <2>8. last = (last - header) + header
        BY <1>1, <2>2
    <2>9. Whole(last)
        BY <1>1, <2>7, <2>8, WholeSum
    <2> QED
        BY <1>1, <2>2, <2>9 DEF ManyParts, D
<1> QED
    BY <1>2, <1>3

\* A part has whole blocks, more than its header.
LEMMA PartFacts ==
    ASSUME OnePart \/ ManyParts, Whole(current_tar_offset), current_tar_offset > 0,
           NEW p \in Parts
    PROVE  /\ p \in Nat /\ layout.num_parts \in Nat /\ p < layout.num_parts
           /\ FirstContent(p) \in {0, Block} /\ FirstContent(p) \in Nat
           /\ partContentSize(p) \in Nat /\ Whole(partContentSize(p))
           /\ FirstContent(p) < partContentSize(p)
<1>1. CASE OnePart
    BY <1>1 DEF OnePart, Parts, FirstContent, partContentSize, Whole
<1>2. CASE ManyParts
    BY <1>2, BlockAssumption DEF ManyParts, Parts, FirstContent, partContentSize
<1> QED
    BY <1>1, <1>2

\* Products with a positive number keep an order.
LEMMA TimesMonotone ==
    ASSUME NEW D \in Nat, NEW a \in Nat, NEW b \in Nat, a <= b
    PROVE  a * D <= b * D /\ a * D \in Nat /\ b * D \in Nat
<1>1. PICK d \in Nat : b = a + d
    <2>1. b - a \in Nat /\ b = a + (b - a)
        OBVIOUS
    <2> QED
        BY <2>1
<1>2. b * D = a * D + d * D /\ d * D \in Nat /\ a * D \in Nat
    BY <1>1
<1> QED
    BY <1>2

\* The content of a part is a piece of the tar.
LEMMA PartIsPiece ==
    ASSUME OnePart \/ ManyParts, Whole(current_tar_offset), current_tar_offset > 0,
           NEW p \in Parts, NEW o \in FirstContent(p)..partContentSize(p) - 1
    PROVE  /\ o \in Nat
           /\ calculateOriginTarOffset(p, o) \in 0..current_tar_offset - 1
           /\ Whole(o) => Whole(calculateOriginTarOffset(p, o))
           /\ \A k \in Nat : calculateOriginTarOffset(p, o + k)
                               = calculateOriginTarOffset(p, o) + k
<1> DEFINE total == current_tar_offset
           num == layout.num_parts
           last == layout.last_part_size
           D == split - header
<1>1. total \in Nat
    BY DEF Whole
<1>2. p \in Nat /\ o \in Nat /\ num \in Nat /\ p < num
    BY PartFacts
<1>3. CASE OnePart
    BY <1>1, <1>2, <1>3 DEF OnePart, Parts, FirstContent, partContentSize,
                            calculateOriginTarOffset
<1>4. CASE ManyParts
    <2>1. /\ num >= 2 /\ split \in Nat /\ Whole(split) /\ Whole(header) /\ header \in Nat
          /\ header < split /\ last \in Nat /\ header < last /\ last <= split
          /\ total = (last - header) + split + (num - 2) * D
        BY <1>4, WholeBlocks DEF ManyParts, Whole
    <2>2. D \in Nat /\ D > 0 /\ (num - 2) * D \in Nat
        <3>1. D \in Nat /\ D > 0 /\ num - 2 \in Nat
            BY <1>2, <2>1
        <3> HIDE DEF D
        <3> QED
            BY <3>1
    <2>3. CASE p = 0
        <3>1. partContentSize(p) = split
            BY <1>4, <2>1, <2>3 DEF partContentSize, ManyParts
        <3>2. split <= total
            <4> HIDE DEF D
            <4> QED BY <1>1, <2>1, <2>2
        <3> QED
            BY <1>1, <1>2, <2>1, <2>3, <3>1, <3>2 DEF FirstContent, calculateOriginTarOffset
    <2>4. CASE p # 0
        <3> DEFINE r == o - header
                   q == p - 1
        <3>1. r \in Nat /\ q \in Nat /\ q <= num - 2
            BY <1>2, <1>4, <2>1, <2>4 DEF FirstContent, ManyParts
        <3>2. \A k \in Nat : calculateOriginTarOffset(p, o + k) = r + k + split + q * D
            <4>1. ASSUME NEW k \in Nat
                  PROVE  calculateOriginTarOffset(p, o + k) = (o + k - header) + split + q * D
                BY <1>4, <2>4 DEF calculateOriginTarOffset, ManyParts
            <4>2. ASSUME NEW k \in Nat PROVE o + k - header = r + k
                BY <1>2, <2>1
            <4> QED
                BY <4>1, <4>2
        <3>3. calculateOriginTarOffset(p, o) = r + split + q * D
            BY <1>4, <2>4 DEF calculateOriginTarOffset, ManyParts
        <3>4. q * D \in Nat
            <4> HIDE DEF D, q
            <4> QED BY <2>2, <3>1
        <3>5. r + split + q * D < total
            <4>1. CASE p = num - 1
                <5>1. q = num - 2 /\ partContentSize(p) = last /\ r < last - header
                    BY <1>2, <2>1, <4>1 DEF partContentSize
                <5> HIDE DEF D, q, r
                <5> QED
                    BY <1>1, <2>1, <2>2, <3>1, <5>1
            <4>2. CASE p # num - 1
                <5>1. q + 1 <= num - 2 /\ num - 2 \in Nat /\ r < D
                    BY <1>2, <1>4, <2>1, <4>2 DEF partContentSize, ManyParts
                <5> HIDE DEF D, q, r
                <5>2. (q + 1) * D <= (num - 2) * D
                    BY <2>2, <3>1, <5>1, TimesMonotone
                <5>3. (q + 1) * D = q * D + D
                    BY <2>2, <3>1
                <5> QED
                    BY <1>1, <2>1, <2>2, <3>1, <3>4, <5>1, <5>2, <5>3
            <4> QED
                BY <4>1, <4>2
        <3>6. ASSUME Whole(o) PROVE Whole(r + split + q * D)
            <4>1. header <= o /\ header <= split
                BY <1>2, <2>1, <3>1
            <4>1a. Whole(r)
                BY <2>1, <3>6, <4>1, WholeDiff
            <4>1b. Whole(D)
                BY <2>1, <4>1, WholeDiff
            <4> HIDE DEF D, q, r
            <4>2. Whole(q * D)
                BY <3>1, <4>1b, WholeTimes
            <4>3. Whole(split + q * D)
                BY <2>1, <4>2, WholeSum
            <4>4. Whole(r + (split + q * D))
                BY <4>1a, <4>3, WholeSum
            <4> QED
                BY <2>1, <3>1, <3>4, <4>4
        <3>7. \A k \in Nat : calculateOriginTarOffset(p, o + k)
                                = calculateOriginTarOffset(p, o) + k
            <4> DEFINE before == q * D
            <4> SUFFICES ASSUME NEW k \in Nat
                         PROVE  calculateOriginTarOffset(p, o + k)
                                  = calculateOriginTarOffset(p, o) + k
                OBVIOUS
            <4>1. calculateOriginTarOffset(p, o + k) = r + k + split + before
                BY <3>2
            <4> HIDE DEF r, before
            <4> QED BY <2>1, <3>1, <3>3, <3>4, <4>1 DEF before
        <3>8. calculateOriginTarOffset(p, o) \in 0..total - 1
            <4> HIDE DEF r, q, D
            <4> QED BY <1>1, <2>1, <3>1, <3>3, <3>4, <3>5
        <3> HIDE DEF r, q, D
        <3> QED
            BY <1>2, <3>3, <3>6, <3>7, <3>8
    <2> QED
        BY <2>3, <2>4
<1> QED
    BY <1>3, <1>4

\* And every offset of the tar is in a part.
LEMMA PieceIsInPart ==
    ASSUME OnePart \/ ManyParts, Whole(current_tar_offset), current_tar_offset > 0,
           NEW x \in 0..current_tar_offset - 1
    PROVE  LET f == findPartContainingOffset(x)
           IN  /\ f.partnr \in Parts
               /\ f.offset \in FirstContent(f.partnr)..partContentSize(f.partnr) - 1
               /\ calculateOriginTarOffset(f.partnr, f.offset) = x
               /\ layout.num_parts = 1 => f = [partnr |-> 0, offset |-> x]
<1> DEFINE total == current_tar_offset
           num == layout.num_parts
           last == layout.last_part_size
           D == split - header
           f == findPartContainingOffset(x)
<1>1. total \in Nat /\ x \in Nat
    BY DEF Whole
<1>2. CASE OnePart
    BY <1>1, <1>2 DEF OnePart, Parts, FirstContent, partContentSize,
                      calculateOriginTarOffset, findPartContainingOffset
<1>3. CASE ManyParts
    <2>1. /\ num \in Nat /\ num >= 2 /\ split \in Nat /\ header \in Nat
          /\ header < split /\ last \in Nat /\ header < last /\ last <= split
          /\ total = (last - header) + split + (num - 2) * D
        BY <1>3, WholeBlocks DEF ManyParts, Whole
    <2>2. CASE x < split
        BY <1>1, <1>3, <2>1, <2>2
           DEF ManyParts, Parts, FirstContent, partContentSize,
               calculateOriginTarOffset, findPartContainingOffset
    <2>3. CASE x >= split
        <3> DEFINE past == x - split
                   q == past \div D
                   r == past % D
                   p == q + 1
                   o == r + header
        <3>1. D \in Nat \ {0} /\ past \in Nat /\ num - 2 \in Nat
            BY <1>1, <2>1, <2>3
        <3>2. f = [partnr |-> p, offset |-> o]
            BY <1>1, <1>3, <2>1, <2>3 DEF findPartContainingOffset, ManyParts
        <3> HIDE DEF past, D
        <3>3. q \in Nat /\ r \in 0..D - 1 /\ past = D * q + r
            BY <3>1
        <3> HIDE DEF q, r
        <3>4. D * q = q * D /\ q * D \in Nat /\ (num - 2) * D \in Nat
            BY <3>1, <3>3
        <3>5. past < (last - header) + (num - 2) * D
            BY <1>1, <2>1, <3>1, <3>4 DEF past
        <3>6. q <= num - 2
            <4> SUFFICES ASSUME num - 1 <= q PROVE FALSE
                BY <2>1, <3>1, <3>3
            <4>1. (num - 1) * D <= q * D
                BY <2>1, <3>1, <3>3, TimesMonotone
            <4>2. (num - 1) * D = (num - 2) * D + D
                BY <2>1, <3>1
            <4>3. last - header <= D
                BY <2>1 DEF D
            <4> QED
                BY <2>1, <3>1, <3>3, <3>4, <3>5, <4>1, <4>2, <4>3
        <3>7. p \in Parts /\ p # 0 /\ p \in Nat
            BY <2>1, <3>3, <3>6 DEF Parts
        <3>8. FirstContent(p) = header
            BY <1>3, <3>7 DEF FirstContent, ManyParts
        <3>9. o < partContentSize(p)
            <4>1. CASE p = num - 1
                <5>1. partContentSize(p) = last /\ q = num - 2
                    BY <2>1, <3>3, <4>1 DEF partContentSize
                <5>2. r < last - header
                    BY <2>1, <3>1, <3>3, <3>4, <3>5, <5>1
                <5> QED
                    BY <2>1, <3>3, <5>1, <5>2, <3>1
            <4>2. CASE p # num - 1
                <5>1. partContentSize(p) = split
                    <6>1. p < num - 1
                        BY <2>1, <3>3, <3>6, <4>2
                    <6> HIDE DEF p
                    <6> QED
                        BY <1>3, <6>1 DEF partContentSize, ManyParts
                <5>2. r < split - header
                    BY <2>1, <3>1, <3>3 DEF D
                <5> QED
                    BY <2>1, <3>3, <5>1, <5>2, <3>1
            <4> QED
                BY <4>1, <4>2
        <3>10. o \in FirstContent(p)..partContentSize(p) - 1
            <4>1. partContentSize(p) \in Nat
                BY <3>7, PartFacts
            <4> QED
                BY <2>1, <3>1, <3>3, <3>8, <3>9, <4>1
        <3>11. calculateOriginTarOffset(p, o) = (o - header) + split + (p - 1) * D
            BY <1>3, <3>7 DEF calculateOriginTarOffset, ManyParts, D
        <3>12. o - header = r /\ p - 1 = q
            BY <2>1, <3>1, <3>3
        <3>13. calculateOriginTarOffset(p, o) = x
            <4>1. r + split + q * D = x
                BY <1>1, <2>1, <3>1, <3>3, <3>4 DEF past
            <4> HIDE DEF o, p
            <4> QED
                BY <3>11, <3>12, <4>1
        <3> HIDE DEF p, o, f
        <3> QED
            BY <2>1, <3>2, <3>7, <3>10, <3>13 DEF f
    <2> QED
        BY <1>1, <2>1, <2>2, <2>3
<1> QED
    BY <1>2, <1>3

-----------------------------------------------------------------------------
(* The tar that is written                                                 *)

\* The entries stay in order as the tar grows.
LEMMA TarGrows == Spec => [](IInv /\ TarInv)
<1>1. Init => TarInv
    BY WholeBlocks DEF Init, TarInv
<1>2. TarInv /\ [Next]_vars => TarInv'
    <2> SUFFICES ASSUME TarInv, [Next]_vars PROVE TarInv'
        OBVIOUS
    <2>1. ASSUME NEW e \in Entries, addEntryLast(e) PROVE TarInv'
        <3> DEFINE cur == current_tar_offset
        <3>0. PICK n \in Nat : n = Len(contents)
            BY DEF TarInv
        <3>1. /\ cur \in Nat /\ Whole(cur)
              /\ contents' = Append(contents, e) /\ contents' \in Seq(Entries)
              /\ offsets' = Append(offsets, cur) /\ offsets' \in Seq(Nat)
              /\ cur' = cur + BlockedSize(e)
              /\ Len(contents') = n + 1 /\ Len(offsets') = n + 1
            BY <2>1, <3>0 DEF addEntryLast, TarInv, Whole
        <3>2. /\ contents'[n + 1] = e /\ offsets'[n + 1] = cur
              /\ \A i \in 1..n : contents'[i] = contents[i] /\ offsets'[i] = offsets[i]
            BY <3>0, <3>1 DEF TarInv
        <3>3. /\ Whole(BlockedSize(e)) /\ BlockedSize(e) \in Nat
              /\ Whole(cur') /\ cur' \in Nat /\ cur <= cur'
            <4>1. Whole(BlockedSize(e)) /\ BlockedSize(e) \in Nat
                BY EntrySizes
            <4>2. Whole(cur + BlockedSize(e))
                BY <3>1, <4>1, WholeSum
            <4> QED
                BY <3>1, <4>1, <4>2
        <3>4. /\ End(n + 1)' = cur'
              /\ \A i \in 1..n : End(i)' = End(i)
            BY <3>1, <3>2 DEF End
        <3>5. /\ \A i \in 1..n : End(i) \in Nat /\ offsets[i] \in Nat
              /\ \A i \in 1..n + 1 : i = n + 1 \/ i \in 1..n
            <4>1. ASSUME NEW i \in 1..n PROVE End(i) \in Nat /\ offsets[i] \in Nat
                <5>1. contents[i] \in Entries /\ offsets[i] \in Nat
                    BY <3>0 DEF TarInv
                <5> QED
                    BY <5>1, EntrySizes DEF End
            <4> QED
                BY <4>1
        <3>6. \A i \in 1..n + 1 : Whole(offsets'[i]) /\ End(i)' <= cur'
            <4> SUFFICES ASSUME NEW i \in 1..n + 1 PROVE Whole(offsets'[i]) /\ End(i)' <= cur'
                OBVIOUS
            <4>1. CASE i = n + 1
                BY <3>1, <3>2, <3>3, <3>4, <4>1
            <4>2. CASE i \in 1..n
                <5>1. Whole(offsets[i]) /\ End(i) <= cur /\ End(i) \in Nat
                    BY <3>0, <3>5, <4>2 DEF TarInv
                <5> QED
                    BY <3>1, <3>2, <3>3, <3>4, <4>2, <5>1
            <4> QED
                BY <3>5, <4>1, <4>2
        <3>7. ASSUME NEW i \in 1..n + 1, NEW j \in 1..n + 1, i < j
              PROVE  End(i)' <= offsets'[j]
            <4>1. i \in 1..n
                BY <3>7
            <4>2. CASE j = n + 1
                BY <3>0, <3>2, <3>4, <4>1, <4>2 DEF TarInv
            <4>3. CASE j \in 1..n
                BY <3>0, <3>2, <3>4, <3>7, <4>1, <4>3 DEF TarInv
            <4> QED
                BY <3>5, <4>2, <4>3
        <3>8. ASSUME NEW x \in 0..cur' - 1
              PROVE  \E i \in 1..n + 1 : offsets'[i] <= x /\ x < End(i)'
            <4>1. CASE x < cur
                <5>1. x \in 0..cur - 1
                    BY <3>1, <3>3, <4>1
                <5>2. PICK i \in 1..n : offsets[i] <= x /\ x < End(i)
                    BY <3>0, <5>1 DEF TarInv
                <5>3. i \in 1..n + 1
                    OBVIOUS
                <5> QED
                    BY <3>2, <3>4, <5>2, <5>3
            <4>2. CASE x >= cur
                <5>1. n + 1 \in 1..n + 1 /\ x < cur'
                    BY <3>1, <3>3
                <5> QED
                    BY <3>2, <3>4, <4>2, <5>1
            <4>3. x < cur \/ x >= cur
                BY <3>1, <3>3
            <4> QED
                BY <4>1, <4>2, <4>3
        <3> QED
            BY <3>1, <3>3, <3>6, <3>7, <3>8 DEF TarInv
    <2>2. CASE UNCHANGED <<contents, offsets, current_tar_offset>>
        BY <2>2 DEF TarInv, End
    <2>3. CASE FixSize
        BY <2>2, <2>3 DEF FixSize
    <2>4. CASE WriteStep
        BY <2>2, <2>4 DEF WriteStep, AcquireBytes, CopyPartHeader, CopyEntry, CopyFails,
                          CopyPadding, WriteBytes, NextPart, EndWrite, tarVars
    <2>5. CASE StartRead
        BY <2>2, <2>5 DEF StartRead, tarVars
    <2>6. CASE ReadStep
        BY <2>2, <2>6 DEF ReadStep, ReadPart, EndRead, tarVars
    <2>7. CASE Readability \/ UNCHANGED vars
        BY <2>2, <2>7 DEF vars, tarVars, Readability
    <2> QED
        BY <2>1, <2>3, <2>4, <2>5, <2>6, <2>7 DEF Next
<1> QED
    BY <1>1, <1>2, LayoutIsFixed, PTL DEF Spec

\* A tar has entries with headers, or entries without.
HeadersInv == \A i \in 1..Len(contents) : contents[i].header = 0 <=> header = 0

\* No entry is added that does not fit the others.
LEMMA HeadersAreAlike == Spec => [](TarInv /\ HeadersInv)
<1>1. Init => HeadersInv
    BY DEF Init, HeadersInv
<1>2. TarInv /\ HeadersInv /\ [Next]_vars => HeadersInv'
    <2> SUFFICES ASSUME TarInv, HeadersInv, [Next]_vars PROVE HeadersInv'
        OBVIOUS
    <2>1. ASSUME NEW e \in Entries, addEntryLast(e) PROVE HeadersInv'
        <3>0. PICK n \in Nat : n = Len(contents)
            BY DEF TarInv
        <3>1. /\ contents' = Append(contents, e) /\ header' = header
              /\ (e.header = 0) <=> (header = 0)
            BY <2>1 DEF addEntryLast, optionVars
        <3>2. /\ Len(contents') = n + 1 /\ contents'[n + 1] = e
              /\ \A i \in 1..n : contents'[i] = contents[i]
            BY <3>0, <3>1 DEF TarInv
        <3>3. \A i \in 1..n + 1 : i = n + 1 \/ i \in 1..n
            OBVIOUS
        <3> QED
            BY <3>0, <3>1, <3>2, <3>3 DEF HeadersInv
    <2>2. CASE UNCHANGED <<optionVars, contents>>
        BY <2>2 DEF HeadersInv, optionVars
    <2>3. CASE FixSize \/ WriteStep \/ StartRead \/ ReadStep \/ Readability \/ UNCHANGED vars
        BY <2>2, <2>3
           DEF FixSize, WriteStep, AcquireBytes, CopyPartHeader, CopyEntry, CopyFails,
               CopyPadding, WriteBytes, NextPart, EndWrite, StartRead, ReadStep, ReadPart,
               EndRead, Readability, tarVars, vars
    <2> QED
        BY <2>1, <2>3 DEF Next
<1> QED
    BY <1>1, <1>2, TarGrows, PTL DEF Spec

-----------------------------------------------------------------------------
(* The parts that are written                                              *)

\* The byte of a part at an offset: its multivolume header, then the tar.
PartByte(p, o) ==
    IF p > 0 /\ o < layout.part_header_size THEN <<"multivol", p, o>>
    ELSE IF o < partContentSize(p) THEN TarByte(calculateOriginTarOffset(p, o))
    ELSE Zero

\* A part is written a whole block at a time, as far as its content goes.
UpTo(n, p) == n \in Nat /\ n <= diskSize(p) /\ (Whole(n) \/ n >= partContentSize(p))

StorageInv ==
    /\ pc \in {"add", "write", "copy", "idle", "read"}
    /\ storage \in Seq(Seq(AnyByte)) /\ Len(storage) > 0
    /\ buf \in Seq(AnyByte)
    /\ pc = "add" => storage = << << >> >>
    /\ pc # "add" =>
        /\ partnr \in Parts
        /\ \A p \in 0..partnr : \A o \in 1..Len(storage[p + 1]) :
              storage[p + 1][o] = PartByte(p, o - 1)
        /\ \A p \in 0..partnr - 1 : Len(storage[p + 1]) = diskSize(p)
        /\ UpTo(Len(Written), partnr)

\* The buffer continues the part.
CopyInv ==
    /\ pc \notin {"copy", "read"} => buf = << >>
    /\ pc = "copy" =>
        /\ want \in Nat
        /\ from = Len(Written) + Len(buf)
        /\ UpTo(from, partnr) /\ UpTo(from + want, partnr)
        /\ \A k \in 1..Len(buf) : buf[k] = PartByte(partnr, Len(Written) + k - 1)

\* The parts are complete when they are read; the reader is in the file.
ReadInv ==
    /\ pc \in {"idle", "read"} =>
        partnr = layout.num_parts - 1 /\ Len(Written) = diskSize(partnr)
    /\ pc = "read" =>
        /\ file \in 1..Len(contents) /\ start \in Nat /\ want \in Nat
        /\ start + Len(buf) + want <= contents[file].size
        /\ from = offsets[file] + contents[file].header + start + Len(buf)
        /\ \A k \in 1..Len(buf) : buf[k] = <<"content", file, start + k - 1>>

BytesInv == StorageInv /\ CopyInv /\ ReadInv

\* Padding never cuts.
LEMMA DiskSizes ==
    ASSUME NEW n \in Nat
    PROVE  onDiskSize(n) \in Nat /\ n <= onDiskSize(n)
<1>1. onDiskSize(n) = IF n = 0 \/ padding = "None" THEN n
                      ELSE IF padding = "Absolute" /\ n <= TargetSize THEN TargetSize
                      ELSE RoundUp(n, DiskUnit)
    BY DEF onDiskSize
<1>2. RoundUp(n, DiskUnit) \in Nat /\ n <= RoundUp(n, DiskUnit)
    BY RoundUpBounds, DiskUnitAssumption
<1> QED
    BY <1>1, <1>2, TargetSizeAssumption

\* Once the layout is fixed, the bytes of the parts are, too.
LEMMA Stable ==
    ASSUME UNCHANGED <<optionVars, tarVars>>
    PROVE  /\ Parts' = Parts
           /\ \A p : partContentSize(p)' = partContentSize(p) /\ diskSize(p)' = diskSize(p)
           /\ \A p, o : PartByte(p, o)' = PartByte(p, o)
           /\ \A n, p : UpTo(n, p)' <=> UpTo(n, p)
<1> USE DEF optionVars, tarVars
<1>1. Parts' = Parts
    BY DEF Parts
<1>2. \A p : partContentSize(p)' = partContentSize(p)
    BY DEF partContentSize
<1>3. \A p : diskSize(p)' = diskSize(p)
    BY <1>2 DEF diskSize, onDiskSize, partContentSize
<1>4. \A p, o : calculateOriginTarOffset(p, o)' = calculateOriginTarOffset(p, o)
    BY DEF calculateOriginTarOffset
<1>5. \A x : findTarEntry(x)' = findTarEntry(x)
    BY DEF findTarEntry
<1>6. \A x : TarByte(x)' = TarByte(x)
    BY DEF TarByte, EntryByte, findTarEntry
<1>7. \A p, o : PartByte(p, o)' = PartByte(p, o)
    BY DEF PartByte, TarByte, EntryByte, findTarEntry, partContentSize,
           calculateOriginTarOffset
<1>8. \A n, p : UpTo(n, p)' <=> UpTo(n, p)
    BY DEF UpTo, diskSize, onDiskSize, partContentSize
<1> QED
    BY <1>1, <1>2, <1>3, <1>7, <1>8

\* What is delivered continues the buffer.
LEMMA Delivered ==
    ASSUME buf \in Seq(AnyByte), from \in Nat, want \in Nat,
           NEW bytes \in Seq(AnyByte), Len(bytes) <= want, Deliver(bytes)
    PROVE  /\ buf' \in Seq(AnyByte) /\ Len(buf') = Len(buf) + Len(bytes)
           /\ from' = from + Len(bytes) /\ from' \in Nat
           /\ want' \in Nat /\ from' + want' = from + want
           /\ \A k \in 1..Len(buf') :
                 buf'[k] = IF k <= Len(buf) THEN buf[k] ELSE bytes[k - Len(buf)]
<1>1. buf' = buf \o bytes /\ from' = from + Len(bytes) /\ want' = want - Len(bytes)
    BY DEF Deliver
<1>2. Len(bytes) \in Nat
    OBVIOUS
<1>3. /\ buf' \in Seq(AnyByte) /\ Len(buf') = Len(buf) + Len(bytes)
      /\ \A k \in 1..Len(buf') :
            buf'[k] = IF k <= Len(buf) THEN buf[k] ELSE bytes[k - Len(buf)]
    BY <1>1
<1>4. from' \in Nat /\ want' \in Nat /\ from' + want' = from + want
    BY <1>1, <1>2
<1> QED
    BY <1>1, <1>3, <1>4

\* A part is as long on the disk as its content, or longer.
LEMMA SizesOfParts ==
    ASSUME OnePart \/ ManyParts, Whole(current_tar_offset), current_tar_offset > 0,
           NEW p \in Parts
    PROVE  diskSize(p) \in Nat /\ partContentSize(p) <= diskSize(p)
BY PartFacts, DiskSizes DEF diskSize

\* What the invariants say of the state while the tar is written and read.
Facts ==
    /\ TarInv /\ (OnePart \/ ManyParts)
    /\ Whole(current_tar_offset) /\ current_tar_offset > 0

\* They hold as soon as the layout is fixed.
LEMMA FactsHold ==
    ASSUME IInv, TarInv, pc # "add"
    PROVE  Facts
BY OneOrMany DEF Facts, IInv, TarInv

\* Bytes that continue the buffer as the part goes on.
LEMMA CopyStep ==
    ASSUME Facts, BytesInv, pc = "copy", NEW bytes \in Seq(AnyByte), Deliver(bytes),
           Len(bytes) <= want, UpTo(from + Len(bytes), partnr),
           \A k \in 1..Len(bytes) : bytes[k] = PartByte(partnr, from + k - 1),
           UNCHANGED <<optionVars, tarVars, storage, pc, readVars>>
    PROVE  BytesInv'
<1> USE DEF BytesInv
<1>1. /\ Parts' = Parts
      /\ \A p : partContentSize(p)' = partContentSize(p) /\ diskSize(p)' = diskSize(p)
      /\ \A p, o : PartByte(p, o)' = PartByte(p, o)
      /\ \A n, p : UpTo(n, p)' <=> UpTo(n, p)
    BY Stable
<1>2. storage' = storage /\ pc' = "copy" /\ partnr' = partnr /\ Written' = Written
    BY DEF partnr, Written
<1>3. /\ want \in Nat /\ from \in Nat /\ buf \in Seq(AnyByte)
      /\ from = Len(Written) + Len(buf) /\ UpTo(from + want, partnr)
      /\ \A k \in 1..Len(buf) : buf[k] = PartByte(partnr, Len(Written) + k - 1)
    BY DEF CopyInv, StorageInv, UpTo
<1>4. /\ buf' \in Seq(AnyByte) /\ Len(buf') = Len(buf) + Len(bytes)
      /\ from' = from + Len(bytes) /\ from' \in Nat
      /\ want' \in Nat /\ from' + want' = from + want
      /\ \A k \in 1..Len(buf') :
            buf'[k] = IF k <= Len(buf) THEN buf[k] ELSE bytes[k - Len(buf)]
    BY <1>3, Delivered
<1>5. Len(buf) \in Nat /\ Len(bytes) \in Nat
    BY <1>3
<1>6. Len(Written) \in Nat
    BY DEF StorageInv, UpTo
<1>7. ASSUME NEW k \in 1..Len(buf')
      PROVE  buf'[k] = PartByte(partnr, Len(Written) + k - 1)
    <2>1. CASE k <= Len(buf)
        <3>1. k \in 1..Len(buf)
            BY <1>4, <1>5, <2>1
        <3> QED
            BY <1>3, <1>4, <2>1, <3>1
    <2>2. CASE k > Len(buf)
        <3> DEFINE j == k - Len(buf)
        <3>1. j \in 1..Len(bytes) /\ from + j - 1 = Len(Written) + k - 1
            BY <1>3, <1>4, <1>5, <1>6, <2>2
        <3>2. buf'[k] = bytes[j]
            BY <1>4, <1>5, <2>2
        <3> HIDE DEF j
        <3> QED
            BY <3>1, <3>2
    <2> QED
        BY <1>4, <1>5, <2>1, <2>2
<1>8. CopyInv'
    <2>1. from' = Len(Written)' + Len(buf')
        BY <1>2, <1>3, <1>4, <1>5, <1>6
    <2>2. UpTo(from, partnr)' /\ UpTo(from + want, partnr)'
        BY <1>1, <1>2, <1>3, <1>4
    <2>3. \A k \in 1..Len(buf') : buf'[k] = PartByte(partnr, Len(Written) + k - 1)'
        BY <1>1, <1>2, <1>7
    <2> QED
        BY <1>2, <1>4, <2>1, <2>2, <2>3 DEF CopyInv
<1>9. StorageInv'
    BY <1>1, <1>2, <1>4 DEF StorageInv
<1>10. ReadInv'
    BY <1>2 DEF ReadInv
<1> QED
    BY <1>8, <1>9, <1>10

\* createFile asks for whole blocks, or for all that is left of the part.
LEMMA AcquireStep ==
    ASSUME Facts, BytesInv, AcquireBytes
    PROVE  BytesInv'
<1> USE DEF BytesInv, AcquireBytes
<1>1. /\ Parts' = Parts
      /\ \A p : partContentSize(p)' = partContentSize(p) /\ diskSize(p)' = diskSize(p)
      /\ \A p, o : PartByte(p, o)' = PartByte(p, o)
      /\ \A n, p : UpTo(n, p)' <=> UpTo(n, p)
    BY Stable
<1>2. /\ storage' = storage /\ partnr' = partnr /\ Written' = Written
      /\ pc = "write" /\ pc' = "copy" /\ buf' = << >> /\ from' = Len(Written)
      /\ want' = Least(diskSize(partnr) - Len(Written), BufferSize)
      /\ Len(Written) < diskSize(partnr)
    BY DEF partnr, Written
<1>3. partnr \in Parts /\ UpTo(Len(Written), partnr) /\ Len(Written) \in Nat
    BY <1>2 DEF StorageInv, UpTo
<1>4. /\ diskSize(partnr) \in Nat /\ partContentSize(partnr) \in Nat
      /\ partContentSize(partnr) <= diskSize(partnr)
    BY <1>3, SizesOfParts, PartFacts DEF Facts
<1>5. Whole(BufferSize) /\ BufferSize \in Nat
    BY BufferSizeAssumption DEF Whole
<1>6. want' \in Nat /\ UpTo(from' + want', partnr)
    <2> DEFINE n == Len(Written)
               disk == diskSize(partnr)
    <2>1. n \in Nat /\ disk \in Nat /\ n < disk
        BY <1>2, <1>3, <1>4
    <2> HIDE DEF n, disk
    <2>2. CASE disk - n < BufferSize
        <3>1. want' = disk - n /\ from' + want' = disk /\ want' \in Nat
            BY <1>2, <2>1, <2>2 DEF Least, n, disk
        <3> QED
            BY <1>4, <3>1 DEF UpTo, disk
    <2>3. CASE ~(disk - n < BufferSize)
        <3>1. /\ want' = BufferSize /\ from' + want' = n + BufferSize
              /\ n + BufferSize \in Nat /\ n + BufferSize <= disk
            BY <1>2, <1>5, <2>1, <2>3 DEF Least, n, disk
        <3>2. Whole(n) => Whole(n + BufferSize)
            BY <1>5, WholeSum
        <3>3. n >= partContentSize(partnr) => n + BufferSize >= partContentSize(partnr)
            BY <1>4, <1>5, <2>1
        <3> QED
            BY <1>3, <1>5, <3>1, <3>2, <3>3 DEF UpTo, n, disk
    <2> QED
        BY <2>2, <2>3
<1>7. CopyInv'
    <2>1. from' = Len(Written') + Len(buf')
        BY <1>2, <1>3
    <2> QED
        BY <1>1, <1>2, <1>3, <1>6, <2>1 DEF CopyInv
<1>8. StorageInv'
    BY <1>1, <1>2 DEF StorageInv
<1>9. ReadInv'
    BY <1>2 DEF ReadInv
<1> QED
    BY <1>7, <1>8, <1>9

\* Where the writer is in its part.
LEMMA WriterIs ==
    ASSUME Facts, BytesInv, pc = "copy"
    PROVE  /\ partnr \in Parts /\ partnr \in Nat
           /\ from \in Nat /\ want \in Nat /\ UpTo(from, partnr) /\ UpTo(from + want, partnr)
           /\ layout.part_header_size \in {0, Block}
           /\ FirstContent(partnr) \in Nat
           /\ FirstContent(partnr) < partContentSize(partnr)
           /\ partnr > 0 => FirstContent(partnr) = layout.part_header_size
           /\ partContentSize(partnr) \in Nat /\ Whole(partContentSize(partnr))
           /\ diskSize(partnr) \in Nat /\ partContentSize(partnr) <= diskSize(partnr)
<1>1. /\ partnr \in Parts
      /\ want \in Nat /\ UpTo(from, partnr) /\ UpTo(from + want, partnr)
    BY DEF BytesInv, StorageInv, CopyInv
<1>2. from \in Nat
    BY <1>1 DEF UpTo
<1>3. layout.part_header_size \in {0, Block}
    BY DEF Facts, OnePart, ManyParts
<1>4. partnr > 0 => FirstContent(partnr) = layout.part_header_size
    BY <1>1, PartFacts DEF FirstContent, Facts
<1> QED
    BY <1>1, <1>2, <1>3, <1>4, PartFacts, SizesOfParts DEF Facts

\* A multivolume header is delivered whole, at the beginning of its part.
LEMMA HeaderStep ==
    ASSUME Facts, BytesInv, CopyPartHeader
    PROVE  BytesInv'
<1> DEFINE n == Least(want, layout.part_header_size - from)
           bytes == Bytes("multivol", partnr, from, n)
<1>1. /\ pc = "copy" /\ want > 0 /\ partnr > 0 /\ from < layout.part_header_size
      /\ Deliver(bytes)
      /\ UNCHANGED <<optionVars, tarVars, storage, pc, readVars>>
    BY DEF CopyPartHeader
<1>2. /\ partnr \in Parts /\ partnr \in Nat /\ from \in Nat /\ want \in Nat
      /\ UpTo(from, partnr) /\ UpTo(from + want, partnr)
      /\ layout.part_header_size = Block /\ Block < partContentSize(partnr)
      /\ partContentSize(partnr) \in Nat
      /\ diskSize(partnr) \in Nat /\ partContentSize(partnr) <= diskSize(partnr)
    BY <1>1, WriterIs
<1>3. Block \in Nat \ {0} /\ Whole(Block) /\ Whole(0)
    BY BlockAssumption, WholeBlocks
<1>4. from = 0
    <2>1. Whole(from)
        BY <1>1, <1>2, <1>3 DEF UpTo
    <2>2. ~(0 < from)
        <3> SUFFICES ASSUME 0 < from PROVE FALSE
            OBVIOUS
        <3>1. 0 + Block <= from
            BY <1>3, <2>1, WholeNext
        <3> QED
            BY <1>1, <1>2, <1>3, <3>1
    <2> QED
        BY <1>2, <2>2
<1>5. Block <= want
    <2>1. CASE Whole(want)
        <3>1. 0 + Block <= want
            BY <1>1, <1>3, <2>1, WholeNext
        <3> QED
            BY <1>2, <1>3, <3>1
    <2>2. CASE want >= partContentSize(partnr)
        BY <1>2, <1>3, <2>2
    <2>3. from + want = want
        BY <1>2, <1>4
    <2> QED
        BY <1>2, <2>1, <2>2, <2>3 DEF UpTo
<1>6. n = Block
    BY <1>2, <1>3, <1>4, <1>5 DEF Least
<1> HIDE DEF n
<1>7. IsBytes(bytes, "multivol", partnr, from, n)
    BY <1>2, <1>3, <1>6, BytesAre
<1> HIDE DEF bytes
<1>8. /\ bytes \in Seq(AnyByte) /\ Len(bytes) = Block /\ from + Len(bytes) = Block
      /\ \A k \in 1..Len(bytes) : bytes[k] = <<"multivol", partnr, from + k - 1>>
    BY <1>3, <1>4, <1>6, <1>7 DEF IsBytes
<1>9. ASSUME NEW k \in 1..Len(bytes)
      PROVE  bytes[k] = PartByte(partnr, from + k - 1)
    <2>1. from + k - 1 < layout.part_header_size
        BY <1>2, <1>3, <1>4, <1>8
    <2> QED
        BY <1>1, <1>8, <2>1 DEF PartByte
<1>10. UpTo(from + Len(bytes), partnr)
    BY <1>2, <1>3, <1>8 DEF UpTo
<1>11. Len(bytes) <= want
    BY <1>5, <1>8
<1> QED
    BY <1>1, <1>8, <1>9, <1>10, <1>11, CopyStep

\* What TarEntry::copy delivers is what the tar has there.
LEMMA EntryStep ==
    ASSUME Facts, BytesInv, CopyEntry
    PROVE  BytesInv'
<1> DEFINE c == partContentSize(partnr)
           x == calculateOriginTarOffset(partnr, from)
           i == findTarEntry(x)
           n == Least(want, c - from)
           bytes == copy(i, n, x - offsets[i])
<1>1. /\ pc = "copy" /\ want > 0
      /\ ~(partnr > 0 /\ from < layout.part_header_size) /\ from < c
      /\ Deliver(bytes)
      /\ UNCHANGED <<optionVars, tarVars, storage, pc, readVars>>
    BY DEF CopyEntry
<1>2. /\ partnr \in Parts /\ partnr \in Nat /\ from \in Nat /\ want \in Nat
      /\ UpTo(from, partnr) /\ UpTo(from + want, partnr)
      /\ layout.part_header_size \in {0, Block} /\ Block \in Nat
      /\ FirstContent(partnr) \in Nat
      /\ partnr > 0 => FirstContent(partnr) = layout.part_header_size
      /\ c \in Nat /\ Whole(c)
      /\ diskSize(partnr) \in Nat /\ c <= diskSize(partnr)
    BY <1>1, WriterIs, BlockAssumption
<1>3. from \in FirstContent(partnr)..c - 1
    <2>1. partnr = 0 => FirstContent(partnr) = 0
        BY DEF FirstContent
    <2> HIDE DEF c
    <2> QED
        BY <1>1, <1>2, <2>1
<1>4. Whole(from)
    BY <1>1, <1>2 DEF UpTo
<1>5. /\ x \in 0..current_tar_offset - 1 /\ Whole(x) /\ x \in Nat
      /\ \A k \in Nat : calculateOriginTarOffset(partnr, from + k) = x + k
    BY <1>2, <1>3, <1>4, PartIsPiece DEF Facts
<1>6. n \in Nat /\ n <= want /\ n <= c - from /\ (n = want \/ n = c - from)
    <2> HIDE DEF c
    <2> QED BY <1>1, <1>2 DEF Least
<1> HIDE DEF c, x, n
<1>7. /\ bytes \in Seq(AnyByte) /\ Len(bytes) <= n
      /\ Len(bytes) = n \/ Whole(x + Len(bytes))
      /\ \A k \in 1..Len(bytes) : bytes[k] = TarByte(x + k - 1)
    BY <1>5, <1>6, TarIsCopied DEF Facts
<1> HIDE DEF i, bytes
<1>8. Len(bytes) \in Nat /\ Len(bytes) <= want /\ from + Len(bytes) <= c
    BY <1>1, <1>2, <1>6, <1>7
<1>9. ASSUME NEW k \in 1..Len(bytes)
      PROVE  bytes[k] = PartByte(partnr, from + k - 1)
    <2> DEFINE j == k - 1
               o == from + j
    <2>1. j \in Nat /\ o \in Nat /\ o < c /\ from <= o
        BY <1>2, <1>8
    <2>2. ~(partnr > 0 /\ o < layout.part_header_size)
        BY <1>1, <1>2, <2>1
    <2>3. calculateOriginTarOffset(partnr, o) = x + j
        BY <1>5, <2>1
    <2>4. bytes[k] = TarByte(x + j) /\ from + k - 1 = o
        <3>1. x + k - 1 = x + j /\ from + k - 1 = o
            BY <1>2, <1>5
        <3> QED
            BY <1>7, <3>1
    <2> HIDE DEF o, j
    <2> QED
        BY <2>1, <2>2, <2>3, <2>4 DEF PartByte, c
<1>10. UpTo(from + Len(bytes), partnr)
    <2>1. from + Len(bytes) \in Nat /\ from + Len(bytes) <= diskSize(partnr)
        BY <1>2, <1>8
    <2>2. CASE Len(bytes) = n /\ n = want
        BY <1>2, <2>2
    <2>3. CASE Len(bytes) = n /\ n = c - from
        <3>1. from + Len(bytes) = c
            BY <1>2, <2>3
        <3> QED
            BY <1>2, <2>1, <3>1 DEF UpTo, c
    <2>4. CASE Whole(x + Len(bytes))
        <3>1. x <= x + Len(bytes) /\ (x + Len(bytes)) - x = Len(bytes)
            BY <1>5, <1>8
        <3>2. Whole((x + Len(bytes)) - x)
            BY <1>5, <2>4, <3>1, WholeDiff
        <3>3. Whole(from + Len(bytes))
            BY <1>4, <3>1, <3>2, WholeSum
        <3> QED
            BY <2>1, <3>3 DEF UpTo
    <2> QED
        BY <1>6, <1>7, <2>2, <2>3, <2>4
<1> QED
    BY <1>1, <1>7, <1>8, <1>9, <1>10, CopyStep

\* Behind the content there is only padding.
LEMMA PaddingStep ==
    ASSUME Facts, BytesInv, CopyPadding
    PROVE  BytesInv'
<1> DEFINE c == partContentSize(partnr)
           disk == diskSize(partnr)
           n == Least(want, disk - from)
           bytes == Zeros(n)
<1>1. /\ pc = "copy" /\ want > 0
      /\ ~(partnr > 0 /\ from < layout.part_header_size) /\ from >= c /\ from < disk
      /\ Deliver(bytes)
      /\ UNCHANGED <<optionVars, tarVars, storage, pc, readVars>>
    BY DEF CopyPadding
<1>2. /\ partnr \in Parts /\ partnr \in Nat /\ from \in Nat /\ want \in Nat
      /\ layout.part_header_size \in {0, Block} /\ Block \in Nat
      /\ c \in Nat /\ disk \in Nat
    BY <1>1, WriterIs, BlockAssumption
<1> HIDE DEF c, disk
<1>3. n \in Nat /\ n <= want /\ from + n <= disk
    BY <1>1, <1>2 DEF Least
<1> HIDE DEF n
<1>4. /\ bytes \in Seq(AnyByte) /\ Len(bytes) = n
      /\ \A k \in 1..n : bytes[k] = Zero
    BY <1>3, ZerosAre
<1> HIDE DEF bytes
<1>5. ASSUME NEW k \in 1..Len(bytes)
      PROVE  bytes[k] = PartByte(partnr, from + k - 1)
    <2> DEFINE o == from + k - 1
    <2>1. o \in Nat /\ from <= o
        BY <1>2, <1>3, <1>4
    <2> HIDE DEF o
    <2>2. ~(partnr > 0 /\ o < layout.part_header_size) /\ ~(o < c)
        BY <1>1, <1>2, <2>1
    <2>3. PartByte(partnr, o) = Zero
        BY <2>2 DEF PartByte, c
    <2> QED
        BY <1>4, <2>3 DEF o
<1>6. UpTo(from + Len(bytes), partnr)
    BY <1>1, <1>2, <1>3, <1>4 DEF UpTo, c, disk
<1> QED
    BY <1>1, <1>3, <1>4, <1>5, <1>6, CopyStep

\* The full buffer is appended to the part.
LEMMA WriteStepKept ==
    ASSUME Facts, BytesInv, WriteBytes
    PROVE  BytesInv'
<1> USE DEF BytesInv
<1>1. /\ pc = "copy" /\ want = 0 /\ pc' = "write" /\ buf' = << >>
      /\ storage' = [storage EXCEPT ![Len(storage)] = @ \o buf]
      /\ UNCHANGED <<optionVars, tarVars>>
    BY DEF WriteBytes
<1>2. /\ Parts' = Parts
      /\ \A p : partContentSize(p)' = partContentSize(p) /\ diskSize(p)' = diskSize(p)
      /\ \A p, o : PartByte(p, o)' = PartByte(p, o)
      /\ \A n, p : UpTo(n, p)' <=> UpTo(n, p)
    BY <1>1, Stable
<1>3. PICK s \in Nat : s = Len(storage)
    BY DEF StorageInv
<1>4. /\ storage \in Seq(Seq(AnyByte)) /\ s > 0 /\ buf \in Seq(AnyByte)
      /\ partnr = s - 1 /\ Written = storage[s] /\ storage[s] \in Seq(AnyByte)
    BY <1>3 DEF StorageInv, partnr, Written
<1>5. /\ storage' \in Seq(Seq(AnyByte)) /\ Len(storage') = s
      /\ storage'[s] = storage[s] \o buf
      /\ \A p \in 1..s : p # s => storage'[p] = storage[p]
    <2>1. storage[s] \o buf \in Seq(AnyByte)
        BY <1>4
    <2> QED
        BY <1>1, <1>3, <1>4, <2>1
<1>6. partnr' = partnr /\ Written' = storage[s] \o buf
    BY <1>3, <1>4, <1>5 DEF partnr, Written
<1>7. /\ from = Len(Written) + Len(buf) /\ UpTo(from, partnr)
      /\ \A k \in 1..Len(buf) : buf[k] = PartByte(partnr, Len(Written) + k - 1)
    BY <1>1 DEF CopyInv
<1>8. /\ Len(Written') = from /\ Len(Written) \in Nat /\ Len(buf) \in Nat
      /\ \A o \in 1..from : Written'[o] = IF o <= Len(Written) THEN Written[o]
                                          ELSE buf[o - Len(Written)]
    BY <1>4, <1>6, <1>7
<1>9. /\ partnr \in Parts
      /\ \A p \in 0..partnr : \A o \in 1..Len(storage[p + 1]) :
            storage[p + 1][o] = PartByte(p, o - 1)
      /\ \A p \in 0..partnr - 1 : Len(storage[p + 1]) = diskSize(p)
    BY <1>1 DEF StorageInv
<1>10. ASSUME NEW o \in 1..from PROVE Written'[o] = PartByte(partnr, o - 1)
    <2>1. CASE o <= Len(Written)
        <3>1. Written[o] = PartByte(partnr, o - 1)
            <4>1. partnr \in 0..partnr /\ partnr + 1 = s
                BY <1>4
            <4>2. o \in 1..Len(storage[partnr + 1])
                BY <1>4, <1>8, <2>1, <4>1
            <4> QED
                BY <1>4, <1>9, <4>1, <4>2
        <3> QED
            BY <1>8, <2>1, <3>1
    <2>2. CASE o > Len(Written)
        <3> DEFINE k == o - Len(Written)
        <3>1. k \in 1..Len(buf) /\ Len(Written) + k - 1 = o - 1
            BY <1>7, <1>8, <2>2
        <3>2. Written'[o] = buf[k]
            BY <1>7, <1>8, <2>2
        <3> HIDE DEF k
        <3> QED
            BY <1>7, <3>1, <3>2
    <2> QED
        BY <1>7, <1>8, <2>1, <2>2
<1>11. ASSUME NEW p \in 0..partnr, NEW o \in 1..Len(storage'[p + 1])
       PROVE  storage'[p + 1][o] = PartByte(p, o - 1)
    <2>1. CASE p = partnr
        <3>1. storage'[p + 1] = Written'
            BY <1>4, <1>5, <1>6, <2>1
        <3> QED
            BY <1>8, <1>10, <2>1, <3>1
    <2>2. CASE p # partnr
        <3>1. p + 1 \in 1..s /\ p + 1 # s
            BY <1>4, <2>2
        <3> QED
            BY <1>5, <1>9, <3>1
    <2> QED
        BY <2>1, <2>2
<1>12. ASSUME NEW p \in 0..partnr - 1
       PROVE  Len(storage'[p + 1]) = diskSize(p)
    <2>1. p + 1 \in 1..s /\ p + 1 # s
        BY <1>4
    <2> QED
        BY <1>5, <1>9, <2>1
<1>13. StorageInv'
    <2>1. storage' \in Seq(Seq(AnyByte)) /\ Len(storage') > 0 /\ buf' \in Seq(AnyByte)
        BY <1>1, <1>4, <1>5
    <2>2. partnr' \in Parts' /\ UpTo(Len(Written), partnr)'
        BY <1>2, <1>6, <1>7, <1>8, <1>9
    <2>3. \A p \in 0..partnr' : \A o \in 1..Len(storage'[p + 1]) :
              storage'[p + 1][o] = PartByte(p, o - 1)'
        BY <1>2, <1>6, <1>11
    <2>4. \A p \in 0..partnr' - 1 : Len(storage'[p + 1]) = diskSize(p)'
        BY <1>2, <1>6, <1>12
    <2> QED
        BY <1>1, <2>1, <2>2, <2>3, <2>4 DEF StorageInv
<1>14. CopyInv' /\ ReadInv'
    BY <1>1 DEF CopyInv, ReadInv
<1> QED
    BY <1>13, <1>14

\* The next part is begun when the last one is complete.
LEMMA NextPartStep ==
    ASSUME Facts, BytesInv, NextPart
    PROVE  BytesInv'
<1> USE DEF BytesInv
<1>1. /\ pc = "write" /\ pc' = "write" /\ buf' = buf
      /\ Len(Written) = diskSize(partnr) /\ partnr + 1 \in Parts
      /\ storage' = Append(storage, << >>)
      /\ UNCHANGED <<optionVars, tarVars>>
    BY DEF NextPart
<1>2. /\ Parts' = Parts
      /\ \A p : partContentSize(p)' = partContentSize(p) /\ diskSize(p)' = diskSize(p)
      /\ \A p, o : PartByte(p, o)' = PartByte(p, o)
      /\ \A n, p : UpTo(n, p)' <=> UpTo(n, p)
    BY <1>1, Stable
<1>3. PICK s \in Nat : s = Len(storage)
    BY DEF StorageInv
<1>4. /\ storage \in Seq(Seq(AnyByte)) /\ s > 0
      /\ partnr = s - 1 /\ Written = storage[s]
    BY <1>3 DEF StorageInv, partnr, Written
<1>5. << >> \in Seq(AnyByte)
    OBVIOUS
<1>6. /\ storage' \in Seq(Seq(AnyByte)) /\ Len(storage') = s + 1
      /\ storage'[s + 1] = << >>
      /\ \A p \in 1..s : storage'[p] = storage[p]
    BY <1>1, <1>3, <1>4, <1>5
<1>7. partnr' = s /\ Written' = << >>
    BY <1>6 DEF partnr, Written
<1>8. /\ \A p \in 0..s - 1 : \A o \in 1..Len(storage[p + 1]) :
            storage[p + 1][o] = PartByte(p, o - 1)
      /\ \A p \in 0..s - 2 : Len(storage[p + 1]) = diskSize(p)
    BY <1>1, <1>4 DEF StorageInv
<1>9. s \in Parts /\ diskSize(s) \in Nat
    <2>1. s \in Parts
        BY <1>1, <1>4
    <2> QED
        BY <2>1, SizesOfParts DEF Facts
<1>10. UpTo(0, s)
    BY <1>9, WholeBlocks DEF UpTo
<1>11. ASSUME NEW p \in 0..s, NEW o \in 1..Len(storage'[p + 1])
       PROVE  storage'[p + 1][o] = PartByte(p, o - 1)
    <2>1. p # s
        BY <1>6
    <2>2. p \in 0..s - 1 /\ p + 1 \in 1..s
        BY <2>1
    <2> QED
        BY <1>6, <1>8, <2>2
<1>12. ASSUME NEW p \in 0..s - 1
       PROVE  Len(storage'[p + 1]) = diskSize(p)
    <2>1. p + 1 \in 1..s
        OBVIOUS
    <2>2. CASE p = s - 1
        BY <1>1, <1>4, <1>6, <2>1, <2>2
    <2>3. CASE p # s - 1
        <3>1. p \in 0..s - 2
            BY <2>3
        <3> QED
            BY <1>6, <1>8, <2>1, <3>1
    <2> QED
        BY <2>2, <2>3
<1>13. StorageInv'
    <2>1. buf' \in Seq(AnyByte) /\ Len(storage') > 0
        BY <1>1, <1>6 DEF StorageInv
    <2>2. partnr' \in Parts' /\ UpTo(Len(Written), partnr)'
        <3>1. Len(Written') = 0
            BY <1>7
        <3> QED
            BY <1>2, <1>7, <1>9, <1>10, <3>1
    <2>3. \A p \in 0..partnr' : \A o \in 1..Len(storage'[p + 1]) :
              storage'[p + 1][o] = PartByte(p, o - 1)'
        BY <1>2, <1>7, <1>11
    <2>4. \A p \in 0..partnr' - 1 : Len(storage'[p + 1]) = diskSize(p)'
        BY <1>2, <1>7, <1>12
    <2> QED
        BY <1>1, <1>6, <2>1, <2>2, <2>3, <2>4 DEF StorageInv
<1>14. CopyInv' /\ ReadInv'
    BY <1>1 DEF CopyInv, ReadInv
<1> QED
    BY <1>13, <1>14

\* What is written stays as it is when nothing is written.
LEMMA SameBytes ==
    ASSUME BytesInv, pc # "add", pc' # "add", pc' # "copy",
           pc' \in {"write", "idle", "read"},
           UNCHANGED <<optionVars, tarVars, storage>>,
           buf' \in Seq(AnyByte), pc' # "read" => buf' = << >>
    PROVE  StorageInv' /\ CopyInv'
<1>1. /\ Parts' = Parts
      /\ \A p : partContentSize(p)' = partContentSize(p) /\ diskSize(p)' = diskSize(p)
      /\ \A p, o : PartByte(p, o)' = PartByte(p, o)
      /\ \A n, p : UpTo(n, p)' <=> UpTo(n, p)
    BY Stable
<1>2. partnr' = partnr /\ Written' = Written
    BY DEF partnr, Written
<1> QED
    BY <1>1, <1>2 DEF BytesInv, StorageInv, CopyInv

\* The last part is complete when the writer ends.
LEMMA EndWriteStep ==
    ASSUME Facts, BytesInv, EndWrite
    PROVE  BytesInv'
<1>1. /\ pc = "write" /\ pc' = "idle" /\ buf' = buf
      /\ Len(Written) = diskSize(partnr) /\ partnr + 1 \notin Parts
      /\ UNCHANGED <<optionVars, tarVars, storage>>
    BY DEF EndWrite
<1>2. buf = << >> /\ buf \in Seq(AnyByte) /\ partnr \in Parts
    BY <1>1 DEF BytesInv, StorageInv, CopyInv
<1>3. StorageInv' /\ CopyInv'
    BY <1>1, <1>2, SameBytes
<1>4. partnr = layout.num_parts - 1
    BY <1>1, <1>2, PartFacts DEF Parts, Facts
<1>5. diskSize(partnr)' = diskSize(partnr)
    BY <1>1 DEF tarVars, optionVars, diskSize, partContentSize, onDiskSize, partnr
<1>6. ReadInv'
    BY <1>1, <1>4, <1>5 DEF ReadInv, partnr, Written, tarVars
<1> QED
    BY <1>3, <1>6 DEF BytesInv

\* A read begins in its file.
LEMMA StartStep ==
    ASSUME Facts, BytesInv, StartRead
    PROVE  BytesInv'
<1>1. /\ pc = "idle" /\ pc' = "read" /\ buf' = buf
      /\ UNCHANGED <<optionVars, tarVars, storage>>
    BY DEF StartRead
<1>2. PICK i \in 1..Len(contents) :
         \E first \in 0..contents[i].size - 1 : \E n \in 1..contents[i].size - first :
            /\ file' = i /\ start' = first /\ want' = n
            /\ from' = first + offsets[i] + contents[i].header
    BY DEF StartRead
<1>3. contents[i] \in Entries /\ offsets[i] \in Nat
    BY DEF Facts, TarInv
<1>4. contents[i].size \in Nat /\ contents[i].header \in Nat
    BY <1>3, EntrySizes
<1>5. /\ file' = i /\ start' \in Nat /\ want' \in Nat
      /\ start' + want' <= contents[i].size
      /\ from' = offsets[i] + contents[i].header + start'
    BY <1>2, <1>3, <1>4
<1>6. buf = << >> /\ buf \in Seq(AnyByte)
    BY <1>1 DEF BytesInv, StorageInv, CopyInv
<1>7. StorageInv' /\ CopyInv'
    BY <1>1, <1>6, SameBytes
<1>8. diskSize(partnr)' = diskSize(partnr)
    BY <1>1 DEF tarVars, optionVars, diskSize, partContentSize, onDiskSize, partnr
<1>9. Len(buf') = 0
    BY <1>1, <1>6
<1>10. partnr' = layout'.num_parts - 1 /\ Len(Written') = diskSize(partnr)'
    BY <1>1, <1>8 DEF BytesInv, ReadInv, partnr, Written, tarVars
<1>11. /\ file' \in 1..Len(contents') /\ start' \in Nat /\ want' \in Nat
       /\ start' + Len(buf') + want' <= contents'[file'].size
       /\ from' = offsets'[file'] + contents'[file'].header + start' + Len(buf')
       /\ \A k \in 1..Len(buf') : buf'[k] = <<"content", file', start' + k - 1>>
    BY <1>1, <1>3, <1>4, <1>5, <1>9 DEF tarVars
<1>12. ReadInv'
    BY <1>10, <1>11 DEF ReadInv
<1> QED
    BY <1>7, <1>12 DEF BytesInv

\* A read ends with an empty buffer.
LEMMA EndReadStep ==
    ASSUME Facts, BytesInv, EndRead
    PROVE  BytesInv'
<1>1. /\ pc = "read" /\ pc' = "idle" /\ buf' = << >>
      /\ UNCHANGED <<optionVars, tarVars, storage>>
    BY DEF EndRead
<1>2. StorageInv' /\ CopyInv'
    BY <1>1, SameBytes
<1>3. diskSize(partnr)' = diskSize(partnr)
    BY <1>1 DEF tarVars, optionVars, diskSize, partContentSize, onDiskSize, partnr
<1>4. ReadInv'
    BY <1>1, <1>3 DEF BytesInv, ReadInv, partnr, Written, tarVars
<1> QED
    BY <1>2, <1>4 DEF BytesInv

\* What the reader still wants is content of its file.
LEMMA FileBytes ==
    ASSUME Facts, BytesInv, pc = "read", want > 0
    PROVE  /\ file \in Nat /\ start \in Nat /\ from \in Nat /\ want \in Nat
           /\ buf \in Seq(AnyByte)
           /\ from + want <= current_tar_offset /\ current_tar_offset \in Nat
           /\ \A j \in 0..want - 1 :
                 TarByte(from + j) = <<"content", file, start + Len(buf) + j>>
<1> DEFINE e == contents[file]
           b == start + Len(buf)
<1>1. /\ file \in 1..Len(contents) /\ start \in Nat /\ want \in Nat
      /\ b + want <= e.size /\ from = offsets[file] + e.header + start + Len(buf)
      /\ buf \in Seq(AnyByte) /\ Len(buf) \in Nat
    BY DEF BytesInv, StorageInv, ReadInv
<1>2. e \in Entries /\ offsets[file] \in Nat /\ file \in Nat
    BY <1>1 DEF Facts, TarInv
<1>3. /\ e.header \in Nat /\ e.size \in Nat /\ BlockedSize(e) \in Nat
      /\ e.header + e.size <= BlockedSize(e)
    BY <1>2, EntrySizes
<1>4. /\ End(file) = offsets[file] + BlockedSize(e) /\ End(file) <= current_tar_offset
      /\ current_tar_offset \in Nat
    BY <1>1 DEF Facts, TarInv, End, Whole
<1> HIDE DEF e
<1>5. /\ b \in Nat /\ from = offsets[file] + e.header + b /\ from \in Nat
      /\ b + want <= e.size
    <2>1. start \in Nat /\ Len(buf) \in Nat /\ e.header \in Nat /\ offsets[file] \in Nat
        BY <1>1, <1>2, <1>3
    <2>2. from = offsets[file] + e.header + start + Len(buf)
        BY <1>1
    <2>3. b \in Nat /\ from = offsets[file] + e.header + b /\ from \in Nat
        BY <2>1, <2>2
    <2> QED
        BY <1>1, <2>3
<1> HIDE DEF b
<1>6. from + want <= End(file)
    <2>1. want \in Nat
        BY <1>1
    <2> QED
        BY <1>2, <1>3, <1>4, <1>5, <2>1
<1>7. ASSUME NEW j \in 0..want - 1
      PROVE  TarByte(from + j) = <<"content", file, b + j>>
    <2> DEFINE y == from + j
    <2>1. /\ y \in 0..current_tar_offset - 1 /\ offsets[file] <= y /\ y < End(file)
          /\ y - offsets[file] = e.header + (b + j) /\ b + j < e.size /\ b + j \in Nat
        <3>1. want \in Nat /\ j \in Nat /\ j < want
            BY <1>1
        <3> QED
            BY <1>2, <1>3, <1>4, <1>5, <1>6, <3>1
    <2> HIDE DEF y
    <2>2. findTarEntry(y) = file
        BY <1>1, <2>1, EntryFound DEF Facts
    <2>3. /\ ~(y - offsets[file] < e.header) /\ y - offsets[file] < e.header + e.size
          /\ y - offsets[file] - e.header = b + j
        BY <1>3, <2>1
    <2>4. TarByte(y) = <<"content", file, b + j>>
        BY <2>2, <2>3 DEF TarByte, EntryByte, e
    <2> QED
        BY <2>4 DEF y
<1> QED
    <2>1. from + want <= current_tar_offset
        BY <1>1, <1>2, <1>3, <1>4, <1>5, <1>6
    <2> QED
        BY <1>1, <1>2, <1>4, <1>5, <1>7, <2>1 DEF b

\* The bytes of a piece of a sequence.
LEMMA PieceOf ==
    ASSUME NEW S, NEW s \in Seq(S), NEW o \in Nat, NEW n \in Nat, o + n <= Len(s)
    PROVE  /\ SubSeq(s, o + 1, o + n) \in Seq(S) /\ Len(SubSeq(s, o + 1, o + n)) = n
           /\ \A k \in 1..n : SubSeq(s, o + 1, o + n)[k] = s[o + k]
<1>1. Len(s) \in Nat /\ \A i \in 1..Len(s) : s[i] \in S
    OBVIOUS
<1>2. SubSeq(s, o + 1, o + n) = [k \in 1..n |-> s[o + k]]
    <2>1. SubSeq(s, o + 1, o + n)
            = [k \in 1..(o + n) - (o + 1) + 1 |-> s[(o + 1) + k - 1]]
        BY <1>1
    <2>2. (o + n) - (o + 1) + 1 = n /\ \A k \in 1..n : (o + 1) + k - 1 = o + k
        OBVIOUS
    <2> QED
        BY <2>1, <2>2
<1>3. ASSUME NEW k \in 1..n PROVE s[o + k] \in S
    <2>1. o + k \in 1..Len(s)
        BY <1>1
    <2> QED
        BY <1>1, <2>1
<1> DEFINE t == [k \in 1..n |-> s[o + k]]
<1>4. t \in Seq(S) /\ Len(t) = n /\ \A k \in 1..n : t[k] = s[o + k]
    BY <1>3
<1> HIDE DEF t
<1>5. SubSeq(s, o + 1, o + n) = t
    BY <1>2 DEF t
<1> QED
    BY <1>4, <1>5

\* A piece of the content of a part that is on the storage is a piece of the tar.
LEMMA StoredBytes ==
    ASSUME Facts, BytesInv, pc \in {"idle", "read"}, NEW p \in Parts,
           NEW o \in FirstContent(p)..partContentSize(p) - 1, NEW n \in Nat,
           o + n <= partContentSize(p)
    PROVE  /\ SubSeq(storage[p + 1], o + 1, o + n) \in Seq(AnyByte)
           /\ Len(SubSeq(storage[p + 1], o + 1, o + n)) = n
           /\ \A k \in 1..n : SubSeq(storage[p + 1], o + 1, o + n)[k]
                                 = TarByte(calculateOriginTarOffset(p, o) + (k - 1))
<1> DEFINE x == calculateOriginTarOffset(p, o)
           s == storage[p + 1]
           c == partContentSize(p)
<1>1. /\ p \in Nat /\ layout.num_parts \in Nat /\ p < layout.num_parts
      /\ FirstContent(p) \in Nat /\ c \in Nat /\ diskSize(p) \in Nat /\ c <= diskSize(p)
      /\ p > 0 => FirstContent(p) = layout.part_header_size
      /\ layout.part_header_size \in Nat
    <2>1. p > 0 => FirstContent(p) = layout.part_header_size
        BY PartFacts DEF Facts, FirstContent
    <2>2. layout.part_header_size \in Nat
        BY BlockAssumption DEF Facts, OnePart, ManyParts
    <2> QED
        BY <2>1, <2>2, PartFacts, SizesOfParts DEF Facts
<1>2. /\ partnr = layout.num_parts - 1 /\ Len(Written) = diskSize(partnr)
      /\ storage \in Seq(Seq(AnyByte)) /\ Len(storage) = layout.num_parts
      /\ \A q \in 0..partnr : \A k \in 1..Len(storage[q + 1]) :
            storage[q + 1][k] = PartByte(q, k - 1)
      /\ \A q \in 0..partnr - 1 : Len(storage[q + 1]) = diskSize(q)
    <2>1. /\ partnr = layout.num_parts - 1 /\ Len(Written) = diskSize(partnr)
          /\ storage \in Seq(Seq(AnyByte))
          /\ \A q \in 0..partnr : \A k \in 1..Len(storage[q + 1]) :
                storage[q + 1][k] = PartByte(q, k - 1)
          /\ \A q \in 0..partnr - 1 : Len(storage[q + 1]) = diskSize(q)
        BY DEF BytesInv, StorageInv, ReadInv
    <2>2. Len(storage) \in Nat
        BY <2>1
    <2>3. Len(storage) = layout.num_parts
        <3>1. Len(storage) - 1 = layout.num_parts - 1
            BY <2>1 DEF partnr
        <3> QED
            BY <1>1, <2>2, <3>1
    <2> QED
        BY <2>1, <2>3
<1>3. p \in 0..partnr /\ p + 1 \in 1..Len(storage) /\ s \in Seq(AnyByte)
    <2>1. p \in 0..partnr /\ p + 1 \in 1..Len(storage)
        <3>1. partnr = layout.num_parts - 1 /\ Len(storage) = layout.num_parts
            BY <1>2
        <3> QED
            BY <1>1, <3>1
    <2> QED
        BY <1>2, <2>1
<1>4. Len(s) = diskSize(p)
    <2>1. CASE p = partnr
        BY <1>1, <1>2, <2>1 DEF Written, partnr
    <2>2. CASE p # partnr
        <3>1. p \in 0..partnr - 1
            BY <1>1, <1>2, <1>3, <2>2
        <3> QED
            BY <1>2, <3>1
    <2> QED
        BY <2>1, <2>2
<1>5. /\ o \in Nat /\ FirstContent(p) <= o
      /\ \A k \in Nat : calculateOriginTarOffset(p, o + k) = x + k
    BY <1>1, PartIsPiece DEF Facts
<1>6. \A k \in 1..Len(s) : s[k] = PartByte(p, k - 1)
    BY <1>2, <1>3
<1> HIDE DEF s, c, x
<1>7. o + n <= Len(s) /\ Len(s) \in Nat
    BY <1>1, <1>4 DEF c
<1>8. /\ SubSeq(s, o + 1, o + n) \in Seq(AnyByte) /\ Len(SubSeq(s, o + 1, o + n)) = n
      /\ \A k \in 1..n : SubSeq(s, o + 1, o + n)[k] = s[o + k]
    BY <1>3, <1>5, <1>7, PieceOf
<1>9. ASSUME NEW k \in 1..n PROVE s[o + k] = TarByte(x + (k - 1))
    <2> DEFINE j == k - 1
               y == o + j
    <2>1. /\ j \in Nat /\ y \in Nat /\ y < c /\ FirstContent(p) <= y
          /\ o + k \in 1..Len(s) /\ (o + k) - 1 = y
        <3>1. /\ o \in Nat /\ n \in Nat /\ FirstContent(p) \in Nat /\ FirstContent(p) <= o
              /\ c \in Nat /\ o + n <= c /\ o + n <= Len(s) /\ Len(s) \in Nat
            BY <1>1, <1>5, <1>7 DEF c
        <3> QED
            BY <3>1
    <2>2. s[o + k] = PartByte(p, y)
        BY <1>6, <2>1
    <2>3. calculateOriginTarOffset(p, y) = x + j
        BY <1>5, <2>1
    <2> HIDE DEF y, j
    <2>4. ~(p > 0 /\ y < layout.part_header_size)
        BY <1>1, <2>1
    <2>5. PartByte(p, y) = TarByte(x + j)
        BY <2>1, <2>3, <2>4 DEF PartByte, c
    <2> QED
        BY <2>2, <2>5 DEF j
<1> QED
    BY <1>8, <1>9 DEF s, x

\* A read in a part continues the file.
LEMMA ReadPartStep ==
    ASSUME Facts, BytesInv, ReadPart
    PROVE  BytesInv'
<1> DEFINE part == IF layout.num_parts = 1 THEN [partnr |-> 0, offset |-> from]
                   ELSE findPartContainingOffset(from)
           p == part.partnr
           o == part.offset
           c == partContentSize(p)
           n == IF layout.num_parts = 1 THEN want ELSE Least(want, c - o)
           bytes == SubSeq(storage[p + 1], o + 1, o + n)
<1>1. /\ pc = "read" /\ want > 0 /\ Deliver(bytes)
      /\ pc' = "read"
      /\ UNCHANGED <<optionVars, tarVars, storage, readVars>>
    BY DEF ReadPart
<1>2. /\ file \in Nat /\ start \in Nat /\ from \in Nat /\ want \in Nat
      /\ buf \in Seq(AnyByte) /\ Len(buf) \in Nat
      /\ from + want <= current_tar_offset /\ current_tar_offset \in Nat
      /\ \A j \in 0..want - 1 :
            TarByte(from + j) = <<"content", file, start + Len(buf) + j>>
    BY <1>1, FileBytes
<1>3. from \in 0..current_tar_offset - 1
    BY <1>1, <1>2
<1>4. part = findPartContainingOffset(from)
    BY <1>3, PieceIsInPart DEF Facts
<1>5. /\ p \in Parts /\ o \in FirstContent(p)..c - 1
      /\ calculateOriginTarOffset(p, o) = from
    BY <1>3, <1>4, PieceIsInPart DEF Facts
<1>6. FirstContent(p) \in Nat /\ c \in Nat
    <2> HIDE DEF p
    <2> QED BY <1>5, PartFacts DEF Facts
<1>7. layout.num_parts = 1 => c = current_tar_offset /\ o = from
    <2> SUFFICES ASSUME layout.num_parts = 1 PROVE c = current_tar_offset /\ o = from
        OBVIOUS
    <2>1. p = 0 /\ o = from
        OBVIOUS
    <2> HIDE DEF p, o
    <2>2. layout.last_part_size = current_tar_offset
        BY DEF Facts, OnePart, ManyParts
    <2> QED
        BY <2>1, <2>2 DEF partContentSize
<1> HIDE DEF part, p, o, c
<1>8. n \in Nat /\ n <= want /\ o + n <= c
    BY <1>1, <1>2, <1>5, <1>6, <1>7 DEF Least
<1> HIDE DEF n
<1>9. /\ bytes \in Seq(AnyByte) /\ Len(bytes) = n
      /\ \A k \in 1..n : bytes[k] = TarByte(from + (k - 1))
    BY <1>1, <1>5, <1>8, StoredBytes DEF c
<1> HIDE DEF bytes
<1>10. /\ buf' \in Seq(AnyByte) /\ Len(buf') = Len(buf) + n
       /\ from' = from + n /\ want' = want - n /\ want' \in Nat
       /\ \A k \in 1..Len(buf') :
             buf'[k] = IF k <= Len(buf) THEN buf[k] ELSE bytes[k - Len(buf)]
    <2>1. want' = want - n
        BY <1>1, <1>9 DEF Deliver
    <2> QED
        BY <1>1, <1>2, <1>8, <1>9, <2>1, Delivered
<1>11. StorageInv' /\ CopyInv'
    BY <1>1, <1>10, SameBytes
<1>12. diskSize(partnr)' = diskSize(partnr)
    BY <1>1 DEF tarVars, optionVars, diskSize, partContentSize, onDiskSize, partnr
<1>13. partnr' = layout'.num_parts - 1 /\ Len(Written') = diskSize(partnr)'
    BY <1>1, <1>12 DEF BytesInv, ReadInv, partnr, Written, tarVars
<1>14. /\ file \in 1..Len(contents) /\ start + Len(buf) + want <= contents[file].size
       /\ from = offsets[file] + contents[file].header + start + Len(buf)
       /\ \A k \in 1..Len(buf) : buf[k] = <<"content", file, start + k - 1>>
    BY <1>1 DEF BytesInv, ReadInv
<1>15. ASSUME NEW k \in 1..Len(buf')
       PROVE  buf'[k] = <<"content", file, start + k - 1>>
    <2>1. CASE k <= Len(buf)
        <3>1. k \in 1..Len(buf) /\ buf'[k] = buf[k]
            BY <1>2, <1>10, <2>1
        <3> QED
            BY <1>14, <3>1
    <2>2. CASE k > Len(buf)
        <3> DEFINE j == (k - Len(buf)) - 1
        <3>1. /\ j \in 0..want - 1 /\ j + 1 \in 1..n /\ (j + 1) - 1 = j
              /\ k - Len(buf) = j + 1 /\ start + Len(buf) + j = start + k - 1
            BY <1>2, <1>8, <1>10, <2>2
        <3> HIDE DEF j
        <3>2. buf'[k] = bytes[j + 1]
            BY <1>2, <1>10, <2>2, <3>1
        <3>3. bytes[j + 1] = TarByte(from + j)
            BY <1>9, <3>1
        <3> QED
            BY <1>2, <3>1, <3>2, <3>3
    <2> QED
        BY <1>2, <1>10, <2>1, <2>2
<1>16. /\ start + Len(buf') + want' <= contents[file].size
       /\ from' = offsets[file] + contents[file].header + start + Len(buf')
    <2>1. /\ contents[file].size \in Nat /\ contents[file].header \in Nat
          /\ offsets[file] \in Nat
        <3>1. contents[file] \in Entries /\ offsets[file] \in Nat
            BY <1>14 DEF Facts, TarInv
        <3> QED
            BY <3>1, EntrySizes
    <2>2. /\ want \in Nat /\ start \in Nat /\ Len(buf) \in Nat /\ n \in Nat
          /\ from' = from + n /\ want' = want - n /\ Len(buf') = Len(buf) + n
        BY <1>2, <1>8, <1>10
    <2> QED
        BY <1>14, <2>1, <2>2
<1>17. ReadInv'
    BY <1>1, <1>2, <1>10, <1>13, <1>14, <1>15, <1>16 DEF ReadInv, tarVars, readVars
<1> QED
    BY <1>11, <1>17 DEF BytesInv

\* Until the layout is fixed nothing is written.
LEMMA AddStep ==
    ASSUME BytesInv, pc = "add", pc' = "add", UNCHANGED <<storage, buf>>
    PROVE  BytesInv'
BY DEF BytesInv, StorageInv, CopyInv, ReadInv

\* The writer begins with an empty first part.
LEMMA FixStep ==
    ASSUME BytesInv, Facts', FixSize
    PROVE  BytesInv'
<1>1. /\ pc = "add" /\ pc' = "write" /\ storage' = << << >> >> /\ buf' = << >>
    BY DEF FixSize, BytesInv, StorageInv, CopyInv
<1>2. /\ storage' \in Seq(Seq(AnyByte)) /\ Len(storage') = 1 /\ storage'[1] = << >>
      /\ buf' \in Seq(AnyByte)
    <2>1. << >> \in Seq(AnyByte)
        OBVIOUS
    <2> QED
        BY <1>1, <2>1
<1>3. partnr' = 0 /\ Written' = << >> /\ Len(Written') = 0
    BY <1>2 DEF partnr, Written
<1>4. 0 \in Parts'
    BY DEF Facts, OnePart, ManyParts, Parts
<1>5. PICK c \in Nat : c = partContentSize(0)'
    BY DEF Facts, OnePart, ManyParts, partContentSize, Whole
<1>6. diskSize(0)' \in Nat
    <2>1. diskSize(0)' = onDiskSize(c)
        BY <1>5 DEF diskSize, onDiskSize, FixSize, optionVars, partContentSize
    <2> QED
        BY <2>1, DiskSizes
<1>7. UpTo(Len(Written), partnr)'
    <2>1. UpTo(0, 0)'
        BY <1>6, WholeBlocks DEF UpTo
    <2> QED
        BY <1>3, <2>1
<1>8. StorageInv'
    <2>1. \A p \in 0..partnr' : Len(storage'[p + 1]) = 0
        BY <1>2, <1>3
    <2> QED
        BY <1>1, <1>2, <1>3, <1>4, <1>7, <2>1 DEF StorageInv
<1> QED
    BY <1>1, <1>8 DEF BytesInv, CopyInv, ReadInv

\* Nothing changes when nothing happens but that the origin can be read or not.
LEMMA NoStep ==
    ASSUME BytesInv, Readability \/ UNCHANGED vars
    PROVE  BytesInv'
<1>1. UNCHANGED <<optionVars, tarVars, storage, pc, from, want, buf, readVars>>
    BY DEF vars, Readability
<1>2. /\ Parts' = Parts
      /\ \A p : partContentSize(p)' = partContentSize(p) /\ diskSize(p)' = diskSize(p)
      /\ \A p, o : PartByte(p, o)' = PartByte(p, o)
      /\ \A n, p : UpTo(n, p)' <=> UpTo(n, p)
    BY <1>1, Stable
<1>3. partnr' = partnr /\ Written' = Written
    BY <1>1 DEF partnr, Written
<1>4. StorageInv'
    BY <1>1, <1>2, <1>3 DEF BytesInv, StorageInv
<1>5. CopyInv'
    BY <1>1, <1>2, <1>3 DEF BytesInv, CopyInv
<1>6. diskSize(partnr)' = diskSize(partnr)
    BY <1>1 DEF tarVars, optionVars, diskSize, partContentSize, onDiskSize, partnr
<1>7. ReadInv'
    BY <1>1, <1>3, <1>6 DEF BytesInv, ReadInv, tarVars, readVars
<1> QED
    BY <1>4, <1>5, <1>7 DEF BytesInv

\* A copy whose read fails begins at the border of a block of the tar, in the
\* entry that is there.
LEMMA CopyBegins ==
    ASSUME Facts, BytesInv, pc = "copy", want > 0,
           ~(partnr > 0 /\ from < layout.part_header_size), from < partContentSize(partnr)
    PROVE  LET x == calculateOriginTarOffset(partnr, from)
               i == findTarEntry(x)
               n == Least(want, partContentSize(partnr) - from)
           IN  /\ from \in Nat /\ want \in Nat /\ Whole(from) /\ from < diskSize(partnr)
               /\ diskSize(partnr) \in Nat
               /\ x \in 0..current_tar_offset - 1 /\ Whole(x) /\ x \in Nat
               /\ i \in 1..Len(contents) /\ contents[i] \in Entries
               /\ offsets[i] \in Nat /\ Whole(offsets[i]) /\ Whole(x - offsets[i])
               /\ offsets[i] <= x /\ x < End(i) /\ End(i) <= current_tar_offset
               /\ n \in Nat /\ n > 0 /\ n <= want /\ n <= partContentSize(partnr) - from
               /\ (n = want \/ n = partContentSize(partnr) - from)
               /\ \A k \in Nat : calculateOriginTarOffset(partnr, from + k) = x + k
<1> DEFINE c == partContentSize(partnr)
           x == calculateOriginTarOffset(partnr, from)
           i == findTarEntry(x)
           n == Least(want, c - from)
<1>1. /\ partnr \in Parts /\ partnr \in Nat /\ from \in Nat /\ want \in Nat
      /\ UpTo(from, partnr) /\ UpTo(from + want, partnr)
      /\ layout.part_header_size \in {0, Block} /\ Block \in Nat
      /\ FirstContent(partnr) \in Nat
      /\ partnr > 0 => FirstContent(partnr) = layout.part_header_size
      /\ c \in Nat /\ Whole(c)
      /\ diskSize(partnr) \in Nat /\ c <= diskSize(partnr)
    BY WriterIs, BlockAssumption
<1>2. from \in FirstContent(partnr)..c - 1
    <2>1. partnr = 0 => FirstContent(partnr) = 0
        BY DEF FirstContent
    <2>2. from < c
        OBVIOUS
    <2> HIDE DEF c
    <2> QED
        BY <1>1, <2>1, <2>2
<1>3. Whole(from) /\ from < diskSize(partnr)
    BY <1>1 DEF UpTo
<1>4. /\ x \in 0..current_tar_offset - 1 /\ Whole(x) /\ x \in Nat
      /\ \A k \in Nat : calculateOriginTarOffset(partnr, from + k) = x + k
    BY <1>1, <1>2, <1>3, PartIsPiece DEF Facts
<1>5. /\ n \in Nat /\ n > 0 /\ n <= want /\ n <= c - from /\ (n = want \/ n = c - from)
    <2>1. from < c
        OBVIOUS
    <2> HIDE DEF c
    <2> QED BY <1>1, <2>1 DEF Least
<1> HIDE DEF x, n, c
<1>6. i \in 1..Len(contents) /\ offsets[i] <= x /\ x < End(i)
    BY <1>4, EntryFound DEF Facts
<1>7. /\ contents[i] \in Entries /\ offsets[i] \in Nat /\ Whole(offsets[i])
      /\ End(i) <= current_tar_offset
    BY <1>6 DEF Facts, TarInv, Whole
<1>8. Whole(x - offsets[i])
    BY <1>4, <1>6, <1>7, WholeDiff
<1> QED
    BY <1>1, <1>3, <1>4, <1>5, <1>6, <1>7, <1>8 DEF x, i, n, c

\* What is left of a header is what the tar has there, and ends in the same entry.
LEMMA HeaderIsTar ==
    ASSUME TarInv, NEW x \in 0..current_tar_offset - 1,
           NEW i \in 1..Len(contents), i = findTarEntry(x),
           x - offsets[i] < contents[i].header
    PROVE  LET at == x - offsets[i]
               bytes == Bytes("header", i, at, contents[i].header - at)
           IN  /\ at \in Nat /\ bytes \in Seq(AnyByte)
               /\ Len(bytes) = contents[i].header - at /\ Len(bytes) \in Nat \ {0}
               /\ Whole(contents[i].header) /\ Whole(x + Len(bytes))
               /\ \A k \in 1..Len(bytes) :
                     /\ bytes[k] = TarByte(x + k - 1)
                     /\ bytes[k][1] = "header"
<1> DEFINE at == x - offsets[i]
           h == contents[i].header
           bytes == Bytes("header", i, at, h - at)
<1>1. /\ i \in Nat /\ offsets[i] \in Nat /\ offsets[i] <= x /\ x \in Nat
      /\ contents[i] \in Entries /\ Whole(offsets[i]) /\ End(i) <= current_tar_offset
    BY EntryFound DEF TarInv, Whole
<1>2. /\ h \in Nat /\ Whole(h) /\ h <= BlockedSize(contents[i])
      /\ BlockedSize(contents[i]) \in Nat
    <2>1. h \in Nat /\ contents[i].size \in Nat /\ h + contents[i].size <= BlockedSize(contents[i])
        BY <1>1, EntrySizes
    <2> QED
        BY <1>1, <2>1, EntrySizes
<1>3. at \in Nat /\ at < h /\ h - at \in Nat \ {0} /\ x = offsets[i] + at
    BY <1>1, <1>2
<1> HIDE DEF at, h
<1>4. IsBytes(bytes, "header", i, at, h - at)
    BY <1>1, <1>3, BytesAre
<1> HIDE DEF bytes
<1>5. /\ bytes \in Seq(AnyByte) /\ Len(bytes) = h - at
      /\ \A k \in 1..Len(bytes) : bytes[k] = <<"header", i, at + k - 1>>
    BY <1>4 DEF IsBytes
<1>6. x + Len(bytes) = offsets[i] + h
    <2>1. Len(bytes) = h - at /\ at \in Nat /\ h \in Nat /\ offsets[i] \in Nat
        BY <1>1, <1>2, <1>3, <1>5
    <2>2. x = offsets[i] + at
        BY <1>3
    <2> QED
        BY <2>1, <2>2
<1>7. Whole(x + Len(bytes))
    BY <1>1, <1>2, <1>6, WholeSum
<1>8. ASSUME NEW k \in 1..Len(bytes)
      PROVE  bytes[k] = TarByte(x + k - 1) /\ bytes[k][1] = "header"
    <2> DEFINE y == x + k - 1
    <2>1. /\ y \in Nat /\ offsets[i] <= y /\ y < offsets[i] + h
          /\ y - offsets[i] = at + k - 1
        <3>1. /\ at \in Nat /\ h \in Nat /\ offsets[i] \in Nat
              /\ k \in Nat /\ 1 <= k /\ at + k <= h
            <4>1. Len(bytes) = h - at /\ h - at \in Nat
                BY <1>3, <1>5
            <4> QED
                BY <1>1, <1>2, <1>3, <4>1
        <3>2. y = offsets[i] + (at + k - 1)
            BY <1>3, <3>1
        <3> HIDE DEF y
        <3> QED
            BY <3>1, <3>2
    <2>2. y < End(i) /\ End(i) \in Nat
        BY <1>1, <1>2, <2>1 DEF End
    <2> HIDE DEF y
    <2>3. current_tar_offset \in Nat
        BY DEF TarInv, Whole
    <2>4. y \in 0..current_tar_offset - 1
        BY <1>1, <2>1, <2>2, <2>3
    <2>5. findTarEntry(y) = i
        BY <2>1, <2>2, <2>4, EntryFound
    <2>6. at + k - 1 < h
        BY <1>1, <1>2, <1>3, <2>1
    <2>7. TarByte(y) = <<"header", i, at + k - 1>>
        BY <2>1, <2>5, <2>6 DEF TarByte, EntryByte, h
    <2> QED
        BY <1>5, <2>7 DEF y
<1> QED
    BY <1>2, <1>3, <1>5, <1>7, <1>8 DEF bytes, at, h

\* Where the copy is in the tar.
Origin == calculateOriginTarOffset(partnr, from)
EntryThere == findTarEntry(Origin)
BeforeContent == Origin - offsets[EntryThere] < contents[EntryThere].header

\* A copy that fails delivers the header, as far as it was to come.
LEMMA FailedStep ==
    ASSUME Facts, BytesInv, CopyFails, BeforeContent
    PROVE  BytesInv' /\ (Len(buf) > 0 => buf[Len(buf)][1] = "header")'
<1> DEFINE c == partContentSize(partnr)
           x == Origin
           i == EntryThere
           n == Least(want, c - from)
           at == x - offsets[i]
           bytes == Bytes("header", i, at, contents[i].header - at)
<1>1. /\ pc = "copy" /\ want > 0
      /\ ~(partnr > 0 /\ from < layout.part_header_size) /\ from < partContentSize(partnr)
      /\ Reads(i, n, at) /\ Deliver(bytes)
      /\ UNCHANGED <<optionVars, tarVars, storage, pc, readVars>>
    BY DEF CopyFails, BeforeContent, Origin, EntryThere
<1>2. /\ from \in Nat /\ want \in Nat /\ Whole(from)
      /\ x \in 0..current_tar_offset - 1 /\ Whole(x) /\ x \in Nat
      /\ i \in 1..Len(contents) /\ contents[i] \in Entries
      /\ n \in Nat /\ n <= want /\ n <= c - from
      /\ \A k \in Nat : calculateOriginTarOffset(partnr, from + k) = x + k
    BY <1>1, CopyBegins DEF Origin, EntryThere
<1>3. c \in Nat /\ diskSize(partnr) \in Nat /\ c <= diskSize(partnr)
      /\ layout.part_header_size \in {0, Block} /\ Block \in Nat /\ partnr \in Nat
    BY <1>1, WriterIs, BlockAssumption
<1> HIDE DEF c, n
<1>4. /\ at \in Nat /\ bytes \in Seq(AnyByte)
      /\ Len(bytes) = contents[i].header - at /\ Len(bytes) \in Nat \ {0}
      /\ Whole(contents[i].header) /\ Whole(x + Len(bytes))
      /\ \A k \in 1..Len(bytes) : bytes[k] = TarByte(x + k - 1) /\ bytes[k][1] = "header"
    <2>1. x - offsets[i] < contents[i].header
        BY DEF BeforeContent
    <2>2. i = findTarEntry(x)
        BY DEF EntryThere
    <2> HIDE DEF x, i
    <2> QED
        BY <1>2, <2>1, <2>2, HeaderIsTar DEF Facts
<1>5. Len(bytes) < n
    <2>1. at + n > contents[i].header
        BY <1>1 DEF Reads
    <2>2. contents[i].header \in Nat
        BY <1>4 DEF Whole
    <2>3. /\ Len(bytes) = contents[i].header - at /\ at \in Nat /\ n \in Nat
        BY <1>2, <1>4
    <2> HIDE DEF at, bytes, i
    <2> QED
        BY <2>1, <2>2, <2>3
<1> HIDE DEF at, bytes, x, i
<1>6. Len(bytes) <= want /\ from + Len(bytes) <= c /\ Len(bytes) \in Nat
    BY <1>2, <1>3, <1>4, <1>5
<1>7. UpTo(from + Len(bytes), partnr)
    <2>1. x <= x + Len(bytes) /\ (x + Len(bytes)) - x = Len(bytes)
        BY <1>2, <1>6
    <2>2. Whole(Len(bytes))
        BY <1>2, <1>4, <2>1, WholeDiff
    <2>3. Whole(from + Len(bytes))
        BY <1>2, <2>2, WholeSum
    <2> QED
        BY <1>2, <1>3, <1>6, <2>3 DEF UpTo
<1>8. ASSUME NEW k \in 1..Len(bytes)
      PROVE  bytes[k] = PartByte(partnr, from + k - 1)
    <2> DEFINE j == k - 1
               o == from + j
    <2>1. j \in Nat /\ o \in Nat /\ o < c /\ from <= o
        BY <1>2, <1>3, <1>6
    <2>2. ~(partnr > 0 /\ o < layout.part_header_size)
        BY <1>1, <1>2, <1>3, <2>1
    <2>3. calculateOriginTarOffset(partnr, o) = x + j
        BY <1>2, <2>1
    <2>4. bytes[k] = TarByte(x + j) /\ from + k - 1 = o
        <3>1. x + k - 1 = x + j /\ from + k - 1 = o
            BY <1>2
        <3> QED
            BY <1>4, <3>1
    <2> HIDE DEF o, j
    <2> QED
        BY <2>1, <2>2, <2>3, <2>4 DEF PartByte, c
<1>9. BytesInv'
    BY <1>1, <1>4, <1>6, <1>7, <1>8, CopyStep
<1>10. buf \in Seq(AnyByte)
    BY DEF BytesInv, StorageInv
<1>11. Len(buf') > 0 /\ buf'[Len(buf')] = bytes[Len(bytes)]
    <2>1. buf' = buf \o bytes
        BY <1>1 DEF Deliver
    <2> QED
        BY <1>4, <1>10, <2>1
<1> QED
    BY <1>4, <1>9, <1>11

\* Where an entry ends the next one begins.
LEMMA EntryBorder ==
    ASSUME TarInv, NEW i \in 1..Len(contents), End(i) < current_tar_offset
    PROVE  offsets[findTarEntry(End(i))] = End(i)
<1> DEFINE x == End(i)
           j == findTarEntry(x)
<1>1. \A k \in 1..Len(contents) :
          /\ offsets[k] \in Nat /\ End(k) \in Nat /\ offsets[k] <= End(k)
    <2> SUFFICES ASSUME NEW k \in 1..Len(contents)
                 PROVE  offsets[k] \in Nat /\ End(k) \in Nat /\ offsets[k] <= End(k)
        OBVIOUS
    <2>1. contents[k] \in Entries /\ offsets[k] \in Nat
        BY DEF TarInv, Whole
    <2>2. BlockedSize(contents[k]) \in Nat
        BY <2>1, EntrySizes
    <2> QED
        BY <2>1, <2>2 DEF End
<1>2. current_tar_offset \in Nat /\ Len(contents) \in Nat
    BY DEF TarInv, Whole
<1>3. x \in 0..current_tar_offset - 1
    BY <1>1, <1>2
<1>4. j \in 1..Len(contents) /\ offsets[j] <= x /\ x < End(j)
    BY <1>3, EntryFound
<1> HIDE DEF j
<1>5. j # i
    BY <1>1, <1>4
<1>6. ~(j < i)
    <2> SUFFICES ASSUME j < i PROVE FALSE
        OBVIOUS
    <2>1. End(j) <= offsets[i]
        BY <1>4 DEF TarInv
    <2> QED
        BY <1>1, <1>4, <2>1
<1>7. i < j
    BY <1>2, <1>4, <1>5, <1>6
<1>8. End(i) <= offsets[j]
    BY <1>4, <1>7 DEF TarInv
<1> QED
    BY <1>1, <1>4, <1>8 DEF j

\* While a buffer is filled, what a failing read would overwrite is no content of
\* a file, unless the copy is at the beginning of an entry, that is of a header.
BorderInv ==
    /\ pc = "copy" /\ want > 0 /\ from < partContentSize(partnr)
    /\ Len(buf) > 0 /\ buf[Len(buf)][1] = "content"
    => offsets[EntryThere] = Origin

\* A copy that works stops at the end of its entry, or fills the buffer or the part.
LEMMA BorderKept ==
    ASSUME Facts, BytesInv, CopyEntry
    PROVE  BorderInv'
<1> DEFINE c == partContentSize(partnr)
           x == Origin
           i == EntryThere
           n == Least(want, c - from)
           at == x - offsets[i]
           bytes == copy(i, n, at)
<1>1. /\ pc = "copy" /\ want > 0
      /\ ~(partnr > 0 /\ from < layout.part_header_size) /\ from < partContentSize(partnr)
      /\ Deliver(bytes)
      /\ UNCHANGED <<optionVars, tarVars, storage, pc, readVars>>
    BY DEF CopyEntry, Origin, EntryThere
<1>2. /\ from \in Nat /\ want \in Nat
      /\ x \in 0..current_tar_offset - 1 /\ x \in Nat
      /\ i \in 1..Len(contents) /\ contents[i] \in Entries
      /\ offsets[i] \in Nat /\ Whole(x - offsets[i])
      /\ offsets[i] <= x /\ x < End(i) /\ End(i) <= current_tar_offset
      /\ n \in Nat /\ n <= want /\ n <= c - from /\ (n = want \/ n = c - from)
      /\ \A k \in Nat : calculateOriginTarOffset(partnr, from + k) = x + k
    BY <1>1, CopyBegins DEF Origin, EntryThere
<1>3. c \in Nat /\ partnr \in Parts
    BY <1>1, WriterIs
<1> HIDE DEF c, n
<1>4. BlockedSize(contents[i]) \in Nat
    BY <1>2, EntrySizes
<1>5. /\ bytes \in Seq(AnyByte) /\ Len(bytes) <= n
      /\ Len(bytes) = n \/ at + Len(bytes) = BlockedSize(contents[i])
    <2>1. i \in Nat /\ at \in Nat /\ Whole(at) /\ at < BlockedSize(contents[i])
        <3> HIDE DEF x, i
        <3> QED BY <1>2, <1>4 DEF End
    <2> HIDE DEF at, i
    <2> QED
        BY <1>2, <2>1, CopyIsRight
<1> HIDE DEF bytes
<1>6. from' = from + Len(bytes) /\ want' = want - Len(bytes) /\ Len(bytes) \in Nat
    BY <1>1, <1>5 DEF Deliver
<1>7. partnr' = partnr /\ partContentSize(partnr)' = c
    BY <1>1 DEF partnr, partContentSize, tarVars, c
<1>8. SUFFICES ASSUME want' > 0, from' < c PROVE (offsets[EntryThere] = Origin)'
    BY <1>7 DEF BorderInv
<1>9. Len(bytes) # n
    BY <1>2, <1>3, <1>6, <1>8
<1> HIDE DEF x, i
<1>10. x + Len(bytes) = End(i)
    BY <1>2, <1>4, <1>5, <1>6, <1>9 DEF End
<1>11. Origin' = End(i)
    <2>1. Origin' = calculateOriginTarOffset(partnr, from')
        BY <1>1 DEF Origin, partnr, calculateOriginTarOffset, tarVars
    <2> QED
        BY <1>2, <1>6, <1>10, <2>1
<1>12. End(i) < current_tar_offset
    <2>1. from \in Nat /\ FirstContent(partnr) \in Nat /\ FirstContent(partnr) <= from
        BY <1>1, <1>2, WriterIs DEF FirstContent
    <2>2. from + Len(bytes) \in FirstContent(partnr)..partContentSize(partnr) - 1
        BY <1>3, <1>6, <1>8, <2>1 DEF c
    <2>3. /\ calculateOriginTarOffset(partnr, from + Len(bytes)) \in 0..current_tar_offset - 1
        BY <1>3, <2>2, PartIsPiece DEF Facts
    <2>4. current_tar_offset \in Nat
        BY DEF Facts, Whole
    <2>5. calculateOriginTarOffset(partnr, from + Len(bytes)) = End(i)
        BY <1>2, <1>6, <1>10
    <2> QED
        BY <2>3, <2>4, <2>5
<1>13. offsets[findTarEntry(End(i))] = End(i)
    BY <1>2, <1>12, EntryBorder DEF Facts
<1>14. EntryThere' = findTarEntry(Origin') /\ offsets' = offsets
    BY <1>1 DEF EntryThere, findTarEntry, tarVars
<1> QED
    BY <1>11, <1>13, <1>14

\* With headers no failing read can overwrite the content of a file.
LEMMA NoSpoiling ==
    ASSUME Facts, HeadersInv, BytesInv, BorderInv, CopyFails, header # 0
    PROVE  BeforeContent
<1>1. /\ pc = "copy" /\ want > 0
      /\ ~(partnr > 0 /\ from < layout.part_header_size) /\ from < partContentSize(partnr)
    BY DEF CopyFails
<1>2. SUFFICES ASSUME ~BeforeContent PROVE FALSE
    OBVIOUS
<1>3. buf # << >> /\ Last(buf)[1] = "content"
    BY <1>2 DEF CopyFails, BeforeContent, Origin, EntryThere
<1>4. buf \in Seq(AnyByte)
    BY DEF BytesInv, StorageInv
<1>5. Len(buf) > 0 /\ buf[Len(buf)][1] = "content"
    BY <1>3, <1>4 DEF Last
<1>6. offsets[EntryThere] = Origin
    BY <1>1, <1>5 DEF BorderInv
<1>7. /\ EntryThere \in 1..Len(contents) /\ contents[EntryThere] \in Entries
      /\ Origin \in Nat
    BY <1>1, CopyBegins DEF Origin, EntryThere
<1>8. contents[EntryThere].header \in Nat \ {0}
    BY <1>7, EntrySizes DEF HeadersInv
<1>9. Origin - offsets[EntryThere] = 0
    BY <1>6, <1>7
<1> QED
    BY <1>2, <1>8, <1>9 DEF BeforeContent

\* The other steps of the writer leave a border, or no buffer.
LEMMA BorderStays ==
    ASSUME Facts, BytesInv, BorderInv,
           \/ AcquireBytes \/ CopyPartHeader \/ CopyPadding \/ WriteBytes \/ NextPart
           \/ EndWrite \/ StartRead \/ ReadStep \/ Readability \/ UNCHANGED vars
    PROVE  BorderInv'
<1>1. CASE AcquireBytes
    BY <1>1 DEF AcquireBytes, BorderInv
<1>2. CASE CopyPartHeader
    <2> DEFINE n == Least(want, layout.part_header_size - from)
               bytes == Bytes("multivol", partnr, from, n)
    <2>1. /\ pc = "copy" /\ want > 0 /\ partnr > 0 /\ from < layout.part_header_size
          /\ buf' = buf \o bytes
        BY <1>2 DEF CopyPartHeader, Deliver
    <2>2. /\ partnr \in Nat /\ from \in Nat /\ want \in Nat
          /\ layout.part_header_size \in {0, Block} /\ Block \in Nat
        BY <2>1, WriterIs, BlockAssumption
    <2>3. n \in Nat \ {0}
        BY <2>1, <2>2 DEF Least
    <2> HIDE DEF n
    <2>4. IsBytes(bytes, "multivol", partnr, from, n)
        BY <2>2, <2>3, BytesAre
    <2> HIDE DEF bytes
    <2>5. bytes \in Seq(AnyByte) /\ Len(bytes) = n /\ bytes[n][1] = "multivol"
        BY <2>3, <2>4 DEF IsBytes
    <2>6. buf \in Seq(AnyByte)
        BY DEF BytesInv, StorageInv
    <2>7. buf'[Len(buf')] = bytes[n]
        BY <2>1, <2>3, <2>5, <2>6
    <2> QED
        BY <2>5, <2>7 DEF BorderInv
<1>3. CASE CopyPadding
    <2> DEFINE c == partContentSize(partnr)
               n == Least(want, diskSize(partnr) - from)
               bytes == Zeros(n)
    <2>1. /\ pc = "copy" /\ want > 0 /\ from >= partContentSize(partnr) /\ from < diskSize(partnr)
          /\ Deliver(bytes)
          /\ UNCHANGED <<optionVars, tarVars, storage, pc, readVars>>
        BY <1>3 DEF CopyPadding
    <2>2. from \in Nat /\ want \in Nat /\ c \in Nat /\ diskSize(partnr) \in Nat
        BY <2>1, WriterIs
    <2>3. n \in Nat
        BY <2>1, <2>2 DEF Least
    <2> HIDE DEF n
    <2>4. Len(bytes) = n
        BY <2>3, ZerosAre
    <2>5. from' = from + n
        BY <2>1, <2>4 DEF Deliver
    <2>6. partnr' = partnr /\ partContentSize(partnr)' = partContentSize(partnr)
        BY <2>1 DEF partnr, partContentSize, tarVars
    <2> QED
        BY <2>1, <2>2, <2>3, <2>5, <2>6 DEF BorderInv
<1>4. CASE WriteBytes \/ NextPart \/ EndWrite \/ StartRead \/ ReadStep
    BY <1>4 DEF WriteBytes, NextPart, EndWrite, StartRead, ReadStep, ReadPart, EndRead, BorderInv
<1>5. CASE Readability \/ UNCHANGED vars
    <2>1. UNCHANGED <<tarVars, storage, pc, from, want, buf>>
        BY <1>5 DEF Readability, vars
    <2> QED
        BY <2>1 DEF BorderInv, Origin, EntryThere, calculateOriginTarOffset, findTarEntry,
                    partContentSize, partnr, tarVars
<1> QED
    BY <1>1, <1>2, <1>3, <1>4, <1>5

\* No read has overwritten a byte.
Unspoilt == ~(spoilt /\ header = 0)

\* As long as no read has spoilt a byte, the parts, the buffer and the reader hold
\* what they should.
LEMMA BytesAreRight == Spec => [](Unspoilt => BytesInv /\ BorderInv)
<1>1. Init => BytesInv /\ BorderInv
    <2> SUFFICES ASSUME Init PROVE BytesInv /\ BorderInv
        OBVIOUS
    <2>1. << >> \in Seq(AnyByte)
        OBVIOUS
    <2>2. pc = "add" /\ storage = << << >> >> /\ buf = << >>
        BY DEF Init
    <2> QED
        BY <2>1, <2>2 DEF BytesInv, StorageInv, CopyInv, ReadInv, BorderInv
<1>2. IInv /\ TarInv /\ pc # "add" => Facts
    BY FactsHold
<1>3. (IInv /\ TarInv /\ pc # "add" => Facts)'
    BY <1>2, PTL
<1>4. /\ IInv /\ TarInv /\ HeadersInv /\ (IInv /\ TarInv)'
      /\ BytesInv /\ BorderInv /\ [Next]_vars
      => (Unspoilt => BytesInv /\ BorderInv)'
    <2> SUFFICES ASSUME IInv, TarInv, HeadersInv, IInv', TarInv', BytesInv, BorderInv,
                        [Next]_vars, Unspoilt'
                 PROVE  BytesInv' /\ BorderInv'
        OBVIOUS
    <2>1. ASSUME NEW e \in Entries, addEntryLast(e) PROVE BytesInv' /\ BorderInv'
        BY <2>1, AddStep DEF addEntryLast, BorderInv
    <2>2. CASE FixSize
        <3>1. pc' # "add"
            BY <2>2 DEF FixSize
        <3> QED
            BY <1>3, <2>2, <3>1, FixStep DEF FixSize, BorderInv
    <2>3. CASE pc # "add"
        <3>1. Facts
            BY <1>2, <2>3
        <3>2. CASE CopyFails
            <4>1. header' = header /\ (spoilt' = TRUE \/ BeforeContent)
                BY <3>2 DEF CopyFails, optionVars, BeforeContent, Origin, EntryThere
            <4>2. BeforeContent
                BY <3>1, <3>2, <4>1, NoSpoiling DEF Unspoilt
            <4> QED
                BY <3>1, <3>2, <4>2, FailedStep DEF BorderInv
        <3>3. CASE CopyEntry
            BY <3>1, <3>3, EntryStep, BorderKept
        <3>4. CASE WriteStep /\ ~CopyFails /\ ~CopyEntry
            BY <3>1, <3>4, AcquireStep, HeaderStep, PaddingStep,
               WriteStepKept, NextPartStep, EndWriteStep, BorderStays DEF WriteStep
        <3>5. CASE StartRead \/ ReadStep
            BY <3>1, <3>5, StartStep, ReadPartStep, EndReadStep, BorderStays DEF ReadStep
        <3>6. CASE Readability \/ UNCHANGED vars
            BY <3>1, <3>6, NoStep, BorderStays
        <3> QED
            BY <2>1, <2>2, <3>2, <3>3, <3>4, <3>5, <3>6 DEF Next
    <2>4. CASE pc = "add" /\ UNCHANGED vars
        <3>1. pc' = "add"
            BY <2>4 DEF vars
        <3> QED
            BY <2>4, <3>1, NoStep DEF BorderInv
    <2>5. \/ pc # "add" \/ FixSize \/ (pc = "add" /\ UNCHANGED vars)
          \/ \E e \in Entries : addEntryLast(e)
        BY DEF Next, WriteStep, ReadStep, StartRead, ReadPart, EndRead, AcquireBytes,
               CopyPartHeader, CopyEntry, CopyFails, CopyPadding, WriteBytes, NextPart,
               EndWrite, Readability
    <2> QED
        BY <2>1, <2>2, <2>3, <2>4, <2>5
<1>5. [Next]_vars /\ Unspoilt' => Unspoilt
    <2> SUFFICES ASSUME [Next]_vars, Unspoilt' PROVE Unspoilt
        OBVIOUS
    <2>1. header' = header
        BY DEF Next, addEntryLast, FixSize, WriteStep, ReadStep, StartRead, ReadPart, EndRead,
               AcquireBytes, CopyPartHeader, CopyEntry, CopyFails, CopyPadding, WriteBytes,
               NextPart, EndWrite, Readability, vars, optionVars
    <2>2. spoilt' = TRUE \/ spoilt' = spoilt
        BY DEF Next, addEntryLast, FixSize, WriteStep, ReadStep, StartRead, ReadPart, EndRead,
               AcquireBytes, CopyPartHeader, CopyEntry, CopyFails, CopyPadding, WriteBytes,
               NextPart, EndWrite, Readability, vars, failVars
    <2> QED
        BY <2>1, <2>2 DEF Unspoilt
<1> QED
    BY <1>1, <1>4, <1>5, TarGrows, HeadersAreAlike, PTL DEF Spec

\* A read of any piece of a file gives that piece of the file, as far as it has
\* come, across the borders of parts.
THEOREM RestoreReadsBack == Spec => []ReadsBack
<1>1. (Unspoilt => BytesInv) => ReadsBack
    <2> SUFFICES ASSUME BytesInv, pc = "read"
                 PROVE  buf = Bytes("content", file, start, Len(buf))
        BY DEF ReadsBack, Unspoilt
    <2>1. /\ buf \in Seq(AnyByte)
          /\ \A k \in 1..Len(buf) : buf[k] = <<"content", file, start + k - 1>>
        BY DEF BytesInv, StorageInv, ReadInv
    <2>2. PICK n \in Nat : n = Len(buf)
        BY <2>1
    <2>3. buf = [k \in 1..n |-> buf[k]]
        BY <2>1, <2>2
    <2>4. [k \in 1..n |-> buf[k]] = [k \in 1..n |-> <<"content", file, start + k - 1>>]
        BY <2>1, <2>2
    <2> QED
        BY <2>2, <2>3, <2>4 DEF Bytes
<1> QED
    BY <1>1, BytesAreRight, PTL

\* A set of numbers has a least one.
LEMMA SmallestOf ==
    ASSUME NEW D, D # {}, D \subseteq Nat
    PROVE  \E i \in D : \A j \in D : i <= j
<1> DEFINE R == OpToRel(<, Nat)
<1>1. IsWellFoundedOn(R, Nat)
    BY NatLessThanWellFounded
<1>2. ASSUME NEW i \in Nat, NEW j \in Nat, j < i PROVE <<j, i>> \in R
    <2>1. R = {ss \in Nat \X Nat : ss[1] < ss[2]}
        BY DEF OpToRel
    <2> HIDE DEF R
    <2>2. <<j, i>> \in Nat \X Nat /\ <<j, i>>[1] < <<j, i>>[2]
        BY <1>2
    <2> QED
        BY <2>1, <2>2
<1> HIDE DEF R
<1>3. PICK i \in D : \A j \in D : ~(<<j, i>> \in R)
    BY <1>1, WFMin
<1>4. ASSUME NEW j \in D PROVE i <= j
    <2>1. i \in Nat /\ j \in Nat /\ ~(j < i)
        BY <1>2, <1>3
    <2> QED
        BY <2>1
<1> QED
    BY <1>4

Flattens(G, seqs, n) ==
    G = [i \in 1..n |-> IF i = 1 THEN seqs[i] ELSE G[i - 1] \o seqs[i]]

\* A function that begins and continues as FlattenSeq does is FlattenSeq.
LEMMA FlattenIs ==
    ASSUME NEW seqs, NEW n \in Nat, n > 0, Len(seqs) = n, NEW G,
           Flattens(G, seqs, n)
    PROVE  FlattenSeq(seqs) = G[n]
<1> DEFINE Is(f) == Flattens(f, seqs, n)
           F == CHOOSE f : Is(f)
<1>1. FlattenSeq(seqs) = F[n]
    BY DEF FlattenSeq, Flattens
<1>2. Is(G)
    OBVIOUS
<1> HIDE DEF Is
<1>3. Is(F)
    BY <1>2
<1> HIDE DEF F
<1> DEFINE D == {i \in 1..n : F[i] # G[i]}
<1>4. ASSUME NEW i \in D PROVE i - 1 \in D /\ i - 1 \in Nat
    <2>1. i \in 1..n /\ F[i] # G[i]
        OBVIOUS
    <2>2. /\ F[i] = IF i = 1 THEN seqs[i] ELSE F[i - 1] \o seqs[i]
          /\ G[i] = IF i = 1 THEN seqs[i] ELSE G[i - 1] \o seqs[i]
        BY <1>2, <1>3, <2>1 DEF Is, Flattens
    <2>3. i # 1 /\ F[i - 1] # G[i - 1]
        BY <2>1, <2>2
    <2> QED
        BY <2>1, <2>3
<1>5. D = {}
    <2> SUFFICES ASSUME D # {} PROVE FALSE
        OBVIOUS
    <2>1. D \subseteq Nat
        OBVIOUS
    <2> HIDE DEF D
    <2>2. PICK i \in D : \A j \in D : i <= j
        BY <2>1, SmallestOf
    <2>3. i - 1 \in D /\ i \in Nat
        BY <1>4, <2>1
    <2> QED
        BY <2>2, <2>3
<1> QED
    BY <1>1, <1>5

\* The tar up to an offset.
TarUpTo(m) == [x \in 1..m |-> TarByte(x - 1)]

\* The elements of two sequences, one after the other.
LEMMA TwoPieces ==
    ASSUME NEW S, NEW a \in Seq(S), NEW b \in Seq(S)
    PROVE  /\ a \o b \in Seq(S) /\ Len(a \o b) = Len(a) + Len(b)
           /\ \A k \in 1..Len(a \o b) :
                 (a \o b)[k] = IF k <= Len(a) THEN a[k] ELSE b[k - Len(a)]
OBVIOUS

\* Sequences of the same elements are the same.
LEMMA SameSeq ==
    ASSUME NEW S, NEW a \in Seq(S), NEW b \in Seq(S), Len(a) = Len(b),
           \A k \in 1..Len(a) : a[k] = b[k]
    PROVE  a = b
OBVIOUS

\* The tar continues with the bytes that come next.
LEMMA TarUpToIs ==
    ASSUME NEW m \in Nat, NEW n \in Nat, NEW bytes, bytes = [k \in 1..n |-> TarByte(m + k - 1)]
    PROVE  TarUpTo(m) \o bytes = TarUpTo(m + n)
<1> DEFINE a == TarUpTo(m)
           ab == TarUpTo(m + n)
           S == {TarByte(x) : x \in Int}
<1>1. a \in Seq(S) /\ Len(a) = m /\ \A x \in 1..m : a[x] = TarByte(x - 1)
    BY DEF TarUpTo
<1>2. bytes \in Seq(S) /\ Len(bytes) = n /\ \A k \in 1..n : bytes[k] = TarByte(m + k - 1)
    BY DEF TarUpTo
<1>3. ab \in Seq(S) /\ Len(ab) = m + n /\ \A x \in 1..m + n : ab[x] = TarByte(x - 1)
    BY DEF TarUpTo
<1> HIDE DEF a, ab, S
<1>4. /\ a \o bytes \in Seq(S) /\ Len(a \o bytes) = m + n
      /\ \A x \in 1..m + n : (a \o bytes)[x] = IF x <= m THEN a[x] ELSE bytes[x - m]
    <2>1. /\ a \o bytes \in Seq(S) /\ Len(a \o bytes) = Len(a) + Len(bytes)
          /\ \A x \in 1..Len(a \o bytes) :
                (a \o bytes)[x] = IF x <= Len(a) THEN a[x] ELSE bytes[x - Len(a)]
        BY <1>1, <1>2, TwoPieces
    <2>2. Len(a) = m /\ Len(bytes) = n /\ Len(a \o bytes) = m + n
        BY <1>1, <1>2, <2>1
    <2> QED
        BY <2>1, <2>2
<1>5. ASSUME NEW x \in 1..m + n PROVE (a \o bytes)[x] = ab[x]
    <2>1. CASE x <= m
        BY <1>1, <1>3, <1>4, <2>1
    <2>2. CASE x > m
        <3> DEFINE k == x - m
        <3>1. k \in 1..n /\ m + k - 1 = x - 1 /\ x \in Nat
            BY <2>2
        <3>2. (a \o bytes)[x] = bytes[k]
            BY <1>4, <2>2, <3>1
        <3> HIDE DEF k
        <3> QED
            <4>1. bytes[k] = TarByte(m + k - 1)
                BY <1>2, <3>1
            <4>2. TarByte(m + k - 1) = TarByte(x - 1)
                BY <3>1
            <4> QED
                BY <1>3, <3>2, <4>1, <4>2
    <2>3. x <= m \/ x > m
        <3>1. x \in Nat
            OBVIOUS
        <3> QED
            BY <3>1
    <2> QED
        BY <2>1, <2>2, <2>3
<1> QED
    <2>1. a \o bytes = ab
        BY <1>3, <1>4, <1>5, SameSeq
    <2> QED
        BY <2>1 DEF a, ab

\* Each entry begins where the one before it ends, the first at the beginning and
\* the last at the end of the tar.
LEMMA EntriesFollow ==
    ASSUME TarInv, current_tar_offset > 0
    PROVE  /\ Len(contents) \in Nat /\ Len(contents) > 0
           /\ offsets[1] = 0 /\ End(Len(contents)) = current_tar_offset
           /\ \A i \in 1..Len(contents) : offsets[i] \in Nat /\ End(i) \in Nat
           /\ \A i \in 2..Len(contents) : offsets[i] = End(i - 1)
<1> DEFINE total == current_tar_offset
<1>0. PICK n \in Nat : n = Len(contents)
    BY DEF TarInv
<1>1. /\ total \in Nat
      /\ \A i \in 1..n : offsets[i] \in Nat /\ contents[i] \in Entries
      /\ \A i \in 1..n : End(i) <= total
      /\ \A i, j \in 1..n : i < j => End(i) <= offsets[j]
      /\ \A x \in 0..total - 1 : \E i \in 1..n : offsets[i] <= x /\ x < End(i)
    BY <1>0 DEF TarInv, Whole
<1>2. \A i \in 1..n : End(i) \in Nat /\ offsets[i] <= End(i)
    BY <1>1, EntrySizes DEF End
<1>3. n > 0
    BY <1>1
<1>4. offsets[1] = 0
    <2> SUFFICES ASSUME offsets[1] > 0 PROVE FALSE
        BY <1>1, <1>3
    <2>1. PICK i \in 1..n : offsets[i] <= 0 /\ 0 < End(i)
        BY <1>1
    <2>2. i # 1 /\ 1 < i
        BY <1>1, <2>1
    <2>3. End(1) <= offsets[i] /\ 1 \in 1..n
        BY <1>1, <1>3, <2>2
    <2> QED
        BY <1>1, <1>2, <2>1, <2>3
<1>5. End(n) = total
    <2> SUFFICES ASSUME End(n) < total PROVE FALSE
        <3>1. n \in 1..n
            BY <1>3
        <3> QED
            BY <1>1, <1>2, <3>1
    <2>1. n \in 1..n /\ End(n) \in 0..total - 1
        BY <1>1, <1>2, <1>3
    <2>2. PICK i \in 1..n : offsets[i] <= End(n) /\ End(n) < End(i)
        BY <1>1, <2>1
    <2>3. i # n /\ i < n
        BY <1>2, <2>1, <2>2
    <2>4. End(i) <= offsets[n] /\ offsets[n] <= End(n)
        BY <1>1, <1>2, <2>1, <2>3
    <2> QED
        BY <1>1, <1>2, <2>1, <2>2, <2>4
<1>6. ASSUME NEW j \in 2..n PROVE offsets[j] = End(j - 1)
    <2> DEFINE p == j - 1
    <2>1. p \in 1..n /\ j \in 1..n /\ p < j
        OBVIOUS
    <2>2. End(p) <= offsets[j] /\ End(p) \in Nat /\ offsets[j] \in Nat
        BY <1>1, <1>2, <2>1
    <2> SUFFICES ASSUME End(p) < offsets[j] PROVE FALSE
        BY <2>2
    <2>3. End(j) <= total /\ offsets[j] <= End(j) /\ End(j) \in Nat
        BY <1>1, <1>2, <2>1
    <2>4. End(p) \in 0..total - 1
        BY <1>1, <2>2, <2>3
    <2>5. PICK i \in 1..n : offsets[i] <= End(p) /\ End(p) < End(i)
        BY <1>1, <2>4
    <2>6. /\ offsets[i] \in Nat /\ End(i) \in Nat /\ offsets[p] \in Nat
          /\ offsets[p] <= End(p)
        BY <1>1, <1>2, <2>1
    <2>7. ~(i < p)
        <3> SUFFICES ASSUME i < p PROVE FALSE
            OBVIOUS
        <3>1. End(i) <= offsets[p]
            BY <1>1, <2>1
        <3> QED
            BY <2>2, <2>5, <2>6, <3>1
    <2>8. i # p
        BY <2>2, <2>5
    <2>9. i # j
        BY <2>2, <2>5, <2>6
    <2>10. j < i
        <3> HIDE DEF p
        <3>1. p = j - 1
            BY DEF p
        <3> QED
            BY <2>7, <2>8, <2>9, <3>1
    <2>11. End(j) <= offsets[i]
        BY <1>1, <2>1, <2>10
    <2> QED
        BY <2>2, <2>3, <2>5, <2>6, <2>11
<1> QED
    BY <1>0, <1>1, <1>2, <1>3, <1>4, <1>5, <1>6

\* What an entry adds to the tar.
EntryBytes(i) ==
    LET e == contents[i]
    IN  Bytes("header", i, 0, e.header) \o Bytes("content", i, 0, e.size)
          \o Zeros(BlockedSize(e) - (e.header + e.size))

\* An entry adds the bytes the tar has from where it begins.
LEMMA EntryBytesAre ==
    ASSUME TarInv, NEW i \in 1..Len(contents)
    PROVE  EntryBytes(i) = [k \in 1..BlockedSize(contents[i]) |-> TarByte(offsets[i] + k - 1)]
<1> DEFINE e == contents[i]
           B == BlockedSize(e)
           a == Bytes("header", i, 0, e.header)
           b == Bytes("content", i, 0, e.size)
           c == Zeros(B - (e.header + e.size))
           abc == a \o b \o c
<1>1. i \in Nat /\ e \in Entries /\ offsets[i] \in Nat
    BY DEF TarInv
<1>2. e.header \in Nat /\ e.size \in Nat /\ B \in Nat /\ e.header + e.size <= B
    BY <1>1, EntrySizes
<1>3. End(i) = offsets[i] + B /\ End(i) <= current_tar_offset /\ current_tar_offset \in Nat
    BY DEF TarInv, End, Whole
<1> DEFINE h == e.header
           s == e.size
           z == B - (e.header + e.size)
<1>4. h \in Nat /\ s \in Nat /\ z \in Nat /\ h + s + z = B
    BY <1>2
<1> HIDE DEF B, z, h, s
<1>5. IsBytes(a, "header", i, 0, h) /\ IsBytes(b, "content", i, 0, s)
    BY <1>1, <1>4, BytesAre DEF h, s
<1>6. c \in Seq(AnyByte) /\ Len(c) = z /\ \A k \in 1..z : c[k] = Zero
    BY <1>4, ZerosAre DEF z
<1> HIDE DEF a, b, c
<1>7. abc \in Seq(AnyByte) /\ Pieces(abc, a, b, c)
    BY <1>5, <1>6, ThreePieces DEF IsBytes
<1> HIDE DEF abc
<1>8. Len(abc) = B
    BY <1>4, <1>5, <1>6, <1>7 DEF IsBytes, Pieces
<1>9. ASSUME NEW k \in 1..B PROVE abc[k] = TarByte(offsets[i] + k - 1)
    <2> DEFINE y == offsets[i] + k - 1
               j == k - 1
    <2>1. /\ y \in 0..current_tar_offset - 1 /\ offsets[i] <= y /\ y < End(i)
          /\ y - offsets[i] = j /\ k \in Nat /\ k \in 1..Len(abc) /\ j \in Nat /\ j < B
        BY <1>1, <1>3, <1>4, <1>8
    <2> HIDE DEF y
    <2>2. findTarEntry(y) = i
        BY <2>1, EntryFound
    <2>3. TarByte(y) = IF j < h THEN <<"header", i, j>>
                       ELSE IF j < h + s THEN <<"content", i, j - h>> ELSE Zero
        BY <2>1, <2>2 DEF TarByte, EntryByte, h, s
    <2>4. abc[k] = IF k <= h THEN a[k]
                   ELSE IF k <= h + s THEN b[k - h] ELSE c[k - h - s]
        BY <1>5, <1>6, <1>7, <2>1 DEF IsBytes, Pieces
    <2>5. CASE j < h
        <3>1. k \in 1..h /\ k <= h /\ 0 + k - 1 = j
            BY <1>4, <2>1, <2>5
        <3>2. a[k] = <<"header", i, 0 + k - 1>>
            BY <1>5, <3>1 DEF IsBytes
        <3> HIDE DEF j
        <3> QED
            BY <2>3, <2>4, <2>5, <3>1, <3>2 DEF y
    <2>6. CASE ~(j < h) /\ j < h + s
        <3> DEFINE m == k - h
        <3>1. m \in 1..s /\ ~(k <= h) /\ k <= h + s /\ 0 + m - 1 = j - h
            BY <1>4, <2>1, <2>6
        <3>2. b[m] = <<"content", i, 0 + m - 1>>
            <4> HIDE DEF m
            <4> QED BY <1>5, <3>1 DEF IsBytes
        <3>3. abc[k] = b[m]
            BY <2>4, <3>1
        <3> HIDE DEF j, m
        <3> QED
            BY <2>3, <2>6, <3>1, <3>2, <3>3 DEF y
    <2>7. CASE ~(j < h) /\ ~(j < h + s)
        <3> DEFINE m == k - h - s
        <3>1. m \in 1..z /\ ~(k <= h) /\ ~(k <= h + s)
            BY <1>4, <2>1, <2>7
        <3>2. abc[k] = c[m]
            BY <2>4, <3>1
        <3> HIDE DEF j, m
        <3> QED
            BY <1>6, <2>3, <2>7, <3>1, <3>2 DEF y
    <2> QED
        BY <2>5, <2>6, <2>7
<1>10. abc = [k \in 1..B |-> TarByte(offsets[i] + k - 1)]
    <2>1. B \in Nat
        BY <1>4
    <2>2. abc = [k \in 1..B |-> abc[k]]
        BY <1>7, <1>8
    <2> QED
        BY <1>9, <2>2
<1> QED
    BY <1>10 DEF abc, a, b, c, B, EntryBytes

\* The tar is its bytes, from the first to the last.
LEMMA TarIs ==
    ASSUME TarInv, current_tar_offset > 0
    PROVE  Tar = TarUpTo(current_tar_offset)
<1>1. PICK n \in Nat : n = Len(contents)
    BY DEF TarInv
<1> DEFINE seqs == [i \in 1..n |-> EntryBytes(i)]
           G == [i \in 1..n |-> TarUpTo(End(i))]
<1>2. Tar = FlattenSeq(seqs)
    BY <1>1 DEF Tar, EntryBytes
<1>3. /\ n > 0 /\ offsets[1] = 0 /\ End(n) = current_tar_offset
      /\ \A i \in 1..n : offsets[i] \in Nat /\ End(i) \in Nat
      /\ \A i \in 2..n : offsets[i] = End(i - 1)
    BY <1>1, EntriesFollow
<1>4. ASSUME NEW i \in 1..n
      PROVE  /\ TarUpTo(offsets[i]) \o EntryBytes(i) = TarUpTo(End(i))
             /\ offsets[i] = 0 => EntryBytes(i) = TarUpTo(End(i))
    <2>1. offsets[i] \in Nat /\ BlockedSize(contents[i]) \in Nat
        BY <1>1, EntrySizes DEF TarInv
    <2>2. EntryBytes(i) = [k \in 1..BlockedSize(contents[i]) |-> TarByte(offsets[i] + k - 1)]
        BY <1>1, EntryBytesAre
    <2>3. TarUpTo(offsets[i]) \o EntryBytes(i)
            = TarUpTo(offsets[i] + BlockedSize(contents[i]))
        BY <2>1, <2>2, TarUpToIs
    <2>4. ASSUME offsets[i] = 0 PROVE EntryBytes(i) = TarUpTo(BlockedSize(contents[i]))
        BY <2>1, <2>2, <2>4 DEF TarUpTo
    <2>5. offsets[i] = 0 => End(i) = BlockedSize(contents[i])
        BY <2>1 DEF End
    <2> QED
        BY <2>3, <2>4, <2>5 DEF End
<1>5. ASSUME NEW i \in 1..n
      PROVE  G[i] = IF i = 1 THEN seqs[i] ELSE G[i - 1] \o seqs[i]
    <2>1. CASE i = 1
        BY <1>3, <1>4, <2>1
    <2>2. CASE i # 1
        <3>1. i \in 2..n /\ i - 1 \in 1..n
            BY <2>2
        <3>2. offsets[i] = End(i - 1)
            BY <1>3, <3>1
        <3> QED
            BY <1>4, <2>2, <3>1, <3>2
    <2> QED
        BY <2>1, <2>2
<1>6. Len(seqs) = n
    OBVIOUS
<1>7. Flattens(G, seqs, n)
    BY <1>5 DEF Flattens
<1>8. G[n] = TarUpTo(current_tar_offset)
    BY <1>3
<1> HIDE DEF G, seqs
<1>9. FlattenSeq(seqs) = G[n]
    BY <1>3, <1>6, <1>7, FlattenIs
<1> QED
    BY <1>2, <1>8, <1>9

\* Where the content of a part begins and ends in the tar.
PartBegin(p) == calculateOriginTarOffset(p, FirstContent(p))
PartEnd(p) == calculateOriginTarOffset(p, partContentSize(p))

\* Each part begins where the one before it ends, the first at the beginning and
\* the last at the end of the tar.
LEMMA PartsFollow ==
    ASSUME Facts
    PROVE  /\ PartBegin(0) = 0 /\ PartEnd(layout.num_parts - 1) = current_tar_offset
           /\ \A p \in Parts : PartBegin(p) \in Nat /\ PartEnd(p) \in Nat
           /\ \A p \in Parts :
                 PartEnd(p) = PartBegin(p) + (partContentSize(p) - FirstContent(p))
           /\ \A p \in Parts : p > 0 => PartBegin(p) = PartEnd(p - 1)
<1> USE DEF PartBegin, PartEnd, calculateOriginTarOffset, FirstContent
<1>1. ASSUME NEW p \in Parts
      PROVE  /\ p \in Nat /\ FirstContent(p) \in Nat /\ partContentSize(p) \in Nat
             /\ FirstContent(p) < partContentSize(p)
    BY PartFacts DEF Facts
<1>2. CASE OnePart
    <2>1. layout.num_parts = 1 /\ layout.last_part_size = current_tar_offset
        BY <1>2 DEF OnePart
    <2>2. Parts = {0} /\ partContentSize(0) = current_tar_offset
        BY <2>1 DEF Parts, partContentSize
    <2>3. current_tar_offset \in Nat
        BY DEF Facts, Whole
    <2> QED
        BY <2>1, <2>2, <2>3
<1>3. CASE ManyParts
    <2> DEFINE D == split - header
               num == layout.num_parts
               last == layout.last_part_size
    <2>1. /\ num \in Nat /\ num >= 2 /\ split \in Nat /\ header \in Nat /\ D \in Nat
          /\ last \in Nat /\ header < last /\ header < split
          /\ layout.part_size = split /\ layout.part_header_size = header
          /\ current_tar_offset = (last - header) + split + (num - 2) * D
        BY <1>3, BlockAssumption DEF ManyParts
    <2> HIDE DEF D, last, num
    <2>2. /\ PartBegin(0) = 0 /\ PartEnd(0) = split /\ 0 \in Parts
          /\ partContentSize(0) = split /\ FirstContent(0) = 0
        BY <2>1 DEF partContentSize, Parts, num
    <2>3. ASSUME NEW p \in Parts, p > 0
          PROVE  /\ p - 1 \in Nat /\ (p - 1) * D \in Nat
                 /\ PartBegin(p) = split + (p - 1) * D
                 /\ PartEnd(p) = (partContentSize(p) - header) + split + (p - 1) * D
                 /\ FirstContent(p) = header
        <3>1. p \in Nat /\ p # 0 /\ p - 1 \in Nat /\ FirstContent(p) = header
            BY <1>1, <2>1, <2>3
        <3>2. (p - 1) * D \in Nat
            BY <2>1, <3>1
        <3>3. PartBegin(p) = (header - header) + split + (p - 1) * D
            BY <2>1, <3>1 DEF D
        <3>4. PartEnd(p) = (partContentSize(p) - header) + split + (p - 1) * D
            BY <2>1, <3>1 DEF D
        <3>5. PartBegin(p) = split + (p - 1) * D
            BY <2>1, <3>2, <3>3
        <3> QED
            BY <3>1, <3>2, <3>4, <3>5
    <2>4. PartEnd(num - 1) = current_tar_offset
        <3>1. num - 1 \in Parts /\ num - 1 > 0 /\ partContentSize(num - 1) = last
            BY <2>1 DEF Parts, partContentSize, num, last
        <3>2. PartEnd(num - 1) = (last - header) + split + ((num - 1) - 1) * D
            BY <2>3, <3>1
        <3>3. (num - 1) - 1 = num - 2
            BY <2>1
        <3> QED
            BY <2>1, <3>2, <3>3
    <2>5. ASSUME NEW p \in Parts
          PROVE  /\ PartBegin(p) \in Nat /\ PartEnd(p) \in Nat
                 /\ PartEnd(p) = PartBegin(p) + (partContentSize(p) - FirstContent(p))
        <3>1. CASE p = 0
            BY <2>1, <2>2, <3>1
        <3>2. CASE p > 0
            <4> DEFINE m == (p - 1) * D
                       c == partContentSize(p)
            <4>1. /\ m \in Nat /\ PartBegin(p) = split + m
                  /\ PartEnd(p) = (c - header) + split + m
                  /\ FirstContent(p) = header /\ c \in Nat /\ header < c
                BY <1>1, <2>3, <3>2
            <4> HIDE DEF m, c, PartBegin, PartEnd, FirstContent
            <4> QED
                BY <2>1, <4>1 DEF c
        <3> QED
            BY <1>1, <3>1, <3>2
    <2>6. ASSUME NEW p \in Parts, p > 0 PROVE PartBegin(p) = PartEnd(p - 1)
        <3> DEFINE q == p - 1
        <3>1. /\ p \in Nat /\ q \in Nat /\ q \in Parts /\ q < num - 1
              /\ partContentSize(q) = split
            BY <1>1, <2>1, <2>6 DEF Parts, partContentSize, num
        <3>2. PartBegin(p) = split + q * D
            BY <2>3, <2>6
        <3> HIDE DEF q
        <3>3. CASE q = 0
            <4> HIDE DEF PartBegin, PartEnd, FirstContent
            <4>1. q * D = 0 /\ PartEnd(q) = split
                BY <2>1, <2>2, <3>3
            <4> QED
                BY <2>1, <3>2, <4>1 DEF q
        <3>4. CASE q > 0
            <4>1. PartEnd(q) = (split - header) + split + (q - 1) * D
                BY <2>3, <3>1, <3>4
            <4>2. q * D = D + (q - 1) * D
                <5>1. q - 1 \in Nat /\ q = 1 + (q - 1)
                    BY <3>1, <3>4
                <5> HIDE DEF PartBegin, PartEnd
                <5>2. PICK r \in Nat : r = q - 1
                    BY <5>1
                <5>3. q = 1 + r /\ (1 + r) * D = D + r * D
                    BY <2>1, <5>1, <5>2
                <5> QED
                    BY <5>2, <5>3
            <4>3. (q - 1) * D \in Nat
                BY <2>3, <3>1, <3>4
            <4>4. split - header = D
                BY DEF D
            <4> HIDE DEF PartBegin, PartEnd
            <4>5. PartEnd(q) = D + split + (q - 1) * D
                BY <4>1, <4>4
            <4>6. split + (D + (q - 1) * D) = D + split + (q - 1) * D
                BY <2>1, <4>3
            <4> QED
                BY <3>2, <4>2, <4>5, <4>6 DEF q
        <3> QED
            BY <3>1, <3>3, <3>4 DEF q
    <2> QED
        BY <2>2, <2>4, <2>5, <2>6 DEF num
<1> QED
    BY <1>2, <1>3 DEF Facts

\* What a part adds to the tar.
PartBytes(k) == SubSeq(storage[k], FirstContent(k - 1) + 1, partContentSize(k - 1))

\* The content of the parts, one after the other, is the tar.
LEMMA JoinedIs ==
    ASSUME Facts, BytesInv, pc = "idle"
    PROVE  Joined = TarUpTo(current_tar_offset)
<1>1. PICK n \in Nat : n = layout.num_parts
    BY DEF Facts, OnePart, ManyParts
<1>2. n > 0 /\ \A p : p \in Parts <=> p \in 0..n - 1
    BY <1>1 DEF Facts, OnePart, ManyParts, Parts
<1> DEFINE seqs == [k \in 1..n |-> PartBytes(k)]
           G == [k \in 1..n |-> TarUpTo(PartEnd(k - 1))]
<1>3. Joined = FlattenSeq(seqs)
    BY <1>1 DEF Joined, PartBytes
<1>4. /\ PartBegin(0) = 0 /\ PartEnd(n - 1) = current_tar_offset
      /\ \A p \in Parts : PartBegin(p) \in Nat /\ PartEnd(p) \in Nat
      /\ \A p \in Parts :
            PartEnd(p) = PartBegin(p) + (partContentSize(p) - FirstContent(p))
      /\ \A p \in Parts : p > 0 => PartBegin(p) = PartEnd(p - 1)
    BY <1>1, PartsFollow
<1>5. ASSUME NEW k \in 1..n
      PROVE  /\ TarUpTo(PartBegin(k - 1)) \o PartBytes(k) = TarUpTo(PartEnd(k - 1))
             /\ PartBegin(k - 1) = 0 => PartBytes(k) = TarUpTo(PartEnd(k - 1))
    <2> DEFINE p == k - 1
               o == FirstContent(p)
               c == partContentSize(p)
               m == c - o
               x == PartBegin(p)
               bytes == PartBytes(k)
    <2>1. p \in Parts /\ p + 1 = k
        BY <1>2
    <2>2. o \in Nat /\ c \in Nat /\ o < c
        <3> HIDE DEF p
        <3> QED BY <2>1, PartFacts DEF Facts
    <2>3. o \in o..c - 1 /\ m \in Nat /\ o + m = c
        <3> HIDE DEF o, c
        <3> QED BY <2>2
    <2>4. x \in Nat /\ PartEnd(p) = x + m
        BY <1>4, <2>1
    <2>5. /\ bytes \in Seq(AnyByte) /\ Len(bytes) = m
          /\ \A j \in 1..m : bytes[j] = TarByte(x + (j - 1))
        <3>1. bytes = SubSeq(storage[p + 1], o + 1, o + m)
            BY <2>1, <2>3 DEF PartBytes
        <3> HIDE DEF bytes, m
        <3>2. m \in Nat /\ o + m <= c /\ o \in o..c - 1
            BY <2>2, <2>3
        <3> HIDE DEF p
        <3>3. /\ SubSeq(storage[p + 1], o + 1, o + m) \in Seq(AnyByte)
              /\ Len(SubSeq(storage[p + 1], o + 1, o + m)) = m
              /\ \A j \in 1..m : SubSeq(storage[p + 1], o + 1, o + m)[j]
                                   = TarByte(calculateOriginTarOffset(p, o) + (j - 1))
            BY <2>1, <3>2, StoredBytes
        <3> QED
            BY <3>1, <3>3 DEF PartBegin
    <2> HIDE DEF bytes, m, x
    <2>6. bytes = [j \in 1..m |-> TarByte(x + j - 1)]
        <3>1. bytes = [j \in 1..m |-> bytes[j]] /\ m \in Nat
            BY <2>3, <2>5
        <3>2. ASSUME NEW j \in 1..m PROVE bytes[j] = TarByte(x + j - 1)
            <4>1. x + j - 1 = x + (j - 1)
                BY <2>4
            <4> QED
                BY <2>5, <4>1
        <3> QED
            BY <3>1, <3>2
    <2>7. TarUpTo(x) \o bytes = TarUpTo(x + m)
        BY <2>3, <2>4, <2>6, TarUpToIs
    <2>8. ASSUME x = 0 PROVE bytes = TarUpTo(x + m)
        <3>1. x + m = m /\ \A j \in 1..m : x + j - 1 = j - 1
            BY <2>3, <2>8
        <3> QED
            BY <2>6, <3>1 DEF TarUpTo
    <2>9. TarUpTo(x + m) = TarUpTo(PartEnd(p))
        BY <2>4
    <2> QED
        BY <2>7, <2>8, <2>9 DEF bytes, x
<1>6. ASSUME NEW k \in 1..n
      PROVE  G[k] = IF k = 1 THEN seqs[k] ELSE G[k - 1] \o seqs[k]
    <2>1. CASE k = 1
        <3>1. k - 1 = 0 /\ seqs[k] = PartBytes(k) /\ G[k] = TarUpTo(PartEnd(k - 1))
            BY <2>1
        <3> QED
            BY <1>4, <1>5, <2>1, <3>1
    <2>2. CASE k # 1
        <3>1. k - 1 \in 1..n /\ k - 1 \in Parts /\ k - 1 > 0
            BY <1>2, <2>2
        <3>2. PartBegin(k - 1) = PartEnd((k - 1) - 1)
            BY <1>4, <3>1
        <3>3. G[k - 1] = TarUpTo(PartBegin(k - 1))
            BY <3>1, <3>2
        <3>4. G[k - 1] \o seqs[k] = G[k]
            BY <1>5, <3>3
        <3> QED
            BY <2>2, <3>4
    <2> QED
        BY <2>1, <2>2
<1>7. Len(seqs) = n
    OBVIOUS
<1>8. Flattens(G, seqs, n)
    BY <1>6 DEF Flattens
<1>9. G[n] = TarUpTo(current_tar_offset)
    BY <1>2, <1>4
<1> HIDE DEF G, seqs
<1>10. FlattenSeq(seqs) = G[n]
    BY <1>2, <1>7, <1>8, FlattenIs
<1> QED
    BY <1>3, <1>9, <1>10

\* Whatever the buffers, the parts and the padding, the parts of a finished store
\* are the tar: nothing is missing, doubled or in the wrong place.
THEOREM StoreMakesTheTar == Spec => []PartsMakeTheTar
<1>1. IInv /\ TarInv /\ (Unspoilt => BytesInv) => PartsMakeTheTar
    <2> SUFFICES ASSUME IInv, TarInv, BytesInv, pc = "idle" PROVE Joined = Tar
        BY DEF PartsMakeTheTar, Unspoilt
    <2>1. Facts
        BY FactsHold
    <2> QED
        BY <2>1, JoinedIs, TarIs DEF Facts
<1> QED
    BY <1>1, TarGrows, BytesAreRight, PTL

=============================================================================
