----------------------------- MODULE VirtualTar -----------------------------
(***************************************************************************)
(* A virtual tar file, from its layout to the bytes a restore reads back.  *)
(* The tar is never built: its bytes are calculated from its entries when  *)
(* a part of it is written to the storage, a buffer at a time.  A tar with *)
(* a single large file is split into parts of equal size, all but the      *)
(* first with a multivolume header of their own.  A restore finds the      *)
(* bytes of a file again from the few sizes the index file tells it.       *)
(*                                                                         *)
(* The origin does not change here while the tar is written (what happens  *)
(* then is in BeakStorage), but its files may be unreadable for a while or *)
(* for good.  The storage keeps what was written.                          *)
(***************************************************************************)
EXTENDS Integers, SequencesExt

CONSTANTS
    Block,         \* T_BLOCKSIZE
    BufferSize,    \* of createFile
    Entries,       \* what may be in a tar: a header and the size of a file
    MaxEntries,    \* bound: the number of entries of a tar
    SplitSizes,    \* the split sizes a user may choose
    PartHeaders,   \* the sizes of a multivolume header, 0 with --tarheader=none
    Paddings,      \* the padding styles
    TargetSize,    \* of absolute padding
    DiskUnit       \* relative padding rounds up to a multiple of it; it stands for
                   \* the four units, from 1000 to 1000000, of tars of any size

ASSUME BlockAssumption == Block \in Nat \ {0}
ASSUME BufferSizeAssumption == BufferSize \in Nat \ {0} /\ BufferSize % Block = 0
ASSUME EntriesAssumption ==
    /\ Entries \subseteq [header : Nat, size : Nat]
    /\ \A e \in Entries : e.header % Block = 0
ASSUME PartHeadersAssumption == PartHeaders \subseteq {0, Block}
\* scanFileSystem refuses split sizes that are not whole blocks; splitParts_ and
\* readVirtualTar assert that the headers are shorter than a part.
ASSUME SplitSizesAssumption ==
    /\ SplitSizes \subseteq Nat
    /\ \A s \in SplitSizes :
        /\ s % Block = 0
        /\ \A h \in PartHeaders : h < s
        /\ \A e \in Entries : e.header < s
ASSUME PaddingsAssumption == Paddings \subseteq {"None", "Absolute", "Relative"}
ASSUME TargetSizeAssumption == TargetSize \in Nat
ASSUME DiskUnitAssumption == DiskUnit \in Nat \ {0}

VARIABLES
    large,      \* SINGLE_LARGE_FILE_TAR, the only kind that is split
    split,      \* tar_split_size
    header,     \* the size of a multivolume header
    padding,    \* the padding style
    contents,   \* the entries of the tar
    offsets,    \* where each of them begins
    current_tar_offset,
    layout,     \* the number of parts, their sizes, and their header
    storage,    \* the parts written so far, each a sequence of bytes
    pc,         \* "add", then "write" and "copy", then "idle" and "read"
    from,       \* the offset readVirtualTar, or readParts, has come to
    want,       \* how many bytes it still has to deliver
    buf,        \* the bytes it has delivered
    file, start,\* the entry that is read, and from which offset
    unreadable, \* the origin: reads of its files fail at present
    spoilt      \* history: a read that failed has overwritten a byte of a file

optionVars == <<large, split, header, padding>>
tarVars == <<contents, offsets, current_tar_offset, layout>>
readVars == <<file, start>>
failVars == <<unreadable, spoilt>>
vars == <<optionVars, tarVars, storage, pc, from, want, buf, readVars, failVars>>

\* Bytes are told apart by where they come from.
Zero == <<"zero">>
Bytes(what, i, first, n) == [k \in 1..n |-> <<what, i, first + k - 1>>]
Zeros(n) == [k \in 1..n |-> Zero]

Least(a, b) == IF a < b THEN a ELSE b

RoundUp(n, unit) == ((n + unit - 1) \div unit) * unit

-----------------------------------------------------------------------------
(* The layout                                                              *)

BlockedSize(e) == RoundUp(e.header + e.size, Block)

\* The last entry that begins at offset or before it.
findTarEntry(offset) ==
    CHOOSE i \in 1..Len(contents) :
        /\ offsets[i] <= offset
        /\ \A j \in 1..Len(contents) : offsets[j] <= offset => j <= i

\* Mutant: a tar that is a multiple of the split size is the perfect fit.
SplitIntoEqualParts(total, size, head) ==
    LET n == (total - head) \div (size - head)
    IN  IF total % size = 0
        THEN [num_parts |-> n, part_size |-> size,
              last_part_size |-> size, part_header_size |-> head]
        ELSE [num_parts |-> n + 1, part_size |-> size,
              last_part_size |-> head + (total - (size + (n - 1) * (size - head))),
              part_header_size |-> head]

\* The first part has no multivolume header, it holds content instead.
splitParts_(total, size, head) ==
    LET n      == (total - head) \div (size - head)
        stores == size + (n - 1) * (size - head)
    IN  IF stores = total
        THEN [num_parts |-> n, part_size |-> size,
              last_part_size |-> size, part_header_size |-> head]
        ELSE [num_parts |-> n + 1, part_size |-> size,
              last_part_size |-> head + (total - stores), part_header_size |-> head]

fixSize(total) ==
    IF total <= split \/ ~large
    THEN [num_parts |-> 1, part_size |-> total,
          last_part_size |-> total, part_header_size |-> 0]
    ELSE splitParts_(total, split, header)

Parts == 0..layout.num_parts - 1

partContentSize(partnr) ==
    IF partnr < layout.num_parts - 1 THEN layout.part_size ELSE layout.last_part_size

onDiskSize(n) ==
    IF n = 0 \/ padding = "None" THEN n
    ELSE IF padding = "Absolute" /\ n <= TargetSize THEN TargetSize
    ELSE RoundUp(n, DiskUnit)

diskSize(partnr) == onDiskSize(partContentSize(partnr))

\* Mutant: the first part is counted with the multivolume parts.
OffsetAfterEqualParts(partnr, offset) ==
    IF partnr = 0 THEN offset
    ELSE (offset - layout.part_header_size)
           + partnr * (layout.part_size - layout.part_header_size)

\* From an offset in the content of a part to the offset in the whole tar.
calculateOriginTarOffset(partnr, offset) ==
    IF partnr = 0 THEN offset
    ELSE (offset - layout.part_header_size) + layout.part_size
           + (partnr - 1) * (layout.part_size - layout.part_header_size)

\* Mutant: the multivolume header is not skipped.
PartWithoutHeader(offset) ==
    IF offset < layout.part_size THEN [partnr |-> 0, offset |-> offset]
    ELSE LET past == offset - layout.part_size
             data == layout.part_size - layout.part_header_size
         IN  [partnr |-> past \div data + 1, offset |-> past % data]

\* And back, in the restore: the part, and the offset in it.
findPartContainingOffset(offset) ==
    IF offset < layout.part_size THEN [partnr |-> 0, offset |-> offset]
    ELSE LET past == offset - layout.part_size
             data == layout.part_size - layout.part_header_size
         IN  [partnr |-> past \div data + 1,
              offset |-> (past % data) + layout.part_header_size]

-----------------------------------------------------------------------------
(* Grouping entries into the tar                                           *)

Init ==
    /\ large \in BOOLEAN
    /\ split \in SplitSizes
    /\ header \in PartHeaders
    /\ padding \in Paddings
    /\ contents = << >> /\ offsets = << >>
    /\ current_tar_offset = 0
    /\ layout = [num_parts |-> 1, part_size |-> 0,
                 last_part_size |-> 0, part_header_size |-> 0]
    /\ storage = << << >> >>
    /\ pc = "add"
    /\ from = 0 /\ want = 0 /\ buf = << >>
    /\ file = 0 /\ start = 0
    /\ unreadable = FALSE /\ spoilt = FALSE

\* With --tarheader=none no entry has a header.  Two files are in one large tar
\* when the hashes of their paths are the same.
addEntryLast(e) ==
    /\ pc = "add"
    /\ Len(contents) < MaxEntries
    /\ (e.header = 0) <=> (header = 0)
    /\ contents' = Append(contents, e)
    /\ offsets' = Append(offsets, current_tar_offset)
    /\ current_tar_offset' = current_tar_offset + BlockedSize(e)
    /\ UNCHANGED <<optionVars, layout, storage, pc, from, want, buf, readVars, failVars>>

\* A tar without content is not stored.
FixSize ==
    /\ pc = "add" /\ current_tar_offset > 0
    /\ layout' = fixSize(current_tar_offset)
    /\ pc' = "write"
    /\ UNCHANGED <<optionVars, contents, offsets, current_tar_offset, storage,
                   from, want, buf, readVars, failVars>>

-----------------------------------------------------------------------------
(* Writing the parts                                                       *)

partnr == Len(storage) - 1   \* the part that is written

Written == storage[Len(storage)]

\* createFile asks for the next buffer.
AcquireBytes ==
    /\ pc = "write"
    /\ Len(Written) < diskSize(partnr)
    /\ pc' = "copy"
    /\ from' = Len(Written)
    /\ want' = Least(diskSize(partnr) - Len(Written), BufferSize)
    /\ buf' = << >>
    /\ UNCHANGED <<optionVars, tarVars, storage, readVars, failVars>>

Deliver(bytes) ==
    /\ buf' = buf \o bytes
    /\ from' = from + Len(bytes)
    /\ want' = want - Len(bytes)

CopyPartHeader ==
    /\ pc = "copy" /\ want > 0
    /\ partnr > 0 /\ from < layout.part_header_size
    /\ Deliver(Bytes("multivol", partnr, from,
                     Least(want, layout.part_header_size - from)))
    /\ UNCHANGED <<optionVars, tarVars, storage, pc, readVars, failVars>>

\* Mutant: the end of a file is not filled up to the next block.
CopyWithoutFill(i, n, at) ==
    LET e == contents[i]
        h == IF at < e.header THEN Least(n, e.header - at) ELSE 0
        l == IF at + h \in e.header..e.header + e.size - 1
             THEN Least(n - h, e.header + e.size - (at + h)) ELSE 0
    IN  Bytes("header", i, at, h) \o Bytes("content", i, at + h - e.header, l)

\* TarEntry::copy of at most n bytes of an entry, from offset at: what is left
\* of its header, then of its file, filled up to the next block.
copy(i, n, at) ==
    LET e      == contents[i]
        h      == IF at < e.header THEN Least(n, e.header - at) ELSE 0
        l      == IF at + h \in e.header..e.header + e.size - 1
                  THEN Least(n - h, e.header + e.size - (at + h)) ELSE 0
        copied == h + l
        fill   == Least(RoundUp(copied, Block) - copied, n - copied)
    IN  Bytes("header", i, at, h) \o Bytes("content", i, at + h - e.header, l)
          \o Zeros(fill)

\* The copy has a file to read from, when it has come past the header.
Reads(i, n, at) ==
    LET e == contents[i]
    IN  at < BlockedSize(e) /\ e.header < BlockedSize(e) /\ at + n > e.header

CopyEntry ==
    /\ pc = "copy" /\ want > 0
    /\ ~(partnr > 0 /\ from < layout.part_header_size)
    /\ from < partContentSize(partnr)
    /\ LET origin_from == calculateOriginTarOffset(partnr, from)
           i == findTarEntry(origin_from)
           n == Least(want, partContentSize(partnr) - from)
           at == origin_from - offsets[i]
       IN  /\ ~(unreadable /\ Reads(i, n, at))
           /\ Deliver(copy(i, n, at))
    /\ UNCHANGED <<optionVars, tarVars, storage, pc, readVars, failVars>>

\* pread returns -1, which is printed and then added to the bytes copied.  If a
\* header was, the copy ends there: its last byte, a zero, becomes a zero again.
\* If not, the copy comes back with nothing, and the last byte in the buffer,
\* which may be another file's, has become a zero.
CopyFails ==
    /\ pc = "copy" /\ want > 0
    /\ ~(partnr > 0 /\ from < layout.part_header_size)
    /\ from < partContentSize(partnr)
    /\ LET origin_from == calculateOriginTarOffset(partnr, from)
           i == findTarEntry(origin_from)
           n == Least(want, partContentSize(partnr) - from)
           at == origin_from - offsets[i]
       IN  /\ unreadable /\ Reads(i, n, at)
           /\ IF at < contents[i].header
              THEN /\ Deliver(Bytes("header", i, at, contents[i].header - at))
                   /\ UNCHANGED spoilt
              ELSE /\ buf # << >> /\ Last(buf)[1] = "content"
                   /\ buf' = Append(Front(buf), Zero)
                   /\ spoilt' = TRUE
                   /\ UNCHANGED <<from, want>>
    /\ UNCHANGED <<optionVars, tarVars, storage, pc, readVars, unreadable>>

CopyPadding ==
    /\ pc = "copy" /\ want > 0
    /\ ~(partnr > 0 /\ from < layout.part_header_size)
    /\ from >= partContentSize(partnr) /\ from < diskSize(partnr)
    /\ Deliver(Zeros(Least(want, diskSize(partnr) - from)))
    /\ UNCHANGED <<optionVars, tarVars, storage, pc, readVars, failVars>>

WriteBytes ==
    /\ pc = "copy" /\ want = 0
    /\ storage' = [storage EXCEPT ![Len(storage)] = @ \o buf]
    /\ pc' = "write"
    /\ from' = 0 /\ buf' = << >>
    /\ UNCHANGED <<optionVars, tarVars, want, readVars, failVars>>

NextPart ==
    /\ pc = "write"
    /\ Len(Written) = diskSize(partnr)
    /\ partnr + 1 \in Parts
    /\ storage' = Append(storage, << >>)
    /\ UNCHANGED <<optionVars, tarVars, pc, from, want, buf, readVars, failVars>>

EndWrite ==
    /\ pc = "write"
    /\ Len(Written) = diskSize(partnr)
    /\ partnr + 1 \notin Parts
    /\ pc' = "idle"
    /\ UNCHANGED <<optionVars, tarVars, storage, from, want, buf, readVars, failVars>>

-----------------------------------------------------------------------------
(* Reading a file back                                                     *)

\* The index file gives the offset of the file in the tar.
StartRead ==
    /\ pc = "idle"
    /\ \E i \in 1..Len(contents) :
       \E first \in 0..contents[i].size - 1 :
       \E n \in 1..contents[i].size - first :
        /\ file' = i
        /\ start' = first
        /\ want' = n
        /\ from' = first + offsets[i] + contents[i].header
    /\ pc' = "read"
    /\ UNCHANGED <<optionVars, tarVars, storage, buf, failVars>>

\* One read in a part, as far as its content goes.
ReadPart ==
    /\ pc = "read" /\ want > 0
    /\ LET part == IF layout.num_parts = 1 THEN [partnr |-> 0, offset |-> from]
                   ELSE findPartContainingOffset(from)
           n    == IF layout.num_parts = 1 THEN want
                   ELSE Least(want, partContentSize(part.partnr) - part.offset)
       IN  Deliver(SubSeq(storage[part.partnr + 1], part.offset + 1, part.offset + n))
    /\ UNCHANGED <<optionVars, tarVars, storage, pc, readVars, failVars>>

EndRead ==
    /\ pc = "read" /\ want = 0
    /\ pc' = "idle"
    /\ from' = 0 /\ buf' = << >> /\ file' = 0 /\ start' = 0
    /\ UNCHANGED <<optionVars, tarVars, storage, want, failVars>>

-----------------------------------------------------------------------------

\* Reads begin to fail, or work again; it shows only while entries are copied.
Readability ==
    /\ pc = "copy"
    /\ unreadable' = ~unreadable
    /\ UNCHANGED <<optionVars, tarVars, storage, pc, from, want, buf, readVars, spoilt>>

WriteStep ==
    \/ AcquireBytes
    \/ CopyPartHeader
    \/ CopyEntry
    \/ CopyFails
    \/ CopyPadding
    \/ WriteBytes
    \/ NextPart
    \/ EndWrite

ReadStep == ReadPart \/ EndRead

Next ==
    \/ \E e \in Entries : addEntryLast(e)
    \/ FixSize
    \/ WriteStep
    \/ Readability
    \/ StartRead
    \/ ReadStep

Spec == Init /\ [][Next]_vars

FairSpec == Spec /\ WF_vars(WriteStep) /\ WF_vars(ReadStep)

-----------------------------------------------------------------------------
(* Properties                                                              *)

\* The state is of the expected form.
TypeOK ==
    /\ large \in BOOLEAN /\ split \in SplitSizes
    /\ header \in PartHeaders /\ padding \in Paddings
    /\ contents \in Seq(Entries) /\ offsets \in Seq(Nat)
    /\ current_tar_offset \in Nat
    /\ layout \in [num_parts : Nat \ {0}, part_size : Nat,
                   last_part_size : Nat, part_header_size : PartHeaders \cup {0}]
    /\ pc \in {"add", "write", "copy", "idle", "read"}
    /\ storage # << >> /\ partnr \in Parts
    /\ from \in Nat /\ want \in Nat
    /\ unreadable \in BOOLEAN /\ spoilt \in BOOLEAN

FirstContent(p) == IF p = 0 THEN 0 ELSE layout.part_header_size

\* The part and the offset the writer takes a byte of the tar to are the ones
\* a restore looks for it at, the parts hold all of the tar, and none of them
\* is longer than the split size or without content.
PartsAddUp ==
    pc # "add" =>
        LET last == layout.num_parts - 1
        IN  /\ \A p \in Parts :
                  /\ partContentSize(p) <= layout.part_size
                  /\ p > 0 => partContentSize(p) > layout.part_header_size
                  /\ \A o \in FirstContent(p)..partContentSize(p) - 1 :
                        findPartContainingOffset(calculateOriginTarOffset(p, o))
                            = [partnr |-> p, offset |-> o]
            /\ calculateOriginTarOffset(last, partContentSize(last)) = current_tar_offset
            /\ large => layout.part_size <= split

\* The entries one after the other, each filled up to a block.
Tar ==
    FlattenSeq([i \in 1..Len(contents) |->
        LET e == contents[i]
        IN  Bytes("header", i, 0, e.header) \o Bytes("content", i, 0, e.size)
              \o Zeros(BlockedSize(e) - (e.header + e.size))])

\* The content of the parts, one after the other.
Joined ==
    FlattenSeq([k \in 1..layout.num_parts |->
        SubSeq(storage[k], FirstContent(k - 1) + 1, partContentSize(k - 1))])

\* Whatever the buffers, parts and padding, and whatever reads failed before they
\* worked again, the parts of a finished store are the tar: multivolume headers
\* and padding removed, nothing is missing, doubled or in the wrong place.  Only
\* in a tar without headers a read that failed may have spoilt a byte.
PartsMakeTheTar == pc = "idle" /\ ~(spoilt /\ header = 0) => Joined = Tar

\* A read of any piece of a file gives that piece of the file, as far as it has
\* come, across the borders of parts.
ReadsBack ==
    pc = "read" /\ ~(spoilt /\ header = 0) => buf = Bytes("content", file, start, Len(buf))

\* A store of the tar, and a read of a file in it, come to their end: no buffer is
\* waited for that nothing fills, and no part asked for what it does not hold.
\* Of the origin it takes no more than that its files can be read in the end.
CopiesEnd == <>[]~unreadable => (pc \in {"write", "read"} ~> pc = "idle")

\* The claim of a store that ends without a complaint, which fails: a tar without
\* headers, of which a read failed and worked again, has lost a byte.
StoresTheTar == pc = "idle" => Joined = Tar

=============================================================================
