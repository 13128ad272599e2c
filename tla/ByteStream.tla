----------------------------- MODULE ByteStream -----------------------------
(***************************************************************************)
(* vlc_block_helper.h of the VLC SDK, and the chains of vlc_block.h: a     *)
(* stream of bytes kept as the blocks it came in, with the block and the   *)
(* offset in it where reading goes on.  Blocks read stay until a flush.    *)
(* A byte is a member of Octets.                                           *)
(***************************************************************************)
EXTENDS Integers, SequencesExt

CONSTANTS
    Octets,
    MaxBytes,   \* bound: bytes in a stream
    MaxBlocks,  \* bound: blocks in a stream
    MaxSize,    \* bound: bytes in a block
    Startcodes  \* what a caller may look for

VARIABLES
    p_chain,    \* the blocks
    p_block,    \* the one reading goes on in, 0 for NULL
    i_offset,   \* and where in it
    outcome,    \* what the last operation was asked for and handed out
    startcode,  \* what the caller looks for
    pi_offset,  \* where it looks on, counted from the reading position
    found       \* what the last search returned

stream == <<p_chain, p_block, i_offset>>
search == <<startcode, pi_offset, found>>
vars   == <<stream, outcome, search>>

Nothing == [asked |-> 0, bytes |-> <<>>]

(* block_BytestreamInit.                                                   *)
Init ==
    /\ p_chain = <<>> /\ p_block = 0 /\ i_offset = 0
    /\ outcome = Nothing
    /\ startcode \in Startcodes /\ pi_offset = 0 /\ found = FALSE

(* A search starts anew when what it counts from has changed.              *)
NewSearch == pi_offset' = 0 /\ found' = FALSE /\ UNCHANGED startcode

---------------------------------------------------------------------------
(* The loop of block_WaitBytes, SkipBytes, PeekBytes, GetBytes and          *)
(* PeekOffsetBytes: from a block and the offset in it, a piece of each     *)
(* block is taken until left bytes are.  Block 0 is NULL.                  *)

Size(b) == Len(p_chain[b])

Least(S) == CHOOSE m \in S : \A n \in S : m <= n

Walks == [block : Nat, offset : Nat, left : Nat, bytes : Seq(Octets)]

NextBlock(s) == [s EXCEPT !.block = @ + 1, !.offset = 0]

Walk[s \in Walks] ==
    LET i_copy == Least({s.left, Size(s.block) - s.offset})
        piece  == SubSeq(p_chain[s.block], s.offset + 1, s.offset + i_copy)
        after  == [s EXCEPT !.left = @ - i_copy, !.bytes = @ \o piece]
    IN  IF s.block \notin 1..Len(p_chain) THEN [s EXCEPT !.block = 0]
        ELSE IF after.left = 0 THEN [after EXCEPT !.offset = @ + i_copy]
        ELSE Walk[NextBlock(after)]

WalkFrom(b, offset, n) ==
    Walk[[block |-> b, offset |-> offset, left |-> n, bytes |-> <<>>]]

Ahead(n) == WalkFrom(p_block, i_offset, n)

---------------------------------------------------------------------------
(* Mutant: the offset is taken for one in every block.                     *)
BeginMutant(b) == i_offset

(* Where reading begins in a block from p_block on.                        *)
Begin(b) == IF b = p_block THEN i_offset ELSE 0

(* The first bytes of a chain, at most so many.                            *)
ChainExtract(c, i_max) ==
    LET bytes == FlattenSeq(c) IN SubSeq(bytes, 1, Least({i_max, Len(bytes)}))

(* One block of a chain.                                                   *)
ChainGather(c) == <<ChainExtract(c, Len(FlattenSeq(c)))>>

(* Whatever is appended goes behind the last block.                        *)
ChainAppend(c) == p_chain \o c

Push(c) ==
    /\ Len(p_chain) + Len(c) <= MaxBlocks
    /\ Len(FlattenSeq(ChainAppend(c))) <= MaxBytes
    /\ p_chain' = ChainAppend(c)
    /\ p_block' = IF p_block = 0 THEN Len(p_chain) + 1 ELSE p_block
    /\ outcome' = Nothing
    /\ UNCHANGED <<i_offset, search>>

block_BytestreamRelease ==
    /\ p_chain' = <<>> /\ p_block' = 0 /\ i_offset' = 0
    /\ outcome' = Nothing /\ NewSearch

(* The chain after a flush: blocks before p_block go, and then those with  *)
(* nothing left.                                                           *)
Flushed ==
    LET kept == {b \in p_block..Len(p_chain) : b # 0 /\ Begin(b) < Size(b)}
        first == Least(kept)
    IN  IF p_block = 0 THEN [chain |-> <<>>, block |-> 0, offset |-> i_offset]
        ELSE IF kept = {} THEN [chain |-> <<>>, block |-> 0, offset |-> 0]
        ELSE [chain |-> SubSeq(p_chain, first, Len(p_chain)), block |-> 1,
              offset |-> Begin(first)]

block_BytestreamFlush ==
    /\ p_chain' = Flushed.chain /\ p_block' = Flushed.block
    /\ i_offset' = Flushed.offset
    /\ outcome' = Nothing /\ UNCHANGED search

Handed(bytes) == [asked |-> 0, bytes |-> bytes]

(* A single block is handed out without what was read of it; of several    *)
(* the last one is.                                                        *)
block_BytestreamPop ==
    LET f == Flushed
        n == Len(f.chain)
    IN  \/ /\ n = 0
           /\ p_chain' = <<>> /\ p_block' = 0 /\ i_offset' = f.offset
           /\ outcome' = Nothing
        \/ /\ n = 1
           /\ p_chain' = <<>> /\ p_block' = 0 /\ i_offset' = 0
           /\ outcome' = Handed(SubSeq(f.chain[1], f.offset + 1, Len(f.chain[1])))
        \/ /\ n > 1
           /\ p_chain' = Front(f.chain) /\ p_block' = 1 /\ i_offset' = f.offset
           /\ outcome' = Handed(Last(f.chain))

Pop == block_BytestreamPop /\ NewSearch

---------------------------------------------------------------------------
(* One byte.  A stream without a block must not be asked.                  *)

Here  == p_block # 0 /\ i_offset < Size(p_block)
Later == {b \in p_block + 1..Len(p_chain) : p_chain[b] # <<>>}

OneMore == Here \/ Later # {}

block_PeekByte == IF Here THEN p_chain[p_block][i_offset + 1] ELSE p_chain[Least(Later)][1]

StepOne ==
    /\ IF Here THEN i_offset' = i_offset + 1 /\ UNCHANGED p_block
       ELSE i_offset' = 1 /\ p_block' = Least(Later)
    /\ UNCHANGED p_chain

block_SkipByte ==
    /\ p_block # 0 /\ OneMore
    /\ StepOne /\ outcome' = [asked |-> 1, bytes |-> <<>>] /\ NewSearch

block_GetByte ==
    /\ p_block # 0 /\ OneMore
    /\ StepOne /\ outcome' = [asked |-> 1, bytes |-> <<block_PeekByte>>] /\ NewSearch

NoByte ==
    /\ p_block # 0 /\ ~OneMore
    /\ outcome' = [asked |-> 1, bytes |-> <<>>] /\ UNCHANGED <<stream, search>>

---------------------------------------------------------------------------
(* n bytes.                                                                *)

block_WaitBytes(n) == Ahead(n).left = 0

block_PeekBytes(n) == Ahead(n).bytes

(* Copying begins at the place where k bytes are behind.                   *)
block_PeekOffsetBytes(k, n) ==
    LET place == Ahead(k)
    IN  WalkFrom(place.block, place.offset, n).bytes

Advance(n) ==
    /\ p_block' = Ahead(n).block /\ i_offset' = Ahead(n).offset
    /\ UNCHANGED p_chain

block_SkipBytes(n) ==
    /\ block_WaitBytes(n) /\ Advance(n)
    /\ outcome' = [asked |-> n, bytes |-> <<>>] /\ NewSearch

block_GetBytes(n) ==
    /\ block_WaitBytes(n) /\ Advance(n)
    /\ outcome' = [asked |-> n, bytes |-> Ahead(n).bytes] /\ NewSearch

(* Not enough data, bail out.                                              *)
NoBytes(n) ==
    /\ ~block_WaitBytes(n)
    /\ outcome' = [asked |-> n, bytes |-> <<>>] /\ UNCHANGED <<stream, search>>

---------------------------------------------------------------------------
(* block_FindStartcodeFromOffset.  The search is at byte at of a block;    *)
(* base is what *pi_offset holds, the place of that block's first byte;    *)
(* match bytes agree so far; backup is where they began.                   *)

(* Mutant: after a false positive *pi_offset keeps the later block's base. *)
BackMutant(s) ==
    [s EXCEPT !.block = s.backup.block, !.at = s.backup.at + 1, !.match = 0]

(* False positive: on with the byte after the one it began at.             *)
Back(s) ==
    [s EXCEPT !.block = s.backup.block, !.at = s.backup.at + 1,
              !.base = s.backup.base, !.match = 0]

(* The data is over: *pi_offset keeps what agrees with its end.             *)
GivenUp(s) == [ok |-> FALSE, offset |-> s.base - s.match]

Places == [block : Nat, at : Nat, base : Int]
Searches == [block : Nat, at : Nat, base : Int, match : Nat, backup : Places]

Scan[s \in Searches] ==
    LET hit  == p_chain[s.block][s.at + 1] = startcode[s.match + 1]
        here == [block |-> s.block, at |-> s.at, base |-> s.base]
    IN  IF s.block > Len(p_chain) THEN GivenUp(s)
        ELSE IF s.at >= Size(s.block)
        THEN Scan[[s EXCEPT !.block = @ + 1, !.at = 0, !.base = @ + s.at]]
        ELSE IF hit /\ s.match + 1 = Len(startcode)
        THEN [ok |-> TRUE, offset |-> s.base + s.at - s.match]
        ELSE IF hit
        THEN Scan[[s EXCEPT !.at = @ + 1, !.match = @ + 1,
                            !.backup = IF s.match = 0 THEN here ELSE @]]
        ELSE IF s.match > 0 THEN Scan[Back(s)]
        ELSE Scan[[s EXCEPT !.at = @ + 1]]

(* Where to begin: the block that holds the byte *pi_offset counts to.     *)
FindStartcode ==
    LET upTo[b \in p_block - 1..Len(p_chain)] ==
            IF b = p_block - 1 THEN 0 ELSE upTo[b - 1] + Size(b)
        wanted == {b \in p_block..Len(p_chain) :
                     b # 0 /\ upTo[b] > pi_offset + i_offset}
        at == pi_offset + i_offset - upTo[Least(wanted) - 1]
        place == [block |-> Least(wanted), at |-> at, base |-> pi_offset - at]
    IN  IF wanted = {} THEN [ok |-> FALSE, offset |-> pi_offset]
        ELSE Scan[[block |-> place.block, at |-> at, base |-> place.base,
                   match |-> 0, backup |-> place]]

block_FindStartcodeFromOffset ==
    /\ found' = FindStartcode.ok /\ pi_offset' = FindStartcode.offset
    /\ outcome' = Nothing /\ UNCHANGED <<stream, startcode>>

---------------------------------------------------------------------------
NewBlocks == UNION {[1..n -> BoundedSeq(Octets, MaxSize)] : n \in 1..2}

Next ==
    \/ \E c \in NewBlocks : Push(c) \/ Push(ChainGather(c))
    \/ block_BytestreamRelease \/ block_BytestreamFlush \/ Pop
    \/ block_SkipByte \/ block_GetByte \/ NoByte
    \/ \E n \in 0..MaxBytes + 1 :
          block_SkipBytes(n) \/ block_GetBytes(n) \/ NoBytes(n)
    \/ block_FindStartcodeFromOffset

Spec == Init /\ [][Next]_vars

---------------------------------------------------------------------------
(* The bytes from the reading position on.                                 *)
Remaining ==
    IF p_block = 0 THEN <<>>
    ELSE SubSeq(FlattenSeq(SubSeq(p_chain, p_block, Len(p_chain))), i_offset + 1,
                Len(FlattenSeq(SubSeq(p_chain, p_block, Len(p_chain)))))

(* Waiting and peeking tell the truth about the bytes to come, in every    *)
(* position and over every boundary of blocks.                             *)
PeeksTrue ==
    /\ \A n \in 0..MaxBytes + 1 : block_WaitBytes(n) <=> n <= Len(Remaining)
    /\ \A k \in 0..Len(Remaining) : \A n \in 0..Len(Remaining) - k :
          block_PeekOffsetBytes(k, n) = SubSeq(Remaining, k + 1, k + n)
    /\ \A n \in 0..Len(Remaining) : block_PeekBytes(n) = SubSeq(Remaining, 1, n)
    /\ p_block # 0 =>
         (OneMore <=> Remaining # <<>>) /\ (OneMore => block_PeekByte = Remaining[1])

(* The stream is the queue of the bytes pushed and not yet read, however   *)
(* they are spread over blocks: get and skip take what they are asked for, *)
(* or nothing, and peeking shows it.                                       *)
Fifo == INSTANCE ByteFifo WITH queue <- Remaining

IsFifo == Fifo!Spec /\ []PeeksTrue

(* The start code's bytes agree with the data from i on, as far as there   *)
(* are data.                                                               *)
MayBegin(i) ==
    \A j \in 1..Len(startcode) :
        i + j <= Len(Remaining) => Remaining[i + j] = startcode[j]

(* A search that failed can go on from where it stopped when more data     *)
(* have come: it never passed a place where the start code begins, nor one *)
(* where it may yet begin, split between two blocks.                       *)
NothingMissed ==
    /\ \A i \in 0..pi_offset - 1 : ~MayBegin(i)
    /\ found => MayBegin(pi_offset) /\ pi_offset + Len(startcode) <= Len(Remaining)

(* The reading position is in a block, or there is none; NothingMissed is  *)
(* inductive with it.                                                      *)
IInv ==
    /\ p_chain \in Seq(Seq(Octets))
    /\ IF p_block = 0 THEN p_chain = <<>> /\ i_offset = 0
       ELSE p_block \in 1..Len(p_chain) /\ i_offset \in 0..Size(p_block)
    /\ startcode \in Startcodes /\ pi_offset \in Nat /\ found \in BOOLEAN
    /\ NothingMissed
===========================================================================
