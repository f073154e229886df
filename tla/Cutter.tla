------------------------------- MODULE Cutter -------------------------------
(***************************************************************************)
(* Cutters (common/cutter.{hpp,cpp}): what tokenizers and segmenters share.*)
(*                                                                         *)
(* A cutter works on UTF-8 text and counts bytes.  The rules of a          *)
(* tokenizer or a segmenter only say where the next segment ends; a        *)
(* segment that reaches one of the two limits is cut up further, into a    *)
(* queue of fragments that the next calls of cutOff() hand out.  Here a    *)
(* text is a sequence of characters, each some bytes wide, and a position  *)
(* a byte offset, which may lie inside a character.                        *)
(***************************************************************************)
LOCAL INSTANCE Integers
LOCAL INSTANCE Sequences

CONSTANTS
    Width,       \* the number of bytes of each character
    Space        \* the character ' '

UTF8_MAX_LENGTH == 4

\* Where the i-th character of s ends, and how long s is.
offset(s, i) ==
    LET sum[k \in 0 .. i] == IF k = 0 THEN 0 ELSE sum[k - 1] + Width[s[k]]
    IN  sum[i]

bytes(s) == offset(s, Len(s))

\* The positions at which a character of s begins, or s ends.
boundaries(s) == {offset(s, i) : i \in 0 .. Len(s)}

\* The character of s to which the byte at position p belongs.
characterAt(s, p) ==
    s[CHOOSE i \in DOMAIN s : offset(s, i - 1) <= p /\ p < offset(s, i)]

\* Slip: a character is taken for a byte.
symbolLength_Byte(s, p) == 1

\* A byte that continues a character counts for itself.
symbolLength(s, p) == IF p \in boundaries(s) THEN Width[characterAt(s, p)] ELSE 1

isLimitBroken(limit, segmentLength) == limit # 0 /\ segmentLength >= limit

areLimitsBroken(hard, soft, segmentLength) ==
    isLimitBroken(soft, segmentLength) \/ isLimitBroken(hard, segmentLength)

\* The first space at or behind the soft limit, or the end of the segment.
softLimitCutPoint(s, cutPoint, maxCutPoint, soft) ==
    LET spaces == {p \in cutPoint + soft .. maxCutPoint - 1 : characterAt(s, p) = Space}
    IN  IF spaces = {} THEN maxCutPoint ELSE CHOOSE p \in spaces : \A q \in spaces : p <= q

\* Slip: the character that crosses the limit is still let in.
cutBefore_After(s, p) == p + symbolLength(s, p)

\* Where to cut when the character at p would cross the limit.
cutBefore(s, p) == p

\* Walks from a few bytes before the limit, character by character.
hardLimitCutPoint(s, cutPoint, hard) ==
    LET hardLimitPos == cutPoint + hard
        walk[p \in 0 .. bytes(s)] ==
            IF p >= hardLimitPos THEN p
            ELSE IF p + symbolLength(s, p) > hardLimitPos THEN cutBefore(s, p)
            ELSE walk[p + symbolLength(s, p)]
    IN  walk[IF hardLimitPos > UTF8_MAX_LENGTH THEN hardLimitPos - UTF8_MAX_LENGTH ELSE 0]

NoRoom == -1

\* The end of the fragment that begins at cutPoint, in a segment up to end;
\* NoRoom where the exception is thrown that asks for a larger hard limit.
nextCutPoint(s, cutPoint, end, hard, soft) ==
    LET softEnd == IF isLimitBroken(soft, end - cutPoint)
                   THEN softLimitCutPoint(s, cutPoint, end, soft) ELSE end
        hardEnd == IF isLimitBroken(hard, end - cutPoint)
                   THEN hardLimitCutPoint(s, cutPoint, hard) ELSE end
    IN  IF hardEnd <= cutPoint THEN NoRoom
        ELSE IF softEnd < hardEnd THEN softEnd ELSE hardEnd

\* The lengths of the fragments of the segment begin..end; a last one of
\* NoRoom says that the exception was thrown there.
fragmentSegment(s, begin, end, hard, soft) ==
    LET from[cutPoint \in begin .. end] ==
            LET next == nextCutPoint(s, cutPoint, end, hard, soft)
            IN  IF cutPoint = end THEN <<>>
                ELSE IF next = NoRoom THEN <<NoRoom>>
                ELSE <<next - cutPoint>> \o from[next]
    IN  from[begin]

\* What is cut off when the rules end a segment there: it, or its fragments.
segmentsOf(s, begin, end, hard, soft) ==
    IF areLimitsBroken(hard, soft, end - begin)
    THEN fragmentSegment(s, begin, end, hard, soft)
    ELSE <<end - begin>>
=============================================================================
