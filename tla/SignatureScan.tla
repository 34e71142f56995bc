--------------------------- MODULE SignatureScan ---------------------------
(***************************************************************************)
(* The search for a signature in the game's code (Relocation/Pattern.cpp). *)
(* A signature is a text of hexadecimal bytes and question marks; it is    *)
(* compared with the bytes at every address from the start of the image on *)
(* for as many bytes as the image has of code.  Addresses that were found  *)
(* are remembered as hints under the text (its 64-bit hash, which differs  *)
(* for the signatures of the program), and are tried first when the text   *)
(* is looked up again.  Others patch the code in between.                  *)
(*                                                                         *)
(* Addresses count from the start of the image.  The code begins after the *)
(* headers.                                                                *)
(***************************************************************************)
EXTENDS Integers, FiniteSets, Sequences

CONSTANTS
  Base,         \* digits there are (16)
  DigitValue,   \* character -> value, of the characters that are digits
  Signatures,   \* what is looked up: texts with the bytes and wildcards that they are written for
  Counts,       \* how many matches a caller asks for
  Bytes,        \* the bytes the image may hold
  HeaderSize,   \* bytes of the image before the code
  SizeOfCode,   \* bytes of code
  SizeOfImage,  \* bytes of the image
  Width,        \* bytes of a vector register (16)
  MaxFinds, MaxPatches   \* bounds: look-ups and patches

Wild == -1
AnyByte == "?"

(* A text is written for a signature when its characters, read from left   *)
(* to right, are those of the signature's elements in their order, two     *)
(* digits for a byte and a question mark for a wildcard, with characters   *)
(* between them that are neither: read[i] elements end by the i-th         *)
(* character, and "first" has the places of first digits.                  *)
IsTextOf(text, sig) ==
  \E read \in [0..Len(text) -> 0..Len(sig)], first \in SUBSET (1..Len(text)) :
    /\ read[0] = 0 /\ read[Len(text)] = Len(sig) /\ Len(text) \notin first
    /\ \A i \in 1..Len(text) :
         \/ /\ text[i] = AnyByte /\ i - 1 \notin first /\ i \notin first
            /\ read[i] = read[i - 1] + 1 /\ sig[read[i]] = Wild
         \/ /\ text[i] \in DOMAIN DigitValue /\ i - 1 \notin first /\ i \in first
            /\ read[i] = read[i - 1]
         \/ /\ text[i] \in DOMAIN DigitValue /\ i - 1 \in first /\ i \notin first
            /\ read[i] = read[i - 1] + 1
            /\ sig[read[i]] = Base * DigitValue[text[i - 1]] + DigitValue[text[i]]
         \/ /\ text[i] \notin DOMAIN DigitValue \cup {AnyByte} /\ i - 1 \notin first /\ i \notin first
            /\ read[i] = read[i - 1]

ASSUME SignatureAssumption ==
  /\ Base \in Nat /\ DigitValue \in [DOMAIN DigitValue -> 0..Base - 1] /\ AnyByte \notin DOMAIN DigitValue
  /\ \A s \in Signatures :
       /\ s.text \in Seq(STRING) /\ s.bytes \in Seq(Int) /\ IsTextOf(s.text, s.bytes)

ASSUME ImageAssumption ==
  /\ HeaderSize \in Nat /\ SizeOfCode \in Nat /\ SizeOfImage \in Nat
  /\ HeaderSize + SizeOfCode <= SizeOfImage
  /\ Width \in Nat /\ Counts \subseteq Nat \ {0} /\ MaxFinds \in Nat /\ MaxPatches \in Nat

VARIABLES
  memory,   \* the image, address -> byte
  hints,    \* g_hints, in the order of insertion: <<text, address>>
  found,    \* the last look-up: the signature and the addresses of its matches
  patches,  \* how often the code was patched
  finds,
  feature   \* bit 20 of what the processor says: SSE 4.2

scanVars == <<memory, hints, found, patches, finds, feature>>

-----------------------------------------------------------------------------
(* Utility::TransformPattern: the bytes of the text, and Wild where any    *)
(* byte will do.  Digits pair up across blanks and question marks; other   *)
(* characters are passed over.  "high" has the first digit of a byte while *)
(* the second is awaited.                                                  *)
TakeChar(st, ch) ==
  CASE ch = AnyByte -> [out |-> Append(st.out, Wild), high |-> st.high]
    [] ch \in DOMAIN DigitValue /\ st.high = << >> ->
         [out |-> st.out, high |-> <<DigitValue[ch]>>]
    [] ch \in DOMAIN DigitValue /\ st.high # << >> ->
         [out |-> Append(st.out, Base * st.high[1] + DigitValue[ch]), high |-> << >>]
    [] OTHER -> st

Transform(text) ==
  LET after[i \in 0..Len(text)] ==
        IF i = 0 THEN [out |-> << >>, high |-> << >>] ELSE TakeChar(after[i - 1], text[i])
  IN  after[Len(text)].out

-----------------------------------------------------------------------------
(* Nothing is known of what lies beyond the image.                         *)
ByteAt(i) == IF i < SizeOfImage THEN memory[i] ELSE -2

(* pattern::ConsiderMatch.                                                 *)
MatchesAt(bytes, i) ==
  \A j \in DOMAIN bytes : bytes[j] = Wild \/ bytes[j] = ByteAt(i + j - 1)

(* The comparison with one vector instruction: every byte of the register  *)
(* is compared, those beyond the signature never agree, and the bits of    *)
(* the mask are all asked for.                                             *)
Mask(bytes) == {j \in DOMAIN bytes : bytes[j] # Wild}
CmpEStrM(bytes, i) == {j \in 1..Width : j \in DOMAIN bytes /\ bytes[j] = ByteAt(i + j - 1)}
VectorMatchesAt(bytes, i) == Mask(bytes) \ CmpEStrM(bytes, i) = {}

(* executable_meta::EnsureInit: where the scan begins and ends.            *)
Begin == 0
End == SizeOfCode

(* What the program asks of the processor: "(cpuid[2] & (1 << 20)) == 1".  *)
BitAnd20 == IF feature THEN 2 ^ 20 ELSE 0
SSE42(bytes) == Len(bytes) <= Width /\ BitAnd20 = 1

(* The k-th of a set of numbers in their order.                            *)
Nth(S, k) == CHOOSE i \in S : Cardinality({j \in S : j <= i}) = k

(* pattern::EnsureMatches: the first of the places that match, as many as  *)
(* are asked for.                                                          *)
PlacesOf(bytes) ==
  {i \in Begin..End : IF SSE42(bytes) THEN VectorMatchesAt(bytes, i) ELSE MatchesAt(bytes, i)}

ScanMatches(bytes, count) ==
  LET size == Cardinality(PlacesOf(bytes))
  IN  [k \in 1..(IF size < count THEN size ELSE count) |-> Nth(PlacesOf(bytes), k)]

(* The hints, whatever is there now.                                       *)
HintsUnseen(text) == {k \in DOMAIN hints : hints[k][1] = text}

(* pattern::Initialize: the hints that match now.                          *)
HintsOf(text) ==
  {k \in DOMAIN hints : hints[k][1] = text /\ MatchesAt(Transform(text), hints[k][2])}

HintMatches(text) ==
  [k \in 1..Cardinality(HintsOf(text)) |-> hints[Nth(HintsOf(text), k)][2]]

-----------------------------------------------------------------------------
ScanInit ==
  /\ memory \in [0..SizeOfImage - 1 -> Bytes]
  /\ hints = << >> /\ found = {}
  /\ patches = 0 /\ finds = 0
  /\ feature \in BOOLEAN

(* pattern(text).count(count).                                             *)
Find(s, count) ==
  /\ finds < MaxFinds
  /\ finds' = finds + 1
  /\ IF HintMatches(s.text) # << >>
     THEN /\ found' = {[bytes |-> s.bytes, at |-> HintMatches(s.text)]}
          /\ UNCHANGED hints
     ELSE LET matches == ScanMatches(Transform(s.text), count)
          IN  /\ found' = {[bytes |-> s.bytes, at |-> matches]}
              /\ hints' = hints \o [k \in DOMAIN matches |-> <<s.text, matches[k]>>]
  /\ UNCHANGED <<memory, patches, feature>>

(* Somebody writes a byte into the code.                                   *)
Patch(i, b) ==
  /\ patches < MaxPatches
  /\ memory[i] # b
  /\ memory' = [memory EXCEPT ![i] = b]
  /\ patches' = patches + 1
  /\ found' = {}
  /\ UNCHANGED <<hints, finds, feature>>

ScanNext ==
  \/ \E s \in Signatures, count \in Counts : Find(s, count)
  \/ \E i \in HeaderSize..HeaderSize + SizeOfCode - 1, b \in Bytes : Patch(i, b)

ScanSpec == ScanInit /\ [][ScanNext]_scanVars

-----------------------------------------------------------------------------
(* Types of all variables.                                                 *)
ScanTypeOK ==
  /\ memory \in [0..SizeOfImage - 1 -> Bytes]
  /\ \A k \in DOMAIN hints : hints[k][2] \in Begin..End
  /\ \A a \in found : \E s \in Signatures : a.bytes = s.bytes
  /\ patches \in 0..MaxPatches
  /\ finds \in 0..MaxFinds
  /\ feature \in BOOLEAN

(* Where a signature is by definition.                                     *)
IsFirstMatch(bytes, i) ==
  i \in Begin..End /\ MatchesAt(bytes, i) /\ \A j \in Begin..End : MatchesAt(bytes, j) => i <= j

(* The first match that a caller gets is a match, by what the signature    *)
(* says, in the code as it is now, also when it comes from a hint and the  *)
(* code was patched since; there is one if there is any.  While nothing    *)
(* was patched it is the same place as a scan from the start finds, by     *)
(* either comparison.                                                      *)
FirstIsMatch ==
  \A a \in found :
    IF a.at = << >> THEN \A i \in Begin..End : ~MatchesAt(a.bytes, i)
    ELSE /\ MatchesAt(a.bytes, a.at[1])
         /\ patches = 0 => IsFirstMatch(a.bytes, a.at[1])

(* The two comparisons agree at every address, for every signature that    *)
(* fits a register.                                                        *)
ScansAgree ==
  \A s \in Signatures :
    Len(s.bytes) <= Width =>
      \A i \in Begin..End : MatchesAt(s.bytes, i) <=> VectorMatchesAt(s.bytes, i)

(* An address that is handed out, from a hint or from a scan, is a match   *)
(* in the code as it is now; it is the first unless code was patched; and  *)
(* the vector comparison says what the bytewise one says.                  *)
AnswersAreMatches == ScanTypeOK /\ FirstIsMatch /\ ScansAgree
=============================================================================
