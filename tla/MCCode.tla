------------------------------- MODULE MCCode -------------------------------
(***************************************************************************)
(* Memory, code and containers, each part on an instance of its own: the   *)
(* memory for the hooks' code, the generator of that code, the search for  *)
(* the places to hook, and the containers shared with the game.  A         *)
(* behaviour is about one part, and the others stay as they start.         *)
(***************************************************************************)
EXTENDS BranchTrampoline, GameArray, Assembler, HashSet, SignatureScan

Seqs == INSTANCE SequencesExt

VARIABLE part

vars == <<part, trampolineVars, codeVars, scanVars, hashVars, arrayVars>>

MCHooks == {[instr |-> 1, code |-> 1], [instr |-> 1, code |-> 2]}

(* Label objects with their copies, or strings with "@@" and local ones,   *)
(* and no code that uses both.                                             *)
Tables == {key[1] : key \in DOMAIN defs \cup {r.key : r \in undefs}}
OnlyLabels == Tables' \subseteq {0} /\ entered' = entered
OnlyStrings == 0 \notin Tables' /\ label' = label

(* Signatures as a programmer writes them, with and without blanks, of     *)
(* bytes of two binary digits.  Headers are as large as the longest        *)
(* signature, as in the game.                                              *)
Binary == [ch \in {"0", "1"} |-> IF ch = "1" THEN 1 ELSE 0]
DigitsOf(b) == <<IF b >= 2 THEN "1" ELSE "0", IF b % 2 = 1 THEN "1" ELSE "0">>
TextOf(sig, gap) ==
  Seqs!FlattenSeq([k \in DOMAIN sig |->
    (IF k = 1 THEN << >> ELSE gap) \o (IF sig[k] = Wild THEN <<"?">> ELSE DigitsOf(sig[k]))])
MCSignatures ==
  {[text |-> TextOf(sig, gap), bytes |-> sig] :
     sig \in {<<1, -1>>, <<1, 2>>, <<2>>}, gap \in {<<>>, <<" ">>}}

-----------------------------------------------------------------------------
MCInit ==
  /\ part \in {"trampoline", "labels", "strings", "scan", "set", "array"}
  /\ IF part = "trampoline" THEN TRUE ELSE vacant = {} /\ len = 1
  /\ IF part = "scan" THEN TRUE ELSE feature = FALSE /\ memory = [i \in 0..5 |-> 1]
  /\ IF part = "set" THEN TRUE ELSE hash = [k \in Keys |-> 0]
  /\ TrampolineInit /\ AssemblerInit /\ ScanInit /\ HashInit
  /\ ArrayInit /\ (part # "array" => ops = "array")

MCNext ==
  \/ part = "trampoline" /\ TrampolineNext
       /\ UNCHANGED <<part, codeVars, scanVars, hashVars, arrayVars>>
  \/ /\ AssemblerNext
     /\ (part = "labels" /\ OnlyLabels) \/ (part = "strings" /\ OnlyStrings)
     /\ UNCHANGED <<part, trampolineVars, scanVars, hashVars, arrayVars>>
  \/ part = "scan" /\ ScanNext
       /\ UNCHANGED <<part, trampolineVars, codeVars, hashVars, arrayVars>>
  \/ part = "set" /\ HashNext
       /\ UNCHANGED <<part, trampolineVars, codeVars, scanVars, arrayVars>>
  \/ part = "array" /\ ArrayNext
       /\ UNCHANGED <<part, trampolineVars, codeVars, scanVars, hashVars>>

MCSpec == MCInit /\ [][MCNext]_vars
=============================================================================
