---------------------------- MODULE InstanceData ----------------------------
(***************************************************************************)
(* The script functions that read and write the data of one weapon or      *)
(* piece of armor (PapyrusInstanceData).  A call first looks for the data  *)
(* its owner stands for and gives an item that has none a copy of its base *)
(* form's data, kept in the extra data of the item; then it reads or       *)
(* writes one value.  Script functions run one after the other; another    *)
(* user of the extra data may attach data of its own in between.           *)
(***************************************************************************)
EXTENDS ExtraDataList, Integers

CONSTANTS
    Script,         \* the thread that runs script functions
    InstanceType,   \* kExtraData_InstanceData
    Kind,           \* what the base form is, "weapon" or "armor"
    Owners,         \* "form", "worn", "nothing worn", and one thing with extra data,
                    \* passed as an "item" of an inventory or as a "reference"
    Original,       \* the values of the base form
    Arguments,      \* what scripts pass for each of them
    Word            \* the number of values of a UInt32

Attributes == DOMAIN Original
NoData == "no data"

ASSUME ItemAssumption ==
    /\ Script \in Threads /\ InstanceType \in Types
    /\ NoEntry \notin Extras /\ Extras \cap {"base", "slot", NoData} = {}
    /\ Word \in Nat \ {0}
    /\ DOMAIN Arguments = Attributes

\* An entry of instance data stands for the copy it holds.
Copies == {e \in Extras : TypeOf[e] = InstanceType}
Data == {"base", "slot"} \cup Copies
NoJob == [op |-> "none"]

VARIABLES
    owners,     \* what scripts call functions for: never changes
    uses,       \* the values they read and write: never changes
    missing,    \* the parts that the form's data come without: never changes
    value,      \* the values of the base form, of what is worn, of the copies
    job,        \* the script function that runs
    at,         \* where it is
    target,     \* what GetInstanceData returned
    asked       \* history: what was last set through each owner

program == <<owners, uses, missing>>
scriptVars == <<program, value, job, at, target, asked>>
itemVars == <<extraVars, scriptVars>>

\* Parts of the data that have memory of their own.
Parts == {"firing data", "keyword form"}

InstanceInit ==
    /\ ExtraInit
    /\ <<Script, InstanceType>> \in adders
    /\ owners \subseteq Owners /\ uses \subseteq Attributes /\ missing \subseteq Parts
    /\ value = [d \in Data |-> Original]
    /\ job = NoJob
    /\ at = "idle"
    /\ target = NoData
    /\ asked = [o \in Owners |-> [a \in {} |-> 0]]

-----------------------------------------------------------------------------
(* The values and what a setter makes of its argument. *)

AsUInt32(n) == n % Word

WordAmounts == {"attackDamage", "ammoCapacity"}
AccuracyAmounts == {"accuracyBonus"}
StaggerAmounts == {"stagger"}
FiringAmounts == {"numProjectiles"}
Amounts == WordAmounts \cup AccuracyAmounts \cup StaggerAmounts \cup FiringAmounts
Greatest ==
    [a \in Amounts |-> CASE a \in WordAmounts -> 65535
                       [] a \in AccuracyAmounts \cup FiringAmounts -> 255
                       [] a \in StaggerAmounts -> 4]

\* Scripts pass whole numbers for the amounts, and a form's own are right.
ASSUME AmountAssumption ==
    \A a \in Attributes \cap Amounts :
        Original[a] \in 0 .. Greatest[a] /\ Arguments[a] \subseteq Int

HandlingValues == {"critMultiplier", "critChargeBonus", "attackDelay", "outOfRangeMultiplier",
                   "actionPointCost", "reloadSpeed", "reach", "speed"}
RangeValues == {"minRange", "maxRange", "skill", "resist"}
FiringValues == {"projectileOverride", "sightedTransition"}
WeaponValues == Amounts \cup HandlingValues \cup RangeValues \cup FiringValues \cup {"ammo", "flags"}
ArmorValues == {"armorHealth", "armorRating"}
SharedValues == {"weight", "goldValue", "damageTypes", "keywords"}

\* Whether the data of the base form's kind has the value.
Has(a) ==
    \/ a \in SharedValues
    \/ a \in WeaponValues /\ Kind = "weapon"
    \/ a \in ArmorValues /\ Kind = "armor"

\* Whether there is a place for the value: a part that the data come without is
\* not made for one, the array of damage types is.
HasPlace(a) ==
    /\ a \in FiringAmounts \cup FiringValues => "firing data" \notin missing
    /\ a = "keywords" => "keyword form" \notin missing

\* SetDamageTypes keeps the pairs whose form is a damage type.
Damages(pairs) == SelectSeq(pairs, LAMBDA pair : pair.isDamageType)

With(f, a, n) == [x \in DOMAIN f \cup {a} |-> IF x = a THEN n ELSE f[x]]

SetFlag(flag, before) == IF flag.set THEN before \cup flag.bits ELSE before \ flag.bits

Kept(a, n, before) ==
    CASE a \in Amounts ->
            IF AsUInt32(n) < Greatest[a] THEN AsUInt32(n) ELSE Greatest[a]
      [] a = "flags" -> SetFlag(n, before)
      [] a = "damageTypes" -> Damages(n)
      [] OTHER -> n

-----------------------------------------------------------------------------
(* GetInstanceData. *)

HasList(owner) == owner \in {"item", "reference"}

\* A reference is no bound object, the form of an item is.
IsBoundObject(owner) == owner = "item"

\* What is left when the extra data has no answer.
OfForm(owner) ==
    CASE owner \in {"form", "item"} -> "base"
      [] owner = "worn" -> "slot"
      [] OTHER -> NoData

Start(j) ==
    /\ at = "idle"
    /\ job' = j
    /\ IF HasList(j.owner)
       THEN at' = "look" /\ UNCHANGED target
       ELSE at' = "apply" /\ target' = OfForm(j.owner)
    /\ UNCHANGED <<program, extraVars, value, asked>>

LookTest ==
    /\ at = "look"
    /\ GetTest(Script, InstanceType)
    /\ at' = IF HasType(InstanceType) THEN "find" ELSE "copy"
    /\ UNCHANGED <<program, value, job, target, asked>>

LookFind ==
    /\ at = "find"
    /\ GetFind(Script)
    /\ IF found'[Script] = NoEntry
       THEN at' = "copy" /\ UNCHANGED target
       ELSE at' = "apply" /\ target' = found'[Script]
    /\ UNCHANGED <<program, value, job, asked>>

\* A GetInstanceData that makes a copy for one call and keeps it nowhere.
CopyUnkept ==
    /\ at = "copy"
    /\ IF IsBoundObject(job.owner)
       THEN \E e \in Copies :
               /\ Spare(e)
               /\ value' = [value EXCEPT ![e] = value["base"]]
               /\ target' = e
       ELSE target' = OfForm(job.owner) /\ UNCHANGED value
    /\ at' = "apply"
    /\ UNCHANGED <<program, extraVars, job, asked>>

\* CloneInstanceData and Create; Add may refuse the entry, and nobody looks at
\* what it returns.
Copy ==
    /\ at = "copy"
    /\ IF IsBoundObject(job.owner)
       THEN \E e \in Copies :
               /\ Spare(e)
               /\ value' = [value EXCEPT ![e] = value["base"]]
               /\ target' = e
               /\ AddTest(Script, e)
               /\ at' = IF HasType(InstanceType) THEN "apply" ELSE "insert"
       ELSE /\ target' = OfForm(job.owner)
            /\ at' = "apply"
            /\ UNCHANGED <<extraVars, value>>
    /\ UNCHANGED <<program, job, asked>>

Insert ==
    /\ at = "insert"
    /\ AddInsert(Script)
    /\ at' = "apply"
    /\ UNCHANGED <<program, value, job, target, asked>>

GetInstanceData == LookTest \/ LookFind \/ Copy \/ Insert

-----------------------------------------------------------------------------
(* The functions, once they have the data. *)

SetValue ==
    /\ at = "apply" /\ job.op = "set"
    /\ IF target # NoData /\ Has(job.attribute) /\ HasPlace(job.attribute)
       THEN LET n == Kept(job.attribute, job.argument, value[target][job.attribute])
            IN  /\ value' = [value EXCEPT ![target][job.attribute] = n]
                /\ asked' = [asked EXCEPT ![job.owner] = With(@, job.attribute, n)]
       ELSE UNCHANGED <<value, asked>>
    /\ at' = "idle" /\ job' = NoJob /\ target' = NoData
    /\ UNCHANGED <<program, extraVars>>

\* Nothing but GetInstanceData changes anything in a function that reads.
GetValue ==
    /\ at = "apply" /\ job.op = "get"
    /\ at' = "idle" /\ job' = NoJob /\ target' = NoData
    /\ UNCHANGED <<program, extraVars, value, asked>>

CallScript ==
    \E o \in owners, a \in uses :
        \/ Start([op |-> "get", owner |-> o])
        \/ \E n \in Arguments[a] :
              Start([op |-> "set", owner |-> o, attribute |-> a, argument |-> n])

\* Another user of the list attaches data made from the same form.
Attach(t) ==
    /\ \/ \E e \in Copies : Spare(e) /\ <<t, InstanceType>> \in adders /\ AddTest(t, e)
       \/ AddInsert(t)
    /\ UNCHANGED scriptVars

InstanceNext ==
    \/ CallScript
    \/ GetInstanceData
    \/ SetValue
    \/ GetValue
    \/ \E t \in Threads \ {Script} : Attach(t)

InstanceSpec == InstanceInit /\ [][InstanceNext]_itemVars

-----------------------------------------------------------------------------
(* InstanceTypeOK: the place of the function goes with what it has, and every
   amount fits the field it is kept in, whatever number a script passes. *)
InstanceTypeOK ==
    /\ ExtraTypeOK
    /\ at \in {"idle", "look", "find", "copy", "insert", "apply"}
    /\ at \in {"find", "insert"} => call[Script] # Idle
    /\ at = "idle" <=> job = NoJob
    /\ target \in DOMAIN value \cup {NoData}
    /\ \A d \in DOMAIN value, a \in Attributes :
          a \in Amounts => value[d][a] \in 0 .. Greatest[a]

\* What a script reads through an owner now.
Current(owner) ==
    CASE owner = "form" -> "base"
      [] owner = "worn" -> "slot"
      [] HasList(owner) /\ OfType(InstanceType) # {} -> chain[First(OfType(InstanceType))]
      [] OTHER -> NoData

\* Nobody but the scripts attaches instance data to the thing, and they know
\* it in one way only.
OneUser ==
    /\ OneAdderEach
    /\ \A o, u \in owners : HasList(o) /\ HasList(u) => o = u

(* KeepsWhatIsSet: what a script has set through an owner, if the data have a
   place for it, is what it reads through it until it sets something else: the
   value of an item is not that of its form, in either direction, and a copy
   that was made for an item is the one the next call finds. *)
KeepsWhatIsSet ==
    OneUser /\ at = "idle" =>
        \A o \in owners : \A a \in DOMAIN asked[o] :
            /\ Current(o) # NoData
            /\ value[Current(o)][a] = asked[o][a]

(* ItemLeavesForm: a function that is called for an item or a reference never
   writes the data of the base form, which every other item of the form shares,
   even if somebody else attaches data to the item meanwhile. *)
ItemLeavesForm ==
    [][at # "idle" /\ HasList(job.owner) => value'["base"] = value["base"]]_itemVars

(* All of this, of the functions and of the lists they keep data in, whoever
   adds, removes and looks for other entries in the meantime. *)
ItemsKeepTheirData ==
    /\ [](InstanceTypeOK /\ PresentIsFound /\ OneOfEachType /\ KeepsWhatIsSet)
    /\ ItemLeavesForm
=============================================================================
