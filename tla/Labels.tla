------------------------------- MODULE Labels --------------------------------
(***************************************************************************)
(* What the workshop reads on an order: the custom field with the group of *)
(* the product, its size, colour and lock.  The cron script and the        *)
(* backend each have their own copy of this code, over one table of        *)
(* groups.  Here both label an order for the same item.                    *)
(*                                                                         *)
(* A name is the set of the texts it holds that the code looks for: "does  *)
(* name.includes(key)" is "key \in name".  An order that comes this far    *)
(* without a field has one item, and anymatch looks at the first name      *)
(* only.  A glob with a star is a text as well: it finds the names that    *)
(* hold it.                                                                *)
(***************************************************************************)
EXTENDS Integers, Sequences, FiniteSetsExt

CONSTANTS
    Holds,      \* of each text: the texts that are part of it, and itself
    Names,      \* the names of items
    Tables,     \* the tables of groups: sets of rows
    Length,     \* of each row: the lengths of its two globs together
    Rank,       \* of each name of a group: its place in the alphabet
    Take,       \* how many groups the backend reads
    Products    \* ProductEntity: rows with a sku and the codes of colours

ASSUME LabelsAssumption ==
    /\ \A k \in DOMAIN Holds : k \in Holds[k] /\ \A l \in Holds[k] : Holds[l] \subseteq Holds[k]
    /\ \A name \in Names : \A k \in name : Holds[k] \subseteq name
    /\ \A rows \in Tables : IsFiniteSet(rows) /\ \A g \in rows : Rank[g.name] \in Int
    /\ Take \in Nat

VARIABLES
    item,       \* what was sold
    table,      \* GroupEntity
    order,      \* the order of either side
    stage       \* how far either side is

labelVars == <<item, table, order, stage>>

Side == {"cron", "backend"}

\* The text without a letter: no colour, no lock, no label.
Blank == ""

NoLabel == [name |-> Blank, size |-> Blank, color |-> Blank, lock |-> Blank]

-----------------------------------------------------------------------------
(* The tables of keys, in the order in which they are tried.  Keys that    *)
(* follow one another and mean the same stand in one set.                  *)

CronLockTypes ==
    <<[keys |-> {"Family Secret Tactical Trap", "BT"}, value |-> "BT"],
      [keys |-> {"BIO", "1791 Flag (Premium Edition)", "1791 Flag Big"}, value |-> "BIO"],
      [keys |-> {"1791 Flag"}, value |-> "BT"],
      [keys |-> {"RFID"}, value |-> "RFID"],
      [keys |-> {"The 4 Laws Flag Wall Art", "TT Arcticstorm", "Recon Tactical Smart Watch",
                 "Master Card"}, value |-> Blank],
      [keys |-> {"Rustic Racks", "Liberty Rustic Pistol", "Liberty 35S", "TT Defender",
                 "Defender Rustic Rifle", "The Defender 45R", "36C Contemporary Pistol",
                 "The 36C Shelf", "47C Contemporary Rifle", "The 47C Shelf",
                 "Guardian Tactical Frame", "Guardian Frames", "Guardian Frame",
                 "Tactical End Table"}, value |-> "BT"],
      [keys |-> {"1791 Whiskey Barrel Flag MAX"}, value |-> "BIO"],
      [keys |-> {"1791 Whiskey Barrel Flag", "1791 Whiskey Flag", "Flag 1791",
                 "The Tactical Barrel", "Barrel Head", "Barrel Heads"}, value |-> "BT"],
      [keys |-> {"MAX flags", "Mantles", "Mantle"}, value |-> "BIO"],
      [keys |-> {"Table", "Endtable"}, value |-> "BT"],
      [keys |-> {"Freedom Rifle"}, value |-> "RFID"],
      [keys |-> {"Rack"}, value |-> "BT"],
      [keys |-> {"The Guardian MAX"}, value |-> "BIO"]>>

\* Only the first key differs.
BackendLockTypes == [CronLockTypes EXCEPT ![1].keys = {"The Family Name", "BT"}]

\* The same map in both copies.
SpecificColors ==
    <<[keys |-> {"\"Old Glory\" Red & Blue Rustic Flag"}, value |-> "Traditional"],
      [keys |-> {"\"Old Glory\" Torched Rustic Flag"}, value |-> "Torched"],
      [keys |-> {"TT Flag 1791", "1791 Flag (Premium Edition Includes)"}, value |-> "1791"],
      [keys |-> {"1791 Flag Big"}, value |-> "1791 MAX"],
      [keys |-> {"The 1791 Whiskey Barrel Flag - Special Edition"}, value |-> "1791"],
      [keys |-> {"1791 Whiskey Barrel Flag MAX"}, value |-> "1791 MAX"],
      [keys |-> {"Gunstock and Steel Flag"}, value |-> "Gunstock"],
      [keys |-> {"Tactical Flag Barnwood Edition"}, value |-> "Barnwood"],
      [keys |-> {"\"Thin Blue Line\" Rustic Flag"}, value |-> "Blue Line"],
      [keys |-> {"\"Thin Red Line\" Rustic Flag"}, value |-> "Red Line"],
      [keys |-> {"The Betsy Ross Rustic Tactical Flag"}, value |-> "Betsy Ross"],
      [keys |-> {"The 4 Laws Tactical Flag"}, value |-> "4 Laws"],
      [keys |-> {"The Tactical Flag \"Moonshine\" Edition"}, value |-> "Moonshine"],
      [keys |-> {"Elite Military Special Edition Tactical Flag"}, value |-> "Elite Military"],
      [keys |-> {"The Rustic Rosegold Tactical Flag"}, value |-> "Rosegold"]>>

KeysOf(map) == UNION {map[i].keys : i \in DOMAIN map}

\* A key that holds one of an earlier row means the same.
InOrder(map) ==
    \A i, j \in DOMAIN map : j < i =>
        \A k \in map[i].keys \cap DOMAIN Holds :
            map[j].keys \cap Holds[k] # {} => map[j].value = map[i].value

\* Mutant of FirstValue: the loop goes on after a key that is found.
FirstValueLast(map, name, default) ==
    LET hits == {i \in DOMAIN map : map[i].keys \cap name # {}} IN
    IF hits = {} THEN default
    ELSE map[CHOOSE i \in hits : \A j \in hits : i >= j].value

\* The value of the first key that the name holds.
FirstValue(map, name, default) ==
    LET hits == {i \in DOMAIN map : map[i].keys \cap name # {}} IN
    IF hits = {} THEN default
    ELSE map[CHOOSE i \in hits : \A j \in hits : i <= j].value

-----------------------------------------------------------------------------

\* colorSpecialCases.
ConvertColorName(color) ==
    CASE color = "Country-Pine" -> "Country Pine"
      [] color = "Dark Walnut" -> "Walnut"
      [] OTHER -> color

GetColorFromName(name) == FirstValue(SpecificColors, name, Blank)

\* The option of the item, or else what its name says.
Color == LET color == ConvertColorName(item.color) IN
         IF color # Blank THEN color ELSE GetColorFromName(item.name)

\* getSizeFromName: the script keeps the first word of the size, except for mantles.
CronSize(group) == IF group.name = "Mantle" THEN Blank ELSE item.size

\* getSizeFromName: the backend keeps it for mantles only, in feet.
BackendSize(group) ==
    IF group.name = "Mantle" /\ item.size # Blank THEN item.size \o "ft" ELSE Blank

CronLock(group) ==
    IF group.name \in {"Pistol", "Compact"} /\ "Elite" \in item.name
    THEN IF "Elite Fingerprint" \in item.name THEN "BIO" ELSE "BT"
    ELSE FirstValue(CronLockTypes, item.name, "RFID")

BackendLock(group) ==
    IF group.name \in {"Pistol", "Compact"} /\ "Bluetooth" \in item.name
    THEN "BT"
    ELSE FirstValue(BackendLockTypes, item.name, "RFID")

NameOf(group) == IF group.customName # Blank THEN group.customName ELSE group.name

\* The parts of the value that the loop writes.
Label(group, size, lock) ==
    [name |-> NameOf(group), size |-> size, color |-> Color, lock |-> lock]

\* Any other fieldName is the first one.
FieldOf(group) ==
    IF group.fieldName \in {"customField2", "customField3"} THEN group.fieldName
    ELSE "customField1"

Field == {"customField1", "customField2", "customField3"}

-----------------------------------------------------------------------------
(* The groups.                                                             *)

\* An empty glob is in every name and in every sku.
Matches(group) ==
    /\ group.productNameGlob \in item.name \cup {Blank}
    /\ group.productSkuGlob \in {item.sku, Blank}

\* Those that the sort by length puts first.
Longest(rows) == {g \in rows : \A h \in rows : Length[h] <= Length[g]}

\* postProcessOrders of the script: it reads all rows, in any order.
CronGroups == Longest({g \in table : Matches(g)})

\* findAll(0, 1000): the first by name, which need not be unique.
Reads ==
    {rows \in SUBSET table :
        /\ Cardinality(rows) = Min({Take, Cardinality(table)})
        /\ \A g \in rows, h \in table \ rows : Rank[g.name] <= Rank[h.name]}

\* Mutant of BackendGroups: the rows are not sorted by length.
BackendGroupsByName(rows) ==
    LET found == {g \in rows : Matches(g)} IN
    {g \in found : \A h \in found : Rank[g.name] <= Rank[h.name]}

\* The sort by length keeps the order of the names.
BackendGroups(rows) ==
    LET found == Longest({g \in rows : Matches(g)}) IN
    {g \in found : \A h \in found : Rank[g.name] <= Rank[h.name]}

-----------------------------------------------------------------------------

NewOrder(sku) ==
    [fields |-> [f \in Field |-> NoLabel], sku |-> <<sku>>, note |-> Blank, service |-> "UPS"]

Watch == {"SEALIONDIVEWATCH", "RAPTORWATCH", "RECONWATCH", "MILSUB"}

Item == [name : Names, sku : {"SKU", Blank} \cup Watch, extra : BOOLEAN,
         color : {Blank, "Dark Walnut", "Espresso", "undefined"}, size : {Blank, "6"}]

LabelsInit ==
    /\ item \in Item
    /\ item.sku \in Watch \/ item.extra => item.color = Blank /\ item.size = Blank
    /\ table \in Tables
    /\ order = [s \in Side |-> NewOrder(item.sku)]
    /\ stage = [s \in Side |-> "extraCase"]

Go(side, from, to) ==
    /\ stage[side] = from
    /\ stage' = [stage EXCEPT ![side] = to]
    /\ UNCHANGED <<item, table>>

WatchName(sku) ==
    CASE sku = "SEALIONDIVEWATCH" -> "SEALION WATCH"
      [] sku = "RAPTORWATCH" -> "RAPTOR WATCH"
      [] sku = "RECONWATCH" -> "Recon Smart Watch"
      [] sku = "MILSUB" -> "MILSUB"

SetField(side, field, label) == [order EXCEPT ![side].fields[field] = label]

\* extraCase of CommonProcessor.
CronExtraCase ==
    /\ Go("cron", "extraCase", "post")
    /\ order' = IF item.sku \in Watch
                THEN SetField("cron", "customField1", [NoLabel EXCEPT !.name = WatchName(item.sku)])
                ELSE order

\* extraCase of the hook: extra parts, then two of the watches.
BackendExtraCase ==
    /\ Go("backend", "extraCase", "post")
    /\ order' = IF item.extra
                THEN [SetField("backend", "customField1", [NoLabel EXCEPT !.name = "Misc Shipping"])
                        EXCEPT !["backend"].service = "USPS"]
                ELSE IF item.sku \in {"SEALIONDIVEWATCH", "RAPTORWATCH"}
                THEN SetField("backend", "customField1", [NoLabel EXCEPT !.name = WatchName(item.sku)])
                ELSE order

\* internalNoteColorUndefined.
InternalNote(group) ==
    IF /\ group.name \in {"Pistol", "Compact", "Defender", "Frame", "Liberty", "Rifles"}
       /\ Color \in {Blank, "undefined"}
    THEN "Color Undefined" ELSE order["cron"].note

\* getColor takes one of the products with this sku, and the initial data has
\* several such; without a code it is the colour in capitals.
ItemColors ==
    LET rows == {p \in Products : p.sku = item.sku}
        Suffix(p) == IF Color \in DOMAIN p.codes THEN <<"code", p.codes[Color]>>
                     ELSE <<"capitals", Color>> IN
    IF rows = {} THEN {<<"capitals", Color>>} ELSE {Suffix(p) : p \in rows}

HasField(side) == \E f \in Field : order[side].fields[f] # NoLabel

\* Mutant of CronPostProcess: an order that has a field is labelled again.
CronPostProcessAgain ==
    /\ Go("cron", "post", "done")
    /\ IF CronGroups = {} THEN UNCHANGED order
       ELSE \E g \in CronGroups :
                order' = SetField("cron", FieldOf(g), Label(g, CronSize(g), CronLock(g)))

\* postProcessOrders of the script, for one order.  The row of a product may have an
\* empty sku: no colour is put after it.
CronPostProcess ==
    /\ Go("cron", "post", "done")
    /\ IF HasField("cron") \/ CronGroups = {} THEN UNCHANGED order
       ELSE \E g \in CronGroups, suffix \in ItemColors :
                order' = [SetField("cron", FieldOf(g), Label(g, CronSize(g), CronLock(g)))
                            EXCEPT !["cron"].note = InternalNote(g),
                                   !["cron"].sku = IF Blank \in {Color, item.sku} THEN @ ELSE @ \o suffix]

\* postProcessOrders of the hook: neither note nor sku, and it asks for the first
\* field only.
BackendPostProcess ==
    /\ Go("backend", "post", "done")
    /\ \E rows \in Reads :
       IF order["backend"].fields["customField1"] # NoLabel \/ BackendGroups(rows) = {}
       THEN UNCHANGED order
       ELSE \E g \in BackendGroups(rows) :
                order' = SetField("backend", FieldOf(g), Label(g, BackendSize(g), BackendLock(g)))

LabelsNext == CronExtraCase \/ CronPostProcess \/ BackendExtraCase \/ BackendPostProcess

LabelsSpec == LabelsInit /\ [][LabelsNext]_labelVars

-----------------------------------------------------------------------------
(* Properties.                                                             *)

Written(side) == {order[side].fields[f] : f \in Field} \ {NoLabel}

\* The keys are tried in an order in which none hides another: an item whose
\* name is that of a key, with all that is part of it, has the lock and the
\* colour of that key, although the name holds other keys as well.
KeysTell ==
    \A s \in Side, k \in DOMAIN Holds : \A l \in Written(s) :
        (item.name = Holds[k] /\ order[s].service = "UPS" /\ item.sku \notin Watch) =>
            LET lockTypes == IF s = "cron" THEN CronLockTypes ELSE BackendLockTypes IN
            /\ (k \in KeysOf(lockTypes) /\ item.name \cap {"Elite", "Bluetooth"} = {}) =>
                   \E i \in DOMAIN lockTypes : k \in lockTypes[i].keys /\ l.lock = lockTypes[i].value
            /\ (k \in KeysOf(SpecificColors) /\ item.color = Blank) =>
                   \E i \in DOMAIN SpecificColors :
                       k \in SpecificColors[i].keys /\ l.color = SpecificColors[i].value

\* What KeysTell takes of the texts: which of the keys are part of which.
KeysInOrder == InOrder(CronLockTypes) /\ InOrder(BackendLockTypes) /\ InOrder(SpecificColors)

\* The items for which the copies differ on purpose.
TwoWatches == {"RECONWATCH", "MILSUB"}
OtherLock == {"The Family Name", "Family Secret Tactical Trap", "Elite", "Bluetooth"}

\* The two copies of the code label an item alike, wherever it was bought: the
\* same field, group and colour, and the same lock but for the names above.  The
\* size is on one of the two at most.  It takes a table that the backend can read
\* whole, in which the globs tell the matching groups apart.
CopiesAgree ==
    (/\ \A s \in Side : stage[s] = "done"
     /\ ~item.extra /\ item.sku \notin TwoWatches
     /\ Cardinality(table) <= Take /\ Cardinality(CronGroups) <= 1) =>
        \A f \in Field :
            LET cron == order["cron"].fields[f]
                backend == order["backend"].fields[f] IN
            /\ cron.name = backend.name /\ cron.color = backend.color
            /\ item.name \cap OtherLock = {} => cron.lock = backend.lock
            /\ cron.size = Blank \/ backend.size = Blank

\* The order of a watch or of extra parts keeps the name it got first, and no
\* group adds a second field or a colour to its sku.
OwnFieldStays ==
    \A s \in Side :
        LET Own == IF s = "cron" THEN item.sku \in Watch
                   ELSE item.extra \/ item.sku \in Watch \ TwoWatches IN
        (Own /\ stage[s] # "extraCase") =>
            /\ order[s].fields["customField1"].name =
                   IF order[s].service = "USPS" THEN "Misc Shipping" ELSE WatchName(item.sku)
            /\ Cardinality(Written(s)) = 1 /\ Len(order[s].sku) = 1

=============================================================================
