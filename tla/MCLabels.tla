------------------------------ MODULE MCLabels -------------------------------
(***************************************************************************)
(* Every key of the code by itself and with one of the texts that others   *)
(* hold, over small tables of groups: one of them with two rows of equal   *)
(* length, one longer than what the backend reads.                         *)
(***************************************************************************)
EXTENDS Labels, TLC

Words == {"Elite", "Bluetooth", "Pistol", "Frame", "Saver"}

Texts == KeysOf(CronLockTypes) \cup KeysOf(BackendLockTypes) \cup KeysOf(SpecificColors)
            \cup Words \cup {"Elite Fingerprint"}

\* What is part of what, beyond the text itself.
Part(k) ==
    CASE k \in {"1791 Flag (Premium Edition)", "1791 Flag Big"} -> {"1791 Flag"}
      [] k = "1791 Flag (Premium Edition Includes)" -> {"1791 Flag", "RFID", "Bluetooth"}
      [] k = "TT Flag 1791" -> {"Flag 1791"}
      [] k \in {"The 1791 Whiskey Barrel Flag - Special Edition", "1791 Whiskey Barrel Flag MAX"}
            -> {"1791 Whiskey Barrel Flag"}
      [] k = "Rustic Racks" -> {"Rack"}
      [] k = "Tactical End Table" -> {"Table"}
      [] k = "Barrel Heads" -> {"Barrel Head"}
      [] k = "Mantles" -> {"Mantle"}
      [] k = "Guardian Frames" -> {"Guardian Frame", "Frame"}
      [] k \in {"Guardian Frame", "Guardian Tactical Frame"} -> {"Frame"}
      [] k \in {"36C Contemporary Pistol", "Liberty Rustic Pistol"} -> {"Pistol"}
      [] k \in {"Elite Fingerprint", "Elite Military Special Edition Tactical Flag"} -> {"Elite"}
      [] OTHER -> {}

MCHolds == [k \in Texts |-> {k} \cup Part(k)]

MCNames == {MCHolds[k] : k \in Texts}
              \cup {MCHolds[k] \cup MCHolds[l] : k \in Texts, l \in Words \cup {"BIO", "Mantle"}}

Group(name, customName, fieldName, nameGlob, skuGlob) ==
    [name |-> name, customName |-> customName, fieldName |-> fieldName,
     productNameGlob |-> nameGlob, productSkuGlob |-> skuGlob]

Pistol == Group("Pistol", "", "customField1", "Pistol", "")
Contemporary == Group("Pistol", "36C", "customField2", "36C Contemporary Pistol", "")
Frame == Group("Frame", "", "customField3", "Frame", "SKU")
Mantle == Group("Mantle", "", "customField1", "Mantle", "")
Flag == Group("Flag", "", "other", "1791 Flag", "")
Rest == Group("Rest", "", "", "", "")

Rows == {Pistol, Contemporary, Frame, Mantle, Flag, Rest}

MCTables == {{Pistol, Contemporary, Rest}, {Mantle, Pistol, Flag}, {Frame, Mantle}, {Rest}, Rows}

MCLength ==
    [g \in Rows |-> CASE g = Contemporary -> 23 [] g = Rest -> 0 [] g \in {Frame, Flag} -> 8
                      [] OTHER -> 6]

MCRank ==
    [n \in {g.name : g \in Rows} |->
        CASE n = "Flag" -> 1 [] n = "Frame" -> 2 [] n = "Mantle" -> 3 [] n = "Pistol" -> 4
          [] n = "Rest" -> 5]

MCProducts == {[sku |-> "SKU", codes |-> "Walnut" :> "WN"],
               [sku |-> "SKU", codes |-> "Torched" :> "T" @@ "Espresso" :> "ES"]}

\* The hypothesis of the theorem about KeysTell.
ASSUME KeysHypotheses == KeysInOrder

=============================================================================
