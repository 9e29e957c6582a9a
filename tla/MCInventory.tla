----------------------------- MODULE MCInventory -----------------------------
(***************************************************************************)
(* A small instance of Inventory: CONFIG_DB with all, some or none of the  *)
(* fields, an EEPROM that is cut at every byte or has another length in    *)
(* its header, or none; platform.json in every shape.                      *)
(***************************************************************************)
EXTENDS Inventory

Full == [serial_number |-> "R1", platform |-> "R2", hostname |-> "R3",
         hwsku |-> "R4", mac |-> "R5", manufacturer |-> "R6"]
Renamed == [Full EXCEPT !.hostname = "R7"]
Partial == [serial_number |-> "R8", hwsku |-> "R4"]
MCMetadata == {Full, Renamed, Partial, None}

Eeprom(tlvs, totalLen, kept) ==
  [header |-> "TlvInfo", totalLen |-> totalLen, tlvs |-> tlvs, kept |-> kept]
Unreadable(header) == [Eeprom(<<>>, 0, 0) EXCEPT !.header = header]

Tlvs ==
  <<[type |-> 35, value |-> <<70>>],         (* a serial number                *)
    [type |-> 36, value |-> <<1, 2>>],       (* a MAC address, which is skipped *)
    [type |-> 35, value |-> <<71, 72>>],     (* another serial number          *)
    [type |-> 46, value |-> <<>>],           (* an empty model                 *)
    [type |-> CRC32, value |-> <<9>>],
    [type |-> 43, value |-> <<73>>]>>        (* a manufacturer                 *)

Whole == Eeprom(Tlvs, 18, 19)

EepromPaths ==
  {<<Unreadable("absent"), [Whole EXCEPT !.kept = kept]>> : kept \in 0..19}
    \cup {<<[Whole EXCEPT !.totalLen = length]>> : length \in {0, 9, 255}}
    \cup {<<>>, <<Unreadable("other"), Eeprom(Tlvs, 3, 19), Whole>>,
          <<Eeprom(SubSeq(Tlvs, 6, 6), 3, 3)>>}

Platform ==
  {[found |-> "absent", chassis |-> None], [found |-> "broken", chassis |-> None],
   [found |-> "JSON", chassis |-> [name |-> "P1", part_number |-> "P2"]],
   [found |-> "JSON", chassis |-> [name |-> "empty", fans |-> "P3"]]}

(* Each EEPROM is read once; what platform.json adds to a FRU does not depend on
   how the FRU was found. *)
MCFiles ==
  [eeproms : EepromPaths, platform : {[found |-> "absent", chassis |-> None]}]
    \cup [eeproms : {<<>>, <<Whole>>}, platform : Platform]
=============================================================================
